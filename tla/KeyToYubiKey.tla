---------------------------- MODULE KeyToYubiKey ----------------------------
(***************************************************************************)
(* Gpg.keyToYubiKey: a subkey is moved to a card from a copy, so that the  *)
(* keyring of the user keeps it.  The secret key is exported and imported  *)
(* into a temporary home directory of its own; the agent of that home is   *)
(* killed and its socket linked to the user's agent, errors of the linking *)
(* aside; a gpg with that home moves the key; the home is removed.  There  *)
(* are six children one after the other, and each may fail or fail to      *)
(* start, which calls back twice, on 'error' and on 'close'.               *)
(*                                                                         *)
(* The callback tells the browser and throws when it is gone.  Thrown from *)
(* an 'error' handler that ends the server, unless the handler is async    *)
(* (export and killagent): then it is an unhandled rejection.              *)
(*                                                                         *)
(* Moves of one request follow each other; those of several run at once.   *)
(***************************************************************************)
EXTENDS Naturals

CONSTANTS
  Moves,      \* keyToYubiKey calls
  MaxFaults   \* bound on what goes wrong

ASSUME MaxFaultsAssumption == MaxFaults \in Nat

VARIABLES
  up,       \* the server runs
  gone,     \* moves whose browser disconnected
  stage,    \* where m is: the child that runs for it, or the files it works on
  closing,  \* children that could not be started and have not closed
  home,     \* the temporary home of m: none, empty, or with a copy of the secret key
  written,  \* moves whose key is on the card (external)
  oks,      \* oks[m]: calls of the callback with exit code 0
  fails,    \* fails[m]: with another
  lost,     \* moves that ended with an exception that nobody caught
  faults    \* what went wrong so far

calls == <<oks, fails>>
vars == <<up, gone, stage, closing, home, written, calls, lost, faults>>

-----------------------------------------------------------------------------
Children == {"export", "import", "ownname", "tempname", "kill", "card"}
Stages == Children \cup {"none", "mkdir", "link", "over"}

\* What follows a step that ended well.
After ==
  [export |-> "mkdir", mkdir |-> "import", import |-> "ownname", ownname |-> "tempname",
   tempname |-> "kill", kill |-> "link", link |-> "card"]

At(m, s) == up /\ stage[m] = s
Goes(m, s) == stage' = [stage EXCEPT ![m] = s]
Fault == faults < MaxFaults /\ faults' = faults + 1

\* The callback is called with an exit code that is not 0.
CallsFail(m) ==
  /\ Goes(m, "over")
  /\ fails' = [fails EXCEPT ![m] = @ + 1]
  /\ UNCHANGED oks

\* Mutant: the home is removed when the move failed.
AfterCardFailed(m, ok) == IF ok THEN home[m] ELSE "none"

\* The home after keytocard: rimraf.sync, if it ended well.
AfterCard(m, ok) == IF ok THEN "none" ELSE home[m]

\* The home after another step that ended well: import leaves the secret key in it.
HomeAfter(m) ==
  CASE stage[m] = "mkdir" -> "empty"
    [] stage[m] = "import" -> "copy"
    [] OTHER -> home[m]

\* And after one that failed: mkdir or the chmod after it, an import that came far
\* enough or not.
HomeAfterFailure(m) ==
  CASE stage[m] = "mkdir" -> {"none", "empty"}
    [] stage[m] = "import" -> {"empty", "copy"}
    [] stage[m] = "card" -> {AfterCard(m, FALSE)}
    [] OTHER -> {home[m]}

\* A callback that throws in the 'error' handler of its child ends the server.
Crashes(m) == m \in gone /\ stage[m] \notin {"export", "kill"}
-----------------------------------------------------------------------------
Init ==
  /\ up = TRUE
  /\ gone = {} /\ closing = {} /\ written = {} /\ lost = {}
  /\ stage = [m \in Moves |-> "none"]
  /\ home = [m \in Moves |-> "none"]
  /\ oks = [m \in Moves |-> 0] /\ fails = [m \in Moves |-> 0]
  /\ faults = 0

\* pemPrivateKey.
Export(m) ==
  /\ At(m, "none") /\ m \notin gone
  /\ Goes(m, "export")
  /\ UNCHANGED <<up, gone, closing, home, written, calls, lost, faults>>

\* A child before keytocard ends with exit code 0, the home is made, or the sockets
\* are linked or not: what follows is started.
Succeeds(m) ==
  /\ up /\ stage[m] \in DOMAIN After
  /\ Goes(m, After[stage[m]])
  /\ home' = [home EXCEPT ![m] = HomeAfter(m)]
  /\ UNCHANGED <<up, gone, closing, written, calls, lost, faults>>

\* The same, but starting the next child throws at once: an unhandled rejection.
NextThrows(m) ==
  /\ up /\ stage[m] \in {"mkdir", "import", "ownname", "tempname"} /\ Fault
  /\ home' = [home EXCEPT ![m] = HomeAfter(m)]
  /\ Goes(m, "over")
  /\ lost' = lost \cup {m}
  /\ UNCHANGED <<up, gone, closing, written, calls>>

\* Mutant: the catch around the callback only logs.
CatchesSilently(m) ==
  /\ At(m, "link") /\ Fault /\ Goes(m, "over")
  /\ UNCHANGED <<up, gone, closing, home, written, calls, lost>>

\* Starting keytocard throws: caught, exit code 43.
CardThrows(m) ==
  /\ At(m, "link") /\ Fault /\ CallsFail(m)
  /\ UNCHANGED <<up, gone, closing, home, written, lost>>

\* keytocard ends with exit code 0.
Moved(m) ==
  /\ At(m, "card")
  /\ written' = written \cup {m}
  /\ home' = [home EXCEPT ![m] = AfterCard(m, TRUE)]
  /\ Goes(m, "over")
  /\ oks' = [oks EXCEPT ![m] = @ + 1]
  /\ UNCHANGED <<up, gone, closing, fails, lost, faults>>

\* The same, but rimraf throws, with the home half removed or not: the callback is
\* never called.
NotRemoved(m) ==
  /\ At(m, "card") /\ Fault
  /\ written' = written \cup {m}
  /\ \E h \in {"empty", "copy"} : home' = [home EXCEPT ![m] = h]
  /\ Goes(m, "over")
  /\ lost' = lost \cup {m}
  /\ UNCHANGED <<up, gone, closing, calls>>

\* Mutant: errors of mkdir are logged only.
FailsInChildOnly(m) ==
  /\ up /\ stage[m] \in Children \cup {"mkdir"} /\ Fault
  /\ IF stage[m] = "mkdir" THEN Goes(m, "over") /\ UNCHANGED calls ELSE CallsFail(m)
  /\ \E h \in HomeAfterFailure(m) : home' = [home EXCEPT ![m] = h]
  /\ UNCHANGED <<up, gone, closing, written, lost>>

\* A child ends with another exit code, keytocard perhaps with its work done, or the
\* home cannot be made.
Fails(m) ==
  /\ up /\ stage[m] \in Children \cup {"mkdir"} /\ Fault /\ CallsFail(m)
  /\ \E h \in HomeAfterFailure(m) : home' = [home EXCEPT ![m] = h]
  /\ written' \in {written} \cup IF stage[m] = "card" THEN {written \cup {m}} ELSE {}
  /\ UNCHANGED <<up, gone, closing, lost>>

\* 'error': a child cannot be started.
SpawnFails(m) ==
  /\ up /\ stage[m] \in Children /\ Fault /\ CallsFail(m)
  /\ closing' = closing \cup {m}
  /\ up' = ~Crashes(m)
  /\ UNCHANGED <<gone, home, written, lost>>

\* 'close' of it.
Closes(m) ==
  /\ up /\ m \in closing
  /\ CallsFail(m)
  /\ closing' = closing \ {m}
  /\ UNCHANGED <<up, gone, home, written, lost, faults>>

Disconnect(m) ==
  /\ m \notin gone
  /\ gone' = gone \cup {m}
  /\ UNCHANGED <<up, stage, closing, home, written, calls, lost, faults>>

-----------------------------------------------------------------------------
\* What ends by itself: children, and the work on files.
Proceeds(m) ==
  \/ Succeeds(m) \/ NextThrows(m) \/ CardThrows(m)
  \/ Moved(m) \/ NotRemoved(m) \/ Fails(m)

Next == \E m \in Moves : \/ Export(m) \/ Proceeds(m) \/ SpawnFails(m) \/ Closes(m)
                         \/ Disconnect(m)

Spec == Init /\ [][Next]_vars

\* gpg ends, and files get written.
Fairness == \A m \in Moves : WF_vars(Proceeds(m)) /\ WF_vars(Closes(m))

FairSpec == Spec /\ Fairness
-----------------------------------------------------------------------------
(***************************************************************************)
(* Properties.                                                             *)
(***************************************************************************)

\* Every variable has its type.
TypeOK ==
  /\ up \in BOOLEAN
  /\ gone \cup closing \cup written \cup lost \subseteq Moves
  /\ stage \in [Moves -> Stages]
  /\ home \in [Moves -> {"none", "empty", "copy"}]
  /\ oks \in [Moves -> Nat] /\ fails \in [Moves -> Nat]
  /\ faults \in 0 .. MaxFaults

\* A temporary home that outlives its move was reported as a failure, whatever went
\* wrong where, but for the exceptions of spawn and rimraf that nobody catches.
LeftoverReported ==
  \A m \in Moves : stage[m] = "over" /\ home[m] # "none" => fails[m] > 0 \/ m \in lost

\* A move that was started has a verdict, unless the server goes down or spawn or
\* rimraf throw: no failure of a child, of a file or of a start is swallowed.
Settled ==
  \A m \in Moves :
    stage[m] # "none" ~> oks[m] + fails[m] > 0 \/ ~up \/ m \in lost

VerdictOf(m) ==
  CASE stage[m] = "none" -> "none"
    [] stage[m] # "none" /\ oks[m] = 1 /\ fails[m] = 0 -> "ok"
    [] stage[m] # "none" /\ oks[m] = 0 /\ fails[m] > 0 -> "fail"
    [] stage[m] # "none" /\ oks[m] = 0 /\ fails[m] = 0 ->
         IF up /\ stage[m] # "over" THEN "moving" ELSE "lost"
    [] OTHER -> "both"

M == INSTANCE CardMove WITH verdict <- [m \in Moves |-> VerdictOf(m)],
                            copied <- {m \in Moves : home[m] = "copy"}

\* To its callers keyToYubiKey is a move as CardMove has it: one verdict, although
\* the callback may be called twice, and ok once and only when the key is on the
\* card and no copy is left.
ImplementsCardMove == M!Spec
=============================================================================
