------------------------------ MODULE Dispatch ------------------------------
(***************************************************************************)
(* The requests a browser sends and what the server does with them: the    *)
(* dispatchers of ResetYubikey, GpgChangePinYubikey.run, DeleteSecretKey,  *)
(* RequestAscii, ChangeCard.Request and DiceWares.Request.  (KeySets has   *)
(* the two that make keys.)  Each starts one gpg child after the other,    *)
(* and the callback of one starts the next or tells the browser the end.   *)
(*                                                                         *)
(* A child that cannot be started reports twice, Result calls back for its *)
(* 'error' and again for its 'close', so the request goes on twice.        *)
(* ws.send throws when the browser is gone.  A callback that throws while  *)
(* a child closes ends there; one that throws on 'error' ends the server.  *)
(***************************************************************************)
EXTENDS Naturals, FiniteSets

CONSTANTS
  Requests, Browsers, Keys,
  Acts,       \* what the requests of a run ask for
  None,       \* no request, no key
  NAttrs,     \* attributes of a card, 5 in changeCard
  MaxFaults   \* bound: children that fail or cannot be started

ASSUME ActsAssumption == Acts \subseteq {"reset", "pin", "delete", "ascii", "card", "dice"}
ASSUME NoneAssumption ==
  None \notin Requests \cup Keys /\ None \notin [by : Browsers, act : Acts, key : Keys \cup {None}]
ASSUME RequestsAssumption == IsFiniteSet(Requests)
ASSUME CountsAssumption == NAttrs \in Nat \ {0} /\ MaxFaults \in Nat

VARIABLES
  up,         \* the server runs
  browsers,   \* connected browsers
  req,        \* req[r]: what r asks for, and for whom; None before it arrives
  spawns,     \* spawns[r]: children started for r
  running,    \* children that have not ended
  closing,    \* children that could not be started and have not closed
  finals,     \* finals[r]: how often the browser was told that r is over
  claims,     \* claims[r]: what it was told of the success
  waiting,    \* requests waiting for the word lists
  words,      \* the word lists are loaded
  copies,     \* copies of them in DiceWareDispatcher.diceWares
  lists,      \* lists[r]: copies in the answer to r
  secret, public,   \* the keys gpg has (external)
  attrs,      \* attrs[i]: who wrote attribute i of the card (external)
  did,        \* pins changed and cards reset (external)
  failed, unspawned, dropped,  \* history: requests with a child that failed, that could
                               \* not be started, with a callback that threw
  faults      \* children that failed so far

gpg == <<secret, public, attrs, did>>
dice == <<waiting, words, copies, lists>>
told == <<finals, claims>>
vars == <<up, browsers, req, spawns, running, closing, told, dice, gpg, failed, unspawned,
          dropped, faults>>

-----------------------------------------------------------------------------
Arrived(r) == req[r] # None
Asks(r, a) == Arrived(r) /\ req[r].act = a
Here(r) == Arrived(r) /\ req[r].by \in browsers

Child(r, s, n) == [req |-> r, step |-> s, nr |-> n]
Steps == {"reset", "pin", "list", "secret", "public", "ascii", "attr"}
Children(r) == {c \in running \cup closing : c.req = r}

\* getSecretKey finds the key of r.
KeyListed(r) == req[r].key \in secret

\* How a child ends: "ok"; "fail", an exit code; "err", with ERR on stdout; "none", it
\* could not be started.  What "ok" needs, and what it does:
CanEndOk(c) ==
  /\ c.step = "secret" => req[c.req].key \in secret
  /\ c.step = "public" => req[c.req].key \in public \ secret

GpgEffect(c) ==
  /\ secret' = IF c.step = "secret" THEN secret \ {req[c.req].key} ELSE secret
  /\ public' = IF c.step = "public" THEN public \ {req[c.req].key} ELSE public
  /\ attrs' = IF c.step = "attr" THEN [attrs EXCEPT ![c.nr] = c.req] ELSE attrs
  /\ did' = IF c.step \in {"reset", "pin"} THEN did \cup {c.req} ELSE did

\* Mutant: a key is deleted in one step.
FollowUpSecretOnly(c, out) ==
  CASE c.step = "list" -> "secret"
    [] c.step = "attr" /\ spawns[c.req] < NAttrs -> "attr"
    [] OTHER -> "none"

\* What the callback of c starts next.  The attributes still to be changed are
\* shared by all callbacks of a request: each child takes one.
FollowUp(c, out) ==
  CASE c.step = "list" -> "secret"
    [] c.step = "secret" /\ out # "err" -> "public"
    [] c.step = "attr" /\ spawns[c.req] < NAttrs -> "attr"
    [] OTHER -> "none"

\* The callback of c sends something first.
Speaks(c, out) == c.step = "secret" \/ FollowUp(c, out) = "none"

\* Mutant: there is no Result for a child that did not end well.
ThrowsWithoutResult(c, out) == out # "ok" \/ (Speaks(c, out) /\ ~Here(c.req))

\* A key that is not listed is null, and its Result is null too.
Throws(c, out) ==
  \/ c.step = "list" /\ (out # "ok" \/ ~KeyListed(c.req))
  \/ Speaks(c, out) /\ ~Here(c.req)

\* Mutant: the exit code of a changed pin is not looked at.
ClaimBlind(c, out) == IF c.step \in {"pin", "reset"} /\ out # "err" THEN "ok" ELSE "fail"

\* What the browser is told: a pin by its exit code, a reset by ERR on stdout, a
\* deleted key whatever happened; for the others no success is claimed.
Claim(c, out) ==
  CASE c.step = "pin" -> IF out = "ok" THEN "ok" ELSE "fail"
    [] c.step = "reset" -> IF out = "err" THEN "fail" ELSE "ok"
    [] c.step = "secret" -> "fail"
    [] c.step = "public" -> "ok"
    [] OTHER -> "over"

\* Mutant: the end of a request is told before its last child ends as well.
TellsTwice(r, claim) ==
  /\ finals' = [finals EXCEPT ![r] = @ + 2]
  /\ claims' = [claims EXCEPT ![r] = @ \cup {claim}]

Tells(r, claim) ==
  /\ finals' = [finals EXCEPT ![r] = @ + 1]
  /\ claims' = [claims EXCEPT ![r] = @ \cup {claim}]

\* A child is started for r; others are the children without it.
Spawns(r, s, others) ==
  /\ spawns' = [spawns EXCEPT ![r] = @ + 1]
  /\ running' = others \cup {Child(r, s, spawns[r] + 1)}

\* The callback of Result for child c; others are the children still running.
CallBack(c, out, others) ==
  \/ /\ Throws(c, out)
     /\ dropped' = dropped \cup {c.req}
     /\ running' = others /\ UNCHANGED <<spawns, told>>
  \/ /\ ~Throws(c, out) /\ FollowUp(c, out) # "none"
     /\ Spawns(c.req, FollowUp(c, out), others) /\ UNCHANGED <<told, dropped>>
  \/ /\ ~Throws(c, out) /\ FollowUp(c, out) = "none"
     /\ Tells(c.req, Claim(c, out))
     /\ running' = others /\ UNCHANGED <<spawns, dropped>>

-----------------------------------------------------------------------------
Init ==
  /\ up = TRUE /\ browsers = Browsers
  /\ req = [r \in Requests |-> None] /\ spawns = [r \in Requests |-> 0]
  /\ running = {} /\ closing = {}
  /\ finals = [r \in Requests |-> 0] /\ claims = [r \in Requests |-> {}]
  /\ waiting = {} /\ words = FALSE /\ copies = 0 /\ lists = [r \in Requests |-> 0]
  /\ secret = Keys /\ public = Keys
  /\ attrs = [i \in 1 .. NAttrs |-> None] /\ did = {}
  /\ failed = {} /\ unspawned = {} /\ dropped = {} /\ faults = 0

Arrives(r, b, a, k) ==
  /\ up /\ b \in browsers /\ ~Arrived(r)
  /\ req' = [req EXCEPT ![r] = [by |-> b, act |-> a, key |-> k]]
  /\ UNCHANGED <<up, browsers, closing, gpg, failed, unspawned, dropped, faults>>

Starts(r, s) == Spawns(r, s, running) /\ UNCHANGED <<told, dice>>

ResetYubikey(r, b) == Arrives(r, b, "reset", None) /\ Starts(r, "reset")
ChangePin(r, b) == Arrives(r, b, "pin", None) /\ Starts(r, "pin")
DeleteSecretKey(r, b, k) == Arrives(r, b, "delete", k) /\ Starts(r, "list")

\* Only what is known, or valid, gets to gpg.
RequestAscii(r, b, k) ==
  /\ Arrives(r, b, "ascii", k)
  /\ \/ Starts(r, "ascii")
     \/ Tells(r, "fail") /\ UNCHANGED <<spawns, running, dice>>

ChangeCard(r, b) ==
  /\ Arrives(r, b, "card", None)
  /\ \/ Starts(r, "attr")
     \/ Tells(r, "fail") /\ UNCHANGED <<spawns, running, dice>>

\* moduleToDiceWare has the lists.
Cached == copies > 0

DiceWares(r, b) ==
  /\ Arrives(r, b, "dice", None)
  /\ IF Cached
     THEN /\ Tells(r, "over") /\ lists' = [lists EXCEPT ![r] = copies]
          /\ UNCHANGED <<waiting, words, copies>>
     ELSE /\ waiting' = waiting \cup {r}
          /\ UNCHANGED <<told, words, copies, lists>>
  /\ UNCHANGED <<spawns, running>>

WordsLoaded ==
  /\ up /\ ~words /\ words' = TRUE
  /\ UNCHANGED <<up, browsers, req, spawns, running, closing, told, waiting, copies, lists, gpg,
                 failed, unspawned, dropped, faults>>

\* Everyone who waits adds the lists, and only then the first of them answers.
AddLists ==
  LET answered == {r \in waiting : Here(r)} IN
  /\ up /\ words /\ waiting # {}
  /\ copies' = copies + Cardinality(waiting)
  /\ finals' = [r \in Requests |-> finals[r] + IF r \in answered THEN 1 ELSE 0]
  /\ claims' = [r \in Requests |-> claims[r] \cup IF r \in answered THEN {"over"} ELSE {}]
  /\ lists' = [r \in Requests |-> IF r \in answered THEN copies' ELSE lists[r]]
  /\ waiting' = {} /\ dropped' = dropped \cup (waiting \ answered)
  /\ UNCHANGED <<up, browsers, req, spawns, running, closing, words, gpg, failed, unspawned,
                 faults>>

\* A child ends, and its Result calls back.
EndsOk(c) ==
  /\ up /\ c \in running /\ CanEndOk(c)
  /\ GpgEffect(c) /\ CallBack(c, "ok", running \ {c})
  /\ UNCHANGED <<up, browsers, req, closing, dice, failed, unspawned, faults>>

\* What could not end well costs no fault.
EndsBadly(c, out) ==
  /\ up /\ c \in running /\ out \in {"fail", "err"}
  /\ IF CanEndOk(c) THEN faults < MaxFaults /\ faults' = faults + 1 ELSE faults' = faults
  /\ failed' = failed \cup {c.req}
  /\ CallBack(c, out, running \ {c})
  /\ UNCHANGED <<up, browsers, req, closing, dice, gpg, unspawned>>

\* 'error': the child could not be started.
SpawnFails(c) ==
  /\ up /\ c \in running /\ faults < MaxFaults /\ faults' = faults + 1
  /\ closing' = closing \cup {c}
  /\ failed' = failed \cup {c.req} /\ unspawned' = unspawned \cup {c.req}
  /\ up' = ~Throws(c, "none")
  /\ CallBack(c, "none", running \ {c})
  /\ UNCHANGED <<browsers, req, dice, gpg>>

\* 'close' of the same child.
Closes(c) ==
  /\ up /\ c \in closing
  /\ closing' = closing \ {c}
  /\ CallBack(c, "none", running)
  /\ UNCHANGED <<up, browsers, req, dice, gpg, failed, unspawned, faults>>

Disconnect(b) ==
  /\ b \in browsers
  /\ browsers' = browsers \ {b}
  /\ UNCHANGED <<up, req, spawns, running, closing, told, dice, gpg, failed, unspawned, dropped,
                 faults>>

-----------------------------------------------------------------------------
Handles(r, b) ==
  \/ "reset" \in Acts /\ ResetYubikey(r, b)
  \/ "pin" \in Acts /\ ChangePin(r, b)
  \/ "delete" \in Acts /\ \E k \in Keys : DeleteSecretKey(r, b, k)
  \/ "ascii" \in Acts /\ \E k \in Keys : RequestAscii(r, b, k)
  \/ "card" \in Acts /\ ChangeCard(r, b)
  \/ "dice" \in Acts /\ DiceWares(r, b)

Ends(c) == EndsOk(c) \/ \E out \in {"fail", "err"} : EndsBadly(c, out)

Next ==
  \/ \E r \in Requests, b \in Browsers : Handles(r, b)
  \/ \E b \in Browsers : Disconnect(b)
  \/ \E c \in running : Ends(c) \/ SpawnFails(c)
  \/ \E c \in closing : Closes(c)
  \/ WordsLoaded \/ AddLists

Spec == Init /\ [][Next]_vars

\* gpg ends, and what is queued in the event loop runs.
Fairness == WF_vars(\E c \in running : Ends(c)) /\ WF_vars(\E c \in closing : Closes(c))
            /\ WF_vars(AddLists)

FairSpec == Spec /\ Fairness
-----------------------------------------------------------------------------
(***************************************************************************)
(* Properties.                                                             *)
(***************************************************************************)

\* Every variable has its type.
TypeOK ==
  /\ up \in BOOLEAN /\ browsers \subseteq Browsers
  /\ req \in [Requests -> [by : Browsers, act : Acts, key : Keys \cup {None}] \cup {None}]
  /\ spawns \in [Requests -> Nat]
  /\ running \cup closing \subseteq [req : Requests, step : Steps, nr : Nat]
  /\ finals \in [Requests -> Nat] /\ claims \in [Requests -> SUBSET {"ok", "fail", "over"}]
  /\ waiting \subseteq Requests /\ words \in BOOLEAN
  /\ copies \in Nat /\ lists \in [Requests -> Nat]
  /\ secret \subseteq Keys /\ public \subseteq Keys
  /\ attrs \in [1 .. NAttrs -> Requests \cup {None}]
  /\ did \cup failed \cup unspawned \cup dropped \subseteq Requests
  /\ faults \in 0 .. MaxFaults

\* While its children could be started, a browser is told once that a request is
\* over, and nothing runs for it afterwards.
ToldOnce ==
  \A r \in Requests \ unspawned :
    finals[r] <= 1 /\ (finals[r] = 1 => Children(r) = {} /\ r \notin waiting)

\* A pin that is said to be changed was changed, whatever other requests do, and
\* also when a child could not be started.
PinHonest == \A r \in Requests : Asks(r, "pin") /\ "ok" \in claims[r] => r \in did

\* A key whose secret half is gone has no public half for long: a deletion is still
\* at it, or it failed, or lost its browser between the two, or the server is down.
NotHalfDeleted ==
  \A k \in public \ secret :
    \/ ~up
    \/ \E r \in Requests :
         /\ Asks(r, "delete") /\ req[r].key = k
         /\ \/ \E c \in Children(r) : c.step = "public"
            \/ r \in failed \cup dropped

\* The card is what the one request that changed it says, when nothing failed.
CardWritten ==
  \A r \in Requests :
    /\ Asks(r, "card") /\ "over" \in claims[r] /\ r \notin failed
    /\ \A q \in Requests \ {r} : ~Asks(q, "card")
    => \A i \in 1 .. NAttrs : attrs[i] = r

\* A reset or a deletion that is said to be done, and none of whose children failed,
\* was done: the key is gone with both halves.  (Neither looks at exit codes.)
ClaimsDone ==
  \A r \in Requests : "ok" \in claims[r] /\ r \notin failed =>
    /\ Asks(r, "reset") => r \in did
    /\ Asks(r, "delete") => req[r].key \notin secret \cup public

\* A browser is told the truth about pins, cards, resets and deletions, whatever
\* others do at the same time.
ToldTrue == PinHonest /\ CardWritten /\ ClaimsDone

\* All browsers get the same lists, at any time: what was added is never added again.
SameLists == \A r, q \in Requests : lists[r] # 0 /\ lists[q] # 0 => lists[r] = lists[q]

\* The server only goes down when gpg cannot be started for a deletion or for a
\* browser that is gone.
DownForAReason ==
  ~up => \E r \in unspawned : Asks(r, "delete") \/ ~Here(r)

\* Every request is answered, unless its browser or the server is gone, the key to
\* be deleted is not found, or the word lists never load.
Answered ==
  \A r \in Requests :
    Arrived(r) ~> \/ finals[r] > 0
                  \/ ~Here(r) \/ ~up
                  \/ r \in dropped /\ Asks(r, "delete")
                  \/ r \in waiting /\ ~words
=============================================================================
