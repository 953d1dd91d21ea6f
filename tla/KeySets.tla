------------------------------- MODULE KeySets -------------------------------
(***************************************************************************)
(* Creating a key set and moving it to a card: CreateKeySetTask with its   *)
(* two callers, the dispatchers of 'CreateKeySet.Request' and              *)
(* 'SimpleYubiKey.run'.  A request creates a master key, lists the         *)
(* keyring, and for EVERY listed key with the requested name and mail      *)
(* starts a thread of callbacks that adds uids, adds subkeys and fetches   *)
(* the key.  The first thread that gets so far settles the promise; the    *)
(* subkeys of its key then go to the slots of the card one by one.         *)
(*                                                                         *)
(* All requests here ask for the same name and mail, as repeated requests  *)
(* of one user do: every key of the keyring matches.  The exit codes of    *)
(* gpg are ignored while keys are made, as in the code.  ws.send throws    *)
(* once the browser is gone, and the thread that called it is dead.  So is *)
(* one that lists a keyring with a uid without a mail address: the reader  *)
(* throws where nobody catches it.                                         *)
(***************************************************************************)
EXTENDS Naturals, FiniteSets

CONSTANTS
  Requests,   \* requests; a key is named by the request that makes it
  OldKeys,    \* matching keys that are there from the start
  Vacant,     \* an empty slot, also no key
  NUids,      \* uids of a request
  NSubs,      \* subkeys of a request, 3 for SimpleYubiKey
  NSlots,     \* slots of a card
  MaxFaults   \* bound on failing gpg runs

Keys == OldKeys \cup Requests

ASSUME KeysAssumption == OldKeys \cap Requests = {} /\ Vacant \notin Keys \cup (Keys \X Nat)
ASSUME CountsAssumption == NUids \in Nat \ {0} /\ NSubs \in Nat /\ NSlots \in Nat
ASSUME MaxFaultsAssumption == MaxFaults \in Nat

VARIABLES
  gone,     \* requests whose browser disconnected
  moves,    \* the request is a SimpleYubiKey.run
  stage,    \* progress of the request up to its promise and beyond
  step,     \* step[r][k]: where the thread of request r for key k is
  told,     \* told[r]: the verdicts sent to the browser
  keyring,  \* secret keys gpg has (external)
  unreadable, \* some key there has a uid without a mail address (external)
  uids,     \* uids of each key (external)
  subs,     \* subkeys of each key (external)
  chosen,   \* the key the promise was resolved with
  total,    \* the subkeys chosen had then
  moved,    \* how many of them are on the card, idx of sendKeysToCard
  card,     \* the slots of the card (external)
  faults    \* failing gpg runs so far

vars == <<gone, moves, stage, step, told, keyring, unreadable, uids, subs,
          chosen, total, moved, card, faults>>
keys == <<keyring, unreadable, uids, subs>>
deal == <<chosen, total, moved, card>>

-----------------------------------------------------------------------------
Stages == {"none", "master", "list", "unread", "keys", "resolved", "rejected",
           "dead", "moving", "done", "failed", "lost"}

Verdicts == {"invalid", "aborted", "created", "setfailed", "completed", "cardfailed"}

Steps == {<<s, 0>> : s \in {"none", "get", "unread", "end", "dead"}}
         \cup ({"uids"} \X (1 .. NUids - 1)) \cup ({"subs"} \X (0 .. NSubs - 1))

Idle == <<"none", 0>>

\* Mutant: one subkey less than asked for.
CreateSubKeysShort(cnt) == IF cnt + 1 < NSubs THEN <<"subs", cnt>> ELSE <<"get", 0>>

\* createSubKeys(cnt): one more subkey or the callback.
CreateSubKeys(cnt) == IF cnt < NSubs THEN <<"subs", cnt>> ELSE <<"get", 0>>

\* addUids(cnt): one more uid or the callback, which makes the subkeys.
AddUids(cnt) == IF cnt < NUids THEN <<"uids", cnt>> ELSE CreateSubKeys(0)

\* gpg was started for this step, and the browser told so.
Announced(s) == s[1] \in {"uids", "subs"}

\* A gpg run ends well, or fails at the cost of the bound.
GpgRuns(ok) == \/ ok /\ faults' = faults
               \/ ~ok /\ faults < MaxFaults /\ faults' = faults + 1

\* Thread k of request r goes on at s, or dies for want of its browser.
GoesOn(r, k, s) ==
  step' = [step EXCEPT ![r][k] = IF r \in gone THEN <<"dead", 0>> ELSE s]

Tell(r, S) == told' = [told EXCEPT ![r] = @ \cup (IF r \in gone THEN {} ELSE S)]

\* Mutant: nobody reports a rejected promise.
CaughtSilently(r) == {}

\* The catch handlers: only SimpleYubiKey.run reports a rejected promise.
Caught(r) == IF moves[r] THEN {"aborted"} ELSE {}

\* Mutant: every thread that fetched its key resolves the promise.
SettlesAlways(r) == TRUE

\* A promise is settled once.
Settles(r) == stage[r] = "keys"

FetchVerdict(found) == IF found THEN {"created"} ELSE {"setfailed"}

\* Mutant: slots counted from the index of the subkey.
SlotFromIndex(idx) == IF idx = 0 THEN 1 ELSE idx

Slot(idx) == idx + 1

\* The next subkey of the chosen key can be moved to its slot, and is there then.
CanMove(r) == chosen[r] \in keyring /\ Slot(moved[r]) <= NSlots
Written(r) == [card EXCEPT ![Slot(moved[r])] = <<chosen[r], moved[r] + 1>>]

\* A move that did not end well says nothing about the card.
MayBeWritten(r) == card' \in {card} \cup (IF CanMove(r) THEN {Written(r)} ELSE {})

\* Mutant: the catch of the promise also catches what sendKeysToCard throws.
AfterMoveCaught(r, n) ==
  IF r \in gone THEN "rejected" ELSE IF n < total[r] THEN "moving" ELSE "done"

\* The n-th key is on the card: the next one, or Completed and resume, unless
\* the progress message throws.
AfterMove(r, n) ==
  IF r \in gone THEN "failed" ELSE IF n < total[r] THEN "moving" ELSE "done"

-----------------------------------------------------------------------------
Init ==
  /\ gone = {}
  /\ moves = [r \in Requests |-> FALSE]
  /\ stage = [r \in Requests |-> "none"]
  /\ step = [r \in Requests |-> [k \in Keys |-> Idle]]
  /\ told = [r \in Requests |-> {}]
  /\ keyring = OldKeys
  /\ unreadable \in BOOLEAN
  /\ uids = [k \in Keys |-> IF k \in OldKeys THEN 1 ELSE 0]
  /\ \E old \in [OldKeys -> {0, NSubs}] :
       subs = [k \in Keys |-> IF k \in OldKeys THEN old[k] ELSE 0]
  /\ chosen = [r \in Requests |-> Vacant]
  /\ total = [r \in Requests |-> 0]
  /\ moved = [r \in Requests |-> 0]
  /\ card = [i \in 1 .. NSlots |-> Vacant]
  /\ faults = 0

\* A request arrives; one with a bad form is refused at once.
Submit(r) ==
  /\ stage[r] = "none" /\ r \notin gone
  /\ \E toCard, valid \in BOOLEAN :
       /\ moves' = [moves EXCEPT ![r] = toCard]
       /\ stage' = [stage EXCEPT ![r] = IF valid THEN "master" ELSE "rejected"]
       /\ Tell(r, IF valid THEN {} ELSE {"invalid"})
  /\ UNCHANGED <<gone, step, keys, deal, faults>>

\* The callback of createMasterKey, whatever the exit code.
MasterDone(r) ==
  /\ stage[r] = "master"
  /\ stage' = [stage EXCEPT ![r] = IF r \in gone THEN "dead" ELSE "list"]
  /\ \E ok \in BOOLEAN :
       /\ GpgRuns(ok)
       /\ keyring' = IF ok THEN keyring \cup {r} ELSE keyring
       /\ uids' = IF ok THEN [uids EXCEPT ![r] = 1] ELSE uids
  /\ UNCHANGED <<gone, moves, step, told, unreadable, subs, deal>>

\* The keyring is listed, but the reader of the list throws: nobody settles the
\* promise.
ListThrows(r) ==
  /\ stage[r] = "list" /\ unreadable
  /\ stage' = [stage EXCEPT ![r] = "unread"]
  /\ UNCHANGED <<gone, moves, step, told, keys, deal, faults>>

\* gpg could not list the keyring: the promise is rejected.
ListFails(r) ==
  /\ stage[r] = "list"
  /\ GpgRuns(FALSE)
  /\ stage' = [stage EXCEPT ![r] = "rejected"]
  /\ Tell(r, Caught(r))
  /\ UNCHANGED <<gone, moves, step, keys, deal>>

\* A thread starts for each key that is listed.  With no key none starts, and
\* the promise is never settled; with no browser the first one throws.
Listed(r) ==
  /\ stage[r] = "list" /\ ~unreadable
  /\ IF r \in gone /\ keyring # {} /\ Announced(AddUids(1))
     THEN /\ stage' = [stage EXCEPT ![r] = "dead"]
          /\ UNCHANGED step
     ELSE /\ stage' = [stage EXCEPT ![r] = "keys"]
          /\ step' = [step EXCEPT ![r] =
                       [k \in Keys |-> IF k \in keyring THEN AddUids(1) ELSE Idle]]
  /\ UNCHANGED <<gone, moves, told, keys, deal, faults>>

\* gpg --quick-adduid is done, with or without a new uid.
UidAdded(r, k) ==
  /\ step[r][k][1] = "uids"
  /\ \E ok \in BOOLEAN :
       /\ GpgRuns(ok)
       /\ uids' = IF ok /\ k \in keyring THEN [uids EXCEPT ![k] = @ + 1] ELSE uids
  /\ GoesOn(r, k, AddUids(step[r][k][2] + 1))
  /\ UNCHANGED <<gone, moves, stage, told, keyring, unreadable, subs, deal>>

\* gpg --quick-addkey is done, with or without a new subkey.
SubKeyCreated(r, k) ==
  /\ step[r][k][1] = "subs"
  /\ \E ok \in BOOLEAN :
       /\ GpgRuns(ok)
       /\ subs' = IF ok /\ k \in keyring THEN [subs EXCEPT ![k] = @ + 1] ELSE subs
  /\ GoesOn(r, k, CreateSubKeys(step[r][k][2] + 1))
  /\ UNCHANGED <<gone, moves, stage, told, keyring, unreadable, uids, deal>>

\* getSecretKey lists the keyring too, and its reader throws: this thread is
\* over, and told nobody.
GetThrows(r, k) ==
  /\ step[r][k] = <<"get", 0>> /\ unreadable
  /\ step' = [step EXCEPT ![r][k] = <<"unread", 0>>]
  /\ UNCHANGED <<gone, moves, stage, told, keys, deal, faults>>

\* getSecretKey found the key.  If the promise is still open it is resolved,
\* and a SimpleYubiKey request starts on the card, or ends there without keys.
Found(r, k) ==
  LET resolves == r \notin gone /\ Settles(r) IN
  /\ step[r][k] = <<"get", 0>> /\ k \in keyring /\ ~unreadable
  /\ GoesOn(r, k, <<"end", 0>>)
  /\ Tell(r, FetchVerdict(TRUE) \cup
             IF resolves /\ moves[r] /\ subs[k] = 0 THEN {"completed"} ELSE {})
  /\ stage' = [stage EXCEPT ![r] =
       IF ~resolves THEN @ ELSE IF ~moves[r] THEN "resolved"
       ELSE IF subs[k] = 0 THEN "done" ELSE "moving"]
  /\ chosen' = IF resolves THEN [chosen EXCEPT ![r] = k] ELSE chosen
  /\ total' = IF resolves THEN [total EXCEPT ![r] = subs[k]] ELSE total
  /\ UNCHANGED <<gone, moves, keys, moved, card, faults>>

\* getSecretKey did not find it, or could not list the keyring.
NotFound(r, k) ==
  /\ step[r][k] = <<"get", 0>>
  /\ \/ k \notin keyring /\ ~unreadable /\ GpgRuns(TRUE)
     \/ GpgRuns(FALSE)
  /\ GoesOn(r, k, <<"end", 0>>)
  /\ Tell(r, FetchVerdict(FALSE) \cup IF Settles(r) THEN Caught(r) ELSE {})
  /\ stage' = [stage EXCEPT ![r] =
       IF r \notin gone /\ Settles(r) THEN "rejected" ELSE @]
  /\ UNCHANGED <<gone, moves, keys, deal>>

\* A key reached its slot.
MoveDone(r) ==
  LET n == moved[r] + 1 IN
  /\ stage[r] = "moving" /\ CanMove(r)
  /\ card' = Written(r)
  /\ moved' = [moved EXCEPT ![r] = n]
  /\ stage' = [stage EXCEPT ![r] = AfterMove(r, n)]
  /\ Tell(r, IF AfterMove(r, n) = "done" THEN {"completed"} ELSE {})
  /\ UNCHANGED <<gone, moves, step, keys, chosen, total, faults>>

\* Mutant: a key that could not be moved is tried again.
MoveFailsRetries(r) ==
  /\ stage[r] = "moving"
  /\ \/ ~CanMove(r) /\ GpgRuns(TRUE)
     \/ GpgRuns(FALSE)
  /\ UNCHANGED <<gone, moves, stage, step, told, keys, deal>>

\* The callback of the move says that it failed: there is no such slot or key,
\* or one of its gpg runs ended with an error, the last perhaps after its work.
MoveFails(r) ==
  /\ stage[r] = "moving"
  /\ \/ ~CanMove(r) /\ GpgRuns(TRUE) /\ UNCHANGED card
     \/ GpgRuns(FALSE) /\ MayBeWritten(r)
  /\ stage' = [stage EXCEPT ![r] = "failed"]
  /\ Tell(r, {"cardfailed"})
  /\ UNCHANGED <<gone, moves, step, keys, chosen, total, moved>>

\* The callback of the move is never called: a spawn throws on the way, or
\* rimraf with the key already on the card.
MoveLost(r) ==
  /\ stage[r] = "moving"
  /\ GpgRuns(FALSE) /\ MayBeWritten(r)
  /\ stage' = [stage EXCEPT ![r] = "lost"]
  /\ UNCHANGED <<gone, moves, step, told, keys, chosen, total, moved>>

\* The browser of r goes away.
Disconnect(r) ==
  /\ r \notin gone
  /\ gone' = gone \cup {r}
  /\ UNCHANGED <<moves, stage, step, told, keys, deal, faults>>

\* Some browser deletes a secret key.
DeleteSecretKey(k) ==
  /\ k \in keyring
  /\ keyring' = keyring \ {k}
  /\ UNCHANGED <<gone, moves, stage, step, told, unreadable, uids, subs, deal, faults>>

\* Some other key gets or loses a uid without a mail address.
BareUid ==
  /\ unreadable' = ~unreadable
  /\ UNCHANGED <<gone, moves, stage, step, told, keyring, uids, subs, deal, faults>>

Thread(r, k) == \/ UidAdded(r, k) \/ SubKeyCreated(r, k)
                \/ GetThrows(r, k) \/ Found(r, k) \/ NotFound(r, k)

Task(r) == \/ MasterDone(r) \/ ListThrows(r) \/ ListFails(r) \/ Listed(r)
           \/ MoveDone(r) \/ MoveFails(r) \/ MoveLost(r)

Next ==
  \/ \E r \in Requests : Submit(r) \/ Disconnect(r) \/ Task(r)
  \/ \E r \in Requests, k \in Keys : Thread(r, k)
  \/ \E k \in Keys : DeleteSecretKey(k)
  \/ BareUid

\* Every gpg child ends.  Users owe nothing.
Fairness ==
  /\ \A r \in Requests : WF_vars(Task(r))
  /\ \A r \in Requests, k \in Keys : WF_vars(Thread(r, k))

Spec == Init /\ [][Next]_vars

FairSpec == Spec /\ Fairness

-----------------------------------------------------------------------------
(***************************************************************************)
(* Properties.                                                             *)
(***************************************************************************)

\* Every variable has its type.
TypeOK ==
  /\ gone \subseteq Requests
  /\ moves \in [Requests -> BOOLEAN]
  /\ stage \in [Requests -> Stages]
  /\ step \in [Requests -> [Keys -> Steps]]
  /\ told \in [Requests -> SUBSET Verdicts]
  /\ keyring \subseteq Keys
  /\ unreadable \in BOOLEAN
  /\ uids \in [Keys -> Nat]
  /\ subs \in [Keys -> Nat]
  /\ chosen \in [Requests -> Keys \cup {Vacant}]
  /\ total \in [Requests -> Nat]
  /\ moved \in [Requests -> Nat]
  /\ card \in [1 .. NSlots -> (Keys \X Nat) \cup {Vacant}]
  /\ faults \in 0 .. MaxFaults

Resolved(r) == chosen[r] # Vacant

\* While no gpg run fails, the key a promise is resolved with is complete: all
\* uids and all subkeys of the request were made before it was fetched, also
\* when other requests work on the same key or somebody deletes keys.
ResolvedIsComplete ==
  \A r \in Requests : (Resolved(r) /\ faults = 0)
    => total[r] >= NSubs /\ uids[chosen[r]] >= NUids

\* No other request has written to the card, or may have.
Alone(r) == \A q \in Requests \ {r} : moved[q] = 0 /\ stage[q] \notin {"failed", "lost"}

\* What slot i holds by what is known of request r.  A move that failed or was
\* lost leaves open whether its key reached the slot.
SlotMatches(r, i) ==
  \/ card[i] = IF i <= moved[r] THEN <<chosen[r], i>> ELSE Vacant
  \/ /\ stage[r] \in {"failed", "lost"}
     /\ i = moved[r] + 1 /\ card[i] = <<chosen[r], i>>

\* The card a transfer leaves behind: subkey i of its one key in slot i, as
\* many as it reports, all of them when it said Completed, and nothing else but
\* perhaps the next one when it broke off there.
CardMatches ==
  \A r \in Requests : Alone(r) =>
    /\ \A i \in 1 .. NSlots : SlotMatches(r, i)
    /\ "completed" \in told[r] => moved[r] = total[r]

\* A request whose browser was told that it was aborted, or refused, never
\* touches the card afterwards, although its other threads go on.
NoMoveAfterReject ==
  \A r \in Requests : told[r] \cap {"invalid", "aborted"} # {}
    => moved[r] = 0 /\ stage[r] = "rejected"

\* The list was read, but no thread is left that could settle the promise:
\* nothing in the keyring matched, or each of them lost its second list.
NoThreadLeft(r) ==
  stage[r] = "keys" /\ \A k \in Keys : step[r][k] \in {Idle, <<"unread", 0>>}

\* A request is answered.  The exceptions are all there are: the browser went
\* away, the reader of a list threw or no listed key matched (the promise is
\* never settled), or gpg could not list the keyring for a CreateKeySet.Request
\* (its catch says nothing).
AnsweredOrLost ==
  \A r \in Requests :
    stage[r] # "none" ~> \/ told[r] # {}
                         \/ r \in gone
                         \/ stage[r] = "unread"
                         \/ NoThreadLeft(r)
                         \/ stage[r] = "rejected" /\ ~moves[r]

\* The part of a request the observers see: for them a lost one never ends.
TransferOf(r) ==
  CASE stage[r] \in {"moving", "lost"} -> "moving"
    [] stage[r] = "done" -> "done"
    [] stage[r] = "failed" -> "failed"
    [] OTHER -> "none"

T == INSTANCE Transfer WITH Transfers <- Requests,
                            transfer <- [r \in Requests |-> TransferOf(r)]

\* Seen from the observers, a request is a transfer as Transfer has it: one
\* suspend, then one resume or none, never a second start.
ImplementsTransfer == T!Spec

\* A transfer that was started ends, and the browser, if it is still there, is
\* told how.  The one exception is a move whose callback is never called: then
\* nobody is told, and the observers stay suspended for good.
TransferEnds ==
  \A r \in Requests :
    stage[r] = "moving" ~>
      \/ /\ stage[r] \in {"done", "failed"}
         /\ told[r] \cap {"completed", "cardfailed"} # {} \/ r \in gone
      \/ stage[r] = "lost"
=============================================================================
