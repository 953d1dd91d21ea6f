------------------------------ MODULE Observers ------------------------------
(***************************************************************************)
(* The server's observers.  Every browser socket is registered with two    *)
(* polling loops, one per kind of list (the secret keys of the keyring,    *)
(* the OpenPGP cards in the readers).  A loop runs a gpg child, compares   *)
(* the list it printed with the previous one, sends it to the sockets      *)
(* WssUpdate selects, and when every send has been answered it arms a      *)
(* timer for the next round.  A list the reader throws on (a uid without a *)
(* mail address) goes to nobody and arms no timer: the loop is over.       *)
(*                                                                         *)
(* The code keeps no table of its loops: a loop lives in closures and in   *)
(* the event queue of node.  Here each such thread of callbacks is a       *)
(* member of Chains, in one of five phases:                                *)
(*   idle      no callback of it is left                                   *)
(*   running   gpg was spawned and has not looked at its device yet        *)
(*   read      gpg has its answer, the exit callback did not run yet       *)
(*   sending   ws.send callbacks are outstanding                           *)
(*   armed     a setTimeout is pending                                     *)
(* Both observers have the same code, so both are members of Kinds.        *)
(***************************************************************************)
EXTENDS Naturals, FiniteSets

CONSTANTS
  Kinds,      \* the observers: KeyChainList, CardStatusList
  KeyRings,   \* those that read a keyring: the reader of cards never throws
  Sockets,    \* WebSocket objects; a browser that reconnects gets a new one
  Chains,     \* names for the callback threads of one observer
  Transfers,  \* SimpleYubiKey requests, the callers of suspend and resume
  Values,     \* the lists gpg can print
  Unreadable, \* those with a uid without a mail address
  Empty,      \* the empty list, also what a failed gpg counts as
  NoValue,    \* nothing was sent yet
  NoTimer,    \* timeoutId is still undefined
  MaxChanges  \* bound on device changes and gpg failures

ASSUME KeyRingsAssumption == KeyRings \subseteq Kinds
ASSUME UnreadableAssumption == Unreadable \subseteq Values
ASSUME EmptyAssumption == Empty \in Values \ Unreadable
ASSUME NoValueAssumption == NoValue \notin Values
ASSUME NoTimerAssumption == NoTimer \notin Chains
ASSUME MaxChangesAssumption == MaxChanges \in Nat

VARIABLES
  conn,       \* readyState of each socket as the server sees it
  registry,   \* Observer.wss
  chain,      \* chain[k][c]: the callback threads of observer k
  timeoutId,  \* timeoutId[k]: the chain whose setTimeout was called last
  prevWss,    \* prevWss[k]: sockets WssUpdate has seen
  prevT,      \* prevT[k]: the list WssUpdate compares with
  shown,      \* shown[k][ws]: the last list written to ws (external)
  device,     \* device[k]: what gpg would print now (external)
  transfer,   \* transfer[t]: progress of a SimpleYubiKey request
  changes,    \* device changes and gpg failures so far
  threw,      \* threw[k]: the reader threw since observer k was last started
  missed      \* missed[k]: the sockets of the polls that ended like that

\* History: only the properties read these two.
history == <<threw, missed>>

vars == <<conn, registry, chain, timeoutId, prevWss, prevT, shown, device,
          transfer, changes, history>>

\* The transfers as the rest of the server may rely on them.
T == INSTANCE Transfer

-----------------------------------------------------------------------------
Phase == {"idle", "running", "read", "sending", "armed"}

Chain == [phase : Phase, wss : SUBSET Sockets, shared : BOOLEAN,
          val : Values \cup {NoValue}, pending : SUBSET Sockets]

Blank(phase) == [phase |-> phase, wss |-> {}, shared |-> FALSE,
                 val |-> NoValue, pending |-> {}]

\* A poll of the sockets S.  A poll started by the timer holds Observer.wss by
\* reference (shared): it sees a later push until the array is replaced.
Poll(S, byRef) == [phase |-> "running", wss |-> S, shared |-> byRef,
                   val |-> NoValue, pending |-> {}]

\* The callbacks of the sockets S are outstanding.
Sending(S) == [phase |-> "sending", wss |-> {}, shared |-> FALSE,
               val |-> NoValue, pending |-> S]

WithSockets(r, S) == [r EXCEPT !.wss = S]

Unshared(r) == [r EXCEPT !.shared = FALSE]

WithList(r, v) == [r EXCEPT !.phase = "read", !.val = v]

\* Chain c of observer k goes on as r.
GoesOn(k, c, r) == chain' = [chain EXCEPT ![k][c] = r]

InFlight(k, c) == chain[k][c].phase \in {"running", "read"}

IdleChains(k) == {c \in Chains : chain[k][c].phase = "idle"}

IsOpen(ws) == conn[ws] = "open"

\* What gpg can print for observer k.
Printable(k) == IF k \in KeyRings THEN Values ELSE Values \ Unreadable

\* Observer k polls again, as far as a list that cannot be read is concerned.
StartsAnew == threw' = [k \in Kinds |-> FALSE]

\* Mutant: clearing also gives up a poll in flight.
AfterClearKillsPolls(k) ==
  [c \in Chains |-> IF InFlight(k, c) THEN Blank("idle") ELSE chain[k][c]]

\* clearTimeout(timeoutId): kills that chain only while its timer is pending.
\* A timer that fired, or that timeoutId was overwritten for, survives.
AfterClear(k) ==
  [c \in Chains |-> IF c = timeoutId[k] /\ chain[k][c].phase = "armed"
                    THEN Blank("idle") ELSE chain[k][c]]

\* wss.push(ws) happens in place, in the array the shared polls hold.
SeePush(row, ws) ==
  [c \in Chains |-> IF row[c].shared
                    THEN WithSockets(row[c], row[c].wss \cup {ws}) ELSE row[c]]

\* Mutant: no callback for a round that has nobody to send to.
SentForgetsNobody(S) ==
  IF S = {} THEN Blank("idle")
  ELSE IF \E ws \in S : IsOpen(ws)
       THEN Sending({ws \in S : IsOpen(ws)})
       ELSE Blank("armed")

\* The list was sent to the sockets S.  send on a socket that is not open
\* calls back at once; with nobody left to wait for, the timer is armed.
Sent(S) == LET waiting == {ws \in S : IsOpen(ws)} IN
  IF waiting = {} THEN Blank("armed") ELSE Sending(waiting)

TimeoutAfter(k, c, next) == IF next.phase = "armed"
                            THEN [timeoutId EXCEPT ![k] = c] ELSE timeoutId

\* Mutant: the list is stored before it is compared, and never differs.
TargetsStoredFirst(k, wss, val) == wss \ prevWss[k]

\* WssUpdate.run: whom a list goes to.  As soon as the array holds a socket
\* that was never seen, `needCb ||' skips the send to all the others.
Targets(k, wss, val) ==
  IF wss \ prevWss[k] # {} THEN wss \ prevWss[k]
  ELSE IF val # prevT[k] THEN wss ELSE {}

-----------------------------------------------------------------------------
Init ==
  /\ conn = [ws \in Sockets |-> "new"]
  /\ registry = {}
  /\ chain = [k \in Kinds |-> [c \in Chains |-> Blank("idle")]]
  /\ timeoutId = [k \in Kinds |-> NoTimer]
  /\ prevWss = [k \in Kinds |-> {}]
  /\ prevT = [k \in Kinds |-> Empty]
  /\ shown = [k \in Kinds |-> [ws \in Sockets |-> NoValue]]
  /\ device \in {d \in [Kinds -> Values] : \A k \in Kinds : d[k] \in Printable(k)}
  /\ T!Init
  /\ changes = 0
  /\ threw = [k \in Kinds |-> FALSE]
  /\ missed = [k \in Kinds |-> {}]

\* Observer.register: push, then each observer clears its timer and polls
\* for the new socket alone, whatever else is in flight.
Register(ws) ==
  /\ conn[ws] = "new"
  /\ conn' = [conn EXCEPT ![ws] = "open"]
  /\ registry' = registry \cup {ws}
  /\ \E new \in [Kinds -> Chains] :
       /\ \A k \in Kinds : new[k] \in IdleChains(k)
       /\ chain' = [k \in Kinds |->
            [SeePush(AfterClear(k), ws) EXCEPT ![new[k]] = Poll({ws}, FALSE)]]
  /\ StartsAnew
  /\ UNCHANGED <<timeoutId, prevWss, prevT, shown, device, transfer, changes,
                 missed>>

\* The socket leaves readyState OPEN; its 'close' event is still to come.
Drop(ws) ==
  /\ conn[ws] = "open"
  /\ conn' = [conn EXCEPT ![ws] = "closing"]
  /\ UNCHANGED <<registry, chain, timeoutId, prevWss, prevT, shown, device,
                 transfer, changes, history>>

\* The 'close' event: the array is replaced by a filtered copy, so every poll
\* that held the old one keeps it, with ws in it.
Unregister(ws) ==
  /\ conn[ws] = "closing"
  /\ conn' = [conn EXCEPT ![ws] = "closed"]
  /\ registry' = registry \ {ws}
  /\ chain' = [k \in Kinds |-> [c \in Chains |-> Unshared(chain[k][c])]]
  /\ UNCHANGED <<timeoutId, prevWss, prevT, shown, device, transfer, changes,
                 history>>

\* The timer of chain c runs action(): with no socket the loop ends here.
Fire(k, c) ==
  /\ chain[k][c].phase = "armed"
  /\ GoesOn(k, c, IF registry = {} THEN Blank("idle") ELSE Poll(registry, TRUE))
  /\ UNCHANGED <<conn, registry, timeoutId, prevWss, prevT, shown, device,
                 transfer, changes, history>>

\* The gpg child of chain c looks at its device.
Read(k, c) ==
  /\ chain[k][c].phase = "running"
  /\ GoesOn(k, c, WithList(chain[k][c], device[k]))
  /\ UNCHANGED <<conn, registry, timeoutId, prevWss, prevT, shown, device,
                 transfer, changes, history>>

\* The gpg child ends with an error; the observer goes on with the empty list.
ReadFails(k, c) ==
  /\ chain[k][c].phase = "running"
  /\ changes < MaxChanges
  /\ changes' = changes + 1
  /\ GoesOn(k, c, WithList(chain[k][c], Empty))
  /\ UNCHANGED <<conn, registry, timeoutId, prevWss, prevT, shown, device,
                 transfer, history>>

\* gpg cannot be started.  Its 'error' and its 'close' event both call back,
\* each with an exit code that is not 0: the poll goes on twice from here.
SpawnFails(k, c) ==
  LET failed == WithList(chain[k][c], Empty) IN
  /\ chain[k][c].phase = "running"
  /\ changes < MaxChanges
  /\ changes' = changes + 1
  /\ \E twin \in IdleChains(k) :
       chain' = [chain EXCEPT ![k] = [@ EXCEPT ![c] = failed, ![twin] = failed]]
  /\ UNCHANGED <<conn, registry, timeoutId, prevWss, prevT, shown, device,
                 transfer, history>>

\* The exit callback of gpg, with a list the reader throws on: the exception
\* is the end of this thread, and nobody is told.
Throws(k, c) ==
  /\ chain[k][c].phase = "read" /\ chain[k][c].val \in Unreadable
  /\ threw' = [threw EXCEPT ![k] = TRUE]
  /\ missed' = [missed EXCEPT ![k] = @ \cup chain[k][c].wss]
  /\ GoesOn(k, c, Blank("idle"))
  /\ UNCHANGED <<conn, registry, timeoutId, prevWss, prevT, shown, device,
                 transfer, changes>>

\* The exit callback of gpg with any other list: WssUpdate.run with the list
\* and the array as it is by now.
Answer(k, c) ==
  LET wss == chain[k][c].wss
      val == chain[k][c].val
      to == Targets(k, wss, val)
  IN
  /\ chain[k][c].phase = "read" /\ val \notin Unreadable
  /\ prevWss' = [prevWss EXCEPT ![k] = @ \cup wss]
  /\ prevT' = [prevT EXCEPT ![k] = val]
  /\ shown' = [shown EXCEPT ![k] = [ws \in Sockets |->
                 IF ws \in to /\ IsOpen(ws) THEN val ELSE shown[k][ws]]]
  /\ GoesOn(k, c, Sent(to))
  /\ timeoutId' = TimeoutAfter(k, c, Sent(to))
  /\ UNCHANGED <<conn, registry, device, transfer, changes, history>>

\* The callback of ws.send, after the write or after the socket died; the
\* last one arms the timer.
SendDone(k, c, ws) ==
  LET left == chain[k][c].pending \ {ws}
      next == IF left = {} THEN Blank("armed") ELSE Sending(left)
  IN
  /\ chain[k][c].phase = "sending"
  /\ ws \in chain[k][c].pending
  /\ GoesOn(k, c, next)
  /\ timeoutId' = TimeoutAfter(k, c, next)
  /\ UNCHANGED <<conn, registry, prevWss, prevT, shown, device, transfer,
                 changes, history>>

\* A SimpleYubiKey request starts to move keys: Observer.suspend.
Suspend(t) ==
  /\ T!Start(t)
  /\ chain' = [k \in Kinds |-> AfterClear(k)]
  /\ UNCHANGED <<conn, registry, timeoutId, prevWss, prevT, shown, device,
                 changes, history>>

\* All its keys are on the card: Observer.resume, one more timer per observer.
Resume(t) ==
  /\ T!Finish(t)
  /\ \E new \in [Kinds -> Chains] :
       /\ \A k \in Kinds : new[k] \in IdleChains(k)
       /\ chain' = [k \in Kinds |->
                      [chain[k] EXCEPT ![new[k]] = Blank("armed")]]
       /\ timeoutId' = new
  /\ StartsAnew
  /\ UNCHANGED <<conn, registry, prevWss, prevT, shown, device, changes, missed>>

\* A key set without subkeys: suspend and resume follow each other.
Restart(t) ==
  /\ T!Pass(t)
  /\ \E new \in [Kinds -> Chains] :
       /\ \A k \in Kinds : new[k] \in IdleChains(k)
       /\ chain' = [k \in Kinds |->
                      [AfterClear(k) EXCEPT ![new[k]] = Blank("armed")]]
       /\ timeoutId' = new
  /\ StartsAnew
  /\ UNCHANGED <<conn, registry, prevWss, prevT, shown, device, changes, missed>>

\* One of its keys could not be moved: nothing is resumed.
Abort(t) ==
  /\ T!Fail(t)
  /\ UNCHANGED <<conn, registry, chain, timeoutId, prevWss, prevT, shown,
                 device, changes, history>>

\* A card is plugged in or pulled, a key appears in or leaves the keyring.
Change(k) ==
  /\ changes < MaxChanges
  /\ changes' = changes + 1
  /\ \E v \in Printable(k) \ {device[k]} : device' = [device EXCEPT ![k] = v]
  /\ UNCHANGED <<conn, registry, chain, timeoutId, prevWss, prevT, shown,
                 transfer, history>>

ChainStep(k, c) ==
  \/ Fire(k, c)
  \/ Read(k, c)
  \/ ReadFails(k, c)
  \/ SpawnFails(k, c)
  \/ Throws(k, c)
  \/ Answer(k, c)
  \/ \E ws \in Sockets : SendDone(k, c, ws)

Next ==
  \/ \E ws \in Sockets : Register(ws) \/ Drop(ws) \/ Unregister(ws)
  \/ \E t \in Transfers : Suspend(t) \/ Resume(t) \/ Restart(t) \/ Abort(t)
  \/ \E k \in Kinds : Change(k)
  \/ \E k \in Kinds, c \in Chains : ChainStep(k, c)

\* A gpg child ends, the event loop of node runs due timers and callbacks, and
\* a dropped socket emits 'close'.  Browsers and users owe nothing.
Fairness ==
  /\ \A k \in Kinds, c \in Chains : WF_vars(ChainStep(k, c))
  /\ \A ws \in Sockets : WF_vars(Unregister(ws))

Spec == Init /\ [][Next]_vars

FairSpec == Spec /\ Fairness

-----------------------------------------------------------------------------
(***************************************************************************)
(* Properties.                                                             *)
(***************************************************************************)

\* A chain carries what its phase needs.
ChainsOK ==
  /\ chain \in [Kinds -> [Chains -> Chain]]
  /\ \A k \in Kinds, c \in Chains :
       /\ chain[k][c].phase = "read" => chain[k][c].val \in Values
       /\ chain[k][c].phase = "sending" => chain[k][c].pending # {}

\* Every variable has its type.
TypeOK ==
  /\ conn \in [Sockets -> {"new", "open", "closing", "closed"}]
  /\ registry \in SUBSET Sockets
  /\ ChainsOK
  /\ timeoutId \in [Kinds -> Chains \cup {NoTimer}]
  /\ prevWss \in [Kinds -> SUBSET Sockets]
  /\ prevT \in [Kinds -> Values]
  /\ shown \in [Kinds -> [Sockets -> Values \cup {NoValue}]]
  /\ device \in [Kinds -> Values]
  /\ transfer \in [Transfers -> {"none", "moving", "done", "failed"}]
  /\ changes \in 0 .. MaxChanges
  /\ threw \in [Kinds -> BOOLEAN]
  /\ missed \in [Kinds -> SUBSET Sockets]

\* While a browser is registered the polling of each list goes on.  There are
\* two ways to be left without any callback: a key transfer that suspended the
\* observers and is under way or failed, and a list that could not be read
\* since the observer was last started.  The timers that register and suspend
\* cancel, the rounds that find nobody to send to, the sends that fail and a
\* gpg that fails or cannot be started never end the loop.
PollingAlive ==
  \A k \in Kinds :
    (registry # {} /\ IdleChains(k) = Chains)
      => \/ \E t \in Transfers : transfer[t] \in {"moving", "failed"}
         \/ threw[k]

\* A socket that is open has been sent the list, or a poll that will send it
\* is in flight, even when the observers are suspended right after it came,
\* and whatever other polls answer in between; unless a poll meant for it got
\* a list that could not be read.
ServedOrPending ==
  \A k \in Kinds, ws \in Sockets :
    IsOpen(ws) => \/ shown[k][ws] # NoValue
                  \/ \E c \in Chains : InFlight(k, c) /\ ws \in chain[k][c].wss
                  \/ ws \in missed[k]

\* WssUpdate's book of known sockets is right: a socket it takes for known was
\* sent a list, unless it is already gone.
KnownWasServed ==
  \A k \in Kinds : \A ws \in prevWss[k] : IsOpen(ws) => shown[k][ws] # NoValue

\* All browsers see the list WssUpdate compares with, and every poll in flight
\* covers them all and nobody it would take for a newcomer.
Agreed(k) ==
  /\ registry \subseteq prevWss[k]
  /\ \A ws \in registry : IsOpen(ws) => shown[k][ws] = prevT[k]
  /\ \A c \in Chains : InFlight(k, c) =>
       /\ \A ws \in registry : IsOpen(ws) => ws \in chain[k][c].wss
       /\ chain[k][c].wss \subseteq prevWss[k]

\* Only a newcomer can make browsers disagree: once all of them show the same
\* list they go on doing so through polls that answer out of order, closing
\* sockets, suspend and resume, and failing gpg runs.
OnlyRegisterDisagrees ==
  [][\A k \in Kinds : Agreed(k) =>
       Agreed(k)' \/ \E ws \in Sockets : Register(ws)]_vars

\* WssUpdate compares with a list that ws was not sent, because it went to
\* another browser.
Withheld(k, ws) ==
  /\ shown[k][ws] # prevT[k]
  /\ \E other \in Sockets \ {ws} : conn[other] # "new"

\* A browser that stays connected shows what gpg prints again and again, so
\* for good once the device no longer changes.  Two things can keep it from
\* that: the polling of the list is over (see PollingAlive), or from some time
\* on the list is withheld from it for the sake of a second browser.
Converges ==
  \A k \in Kinds, ws \in Sockets :
    \/ []<>(~IsOpen(ws) \/ shown[k][ws] = device[k] \/ IdleChains(k) = Chains)
    \/ <>[]Withheld(k, ws)
=============================================================================
