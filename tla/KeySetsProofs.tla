---------------------------- MODULE KeySetsProofs ----------------------------
(***************************************************************************)
(* Theorems about KeySets, for any requests, old keys, numbers of uids,    *)
(* subkeys and slots, and any number of gpg failures.                      *)
(***************************************************************************)
EXTENDS KeySets, TLAPS

\* The steps the thread operators compute are steps.
LEMMA StepShapes ==
  /\ Idle \in Steps /\ <<"get", 0>> \in Steps /\ <<"end", 0>> \in Steps
  /\ <<"dead", 0>> \in Steps /\ <<"unread", 0>> \in Steps
  /\ \A n \in Nat : CreateSubKeys(n) \in Steps
  /\ \A n \in Nat \ {0} : AddUids(n) \in Steps
<1>1. /\ Idle \in Steps /\ <<"get", 0>> \in Steps /\ <<"end", 0>> \in Steps
      /\ <<"dead", 0>> \in Steps /\ <<"unread", 0>> \in Steps
  BY DEF Steps, Idle
<1>2. \A n \in Nat : CreateSubKeys(n) \in Steps
  BY <1>1, CountsAssumption DEF Steps, CreateSubKeys
<1>3. \A n \in Nat \ {0} : AddUids(n) \in Steps
  BY <1>2, CountsAssumption DEF Steps, AddUids
<1>4. QED
  BY <1>1, <1>2, <1>3

\* The count of a step that is repeated.
LEMMA StepCounts ==
  ASSUME NEW s \in Steps
  PROVE  /\ s[1] = "uids" => s[2] + 1 \in Nat \ {0} /\ s = <<"uids", s[2]>>
         /\ s[1] = "subs" => s[2] + 1 \in Nat /\ s = <<"subs", s[2]>>
  BY CountsAssumption DEF Steps

\* What moving one thread on does to the table of threads.
LEMMA GoesOnShapes ==
  ASSUME step \in [Requests -> [Keys -> Steps]], NEW r \in Requests, NEW k \in Keys,
         NEW s \in Steps, GoesOn(r, k, s)
  PROVE  /\ step' \in [Requests -> [Keys -> Steps]]
         /\ step'[r][k] = IF r \in gone THEN <<"dead", 0>> ELSE s
         /\ \A q \in Requests, j \in Keys : q # r \/ j # k => step'[q][j] = step[q][j]
  BY StepShapes DEF GoesOn

\* Verdicts are only added to those of one request.
LEMMA TellShapes ==
  ASSUME told \in [Requests -> SUBSET Verdicts], NEW r \in Requests,
         NEW S \in SUBSET Verdicts, Tell(r, S)
  PROVE  /\ told' \in [Requests -> SUBSET Verdicts]
         /\ told'[r] \subseteq told[r] \cup S
         /\ \A q \in Requests : q # r => told'[q] = told[q]
  BY DEF Tell

\* A failing run costs one of the faults.
LEMMA FaultsCount ==
  ASSUME faults \in 0 .. MaxFaults, NEW ok \in BOOLEAN, GpgRuns(ok)
  PROVE  /\ faults' \in 0 .. MaxFaults
         /\ ~ok => faults' # 0
         /\ faults' = 0 => faults = 0
  BY MaxFaultsAssumption DEF GpgRuns

\* A move that did not end well writes one slot with the key it was given, or none.
LEMMA MayBeWrittenShapes ==
  ASSUME card \in [1 .. NSlots -> (Keys \X Nat) \cup {Vacant}],
         moved \in [Requests -> Nat], chosen \in [Requests -> Keys \cup {Vacant}],
         keyring \subseteq Keys, NEW r \in Requests, MayBeWritten(r)
  PROVE  /\ card' \in [1 .. NSlots -> (Keys \X Nat) \cup {Vacant}]
         /\ \A i \in 1 .. NSlots :
              \/ card'[i] = card[i]
              \/ i = moved[r] + 1 /\ card'[i] = <<chosen[r], i>>
<1>1. CASE card' = card
  BY <1>1
<1>2. CASE CanMove(r) /\ card' = [card EXCEPT ![moved[r] + 1] = <<chosen[r], moved[r] + 1>>]
  BY <1>2, CountsAssumption DEF CanMove, Slot
<1>3. QED
  BY <1>1, <1>2 DEF MayBeWritten, Written, Slot

\* Every variable keeps its type.
THEOREM TypeCorrect == Spec => []TypeOK
<1>1. Init => TypeOK
  <2> SUFFICES ASSUME Init PROVE TypeOK
    OBVIOUS
  <2>1. subs \in [Keys -> Nat] /\ uids \in [Keys -> Nat] /\ keyring \subseteq Keys
    BY CountsAssumption DEF Init, Keys
  <2>2. step \in [Requests -> [Keys -> Steps]]
    BY StepShapes DEF Init
  <2>3. QED
    BY <2>1, <2>2, MaxFaultsAssumption DEF Init, TypeOK, Stages
<1>2. TypeOK /\ [Next]_vars => TypeOK'
  <2> SUFFICES ASSUME TypeOK, [Next]_vars PROVE TypeOK'
    OBVIOUS
  <2>1. ASSUME NEW r \in Requests, Submit(r) PROVE TypeOK'
    <3>1. PICK valid \in BOOLEAN : Tell(r, IF valid THEN {} ELSE {"invalid"})
      BY <2>1 DEF Submit
    <3>2. told' \in [Requests -> SUBSET Verdicts]
      BY <3>1, TellShapes DEF TypeOK, Verdicts
    <3>3. stage' \in [Requests -> Stages] /\ moves' \in [Requests -> BOOLEAN]
      BY <2>1 DEF Submit, TypeOK, Stages
    <3>4. UNCHANGED <<gone, step, keys, deal, faults>>
      BY <2>1 DEF Submit
    <3>5. QED
      BY <3>2, <3>3, <3>4 DEF TypeOK, keys, deal
  <2>2. ASSUME NEW r \in Requests, Disconnect(r) PROVE TypeOK'
    BY <2>2 DEF Disconnect, TypeOK, keys, deal
  <2>3. ASSUME NEW r \in Requests, MasterDone(r) PROVE TypeOK'
    <3>1. stage' \in [Requests -> Stages]
      BY <2>3 DEF MasterDone, TypeOK, Stages
    <3>2. faults' \in 0 .. MaxFaults
      BY <2>3, FaultsCount DEF MasterDone, TypeOK
    <3>3. keyring' \subseteq Keys /\ uids' \in [Keys -> Nat]
      BY <2>3 DEF MasterDone, TypeOK, Keys
    <3>4. QED
      BY <2>3, <3>1, <3>2, <3>3 DEF MasterDone, TypeOK, deal
  <2>4. ASSUME NEW r \in Requests, ListFails(r) PROVE TypeOK'
    <3>1. Caught(r) \in SUBSET Verdicts
      BY DEF Caught, Verdicts
    <3>2. told' \in [Requests -> SUBSET Verdicts]
      BY <2>4, <3>1, TellShapes DEF ListFails, TypeOK
    <3>3. faults' \in 0 .. MaxFaults
      BY <2>4, FaultsCount DEF ListFails, TypeOK
    <3>4. QED
      BY <2>4, <3>2, <3>3 DEF ListFails, TypeOK, Stages, keys, deal
  <2>5. ASSUME NEW r \in Requests, Listed(r) PROVE TypeOK'
    <3> DEFINE row == [k \in Keys |-> IF k \in keyring THEN AddUids(1) ELSE Idle]
    <3>1. row \in [Keys -> Steps]
      BY StepShapes
    <3>2. step' = step \/ step' = [step EXCEPT ![r] = row]
      BY <2>5 DEF Listed
    <3> HIDE DEF row
    <3>3. step' \in [Requests -> [Keys -> Steps]]
      BY <3>1, <3>2 DEF TypeOK
    <3>4. QED
      BY <2>5, <3>3 DEF Listed, TypeOK, Stages, keys, deal
  <2>6. ASSUME NEW r \in Requests, MoveDone(r) PROVE TypeOK'
    <3>1. /\ moved[r] + 1 \in Nat /\ chosen[r] \in Keys
          /\ moved' = [moved EXCEPT ![r] = moved[r] + 1]
      BY <2>6 DEF MoveDone, CanMove, TypeOK
    <3>2. told' \in [Requests -> SUBSET Verdicts]
      <4>1. PICK S \in SUBSET Verdicts : Tell(r, S)
        BY <2>6 DEF MoveDone, Verdicts
      <4>2. QED
        BY <4>1, TellShapes DEF TypeOK
    <3>3. stage' \in [Requests -> Stages]
      BY <2>6 DEF MoveDone, AfterMove, TypeOK, Stages
    <3>4. card' \in [1 .. NSlots -> (Keys \X Nat) \cup {Vacant}]
      BY <2>6, MayBeWrittenShapes DEF MoveDone, MayBeWritten, TypeOK
    <3>5. UNCHANGED <<gone, moves, step, keys, chosen, total, faults>>
      BY <2>6 DEF MoveDone
    <3>6. QED
      BY <3>1, <3>2, <3>3, <3>4, <3>5 DEF TypeOK, keys
  <2>7. ASSUME NEW r \in Requests, MoveFails(r) \/ MoveLost(r) PROVE TypeOK'
    <3>1. card' \in [1 .. NSlots -> (Keys \X Nat) \cup {Vacant}]
      <4>1. card' = card \/ MayBeWritten(r)
        BY <2>7 DEF MoveFails, MoveLost
      <4>2. QED
        BY <4>1, MayBeWrittenShapes DEF TypeOK
    <3>2. told' \in [Requests -> SUBSET Verdicts]
      <4>1. told' = told \/ Tell(r, {"cardfailed"})
        BY <2>7 DEF MoveFails, MoveLost
      <4>2. QED
        BY <4>1, TellShapes DEF TypeOK, Verdicts
    <3>3. stage' \in [Requests -> Stages] /\ faults' \in 0 .. MaxFaults
      BY <2>7, FaultsCount DEF MoveFails, MoveLost, TypeOK, Stages
    <3>4. UNCHANGED <<gone, moves, step, keys, chosen, total, moved>>
      BY <2>7 DEF MoveFails, MoveLost
    <3>5. QED
      BY <3>1, <3>2, <3>3, <3>4 DEF TypeOK, keys
  <2>8. ASSUME NEW r \in Requests, NEW k \in Keys, UidAdded(r, k) PROVE TypeOK'
    <3>1. AddUids(step[r][k][2] + 1) \in Steps
      BY <2>8, StepCounts, StepShapes DEF UidAdded, TypeOK
    <3>2. step' \in [Requests -> [Keys -> Steps]]
      BY <2>8, <3>1, GoesOnShapes DEF UidAdded, TypeOK
    <3>3. QED
      BY <2>8, <3>2, FaultsCount DEF UidAdded, TypeOK, deal
  <2>9. ASSUME NEW r \in Requests, NEW k \in Keys, SubKeyCreated(r, k) PROVE TypeOK'
    <3>1. CreateSubKeys(step[r][k][2] + 1) \in Steps
      BY <2>9, StepCounts, StepShapes DEF SubKeyCreated, TypeOK
    <3>2. step' \in [Requests -> [Keys -> Steps]]
      BY <2>9, <3>1, GoesOnShapes DEF SubKeyCreated, TypeOK
    <3>3. QED
      BY <2>9, <3>2, FaultsCount DEF SubKeyCreated, TypeOK, deal
  <2>10. ASSUME NEW r \in Requests, NEW k \in Keys, Found(r, k) PROVE TypeOK'
    <3>1. step' \in [Requests -> [Keys -> Steps]]
      BY <2>10, StepShapes, GoesOnShapes DEF Found, TypeOK
    <3>2. told' \in [Requests -> SUBSET Verdicts]
      BY <2>10, TellShapes DEF Found, TypeOK, Verdicts, FetchVerdict
    <3>3. QED
      BY <2>10, <3>1, <3>2 DEF Found, TypeOK, Stages, keys
  <2>11. ASSUME NEW r \in Requests, NEW k \in Keys, NotFound(r, k) PROVE TypeOK'
    <3>1. step' \in [Requests -> [Keys -> Steps]]
      BY <2>11, StepShapes, GoesOnShapes DEF NotFound, TypeOK
    <3>2. told' \in [Requests -> SUBSET Verdicts]
      BY <2>11, TellShapes DEF NotFound, TypeOK, Verdicts, FetchVerdict, Caught
    <3>3. QED
      BY <2>11, <3>1, <3>2, FaultsCount DEF NotFound, TypeOK, Stages, keys, deal
  <2>12. ASSUME NEW k \in Keys, DeleteSecretKey(k) PROVE TypeOK'
    BY <2>12 DEF DeleteSecretKey, TypeOK, deal
  <2>13. ASSUME NEW r \in Requests, ListThrows(r) PROVE TypeOK'
    BY <2>13 DEF ListThrows, TypeOK, Stages, keys, deal
  <2>14. ASSUME NEW r \in Requests, NEW k \in Keys, GetThrows(r, k) PROVE TypeOK'
    BY <2>14, StepShapes DEF GetThrows, TypeOK, keys, deal
  <2>15. CASE BareUid
    BY <2>15 DEF BareUid, TypeOK, deal
  <2>16. CASE UNCHANGED vars
    BY <2>16 DEF vars, TypeOK
  <2>17. QED
    BY <2>1, <2>2, <2>3, <2>4, <2>5, <2>6, <2>7, <2>8, <2>9, <2>10, <2>11, <2>12, <2>13,
       <2>14, <2>15, <2>16
       DEF Next, Task, Thread
<1>3. QED
  BY <1>1, <1>2, PTL DEF Spec
-----------------------------------------------------------------------------
(***************************************************************************)
(* ResolvedIsComplete.  Work in progress on a key that still exists is     *)
(* backed by the uids and subkeys gpg has, and nobody worked on a key      *)
(* before it was made.                                                     *)
(***************************************************************************)

\* A key that is still to be made is unknown.
Fresh ==
  \A r \in Requests : stage[r] \in {"none", "master"} =>
    /\ r \notin keyring
    /\ \A q \in Requests : step[q][r] = Idle /\ chosen[q] # r

\* A thread at step s has done what comes before s, if its key has u uids and
\* b subkeys.
Backed(s, u, b) ==
  /\ s[1] = "uids" => u >= s[2]
  /\ s[1] = "subs" => u >= NUids /\ b >= s[2]
  /\ s[1] = "get" => u >= NUids /\ b >= NSubs

WorkIsDone ==
  /\ \A k \in keyring : uids[k] >= 1
  /\ faults = 0 => \A r \in Requests, k \in keyring : Backed(step[r][k], uids[k], subs[k])

CompleteInv == Fresh /\ WorkIsDone /\ ResolvedIsComplete

\* The step after s is backed once the one more that s asked for was made.
LEMMA NextIsBacked ==
  ASSUME NEW u \in Nat, NEW b \in Nat
  PROVE  /\ \A n \in Nat : u >= n /\ n >= 1 => Backed(AddUids(n), u, b)
         /\ \A n \in Nat : u >= NUids /\ b >= n => Backed(CreateSubKeys(n), u, b)
<1>1. \A n \in Nat : u >= NUids /\ b >= n => Backed(CreateSubKeys(n), u, b)
  BY CountsAssumption DEF Backed, CreateSubKeys
<1>2. \A n \in Nat : u >= n /\ n >= 1 => Backed(AddUids(n), u, b)
  <2>2. SUFFICES ASSUME NEW n \in Nat, u >= n, n >= 1
                 PROVE  Backed(AddUids(n), u, b)
    OBVIOUS
  <2>3. CASE n < NUids
    BY <2>2, <2>3, CountsAssumption DEF Backed, AddUids
  <2>4. CASE n >= NUids
    BY <1>1, <2>2, <2>4, CountsAssumption DEF AddUids
  <2>5. QED
    BY <2>3, <2>4, CountsAssumption
<1>3. QED
  BY <1>1, <1>2

\* More uids and subkeys back what was backed.
LEMMA BackedGrows ==
  ASSUME NEW u \in Nat, NEW b \in Nat, NEW v \in Nat, NEW c \in Nat, NEW s \in Steps,
         Backed(s, u, b), v >= u, c >= b
  PROVE  Backed(s, v, c)
  BY CountsAssumption DEF Backed, Steps

\* Resting steps ask for nothing.
LEMMA RestIsBacked ==
  ASSUME NEW u, NEW b
  PROVE  /\ Backed(Idle, u, b) /\ Backed(<<"end", 0>>, u, b)
         /\ Backed(<<"dead", 0>>, u, b) /\ Backed(<<"unread", 0>>, u, b)
  BY DEF Backed, Idle

\* What a step other than the birth of key j does to the uids and subkeys of j.
LEMMA CountsGrow ==
  ASSUME TypeOK, [Next]_vars, NEW j \in Keys, j \in Requests => ~MasterDone(j)
  PROVE  uids'[j] >= uids[j] /\ subs'[j] >= subs[j] /\ (j \in keyring' => j \in keyring)
<1>1. ASSUME NEW r \in Requests, MasterDone(r)
      PROVE  uids'[j] >= uids[j] /\ subs'[j] >= subs[j] /\ (j \in keyring' => j \in keyring)
  <2>1. r # j
    BY <1>1
  <2>2. QED
    BY <1>1, <2>1 DEF MasterDone, TypeOK
<1>2. ASSUME NEW r \in Requests, NEW k \in Keys, UidAdded(r, k) \/ SubKeyCreated(r, k)
      PROVE  uids'[j] >= uids[j] /\ subs'[j] >= subs[j] /\ keyring' = keyring
  <2>1. uids' = uids \/ uids' = [uids EXCEPT ![k] = @ + 1]
    BY <1>2 DEF UidAdded, SubKeyCreated
  <2>2. subs' = subs \/ subs' = [subs EXCEPT ![k] = @ + 1]
    BY <1>2 DEF UidAdded, SubKeyCreated
  <2>3. keyring' = keyring
    BY <1>2 DEF UidAdded, SubKeyCreated
  <2>t. uids \in [Keys -> Nat] /\ subs \in [Keys -> Nat]
    BY DEF TypeOK
  <2>4. uids'[j] >= uids[j]
    BY <2>1, <2>t
  <2>5. subs'[j] >= subs[j]
    BY <2>2, <2>t
  <2>6. QED
    BY <2>3, <2>4, <2>5
<1>3. ASSUME NEW r \in Requests, NEW k \in Keys,
             Found(r, k) \/ NotFound(r, k) \/ GetThrows(r, k)
      PROVE  UNCHANGED keys
  BY <1>3 DEF Found, NotFound, GetThrows, keys
<1>4. ASSUME NEW r \in Requests,
             \/ Submit(r) \/ Disconnect(r) \/ ListThrows(r) \/ ListFails(r)
             \/ Listed(r) \/ MoveDone(r) \/ MoveFails(r) \/ MoveLost(r)
      PROVE  UNCHANGED keys
  BY <1>4 DEF Submit, Disconnect, ListThrows, ListFails, Listed, MoveDone, MoveFails,
              MoveLost
<1>5. ASSUME BareUid \/ \E k \in Keys : DeleteSecretKey(k)
      PROVE  UNCHANGED <<uids, subs>> /\ keyring' \subseteq keyring
  BY <1>5 DEF DeleteSecretKey, BareUid
<1>6. UNCHANGED vars => UNCHANGED keys
  BY DEF vars, keys
<1>7. UNCHANGED keys => uids'[j] >= uids[j] /\ subs'[j] >= subs[j] /\ keyring' = keyring
  BY DEF keys, TypeOK
<1>8. UNCHANGED <<uids, subs>> => uids'[j] >= uids[j] /\ subs'[j] >= subs[j]
  BY DEF TypeOK
<1>9. QED
  BY <1>1, <1>2, <1>3, <1>4, <1>5, <1>6, <1>7, <1>8 DEF Next, Task, Thread

\* While no run fails, faults stay at zero before and after.
LEMMA FaultsGrow ==
  ASSUME TypeOK, [Next]_vars, faults' = 0
  PROVE  faults = 0
<1>1. \A ok \in BOOLEAN : GpgRuns(ok) => faults = 0
  BY FaultsCount DEF TypeOK
<1>2. ASSUME NEW r \in Requests, NEW k \in Keys, Thread(r, k) PROVE faults = 0
  BY <1>1, <1>2 DEF Thread, UidAdded, SubKeyCreated, GetThrows, Found, NotFound
<1>3. ASSUME NEW r \in Requests, Task(r) PROVE faults = 0
  <2>1. \/ faults' = faults
        \/ \E ok \in BOOLEAN : GpgRuns(ok)
    BY <1>3 DEF Task, MasterDone, ListThrows, ListFails, Listed, MoveDone, MoveFails, MoveLost
  <2>2. QED
    BY <1>1, <2>1
<1>4. ASSUME NEW r \in Requests, Submit(r) \/ Disconnect(r) PROVE faults = 0
  BY <1>4 DEF Submit, Disconnect
<1>5. ASSUME BareUid \/ \E k \in Keys : DeleteSecretKey(k) PROVE faults = 0
  BY <1>5 DEF DeleteSecretKey, BareUid
<1>6. QED
  BY <1>2, <1>3, <1>4, <1>5 DEF Next, vars

\* The keyring, the threads and the chosen keys of a key that is not there yet.
LEMMA FreshStays ==
  TypeOK /\ Fresh /\ [Next]_vars => Fresh'
<1> SUFFICES ASSUME TypeOK, Fresh, [Next]_vars, NEW r \in Requests,
                    stage'[r] \in {"none", "master"}
             PROVE  /\ r \notin keyring'
                    /\ \A q \in Requests : step'[q][r] = Idle /\ chosen'[q] # r
  BY DEF Fresh
<1>k. r \in Keys
  BY DEF Keys
<1>a. ASSUME stage[r] \in {"none", "master"}
      PROVE  r \notin keyring /\ \A q \in Requests : step[q][r] = Idle /\ chosen[q] # r
  BY <1>a DEF Fresh
<1>1. ASSUME NEW q \in Requests, Submit(q)
      PROVE  /\ stage[r] \in {"none", "master"}
             /\ UNCHANGED <<keyring, step, chosen>>
  BY <1>1 DEF Submit, keys, deal, TypeOK
<1>2. ASSUME NEW q \in Requests, MasterDone(q)
      PROVE  /\ stage[r] \in {"none", "master"} /\ r # q
             /\ keyring' \subseteq keyring \cup {q} /\ UNCHANGED <<step, chosen>>
  BY <1>2 DEF MasterDone, deal, TypeOK
<1>3. ASSUME NEW q \in Requests,
             \/ ListThrows(q) \/ ListFails(q) \/ Disconnect(q)
             \/ MoveDone(q) \/ MoveFails(q) \/ MoveLost(q)
      PROVE  /\ stage[r] \in {"none", "master"}
             /\ UNCHANGED <<keyring, step, chosen>>
  <2>1. UNCHANGED <<keyring, step, chosen>>
    BY <1>3 DEF ListThrows, ListFails, MoveDone, MoveFails, MoveLost, Disconnect, keys, deal
  <2>2. \/ stage' = stage
        \/ \E n : stage' = [stage EXCEPT ![q] = AfterMove(q, n)]
        \/ \E s \in {"unread", "rejected", "failed", "lost"} : stage' = [stage EXCEPT ![q] = s]
    BY <1>3 DEF ListThrows, ListFails, MoveDone, MoveFails, MoveLost, Disconnect
  <2>3. \A n : AfterMove(q, n) \in {"failed", "moving", "done"}
    BY DEF AfterMove
  <2>4. QED
    BY <2>1, <2>2, <2>3 DEF TypeOK
<1>4. ASSUME NEW q \in Requests, Listed(q)
      PROVE  /\ stage[r] \in {"none", "master"}
             /\ UNCHANGED <<keyring, chosen>>
             /\ r \notin keyring => \A p \in Requests : step'[p][r] \in {step[p][r], Idle}
  <2> DEFINE row == [k \in Keys |-> IF k \in keyring THEN AddUids(1) ELSE Idle]
  <2>1. stage[r] \in {"none", "master"} /\ UNCHANGED <<keyring, chosen>>
    BY <1>4 DEF Listed, keys, deal, TypeOK
  <2>2. step' = step \/ step' = [step EXCEPT ![q] = row]
    BY <1>4 DEF Listed
  <2>3. r \notin keyring => row[r] = Idle
    BY <1>k
  <2> HIDE DEF row
  <2>4. r \notin keyring => \A p \in Requests : step'[p][r] \in {step[p][r], Idle}
    BY <2>2, <2>3 DEF TypeOK
  <2>5. QED
    BY <2>1, <2>4
<1>5. ASSUME NEW q \in Requests, NEW k \in Keys, Thread(q, k)
      PROVE  /\ stage[r] \in {"none", "master"}
             /\ UNCHANGED keyring
             /\ step[q][k] # Idle
             /\ k # r => \A p \in Requests : step'[p][r] = step[p][r]
             /\ \A p \in Requests : chosen'[p] \in {chosen[p], k}
  <2>1. stage[r] \in {"none", "master"} /\ UNCHANGED keyring
    BY <1>5 DEF Thread, UidAdded, SubKeyCreated, GetThrows, Found, NotFound, keys, TypeOK
  <2>2. step[q][k] # Idle
    <3>1. UidAdded(q, k) \/ SubKeyCreated(q, k) => step[q][k][1] \in {"uids", "subs"}
      BY DEF UidAdded, SubKeyCreated
    <3>2. Found(q, k) \/ NotFound(q, k) \/ GetThrows(q, k) => step[q][k] = <<"get", 0>>
      BY DEF Found, NotFound, GetThrows
    <3>3. Idle[1] = "none" /\ <<"get", 0>>[1] = "get"
      BY DEF Idle
    <3>4. QED
      BY <1>5, <3>1, <3>2, <3>3 DEF Thread
  <2>3. PICK s : step' = [step EXCEPT ![q][k] = s]
    BY <1>5 DEF Thread, UidAdded, SubKeyCreated, GetThrows, Found, NotFound, GoesOn
  <2>4. k # r => \A p \in Requests : step'[p][r] = step[p][r]
    BY <2>3, <1>k DEF TypeOK
  <2>5. \A p \in Requests : chosen'[p] \in {chosen[p], k}
    BY <1>5 DEF Thread, UidAdded, SubKeyCreated, GetThrows, Found, NotFound, deal, TypeOK
  <2>6. QED
    BY <2>1, <2>2, <2>4, <2>5
<1>6. ASSUME BareUid \/ \E k \in Keys : DeleteSecretKey(k)
      PROVE  /\ stage[r] \in {"none", "master"} /\ keyring' \subseteq keyring
             /\ UNCHANGED <<step, chosen>>
  BY <1>6 DEF DeleteSecretKey, BareUid, deal
<1>7. CASE UNCHANGED vars
  BY <1>7, <1>a DEF vars
<1>8. CASE \E q \in Requests :
             \/ Submit(q) \/ ListThrows(q) \/ ListFails(q) \/ Disconnect(q)
             \/ MoveDone(q) \/ MoveFails(q) \/ MoveLost(q)
  BY <1>8, <1>1, <1>3, <1>a
<1>9. CASE \E q \in Requests : MasterDone(q)
  BY <1>9, <1>2, <1>a
<1>10. CASE \E q \in Requests : Listed(q)
  BY <1>10, <1>4, <1>a
<1>11. CASE \E q \in Requests, k \in Keys : Thread(q, k)
  <2>1. PICK q \in Requests, k \in Keys : Thread(q, k)
    BY <1>11
  <2>2. k # r
    BY <2>1, <1>5, <1>a
  <2>3. QED
    BY <2>1, <2>2, <1>5, <1>a
<1>12. CASE BareUid \/ \E k \in Keys : DeleteSecretKey(k)
  BY <1>12, <1>6, <1>a
<1>13. QED
  BY <1>7, <1>8, <1>9, <1>10, <1>11, <1>12 DEF Next, Task

\* A thread that goes on has made what its step asked for.
LEMMA GoingOnIsBacked ==
  ASSUME TypeOK, TypeOK', WorkIsDone, [Next]_vars, faults' = 0,
         NEW r \in Requests, NEW k \in Keys, k \in keyring, Thread(r, k)
  PROVE  Backed(step'[r][k], uids'[k], subs'[k])
<1>1. faults = 0
  BY FaultsGrow
<1>2. Backed(step[r][k], uids[k], subs[k])
  BY <1>1 DEF WorkIsDone
<1>3. /\ uids[k] \in Nat /\ subs[k] \in Nat /\ uids'[k] \in Nat /\ subs'[k] \in Nat
      /\ step \in [Requests -> [Keys -> Steps]] /\ step[r][k] \in Steps
  BY DEF TypeOK
<1>4. ASSUME NEW s \in Steps, GoesOn(r, k, s), Backed(s, uids'[k], subs'[k])
      PROVE  Backed(step'[r][k], uids'[k], subs'[k])
  <2>1. step'[r][k] \in {s, <<"dead", 0>>}
    BY <1>3, <1>4, GoesOnShapes
  <2>2. QED
    BY <2>1, <1>4, RestIsBacked
<1>5. CASE UidAdded(r, k)
  <2> DEFINE n == step[r][k][2]
  <2>1. n \in Nat /\ n >= 1 /\ n + 1 \in Nat \ {0} /\ uids[k] >= n
    BY <1>2, <1>3, <1>5, CountsAssumption DEF UidAdded, Backed, Steps
  <2>2. uids'[k] = uids[k] + 1 /\ subs'[k] = subs[k]
    <3>1. uids' = [uids EXCEPT ![k] = @ + 1] /\ subs' = subs
      BY <1>5, <1>1, FaultsCount DEF UidAdded, TypeOK
    <3>2. QED
      BY <3>1 DEF TypeOK
  <2>3. GoesOn(r, k, AddUids(n + 1)) /\ AddUids(n + 1) \in Steps
    BY <1>5, <2>1, StepShapes DEF UidAdded
  <2>4. uids'[k] >= n + 1 /\ n + 1 >= 1
    BY <2>1, <2>2, <1>3
  <2> HIDE DEF n
  <2>5. Backed(AddUids(n + 1), uids'[k], subs'[k])
    BY <2>1, <2>4, <1>3, NextIsBacked
  <2>6. QED
    BY <2>3, <2>5, <1>4
<1>6. CASE SubKeyCreated(r, k)
  <2> DEFINE n == step[r][k][2]
  <2>1. n \in Nat /\ n + 1 \in Nat /\ uids[k] >= NUids /\ subs[k] >= n
    BY <1>2, <1>3, <1>6, CountsAssumption DEF SubKeyCreated, Backed, Steps
  <2>2. uids'[k] = uids[k] /\ subs'[k] = subs[k] + 1
    <3>1. subs' = [subs EXCEPT ![k] = @ + 1] /\ uids' = uids
      BY <1>6, <1>1, FaultsCount DEF SubKeyCreated, TypeOK
    <3>2. QED
      BY <3>1 DEF TypeOK
  <2>3. GoesOn(r, k, CreateSubKeys(n + 1)) /\ CreateSubKeys(n + 1) \in Steps
    BY <1>6, <2>1, StepShapes DEF SubKeyCreated
  <2>4. uids'[k] >= NUids /\ subs'[k] >= n + 1
    BY <2>1, <2>2, <1>3
  <2> HIDE DEF n
  <2>5. Backed(CreateSubKeys(n + 1), uids'[k], subs'[k])
    BY <2>1, <2>4, <1>3, NextIsBacked
  <2>6. QED
    BY <2>3, <2>5, <1>4
<1>7. CASE Found(r, k) \/ NotFound(r, k)
  <2>1. GoesOn(r, k, <<"end", 0>>)
    BY <1>7 DEF Found, NotFound
  <2>2. QED
    BY <2>1, <1>4, StepShapes, RestIsBacked
<1>8. CASE GetThrows(r, k)
  <2>1. step'[r][k] = <<"unread", 0>>
    BY <1>8, <1>3 DEF GetThrows
  <2>2. QED
    BY <2>1, RestIsBacked
<1>9. QED
  BY <1>5, <1>6, <1>7, <1>8 DEF Thread

\* A step of the threads of other keys and requests leaves a thread alone,
\* or starts it.
LEMMA OthersStay ==
  ASSUME TypeOK, [Next]_vars, NEW r \in Requests, NEW k \in Keys, ~Thread(r, k)
  PROVE  \/ step'[r][k] = step[r][k]
         \/ step'[r][k] = Idle
         \/ step'[r][k] = AddUids(1) /\ UNCHANGED keys
<1>t. step \in [Requests -> [Keys -> Steps]]
  BY DEF TypeOK
<1>1. ASSUME NEW q \in Requests, Listed(q)
      PROVE  \/ step'[r][k] = step[r][k]
             \/ step'[r][k] = Idle
             \/ step'[r][k] = AddUids(1) /\ UNCHANGED keys
  <2> DEFINE row == [j \in Keys |-> IF j \in keyring THEN AddUids(1) ELSE Idle]
  <2>1. step' = step \/ step' = [step EXCEPT ![q] = row]
    BY <1>1 DEF Listed
  <2>2. row[k] \in {AddUids(1), Idle} /\ UNCHANGED keys
    BY <1>1 DEF Listed
  <2> HIDE DEF row
  <2>3. QED
    BY <2>1, <2>2, <1>t
<1>2. ASSUME NEW q \in Requests, NEW j \in Keys, Thread(q, j)
      PROVE  step'[r][k] = step[r][k]
  <2>1. PICK s : step' = [step EXCEPT ![q][j] = s]
    BY <1>2 DEF Thread, UidAdded, SubKeyCreated, GetThrows, Found, NotFound, GoesOn
  <2>2. q # r \/ j # k
    BY <1>2
  <2>3. QED
    BY <2>1, <2>2, <1>t
<1>3. ASSUME NEW q \in Requests,
             \/ Submit(q) \/ Disconnect(q) \/ MasterDone(q) \/ ListThrows(q)
             \/ ListFails(q) \/ MoveDone(q) \/ MoveFails(q) \/ MoveLost(q)
      PROVE  step' = step
  BY <1>3 DEF Submit, Disconnect, MasterDone, ListThrows, ListFails, MoveDone, MoveFails,
              MoveLost
<1>4. ASSUME BareUid \/ \E j \in Keys : DeleteSecretKey(j) PROVE step' = step
  BY <1>4 DEF DeleteSecretKey, BareUid
<1>5. QED
  BY <1>1, <1>2, <1>3, <1>4 DEF Next, Task, vars

\* Work in progress stays backed.
LEMMA WorkStaysDone ==
  TypeOK /\ TypeOK' /\ Fresh /\ WorkIsDone /\ [Next]_vars => WorkIsDone'
<1> SUFFICES ASSUME TypeOK, TypeOK', Fresh, WorkIsDone, [Next]_vars PROVE WorkIsDone'
  OBVIOUS
<1>t. /\ uids \in [Keys -> Nat] /\ subs \in [Keys -> Nat] /\ keyring \subseteq Keys
      /\ uids' \in [Keys -> Nat] /\ subs' \in [Keys -> Nat] /\ keyring' \subseteq Keys
      /\ step \in [Requests -> [Keys -> Steps]] /\ step' \in [Requests -> [Keys -> Steps]]
  BY DEF TypeOK
<1>1. ASSUME NEW k \in keyring' PROVE uids'[k] >= 1
  <2>1. CASE k \in Requests /\ MasterDone(k)
    <3>1. k \notin keyring
      BY <2>1 DEF MasterDone, Fresh
    <3>2. uids' = [uids EXCEPT ![k] = 1]
      BY <2>1, <3>1, <1>1 DEF MasterDone
    <3>3. QED
      BY <3>2, <1>1, <1>t
  <2>2. CASE ~(k \in Requests /\ MasterDone(k))
    <3>1. uids'[k] >= uids[k] /\ k \in keyring
      BY <2>2, <1>1, <1>t, CountsGrow
    <3>2. QED
      BY <3>1, <1>t DEF WorkIsDone
  <2>3. QED
    BY <2>1, <2>2
<1>2. ASSUME faults' = 0, NEW r \in Requests, NEW k \in keyring'
      PROVE  Backed(step'[r][k], uids'[k], subs'[k])
  <2>k. k \in Keys
    BY <1>t, <1>2
  <2>1. CASE k \in Requests /\ MasterDone(k)
    <3>1. step[r][k] = Idle /\ step' = step
      BY <2>1 DEF MasterDone, Fresh
    <3>2. QED
      BY <3>1, RestIsBacked
  <2>2. CASE ~(k \in Requests /\ MasterDone(k))
    <3>1. uids'[k] >= uids[k] /\ subs'[k] >= subs[k] /\ k \in keyring
      BY <2>2, <2>k, <1>2, CountsGrow
    <3>2. CASE Thread(r, k)
      BY <3>1, <3>2, <2>k, <1>2, GoingOnIsBacked
    <3>3. CASE ~Thread(r, k) /\ step'[r][k] = step[r][k]
      <4>1. Backed(step[r][k], uids[k], subs[k])
        BY <3>1, <1>2, FaultsGrow DEF WorkIsDone
      <4>2. step[r][k] \in Steps
        BY <1>t, <2>k
      <4>3. QED
        BY <3>1, <3>3, <4>1, <4>2, <1>t, <2>k, BackedGrows
    <3>4. CASE step'[r][k] = Idle
      BY <3>4, RestIsBacked
    <3>5. CASE step'[r][k] = AddUids(1) /\ UNCHANGED keys
      <4>1. uids'[k] >= 1
        BY <1>1, <1>2
      <4>2. QED
        BY <3>5, <4>1, <1>t, <2>k, NextIsBacked
    <3>6. QED
      BY <3>2, <3>3, <3>4, <3>5, <2>k, OthersStay
  <2>3. QED
    BY <2>1, <2>2
<1>3. QED
  BY <1>1, <1>2 DEF WorkIsDone

\* A promise that is resolved stays so with the same key and count; the one
\* that is resolved now is resolved with a key that is complete.
LEMMA ResolvedStaysComplete ==
  TypeOK /\ TypeOK' /\ CompleteInv /\ [Next]_vars => ResolvedIsComplete'
<1> SUFFICES ASSUME TypeOK, TypeOK', CompleteInv, [Next]_vars, faults' = 0,
                    NEW r \in Requests, Resolved(r)'
             PROVE  total'[r] >= NSubs /\ uids'[chosen'[r]] >= NUids
  BY DEF ResolvedIsComplete, CompleteInv
<1>t. /\ uids \in [Keys -> Nat] /\ uids' \in [Keys -> Nat]
      /\ chosen \in [Requests -> Keys \cup {Vacant}] /\ total \in [Requests -> Nat]
      /\ total' \in [Requests -> Nat] /\ subs \in [Keys -> Nat]
  BY DEF TypeOK
<1>f. faults = 0
  BY FaultsGrow
<1>1. CASE chosen'[r] = chosen[r] /\ total'[r] = total[r]
  <2> DEFINE c == chosen[r]
  <2>1. c \in Keys /\ total[r] >= NSubs /\ uids[c] >= NUids
    BY <1>1, <1>t, <1>f DEF Resolved, ResolvedIsComplete, CompleteInv
  <2>2. c \in Requests => ~MasterDone(c)
    BY DEF CompleteInv, Fresh, MasterDone
  <2>3. uids'[c] >= uids[c]
    BY <2>1, <2>2, CountsGrow
  <2>4. QED
    BY <1>1, <1>t, <2>1, <2>3, CountsAssumption
<1>2. CASE \E k \in Keys : Found(r, k) /\ Settles(r) /\ r \notin gone
  <2>1. PICK k \in Keys : Found(r, k) /\ Settles(r) /\ r \notin gone
    BY <1>2
  <2>2. chosen'[r] = k /\ total'[r] = subs[k] /\ uids' = uids
    BY <2>1, <1>t DEF Found, keys
  <2>3. step[r][k] = <<"get", 0>> /\ k \in keyring
    BY <2>1 DEF Found
  <2>4. Backed(<<"get", 0>>, uids[k], subs[k])
    BY <2>1, <2>3, <1>f DEF CompleteInv, WorkIsDone
  <2>5. QED
    BY <2>2, <2>4 DEF Backed
<1>3. chosen'[r] # chosen[r] \/ total'[r] # total[r]
      => \E k \in Keys : Found(r, k) /\ Settles(r) /\ r \notin gone
  <2>1. ASSUME NEW q \in Requests, NEW k \in Keys, Thread(q, k),
               ~(q = r /\ Found(r, k) /\ Settles(r) /\ r \notin gone)
        PROVE  chosen'[r] = chosen[r] /\ total'[r] = total[r]
    <3>1. CASE Found(q, k)
      BY <2>1, <3>1, <1>t DEF Found
    <3>2. CASE ~Found(q, k)
      BY <2>1, <3>2 DEF Thread, UidAdded, SubKeyCreated, GetThrows, NotFound, deal
    <3>3. QED
      BY <3>1, <3>2
  <2>2. ASSUME NEW q \in Requests, Submit(q) \/ Disconnect(q) \/ Task(q)
        PROVE  chosen' = chosen /\ total' = total
    BY <2>2 DEF Submit, Disconnect, Task, MasterDone, ListThrows, ListFails, Listed,
                MoveDone, MoveFails, MoveLost, deal
  <2>3. ASSUME BareUid \/ \E k \in Keys : DeleteSecretKey(k)
        PROVE  chosen' = chosen /\ total' = total
    BY <2>3 DEF DeleteSecretKey, BareUid, deal
  <2>4. QED
    BY <2>1, <2>2, <2>3 DEF Next, vars
<1>4. QED
  BY <1>1, <1>2, <1>3

\* While gpg does not fail, a promise is resolved only with a complete key, in
\* any interleaving of requests on the same keys, deletions and disconnects.
THEOREM ResolvedComplete == Spec => []ResolvedIsComplete
<1>1. Init => CompleteInv
  <2> SUFFICES ASSUME Init PROVE CompleteInv
    OBVIOUS
  <2>1. Fresh
    BY KeysAssumption DEF Init, Fresh, Keys
  <2>2. \A r \in Requests, k \in Keys : step[r][k] = Idle
    BY DEF Init
  <2>3. WorkIsDone
    BY <2>2, RestIsBacked DEF Init, WorkIsDone, Keys
  <2>4. ResolvedIsComplete
    BY DEF Init, ResolvedIsComplete, Resolved
  <2>5. QED
    BY <2>1, <2>3, <2>4 DEF CompleteInv
<1>2. TypeOK /\ TypeOK' /\ CompleteInv /\ [Next]_vars => CompleteInv'
  BY FreshStays, WorkStaysDone, ResolvedStaysComplete DEF CompleteInv
<1>3. CompleteInv => ResolvedIsComplete
  BY DEF CompleteInv
<1>4. QED
  BY <1>1, <1>2, <1>3, TypeCorrect, PTL DEF Spec

-----------------------------------------------------------------------------
(***************************************************************************)
(* Transfer.  A step of the request that moves, and only such a step,      *)
(* changes what the observers see.                                         *)
(***************************************************************************)

Seen == [r \in Requests |-> TransferOf(r)]

\* The view of one request follows its stage.
LEMMA SeenFollowsStage ==
  /\ \A r \in Requests : stage'[r] = stage[r] => TransferOf(r)' = TransferOf(r)
  /\ stage' = stage => Seen' = Seen
<1>1. \A r \in Requests : stage'[r] = stage[r] => TransferOf(r)' = TransferOf(r)
  BY DEF TransferOf
<1>2. QED
  BY <1>1 DEF Seen

\* A step of one stage is a step of one transfer.
LEMMA OneStage ==
  ASSUME NEW r \in Requests, NEW s, stage \in [Requests -> Stages],
         stage' = [stage EXCEPT ![r] = s]
  PROVE  /\ stage'[r] = s
         /\ Seen' = [Seen EXCEPT ![r] = TransferOf(r)']
<1>1. \A q \in Requests : q # r => TransferOf(q)' = TransferOf(q)
  BY DEF TransferOf
<1>2. QED
  BY <1>1 DEF Seen

\* Stages the observers see nothing of.
Unseen == {"none", "master", "list", "unread", "keys", "resolved", "rejected", "dead"}

\* From one unseen stage to another nothing is seen.
LEMMA UnseenStutters ==
  ASSUME NEW r \in Requests, NEW s \in Unseen, stage \in [Requests -> Stages],
         stage[r] \in Unseen, stage' = [stage EXCEPT ![r] = s]
  PROVE  Seen' = Seen
<1>1. TransferOf(r) = "none" /\ TransferOf(r)' = "none"
  BY DEF TransferOf, Unseen
<1>2. QED
  BY <1>1, OneStage DEF Seen

\* What the observers see of the requests are transfers as Transfer has them:
\* one start with its suspend, one end with its resume or none.
THEOREM Refinement == Spec => ImplementsTransfer
<1>1. Init => T!Init
  BY DEF Init, T!Init, TransferOf
<1>2. TypeOK /\ [Next]_vars => [T!Next]_Seen
  <2> SUFFICES ASSUME TypeOK, [Next]_vars PROVE T!Next \/ Seen' = Seen
    OBVIOUS
  <2>t. stage \in [Requests -> Stages]
    BY DEF TypeOK
  <2>1. ASSUME NEW r \in Requests,
               Submit(r) \/ MasterDone(r) \/ ListThrows(r) \/ ListFails(r) \/ Listed(r)
        PROVE  Seen' = Seen
    <3>1. stage[r] \in Unseen
      BY <2>1 DEF Submit, MasterDone, ListThrows, ListFails, Listed, Unseen
    <3>2. PICK s \in Unseen : stage' = [stage EXCEPT ![r] = s]
      BY <2>1 DEF Submit, MasterDone, ListThrows, ListFails, Listed, Unseen
    <3>3. QED
      BY <3>1, <3>2, <2>t, UnseenStutters
  <2>2. ASSUME NEW r \in Requests, NEW k \in Keys, NotFound(r, k)
        PROVE  Seen' = Seen
    <3>1. CASE r \notin gone /\ Settles(r)
      <4>1. stage[r] \in Unseen /\ stage' = [stage EXCEPT ![r] = "rejected"]
        BY <2>2, <3>1 DEF NotFound, Settles, Unseen
      <4>2. QED
        BY <4>1, <2>t, UnseenStutters DEF Unseen
    <3>2. CASE ~(r \notin gone /\ Settles(r))
      BY <2>2, <3>2, <2>t, SeenFollowsStage DEF NotFound
    <3>3. QED
      BY <3>1, <3>2
  <2>3. ASSUME NEW r \in Requests, NEW k \in Keys, Found(r, k)
        PROVE  T!Next \/ Seen' = Seen
    <3>1. CASE r \notin gone /\ Settles(r)
      <4>1. PICK s \in {"resolved", "moving", "done"} : stage' = [stage EXCEPT ![r] = s]
        BY <2>3, <3>1 DEF Found
      <4>2. TransferOf(r) = "none" /\ Seen[r] = "none"
        BY <3>1 DEF Settles, TransferOf, Seen
      <4>3. /\ Seen' = [Seen EXCEPT ![r] = TransferOf(r)']
            /\ TransferOf(r)' \in {"none", "moving", "done"}
        BY <4>1, <2>t, OneStage DEF TransferOf
      <4>4. CASE TransferOf(r)' = "none"
        BY <4>2, <4>3, <4>4 DEF Seen
      <4>5. CASE TransferOf(r)' = "moving"
        BY <4>2, <4>3, <4>5 DEF Seen, T!Next, T!Start
      <4>6. CASE TransferOf(r)' = "done"
        BY <4>2, <4>3, <4>6 DEF Seen, T!Next, T!Pass
      <4>7. QED
        BY <4>3, <4>4, <4>5, <4>6
    <3>2. CASE ~(r \notin gone /\ Settles(r))
      BY <2>3, <3>2, <2>t, SeenFollowsStage DEF Found
    <3>3. QED
      BY <3>1, <3>2
  <2>4. ASSUME NEW r \in Requests, MoveDone(r) \/ MoveFails(r) \/ MoveLost(r)
        PROVE  T!Next \/ Seen' = Seen
    <3>1. PICK s \in {"moving", "done", "failed", "lost"} : stage' = [stage EXCEPT ![r] = s]
      <4>1. \A n : AfterMove(r, n) \in {"moving", "done", "failed"}
        BY DEF AfterMove
      <4>2. QED
        BY <2>4, <4>1 DEF MoveDone, MoveFails, MoveLost
    <3>2. TransferOf(r) = "moving" /\ Seen[r] = "moving"
      BY <2>4 DEF MoveDone, MoveFails, MoveLost, TransferOf, Seen
    <3>3. /\ Seen' = [Seen EXCEPT ![r] = TransferOf(r)']
          /\ TransferOf(r)' \in {"moving", "done", "failed"}
      BY <3>1, <2>t, OneStage DEF TransferOf
    <3>4. CASE TransferOf(r)' = "moving"
      BY <3>2, <3>3, <3>4 DEF Seen
    <3>5. CASE TransferOf(r)' = "done"
      BY <3>2, <3>3, <3>5 DEF Seen, T!Next, T!Finish
    <3>6. CASE TransferOf(r)' = "failed"
      BY <3>2, <3>3, <3>6 DEF Seen, T!Next, T!Fail
    <3>7. QED
      BY <3>3, <3>4, <3>5, <3>6
  <2>5. ASSUME NEW r \in Requests, NEW k \in Keys,
               UidAdded(r, k) \/ SubKeyCreated(r, k) \/ GetThrows(r, k)
        PROVE  stage' = stage
    BY <2>5 DEF UidAdded, SubKeyCreated, GetThrows
  <2>6. BareUid \/ (\E r \in Requests : Disconnect(r)) \/ (\E k \in Keys : DeleteSecretKey(k))
          => stage' = stage
    BY DEF BareUid, Disconnect, DeleteSecretKey
  <2>7. QED
    BY <2>1, <2>2, <2>3, <2>4, <2>5, <2>6, SeenFollowsStage DEF Next, Task, Thread, vars
<1>3. QED
  BY <1>1, <1>2, TypeCorrect, PTL DEF Spec, ImplementsTransfer, T!Spec, Seen

-----------------------------------------------------------------------------
(***************************************************************************)
(* NoMoveAfterReject.                                                      *)
(***************************************************************************)

\* Only a request whose promise was resolved moved anything, and one that was
\* told it was refused or aborted is rejected for good.
RejectInv ==
  \A r \in Requests :
    /\ stage[r] \in Unseen => moved[r] = 0
    /\ told[r] \cap {"invalid", "aborted"} # {} => stage[r] = "rejected"

\* A verdict adds to what was told, or not.
LEMMA ToldOf ==
  ASSUME told \in [Requests -> SUBSET Verdicts], NEW q \in Requests,
         NEW S \in SUBSET Verdicts, Tell(q, S), NEW r \in Requests,
         told'[r] \cap {"invalid", "aborted"} # {}
  PROVE  \/ told[r] \cap {"invalid", "aborted"} # {}
         \/ q = r /\ S \cap {"invalid", "aborted"} # {} /\ r \notin gone
  BY DEF Tell

\* A browser that was told of a refused or aborted request sees no key moved
\* for it later on, whatever its other threads do.
THEOREM RejectedForGood == Spec => []NoMoveAfterReject
<1>1. Init => RejectInv
  BY DEF Init, RejectInv
<1>2. TypeOK /\ RejectInv /\ [Next]_vars => RejectInv'
  <2> SUFFICES ASSUME TypeOK, RejectInv, [Next]_vars, NEW r \in Requests
               PROVE  /\ stage'[r] \in Unseen => moved'[r] = 0
                      /\ told'[r] \cap {"invalid", "aborted"} # {} => stage'[r] = "rejected"
    BY DEF RejectInv
  <2>t. /\ stage \in [Requests -> Stages] /\ told \in [Requests -> SUBSET Verdicts]
        /\ moved \in [Requests -> Nat]
    BY DEF TypeOK
  <2>i. /\ stage[r] \in Unseen => moved[r] = 0
        /\ told[r] \cap {"invalid", "aborted"} # {} => stage[r] = "rejected"
    BY DEF RejectInv
  <2>c. "rejected" \in Unseen
    BY DEF Unseen
  <2>1. ASSUME NEW q \in Requests, Submit(q)
        PROVE  /\ stage'[r] \in Unseen => moved'[r] = 0
               /\ told'[r] \cap {"invalid", "aborted"} # {} => stage'[r] = "rejected"
    <3>1. PICK valid \in BOOLEAN :
            /\ stage' = [stage EXCEPT ![q] = IF valid THEN "master" ELSE "rejected"]
            /\ Tell(q, IF valid THEN {} ELSE {"invalid"})
      BY <2>1 DEF Submit
    <3>2. stage[q] = "none" /\ moved' = moved /\ "none" \in Unseen
      BY <2>1 DEF Submit, deal, Unseen
    <3>3. stage'[r] \in Unseen => moved'[r] = 0
      BY <3>1, <3>2, <2>i, <2>t
    <3>4. CASE valid
      BY <3>1, <3>2, <3>3, <3>4, <2>i, <2>t, ToldOf DEF Verdicts
    <3>5. CASE ~valid
      BY <3>1, <3>2, <3>3, <3>5, <2>i, <2>t, ToldOf DEF Verdicts
    <3>6. QED
      BY <3>4, <3>5
  <2>2. ASSUME NEW q \in Requests, MasterDone(q) \/ ListThrows(q) \/ Listed(q)
        PROVE  /\ stage'[r] \in Unseen => moved'[r] = 0
               /\ told'[r] \cap {"invalid", "aborted"} # {} => stage'[r] = "rejected"
    <3>1. stage[q] \in {"master", "list"} /\ moved' = moved /\ told' = told
      BY <2>2 DEF MasterDone, ListThrows, Listed, deal
    <3>2. PICK s : stage' = [stage EXCEPT ![q] = s]
      BY <2>2 DEF MasterDone, ListThrows, Listed
    <3>3. QED
      BY <3>1, <3>2, <2>i, <2>t DEF Unseen
  <2>3. ASSUME NEW q \in Requests, ListFails(q)
        PROVE  /\ stage'[r] \in Unseen => moved'[r] = 0
               /\ told'[r] \cap {"invalid", "aborted"} # {} => stage'[r] = "rejected"
    <3>1. /\ stage[q] = "list" /\ moved' = moved /\ Tell(q, Caught(q))
          /\ stage' = [stage EXCEPT ![q] = "rejected"] /\ Caught(q) \in SUBSET Verdicts
      BY <2>3 DEF ListFails, deal, Caught, Verdicts
    <3>2. stage'[r] \in Unseen => moved'[r] = 0
      BY <3>1, <2>i, <2>t DEF Unseen
    <3>3. QED
      BY <3>1, <3>2, <2>i, <2>t, ToldOf
  <2>4. ASSUME NEW q \in Requests, NEW k \in Keys, NotFound(q, k)
        PROVE  /\ stage'[r] \in Unseen => moved'[r] = 0
               /\ told'[r] \cap {"invalid", "aborted"} # {} => stage'[r] = "rejected"
    <3> DEFINE S == FetchVerdict(FALSE) \cup IF Settles(q) THEN Caught(q) ELSE {}
    <3>1. /\ moved' = moved /\ Tell(q, S) /\ S \in SUBSET Verdicts
          /\ stage' = [stage EXCEPT ![q] =
               IF q \notin gone /\ Settles(q) THEN "rejected" ELSE @]
      BY <2>4 DEF NotFound, deal, Caught, FetchVerdict, Verdicts
    <3>2. S \cap {"invalid", "aborted"} # {} => Settles(q)
      BY DEF FetchVerdict
    <3> HIDE DEF S
    <3>3. stage'[r] \in Unseen => moved'[r] = 0
      BY <3>1, <2>i, <2>t DEF Unseen, Settles
    <3>4. QED
      BY <3>1, <3>2, <3>3, <2>i, <2>t, ToldOf
  <2>5. ASSUME NEW q \in Requests, NEW k \in Keys, Found(q, k)
        PROVE  /\ stage'[r] \in Unseen => moved'[r] = 0
               /\ told'[r] \cap {"invalid", "aborted"} # {} => stage'[r] = "rejected"
    <3>1. PICK S \in SUBSET Verdicts : Tell(q, S) /\ S \cap {"invalid", "aborted"} = {}
      BY <2>5 DEF Found, FetchVerdict, Verdicts
    <3>2. moved' = moved
      BY <2>5 DEF Found
    <3>3. told'[r] \cap {"invalid", "aborted"} # {}
            => told[r] \cap {"invalid", "aborted"} # {}
      BY <3>1, <2>t, ToldOf
    <3>4. CASE stage[q] = "keys"
      <4>1. PICK s : stage' = [stage EXCEPT ![q] = s]
        BY <2>5 DEF Found
      <4>2. QED
        BY <3>2, <3>3, <3>4, <4>1, <2>i, <2>t DEF Unseen
    <3>5. CASE stage[q] # "keys"
      <4>1. stage' = stage
        BY <2>5, <3>5, <2>t DEF Found, Settles
      <4>2. QED
        BY <3>2, <3>3, <4>1, <2>i
    <3>6. QED
      BY <3>4, <3>5
  <2>6. ASSUME NEW q \in Requests, MoveDone(q) \/ MoveFails(q) \/ MoveLost(q)
        PROVE  /\ stage'[r] \in Unseen => moved'[r] = 0
               /\ told'[r] \cap {"invalid", "aborted"} # {} => stage'[r] = "rejected"
    <3>1. stage[q] = "moving" /\ \A p \in Requests : p # q => moved'[p] = moved[p]
      <4>1. stage[q] = "moving"
        BY <2>6 DEF MoveDone, MoveFails, MoveLost
      <4>2. moved' = moved \/ moved' = [moved EXCEPT ![q] = moved[q] + 1]
        BY <2>6 DEF MoveDone, MoveFails, MoveLost
      <4>3. QED
        BY <4>1, <4>2, <2>t
    <3>2. PICK s \in {"moving", "done", "failed", "lost"} : stage' = [stage EXCEPT ![q] = s]
      <4>1. AfterMove(q, moved[q] + 1) \in {"moving", "done", "failed"}
        BY DEF AfterMove
      <4>2. \/ stage' = [stage EXCEPT ![q] = AfterMove(q, moved[q] + 1)]
            \/ stage' = [stage EXCEPT ![q] = "failed"]
            \/ stage' = [stage EXCEPT ![q] = "lost"]
        BY <2>6 DEF MoveDone, MoveFails, MoveLost
      <4>3. QED
        BY <4>1, <4>2
    <3>3. \/ told' = told
          \/ \E S \in SUBSET Verdicts : Tell(q, S) /\ S \cap {"invalid", "aborted"} = {}
      <4>1. CASE MoveDone(q)
        <5>1. Tell(q, {"completed"}) \/ Tell(q, {})
          BY <4>1 DEF MoveDone
        <5>2. QED
          BY <5>1 DEF Verdicts
      <4>2. CASE MoveFails(q)
        <5>1. Tell(q, {"cardfailed"})
          BY <4>2 DEF MoveFails
        <5>2. QED
          BY <5>1 DEF Verdicts
      <4>3. CASE MoveLost(q)
        BY <4>3 DEF MoveLost
      <4>4. QED
        BY <2>6, <4>1, <4>2, <4>3
    <3>4. stage'[r] \in Unseen => moved'[r] = 0
      BY <3>1, <3>2, <2>i, <2>t DEF Unseen
    <3>5. QED
      BY <3>1, <3>2, <3>3, <3>4, <2>i, <2>t, ToldOf
  <2>7. ASSUME NEW q \in Requests, NEW k \in Keys,
               UidAdded(q, k) \/ SubKeyCreated(q, k) \/ GetThrows(q, k)
        PROVE  UNCHANGED <<stage, told, moved>>
    BY <2>7 DEF UidAdded, SubKeyCreated, GetThrows, deal
  <2>8. BareUid \/ (\E q \in Requests : Disconnect(q)) \/ (\E k \in Keys : DeleteSecretKey(k))
          => UNCHANGED <<stage, told, moved>>
    BY DEF BareUid, Disconnect, DeleteSecretKey, deal
  <2>9. UNCHANGED vars => UNCHANGED <<stage, told, moved>>
    BY DEF vars
  <2>10. UNCHANGED <<stage, told, moved>>
           => /\ stage'[r] \in Unseen => moved'[r] = 0
              /\ told'[r] \cap {"invalid", "aborted"} # {} => stage'[r] = "rejected"
    BY <2>i
  <2>11. QED
    BY <2>1, <2>2, <2>3, <2>4, <2>5, <2>6, <2>7, <2>8, <2>9, <2>10 DEF Next, Task, Thread
<1>3. RejectInv => NoMoveAfterReject
  BY DEF RejectInv, NoMoveAfterReject, Unseen
<1>4. QED
  BY <1>1, <1>2, <1>3, TypeCorrect, PTL DEF Spec
-----------------------------------------------------------------------------
(***************************************************************************)
(* CardMatches.                                                            *)
(***************************************************************************)

\* How far a request has come with its keys, and what it has said of it.
Counts(r) ==
  /\ stage[r] \in Unseen => moved[r] = 0
  /\ stage[r] = "moving" => moved[r] < total[r]
  /\ stage[r] = "done" => moved[r] = total[r]
  /\ "completed" \in told[r] => stage[r] = "done"

\* What a request that is alone has left on the card.
OnCard(r) == Alone(r) => \A i \in 1 .. NSlots : SlotMatches(r, i)

CardInv == \A r \in Requests : Counts(r) /\ OnCard(r)

LEMMA CardStart == Init => CardInv
BY DEF Init, CardInv, Counts, OnCard, Alone, SlotMatches

\* Whether completed was told is only up to who tells it.
LEMMA CompletedOf ==
  ASSUME told \in [Requests -> SUBSET Verdicts], NEW q \in Requests,
         NEW S, Tell(q, S), NEW r \in Requests, "completed" \in told'[r]
  PROVE  "completed" \in told[r] \/ (q = r /\ "completed" \in S /\ r \notin gone)
BY DEF Tell

\* A step that moves no key leaves the card as it was.
LEMMA NothingMoved ==
  ASSUME NEW r \in Requests, OnCard(r), card' = card, moved' = moved,
         \A q \in Requests : stage[q] \in {"failed", "lost"} => stage'[q] = stage[q],
         \/ moved[r] = 0 /\ stage[r] \notin {"failed", "lost"}
         \/ chosen'[r] = chosen[r],
         TypeOK
  PROVE  OnCard(r)'
<1> SUFFICES ASSUME Alone(r)', NEW i \in 1 .. NSlots PROVE SlotMatches(r, i)'
  BY DEF OnCard
<1>1. SlotMatches(r, i)
  BY DEF OnCard, Alone
<1>2. CASE moved[r] = 0 /\ stage[r] \notin {"failed", "lost"}
  BY <1>1, <1>2 DEF SlotMatches
<1>3. CASE chosen'[r] = chosen[r]
  BY <1>1, <1>3 DEF SlotMatches
<1>4. QED
  BY <1>2, <1>3

\* A request before its promise is settled, or one that is refused or aborted.
LEMMA CountsBefore ==
  ASSUME TypeOK, CardInv, [Next]_vars, NEW q \in Requests,
         \/ Submit(q) \/ MasterDone(q) \/ ListThrows(q) \/ ListFails(q) \/ Listed(q)
         \/ Disconnect(q)
         \/ \E k \in Keys : \/ UidAdded(q, k) \/ SubKeyCreated(q, k)
                           \/ GetThrows(q, k) \/ NotFound(q, k),
         NEW r \in Requests
  PROVE  Counts(r)' /\ OnCard(r)'
<1>t. stage \in [Requests -> Stages] /\ told \in [Requests -> SUBSET Verdicts]
  BY DEF TypeOK
<1>i. Counts(r) /\ OnCard(r)
  BY DEF CardInv
<1>1. UNCHANGED <<chosen, total, moved, card>>
  BY DEF Submit, MasterDone, ListThrows, ListFails, Listed, Disconnect, UidAdded,
         SubKeyCreated, GetThrows, NotFound, deal
<1>2. \/ stage' = stage
      \/ stage[q] \in Unseen /\ \E s \in Unseen : stage' = [stage EXCEPT ![q] = s]
  <2>1. CASE Submit(q) \/ MasterDone(q) \/ ListThrows(q) \/ ListFails(q) \/ Listed(q)
    BY <2>1 DEF Submit, MasterDone, ListThrows, ListFails, Listed, Unseen
  <2>2. CASE \/ Disconnect(q)
             \/ \E k \in Keys : UidAdded(q, k) \/ SubKeyCreated(q, k) \/ GetThrows(q, k)
    BY <2>2 DEF Disconnect, UidAdded, SubKeyCreated, GetThrows
  <2>3. ASSUME NEW k \in Keys, NotFound(q, k)
        PROVE  \/ stage' = stage
               \/ stage[q] \in Unseen /\ \E s \in Unseen : stage' = [stage EXCEPT ![q] = s]
    <3>1. CASE q \notin gone /\ Settles(q)
      BY <2>3, <3>1 DEF NotFound, Settles, Unseen
    <3>2. CASE ~(q \notin gone /\ Settles(q))
      BY <2>3, <3>2, <1>t DEF NotFound
    <3>3. QED
      BY <3>1, <3>2
  <2>4. QED
    BY <2>1, <2>2, <2>3
<1>3. "completed" \in told'[r] => "completed" \in told[r]
  <2>1. \/ told' = told
        \/ \E S \in SUBSET (Verdicts \ {"completed"}) : Tell(q, S)
    <3>1. CASE Submit(q)
      BY <3>1 DEF Submit, Verdicts
    <3>2. CASE ListFails(q)
      BY <3>2 DEF ListFails, Caught, Verdicts
    <3>3. ASSUME NEW k \in Keys, NotFound(q, k)
          PROVE  \E S \in SUBSET (Verdicts \ {"completed"}) : Tell(q, S)
      BY <3>3 DEF NotFound, Caught, FetchVerdict, Verdicts
    <3>4. QED
      BY <3>1, <3>2, <3>3 DEF MasterDone, ListThrows, Listed, Disconnect, UidAdded,
                              SubKeyCreated, GetThrows
  <2>2. QED
    BY <2>1, <1>t, CompletedOf
<1>4. Counts(r)'
  <2>1. \/ stage'[r] = stage[r]
        \/ stage[r] \in Unseen /\ stage'[r] \in Unseen
    BY <1>2, <1>t
  <2>2. QED
    BY <2>1, <1>1, <1>3, <1>i DEF Counts, Unseen
<1>5. \A p \in Requests : stage[p] \in {"failed", "lost"} => stage'[p] = stage[p]
  BY <1>2, <1>t DEF Unseen
<1>6. QED
  BY <1>1, <1>4, <1>5, <1>i, NothingMoved

\* The thread that settles the promise: nothing has been moved before.
LEMMA CountsFound ==
  ASSUME TypeOK, CardInv, NEW q \in Requests, NEW k \in Keys, Found(q, k), NEW r \in Requests
  PROVE  Counts(r)' /\ OnCard(r)'
<1>t. /\ stage \in [Requests -> Stages] /\ told \in [Requests -> SUBSET Verdicts]
      /\ total \in [Requests -> Nat] /\ chosen \in [Requests -> Keys \cup {Vacant}]
      /\ subs[k] \in Nat
  BY DEF TypeOK
<1>i. Counts(r) /\ OnCard(r)
  BY DEF CardInv
<1>1. card' = card /\ moved' = moved
  BY DEF Found
<1>s. \A p \in Requests : stage[p] \in {"failed", "lost"} => stage'[p] = stage[p]
  BY <1>t DEF Found, Settles
<1>2. CASE r = q /\ q \notin gone /\ Settles(q)
  <2>1. moved[r] = 0 /\ stage[r] = "keys"
    BY <1>2, <1>i DEF Counts, Settles, Unseen
  <2>2. /\ stage'[r] = IF ~moves[q] THEN "resolved" ELSE IF subs[k] = 0 THEN "done" ELSE "moving"
        /\ total'[r] = subs[k]
    BY <1>2, <1>t DEF Found
  <2>3. "completed" \in told'[r] => moves[q] /\ subs[k] = 0
    <3>1. "completed" \notin told[r]
      BY <2>1, <1>i DEF Counts
    <3> DEFINE S == FetchVerdict(TRUE) \cup
                      IF moves[q] /\ subs[k] = 0 THEN {"completed"} ELSE {}
    <3>2. Tell(q, S)
      BY <1>2 DEF Found
    <3>3. "completed" \in S => moves[q] /\ subs[k] = 0
      BY DEF FetchVerdict
    <3> HIDE DEF S
    <3>4. "completed" \in told'[r] => "completed" \in S
      BY <3>1, <3>2, <1>t, CompletedOf
    <3>5. QED
      BY <3>3, <3>4
  <2>4. Counts(r)'
    BY <2>1, <2>2, <2>3, <1>1, <1>t DEF Counts
  <2>5. QED
    BY <2>1, <2>4, <1>1, <1>s, <1>i, NothingMoved
<1>3. CASE ~(r = q /\ q \notin gone /\ Settles(q))
  <2>1. stage'[r] = stage[r] /\ total'[r] = total[r] /\ chosen'[r] = chosen[r]
    BY <1>3, <1>t DEF Found
  <2>2. "completed" \in told'[r] => "completed" \in told[r]
    <3>1. CASE r # q
      BY <3>1, <1>t DEF Found, Tell
    <3>2. CASE r = q
      <4>1. Tell(q, FetchVerdict(TRUE))
        BY <1>3, <3>2 DEF Found
      <4>2. QED
        BY <4>1, <1>t, CompletedOf DEF FetchVerdict
    <3>3. QED
      BY <3>1, <3>2
  <2>3. Counts(r)'
    BY <2>1, <2>2, <1>1, <1>i DEF Counts
  <2>4. QED
    BY <2>1, <2>3, <1>1, <1>s, <1>i, NothingMoved
<1>4. QED
  BY <1>2, <1>3

\* A key reaches the slot after those of the keys before it.
LEMMA CountsMoveDone ==
  ASSUME TypeOK, CardInv, NEW q \in Requests, MoveDone(q), NEW r \in Requests
  PROVE  Counts(r)' /\ OnCard(r)'
<1> DEFINE n == moved[q] + 1
<1>t. /\ stage \in [Requests -> Stages] /\ told \in [Requests -> SUBSET Verdicts]
      /\ total \in [Requests -> Nat] /\ moved \in [Requests -> Nat] /\ NSlots \in Nat
      /\ card \in [1 .. NSlots -> (Keys \X Nat) \cup {Vacant}]
  BY CountsAssumption DEF TypeOK
<1>i. Counts(r) /\ OnCard(r)
  BY DEF CardInv
<1>1. /\ stage[q] = "moving" /\ n \in 1 .. NSlots
      /\ card' = [card EXCEPT ![n] = <<chosen[q], n>>]
      /\ moved' = [moved EXCEPT ![q] = n]
      /\ stage' = [stage EXCEPT ![q] = AfterMove(q, n)]
      /\ Tell(q, IF AfterMove(q, n) = "done" THEN {"completed"} ELSE {})
      /\ UNCHANGED <<chosen, total>>
  BY <1>t DEF MoveDone, CanMove, Written, Slot
<1>2. CASE r = q
  <2>1. moved[r] < total[r] /\ "completed" \notin told[r]
    BY <1>1, <1>2, <1>i DEF Counts
  <2>2. moved'[r] = n /\ stage'[r] = AfterMove(q, n) /\ total'[r] = total[r]
    BY <1>1, <1>2, <1>t
  <2>3. "completed" \in told'[r] => AfterMove(q, n) = "done"
    BY <1>1, <1>2, <1>t, <2>1, CompletedOf
  <2>4. Counts(r)'
    BY <2>1, <2>2, <2>3, <1>2, <1>t DEF Counts, AfterMove, Unseen
  <2>5. OnCard(r)'
    <3> SUFFICES ASSUME Alone(r)', NEW i \in 1 .. NSlots
                 PROVE  card'[i] = IF i <= n THEN <<chosen[r], i>> ELSE Vacant
      BY <1>1, <2>2 DEF OnCard, SlotMatches
    <3>1. Alone(r)
      BY <1>1, <1>2, <1>t DEF Alone
    <3>2. card[i] = IF i <= moved[r] THEN <<chosen[r], i>> ELSE Vacant
      BY <3>1, <1>1, <1>2, <1>i DEF OnCard, SlotMatches
    <3>3. card'[i] = IF i = n THEN <<chosen[r], n>> ELSE card[i]
      BY <1>1, <1>2, <1>t
    <3>4. n = moved[r] + 1 /\ moved[r] \in Nat
      BY <1>2, <1>t
    <3> HIDE DEF n
    <3>5. CASE i = n
      BY <3>3, <3>5, <1>1
    <3>6. CASE i # n
      <4>1. i <= n <=> i <= moved[r]
        BY <3>4, <3>6
      <4>2. QED
        BY <3>2, <3>3, <3>6, <4>1
    <3>7. QED
      BY <3>5, <3>6
  <2>6. QED
    BY <2>4, <2>5
<1>3. CASE r # q
  <2>1. stage'[r] = stage[r] /\ moved'[r] = moved[r] /\ told'[r] = told[r]
    BY <1>1, <1>3, <1>t DEF Tell
  <2>2. ~Alone(r)'
    BY <1>1, <1>3, <1>t DEF Alone
  <2>3. QED
    BY <2>1, <2>2, <1>1, <1>i DEF Counts, OnCard
<1>4. QED
  BY <1>2, <1>3

\* A move that fails or is lost may have written the slot after those, no other.
LEMMA CountsBrokenOff ==
  ASSUME TypeOK, CardInv, NEW q \in Requests, MoveFails(q) \/ MoveLost(q),
         NEW r \in Requests
  PROVE  Counts(r)' /\ OnCard(r)'
<1>t. /\ stage \in [Requests -> Stages] /\ told \in [Requests -> SUBSET Verdicts]
      /\ moved \in [Requests -> Nat] /\ keyring \subseteq Keys
      /\ chosen \in [Requests -> Keys \cup {Vacant}]
      /\ card \in [1 .. NSlots -> (Keys \X Nat) \cup {Vacant}]
  BY DEF TypeOK
<1>i. Counts(r) /\ OnCard(r)
  BY DEF CardInv
<1>1. PICK s \in {"failed", "lost"} : stage[q] = "moving" /\ stage' = [stage EXCEPT ![q] = s]
  BY DEF MoveFails, MoveLost
<1>2. /\ told' = told \/ Tell(q, {"cardfailed"})
      /\ card' = card \/ MayBeWritten(q)
      /\ UNCHANGED <<chosen, total, moved>>
  BY DEF MoveFails, MoveLost
<1>3. "completed" \in told'[r] => "completed" \in told[r]
  BY <1>2, <1>t, CompletedOf
<1>4. Counts(r)'
  BY <1>1, <1>2, <1>3, <1>i, <1>t DEF Counts, Unseen
<1>5. OnCard(r)'
  <2>1. CASE r # q
    BY <1>1, <1>t, <2>1 DEF OnCard, Alone
  <2>2. CASE r = q
    <3> SUFFICES ASSUME Alone(r)', NEW i \in 1 .. NSlots PROVE SlotMatches(r, i)'
      BY DEF OnCard
    <3>1. Alone(r)
      BY <1>1, <1>2, <1>t, <2>2 DEF Alone
    <3>2. card[i] = IF i <= moved[r] THEN <<chosen[r], i>> ELSE Vacant
      BY <1>1, <1>i, <2>2, <3>1 DEF OnCard, SlotMatches
    <3>3. card'[i] = card[i] \/ (i = moved[r] + 1 /\ card'[i] = <<chosen[r], i>>)
      BY <1>2, <1>t, <2>2, MayBeWrittenShapes
    <3>4. stage'[r] \in {"failed", "lost"}
      BY <1>1, <1>t, <2>2
    <3>5. QED
      BY <1>2, <3>2, <3>3, <3>4 DEF SlotMatches
  <2>3. QED
    BY <2>1, <2>2
<1>6. QED
  BY <1>4, <1>5

\* For any requests, keys and slots: the card has what was reported, in its place,
\* all of it if the request said Completed, and at most one more if it broke off.
THEOREM CardIsAsReported == Spec => []CardMatches
<1>1. TypeOK /\ CardInv /\ [Next]_vars => CardInv'
  <2> SUFFICES ASSUME TypeOK, CardInv, [Next]_vars, NEW r \in Requests
               PROVE  Counts(r)' /\ OnCard(r)'
    BY DEF CardInv
  <2>1. ASSUME NEW q \in Requests, Submit(q) \/ Disconnect(q) \/ Task(q)
        PROVE  Counts(r)' /\ OnCard(r)'
    BY <2>1, CountsBefore, CountsMoveDone, CountsBrokenOff DEF Task
  <2>2. ASSUME NEW q \in Requests, NEW k \in Keys, Thread(q, k)
        PROVE  Counts(r)' /\ OnCard(r)'
    BY <2>2, CountsBefore, CountsFound DEF Thread
  <2>3. CASE BareUid \/ (\E k \in Keys : DeleteSecretKey(k)) \/ UNCHANGED vars
    <3>1. UNCHANGED <<stage, told, chosen, total, moved, card>>
      BY <2>3 DEF BareUid, DeleteSecretKey, deal, vars
    <3>2. Counts(r) /\ OnCard(r)
      BY DEF CardInv
    <3>3. QED
      BY <3>1, <3>2 DEF Counts, OnCard, Alone, SlotMatches
  <2>4. QED
    BY <2>1, <2>2, <2>3 DEF Next
<1>2. CardInv => CardMatches
  BY DEF CardInv, Counts, OnCard, CardMatches
<1>3. QED
  BY <1>1, <1>2, CardStart, TypeCorrect, PTL DEF Spec
=============================================================================
