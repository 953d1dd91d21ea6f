------------------------- MODULE KeyToYubiKeyProofs -------------------------
(***************************************************************************)
(* Proofs about KeyToYubiKey, for every set of moves and any number of     *)
(* faults: what is left on the disk, and that it implements CardMove.      *)
(* That moves are settled is left to TLC.                                  *)
(***************************************************************************)
EXTENDS KeyToYubiKey, TLAPS

\* The home of a move that is not over is what the steps before have made it.
HomeInv ==
  \A m \in Moves :
    /\ stage[m] \in {"none", "export", "mkdir"} => home[m] = "none"
    /\ stage[m] = "import" => home[m] = "empty"
    /\ stage[m] \in {"ownname", "tempname", "kill", "link", "card"} => home[m] = "copy"

\* A move has no verdict before it is over, and then one, or it is lost; what was
\* successful is on the card and has no home.
VerdictInv ==
  \A m \in Moves :
    /\ stage[m] # "over" => oks[m] = 0 /\ fails[m] = 0
    /\ stage[m] = "over" => oks[m] > 0 \/ fails[m] > 0 \/ m \in lost
    /\ oks[m] \in {0, 1}
    /\ oks[m] = 1 => fails[m] = 0 /\ home[m] = "none" /\ m \in written
    /\ m \in closing => stage[m] = "over" /\ fails[m] > 0

IInv == TypeOK /\ HomeInv /\ VerdictInv
-----------------------------------------------------------------------------
LEMMA Start == Init => IInv
BY MaxFaultsAssumption DEF Init, IInv, TypeOK, HomeInv, VerdictInv, Stages, Children

LEMMA FaultType ==
  ASSUME TypeOK, Fault
  PROVE  faults' \in 0 .. MaxFaults
BY MaxFaultsAssumption DEF TypeOK, Fault

\* A move that fails keeps the invariant; h is what is left of its home.
LEMMA FailKeeps ==
  ASSUME NEW m \in Moves, IInv, CallsFail(m), oks[m] = 0,
         NEW h \in {"none", "empty", "copy"}, home' = [home EXCEPT ![m] = h],
         written' \in {written, written \cup {m}}, lost' = lost, gone' = gone,
         closing' \in {closing, closing \cup {m}, closing \ {m}},
         up' \in BOOLEAN, faults' \in 0 .. MaxFaults
  PROVE  IInv'
<1>1. TypeOK'
  BY DEF IInv, TypeOK, CallsFail, Goes, Stages
<1>2. HomeInv'
  BY DEF IInv, TypeOK, HomeInv, CallsFail, Goes
<1>3. VerdictInv'
  BY DEF IInv, TypeOK, VerdictInv, CallsFail, Goes
<1>4. QED
  BY <1>1, <1>2, <1>3 DEF IInv

LEMMA Step == IInv /\ [Next]_vars => IInv'
<1> SUFFICES ASSUME IInv, [Next]_vars PROVE IInv'
  OBVIOUS
<1> USE DEF IInv
<1>1. CASE UNCHANGED vars
  BY <1>1 DEF vars, calls, TypeOK, HomeInv, VerdictInv
<1>2. ASSUME NEW m \in Moves, Export(m) PROVE IInv'
  BY <1>2 DEF Export, At, Goes, calls, TypeOK, HomeInv, VerdictInv, Stages, Children
<1>3. ASSUME NEW m \in Moves, Succeeds(m) PROVE IInv'
  <2>1. /\ stage[m] \in {"export", "mkdir", "import", "ownname", "tempname", "kill", "link"}
        /\ After[stage[m]] \in Stages \ {"none", "export", "over"}
        /\ HomeAfter(m) \in {"none", "empty", "copy"}
    BY <1>3 DEF Succeeds, After, HomeAfter, TypeOK, Stages, Children
  <2>2. TypeOK'
    BY <1>3, <2>1 DEF Succeeds, Goes, calls, TypeOK
  <2>3. HomeInv'
    BY <1>3, <2>1 DEF Succeeds, Goes, TypeOK, HomeInv, After, HomeAfter
  <2>4. VerdictInv'
    BY <1>3, <2>1 DEF Succeeds, Goes, calls, TypeOK, VerdictInv
  <2>5. QED
    BY <2>2, <2>3, <2>4
<1>4. ASSUME NEW m \in Moves, NextThrows(m) PROVE IInv'
  <2>1. HomeAfter(m) \in {"none", "empty", "copy"} /\ faults' \in 0 .. MaxFaults
    BY <1>4, FaultType DEF NextThrows, HomeAfter, TypeOK
  <2>2. QED
    BY <1>4, <2>1 DEF NextThrows, Goes, calls, TypeOK, HomeInv, VerdictInv, Stages
<1>5. ASSUME NEW m \in Moves, CardThrows(m) PROVE IInv'
  <2>1. oks[m] = 0 /\ faults' \in 0 .. MaxFaults /\ home' = [home EXCEPT ![m] = home[m]]
    BY <1>5, FaultType DEF CardThrows, At, VerdictInv, TypeOK
  <2>2. QED
    BY <1>5, <2>1, FailKeeps DEF CardThrows, TypeOK
<1>6. ASSUME NEW m \in Moves, Moved(m) PROVE IInv'
  BY <1>6 DEF Moved, AfterCard, At, Goes, TypeOK, HomeInv, VerdictInv, Stages
<1>7. ASSUME NEW m \in Moves, NotRemoved(m) PROVE IInv'
  <2>1. faults' \in 0 .. MaxFaults
    BY <1>7, FaultType DEF NotRemoved
  <2>2. QED
    BY <1>7, <2>1 DEF NotRemoved, At, Goes, calls, TypeOK, HomeInv, VerdictInv, Stages
<1>8. ASSUME NEW m \in Moves, Fails(m) PROVE IInv'
  <2>1. PICK h \in HomeAfterFailure(m) : home' = [home EXCEPT ![m] = h]
    BY <1>8 DEF Fails
  <2>2. h \in {"none", "empty", "copy"}
    BY <2>1 DEF HomeAfterFailure, AfterCard, TypeOK
  <2>3. oks[m] = 0 /\ faults' \in 0 .. MaxFaults /\ written' \in {written, written \cup {m}}
    BY <1>8, FaultType DEF Fails, VerdictInv, Children
  <2>4. QED
    BY <1>8, <2>1, <2>2, <2>3, FailKeeps DEF Fails, TypeOK
<1>9. ASSUME NEW m \in Moves, SpawnFails(m) PROVE IInv'
  <2>1. /\ oks[m] = 0 /\ faults' \in 0 .. MaxFaults /\ up' \in BOOLEAN
        /\ home' = [home EXCEPT ![m] = home[m]]
    BY <1>9, FaultType DEF SpawnFails, Crashes, VerdictInv, Children, TypeOK
  <2>2. QED
    BY <1>9, <2>1, FailKeeps DEF SpawnFails, TypeOK
<1>10. ASSUME NEW m \in Moves, Closes(m) PROVE IInv'
  <2>1. oks[m] = 0 /\ home' = [home EXCEPT ![m] = home[m]]
    BY <1>10 DEF Closes, VerdictInv, TypeOK
  <2>2. QED
    BY <1>10, <2>1, FailKeeps DEF Closes, TypeOK
<1>11. ASSUME NEW m \in Moves, Disconnect(m) PROVE IInv'
  BY <1>11 DEF Disconnect, calls, TypeOK, HomeInv, VerdictInv
<1>12. QED
  BY <1>1, <1>2, <1>3, <1>4, <1>5, <1>6, <1>7, <1>8, <1>9, <1>10, <1>11 DEF Next, Proceeds

LEMMA Invariant == Spec => []IInv
BY Start, Step, PTL DEF Spec

\* Every variable has its type, for any number of moves and faults.
THEOREM TypeCorrect == Spec => []TypeOK
<1>1. IInv => TypeOK
  BY DEF IInv
<1>2. QED
  BY Invariant, <1>1, PTL

\* A temporary home with a secret key in it is never left without a failure that says
\* so, but for exceptions that nobody catches.
THEOREM LeftoversAreReported == Spec => []LeftoverReported
<1>1. IInv => LeftoverReported
  BY DEF IInv, TypeOK, VerdictInv, LeftoverReported
<1>2. QED
  BY Invariant, <1>1, PTL
-----------------------------------------------------------------------------
(* Refinement. *)

Verdicts == [m \in Moves |-> VerdictOf(m)]
Copied == {m \in Moves : home[m] = "copy"}

VerdictCase(m) ==
  /\ stage[m] = "none" => VerdictOf(m) = "none"
  /\ stage[m] # "none" /\ stage[m] # "over" /\ up => VerdictOf(m) = "moving"
  /\ stage[m] # "none" /\ stage[m] # "over" /\ ~up => VerdictOf(m) = "lost"
  /\ stage[m] = "over" /\ oks[m] = 1 => VerdictOf(m) = "ok"
  /\ stage[m] = "over" /\ oks[m] = 0 /\ fails[m] > 0 => VerdictOf(m) = "fail"
  /\ stage[m] = "over" /\ oks[m] = 0 /\ fails[m] = 0 => VerdictOf(m) = "lost"

Cases == \A m \in Moves : VerdictCase(m)

LEMMA VerdictCases == IInv => Cases
<1> SUFFICES ASSUME IInv, NEW m \in Moves PROVE VerdictCase(m)
  BY DEF Cases
<1>1. /\ oks[m] \in {0, 1} /\ fails[m] \in Nat
      /\ stage[m] # "over" => oks[m] = 0 /\ fails[m] = 0
      /\ oks[m] = 1 => fails[m] = 0
  BY DEF IInv, TypeOK, VerdictInv
<1>2. QED
  BY <1>1 DEF VerdictOf, VerdictCase

LEMMA VerdictCasesNext == IInv' => Cases'
BY VerdictCases, PTL

\* A step of m leaves the verdicts on the others.
LEMMA Others ==
  ASSUME NEW m \in Moves, up' = up,
         \A n \in Moves \ {m} :
           stage'[n] = stage[n] /\ oks'[n] = oks[n] /\ fails'[n] = fails[n]
  PROVE  Verdicts' = [Verdicts EXCEPT ![m] = VerdictOf(m)']
<1>1. ASSUME NEW n \in Moves, n # m PROVE VerdictOf(n)' = VerdictOf(n)
  BY <1>1 DEF VerdictOf
<1>2. QED
  BY <1>1 DEF Verdicts

\* A failure, with what it leaves of the home.
LEMMA FailRefines ==
  ASSUME IInv, IInv', up, up', NEW m \in Moves, stage[m] \notin {"none", "over"}, CallsFail(m),
         NEW h, home' = [home EXCEPT ![m] = h], h = "copy" \/ home[m] # "copy",
         written' \in {written, written \cup {m}}
  PROVE  M!Fail(m)
<1>1. VerdictOf(m) = "moving"
  BY VerdictCases DEF Cases, VerdictCase
<1>2. VerdictOf(m)' = "fail"
  <2>1. stage'[m] = "over" /\ oks'[m] = 0 /\ fails'[m] > 0
    BY DEF CallsFail, Goes, IInv, TypeOK, VerdictInv
  <2>2. QED
    BY <2>1, VerdictCasesNext DEF Cases, VerdictCase
<1>3. Verdicts' = [Verdicts EXCEPT ![m] = "fail"]
  BY <1>2, Others DEF CallsFail, IInv, TypeOK, Goes
<1>4. Copied' \in {Copied, Copied \cup {m}}
  BY DEF Copied, IInv, TypeOK
<1>5. QED
  BY <1>1, <1>3, <1>4 DEF M!Fail, M!Decides, Verdicts, Copied

LEMMA StepRefines == IInv /\ IInv' /\ [Next]_vars => [M!Next]_(M!vars)
<1> SUFFICES ASSUME IInv, IInv', [Next]_vars PROVE [M!Next]_(M!vars)
  OBVIOUS
<1>0. Cases /\ Cases'
  BY VerdictCases, VerdictCasesNext
<1>1. ASSUME Verdicts' = Verdicts, Copied' = Copied, written' = written
      PROVE  UNCHANGED M!vars
  BY <1>1 DEF M!vars, Verdicts, Copied
<1>2. CASE UNCHANGED vars
  <2>1. Verdicts' = Verdicts /\ Copied' = Copied /\ written' = written
    BY <1>2 DEF vars, calls, VerdictOf, Verdicts, Copied
  <2>2. QED
    BY <2>1, <1>1
<1>3. ASSUME NEW m \in Moves, Export(m) PROVE M!Start(m)
  <2>1. VerdictOf(m) = "none" /\ VerdictOf(m)' = "moving"
    BY <1>0, <1>3 DEF Export, At, Goes, Cases, VerdictCase, IInv, TypeOK
  <2>2. Verdicts' = [Verdicts EXCEPT ![m] = "moving"]
    BY <1>3, <2>1, Others DEF Export, calls, IInv, TypeOK, Goes
  <2>3. QED
    BY <1>3, <2>1, <2>2 DEF Export, M!Start, Verdicts, Copied
<1>4. ASSUME NEW m \in Moves, Succeeds(m) PROVE [M!Next]_(M!vars)
  <2>1. /\ stage[m] \in {"export", "mkdir", "import", "ownname", "tempname", "kill", "link"}
        /\ After[stage[m]] \notin {"none", "over"}
    BY <1>4 DEF Succeeds, After
  <2>2. VerdictOf(m) = "moving" /\ VerdictOf(m)' = "moving"
    BY <1>0, <1>4, <2>1 DEF Succeeds, Goes, Cases, VerdictCase, IInv, TypeOK
  <2>3. Verdicts' = Verdicts
    <3>1. Verdicts' = [Verdicts EXCEPT ![m] = "moving"]
      BY <1>4, <2>2, Others DEF Succeeds, calls, IInv, TypeOK, Goes
    <3>2. QED
      BY <3>1, <2>2 DEF Verdicts
  <2>4. CASE stage[m] = "import"
    <3>1. Copied' = Copied \cup {m}
      BY <1>4, <2>4 DEF Succeeds, HomeAfter, Copied, IInv, TypeOK
    <3>2. M!Copy(m)
      BY <1>4, <2>2, <2>3, <3>1 DEF Succeeds, M!Copy, Verdicts, Copied
    <3>3. QED
      BY <3>2 DEF M!Next
  <2>5. CASE stage[m] # "import"
    <3>1. HomeAfter(m) = "copy" <=> home[m] = "copy"
      BY <2>5 DEF HomeAfter, IInv, HomeInv
    <3>2. Copied' = Copied
      BY <1>4, <3>1 DEF Succeeds, Copied, IInv, TypeOK
    <3>3. QED
      BY <1>1, <1>4, <2>3, <3>2 DEF Succeeds
  <2>6. QED
    BY <2>4, <2>5
<1>5. ASSUME NEW m \in Moves, NextThrows(m) PROVE M!Lose(m)
  <2>1. VerdictOf(m) = "moving" /\ VerdictOf(m)' = "lost"
    BY <1>0, <1>5 DEF NextThrows, Goes, calls, Cases, VerdictCase, IInv, TypeOK, VerdictInv
  <2>2. Verdicts' = [Verdicts EXCEPT ![m] = "lost"]
    BY <1>5, <2>1, Others DEF NextThrows, calls, IInv, TypeOK, Goes
  <2>3. Copied' \in {Copied, Copied \cup {m}, Copied \ {m}}
    BY <1>5 DEF NextThrows, HomeAfter, Copied, IInv, TypeOK
  <2>4. QED
    BY <1>5, <2>1, <2>2, <2>3 DEF NextThrows, M!Lose, M!Decides, Verdicts, Copied
<1>6. ASSUME NEW m \in Moves, CardThrows(m) PROVE M!Fail(m)
  <2>1. /\ stage[m] = "link" /\ up /\ up' /\ home[m] = "copy"
        /\ home' = [home EXCEPT ![m] = home[m]] /\ written' = written
    BY <1>6 DEF CardThrows, At, IInv, TypeOK, HomeInv
  <2>2. QED
    BY <1>6, <2>1, FailRefines DEF CardThrows
<1>7. ASSUME NEW m \in Moves, Moved(m) PROVE M!Succeed(m)
  <2>1. m \in Copied /\ Copied' = Copied \ {m}
    BY <1>7 DEF Moved, At, AfterCard, Copied, IInv, TypeOK, HomeInv
  <2>2. VerdictOf(m) = "moving" /\ VerdictOf(m)' = "ok"
    BY <1>0, <1>7 DEF Moved, At, Goes, Cases, VerdictCase, IInv, TypeOK, VerdictInv
  <2>3. Verdicts' = [Verdicts EXCEPT ![m] = "ok"]
    BY <1>7, <2>2, Others DEF Moved, IInv, TypeOK, Goes
  <2>4. QED
    BY <1>7, <2>1, <2>2, <2>3 DEF Moved, M!Succeed, M!Decides, Verdicts, Copied
<1>8. ASSUME NEW m \in Moves, NotRemoved(m) PROVE M!Lose(m)
  <2>1. VerdictOf(m) = "moving" /\ VerdictOf(m)' = "lost"
    BY <1>0, <1>8 DEF NotRemoved, At, Goes, calls, Cases, VerdictCase, IInv, TypeOK, VerdictInv
  <2>2. Verdicts' = [Verdicts EXCEPT ![m] = "lost"]
    BY <1>8, <2>1, Others DEF NotRemoved, calls, IInv, TypeOK, Goes
  <2>3. Copied' \in {Copied, Copied \ {m}}
    BY <1>8 DEF NotRemoved, At, Copied, IInv, TypeOK, HomeInv
  <2>4. QED
    BY <1>8, <2>1, <2>2, <2>3 DEF NotRemoved, M!Lose, M!Decides, Verdicts, Copied
<1>9. ASSUME NEW m \in Moves, Fails(m) PROVE M!Fail(m)
  <2>1. PICK h \in HomeAfterFailure(m) : home' = [home EXCEPT ![m] = h]
    BY <1>9 DEF Fails
  <2>2. stage[m] \notin {"none", "over"} /\ up /\ up'
    BY <1>9 DEF Fails, Children
  <2>3. h = "copy" \/ home[m] # "copy"
    BY <2>1, <2>2 DEF HomeAfterFailure, AfterCard, IInv, HomeInv
  <2>4. written' \in {written, written \cup {m}}
    BY <1>9 DEF Fails
  <2>5. QED
    BY <1>9, <2>1, <2>2, <2>3, <2>4, FailRefines DEF Fails
<1>10. ASSUME NEW m \in Moves, SpawnFails(m) PROVE M!Fail(m) \/ M!Crash(m)
  <2>1. /\ stage[m] \notin {"none", "over"} /\ up
        /\ home' = [home EXCEPT ![m] = home[m]] /\ written' = written
    BY <1>10 DEF SpawnFails, Children, IInv, TypeOK
  <2>2. CASE up'
    <3>1. CASE home[m] = "copy"
      BY <1>10, <2>1, <2>2, <3>1, FailRefines DEF SpawnFails
    <3>2. CASE home[m] # "copy"
      BY <1>10, <2>1, <2>2, <3>2, FailRefines DEF SpawnFails
    <3>3. QED
      BY <3>1, <3>2
  <2>3. CASE ~up'
    <3>1. VerdictOf(m) = "moving" /\ VerdictOf(m)' = "fail"
      BY <1>0, <1>10, <2>1 DEF SpawnFails, CallsFail, Goes, Cases, VerdictCase,
           IInv, TypeOK, VerdictInv
    <3>2. ASSUME NEW n \in Moves, n # m
          PROVE  VerdictOf(n)' = IF VerdictOf(n) = "moving" THEN "lost" ELSE VerdictOf(n)
      <4>1. stage'[n] = stage[n] /\ oks'[n] = oks[n] /\ fails'[n] = fails[n]
        BY <1>10, <3>2 DEF SpawnFails, CallsFail, Goes, IInv, TypeOK
      <4>2. QED
        BY <2>1, <2>3, <4>1, <3>2 DEF VerdictOf, IInv, TypeOK, VerdictInv
    <3>3. Verdicts' = [n \in Moves |-> IF n = m THEN "fail"
                         ELSE IF Verdicts[n] = "moving" THEN "lost" ELSE Verdicts[n]]
      BY <3>1, <3>2 DEF Verdicts
    <3>4. Copied' = Copied
      BY <2>1 DEF Copied, IInv, TypeOK
    <3>5. QED
      BY <2>1, <3>1, <3>3, <3>4 DEF M!Crash, Verdicts, Copied
  <2>4. QED
    BY <2>2, <2>3
<1>11. ASSUME NEW m \in Moves, Closes(m) PROVE UNCHANGED M!vars
  <2>1. VerdictOf(m) = "fail" /\ VerdictOf(m)' = "fail"
    BY <1>0, <1>11 DEF Closes, CallsFail, Goes, Cases, VerdictCase, IInv, TypeOK, VerdictInv
  <2>2. Verdicts' = [Verdicts EXCEPT ![m] = "fail"]
    BY <1>11, <2>1, Others DEF Closes, CallsFail, IInv, TypeOK, Goes
  <2>3. Verdicts' = Verdicts
    BY <2>1, <2>2 DEF Verdicts
  <2>4. QED
    BY <1>1, <1>11, <2>3 DEF Closes, Copied
<1>12. ASSUME NEW m \in Moves, Disconnect(m) PROVE UNCHANGED M!vars
  <2>1. Verdicts' = Verdicts /\ Copied' = Copied /\ written' = written
    BY <1>12 DEF Disconnect, calls, Verdicts, VerdictOf, Copied
  <2>2. QED
    BY <2>1, <1>1
<1>13. QED
  BY <1>2, <1>3, <1>4, <1>5, <1>6, <1>7, <1>8, <1>9, <1>10, <1>11, <1>12
  DEF Next, Proceeds, M!Next

\* keyToYubiKey gives what CardMove promises, whatever fails in which of the moves, in
\* any order: one verdict, and ok for a key on the card with no copy left.
THEOREM Refinement == Spec => ImplementsCardMove
<1>1. Init => M!Init
  <2>1. ASSUME Init PROVE Verdicts = [m \in Moves |-> "none"] /\ Copied = {} /\ written = {}
    BY <2>1 DEF Init, Verdicts, VerdictOf, Copied
  <2>2. QED
    BY <2>1 DEF M!Init, Verdicts, Copied
<1>2. QED
  BY <1>1, Invariant, StepRefines, PTL DEF Spec, ImplementsCardMove, M!Spec
=============================================================================
