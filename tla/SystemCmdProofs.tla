--------------------------- MODULE SystemCmdProofs ---------------------------
(***************************************************************************)
(* Theorems about SystemCmd, for any pipes, sizes and capacities and any   *)
(* number of foreign children: what the result of a command holds.         *)
(***************************************************************************)
EXTENDS SystemCmd, FiniteSetTheorems, TLAPS

\* What has reported to handle_completed.
AtEof == {p \in OutPipes : reader[p] = "eof"}
Closed == {p \in InPipes : writer[p] = "closed"}
Handled == IF ~armed /\ child # "none" THEN 1 ELSE 0

\* completed counts exactly that.
CountInv == completed = Cardinality(AtEof) + Cardinality(Closed) + Handled

\* The state an attempt starts from; nothing failed while the io_service runs.
ReadyInv ==
  /\ phase \in {"ready", "running"} => ~forced
  /\ phase = "ready" =>
       /\ armed /\ child = "none" /\ exitCode = -1 /\ holds = {} /\ lingers = {}
       /\ \A p \in OutPipes : reader[p] = "reading"
       /\ \A p \in InPipes : writer[p] = "writing" /\ sent[p] = 0
       /\ attempt = 0 => ~sinEof

\* No chunk is lost between the child and the mother.
OutFlow ==
  \A p \in OutPipes :
    /\ buf[p] + got[p] = produced[p]
    /\ reader[p] = "eof" => buf[p] = 0 /\ ~HeldByOthers(p)

\* A pipe to the child is closed when its input is all written.
InFlow ==
  \A p \in InPipes :
    /\ phase = "running" /\ writer[p] = "writing" => sent[p] < Size[p]
    /\ writer[p] = "closed" /\ ~forced => sent[p] = Size[p] \/ (attempt = 1 /\ sent[p] = 0)

IInv == /\ TypeOK /\ CountInv /\ ReadyInv /\ OutFlow /\ InFlow
        /\ StopsWhenDone /\ ExitCodeHonest

\* There are as many reports as pipes and signals, and no more.
LEMMA Totals ==
  ASSUME NEW A \in SUBSET OutPipes, NEW B \in SUBSET InPipes, NEW h \in {0, 1}
  PROVE  /\ IsFiniteSet(A) /\ IsFiniteSet(B)
         /\ Cardinality(A) \in Nat /\ Cardinality(B) \in Nat /\ Total \in Nat
         /\ Cardinality(A) + Cardinality(B) + h \in 0 .. Total
         /\ Cardinality(A) + Cardinality(B) + h >= Total
              => A = OutPipes /\ B = InPipes /\ h = 1
<1>1. IsFiniteSet(OutPipes) /\ IsFiniteSet(InPipes)
  <2>1. IsFiniteSet({}) /\ IsFiniteSet(ExtraIn)
    BY FS_EmptySet, PipesAssumption
  <2>2. IsFiniteSet({} \cup {Stdout})
    BY <2>1, FS_AddElement
  <2>3. IsFiniteSet(({} \cup {Stdout}) \cup {Stderr})
    BY <2>2, FS_AddElement
  <2>4. IsFiniteSet(ExtraIn \cup {Stdin})
    BY <2>1, FS_AddElement
  <2>5. OutPipes = ({} \cup {Stdout}) \cup {Stderr} /\ InPipes = ExtraIn \cup {Stdin}
    BY DEF OutPipes, InPipes
  <2>6. QED
    BY <2>3, <2>4, <2>5
<1>2. Cardinality(Pipes) = Cardinality(InPipes) + Cardinality(OutPipes)
  <2>1. InPipes \cap OutPipes = {} /\ Pipes = InPipes \cup OutPipes
    BY PipesAssumption DEF InPipes, OutPipes, Pipes
  <2>2. Cardinality({}) = 0
    BY FS_EmptySet
  <2>3. Cardinality(Pipes) = Cardinality(InPipes) + Cardinality(OutPipes) - 0
    BY <1>1, <2>1, <2>2, FS_Union
  <2>4. Cardinality(InPipes) \in Nat /\ Cardinality(OutPipes) \in Nat
    BY <1>1, FS_CardinalityType
  <2>5. QED
    BY <2>3, <2>4
<1>3. /\ IsFiniteSet(A) /\ Cardinality(A) <= Cardinality(OutPipes)
      /\ Cardinality(OutPipes) = Cardinality(A) => OutPipes = A
  BY <1>1, FS_Subset
<1>4. /\ IsFiniteSet(B) /\ Cardinality(B) <= Cardinality(InPipes)
      /\ Cardinality(InPipes) = Cardinality(B) => InPipes = B
  BY <1>1, FS_Subset
<1>5. /\ Cardinality(A) \in Nat /\ Cardinality(B) \in Nat
      /\ Cardinality(OutPipes) \in Nat /\ Cardinality(InPipes) \in Nat
  BY <1>1, <1>3, <1>4, FS_CardinalityType
<1>6. QED
  BY <1>2, <1>3, <1>4, <1>5 DEF Total

\* One more report in one of the two sets.
LEMMA OneMore ==
  ASSUME NEW S, IsFiniteSet(S), NEW x, x \notin S
  PROVE  Cardinality(S \cup {x}) = Cardinality(S) + 1
  BY FS_AddElement

LEMMA Start == Init => IInv
<1> SUFFICES ASSUME Init PROVE IInv
  OBVIOUS
<1>1. AtEof = {} /\ Closed = {} /\ Handled = 0
  BY DEF Init, AtEof, Closed, Handled
<1>2. Cardinality({}) = 0
  BY FS_EmptySet
<1>3. CountInv
  BY <1>1, <1>2 DEF Init, CountInv
<1>4. 0 \in 0 .. Total
  <2>1. Total \in Nat
    BY <1>1, Totals
  <2>2. QED
    BY <2>1
<1>5. TypeOK
  <2>1. /\ buf \in [Pipes -> 0 .. Cap] /\ produced \in [OutPipes -> Nat]
        /\ foreign \in 0 .. MaxForeign /\ completed \in 0 .. Total
    BY <1>4, BoundsAssumption DEF Init
  <2>2. /\ reader \in [OutPipes -> {"reading", "eof"}] /\ got \in [OutPipes -> Nat]
        /\ writer \in [InPipes -> {"writing", "closed"}] /\ sent \in [InPipes -> Nat]
        /\ consumed \in [InPipes -> Nat]
    BY DEF Init
  <2>3. /\ attempt = 0 /\ phase = "ready" /\ ~forced /\ forced \in BOOLEAN
        /\ sinEof \in BOOLEAN /\ armed \in BOOLEAN /\ raised \in BOOLEAN /\ ok \in BOOLEAN
        /\ exitCode = -1 /\ code = -1 /\ child = "none" /\ program \in Programs
        /\ straggler \in BOOLEAN /\ holds = {} /\ lingers = {}
    BY DEF Init, Programs
  <2>4. QED
    BY <2>1, <2>2, <2>3 DEF TypeOK
<1>6. ReadyInv /\ StopsWhenDone /\ ExitCodeHonest
  BY DEF Init, ReadyInv, StopsWhenDone, RanToTheEnd, ExitCodeHonest
<1>8. OutFlow
  BY DEF Init, OutFlow, OutPipes, Pipes
<1>9. InFlow
  BY DEF Init, InFlow
<1>7. QED
  BY <1>3, <1>5, <1>6, <1>8, <1>9 DEF IInv

\* The report of one handler: a set of ended pipes or the signal grows by one.
LEMMA Reports ==
  ASSUME TypeOK, CountInv, NEW force \in BOOLEAN, HandleCompleted(1, force),
         phase = "running",
         AtEof' \in SUBSET OutPipes, Closed' \in SUBSET InPipes, Handled' \in {0, 1},
         Cardinality(AtEof') + Cardinality(Closed') + Handled'
           = Cardinality(AtEof) + Cardinality(Closed) + Handled + 1
  PROVE  /\ CountInv' /\ completed' \in 0 .. Total
         /\ phase' \in {"running", "stopped"}
         /\ phase' = "stopped" /\ ~force
              => AtEof' = OutPipes /\ Closed' = InPipes /\ Handled' = 1
<1>1. completed' = completed + 1 /\ forced' = force
      /\ phase' = IF completed' >= Total \/ force THEN "stopped" ELSE phase
  BY DEF HandleCompleted
<1>2. completed' = Cardinality(AtEof') + Cardinality(Closed') + Handled'
  BY <1>1 DEF CountInv
<1>3. CountInv'
  BY <1>2 DEF CountInv
<1>4. completed' \in 0 .. Total
  BY <1>2, Totals
<1>5. completed' >= Total => AtEof' = OutPipes /\ Closed' = InPipes /\ Handled' = 1
  BY <1>2, Totals
<1>6. QED
  BY <1>1, <1>3, <1>4, <1>5

\* Steps of the child, its relatives and the other children.
ChildSide == \/ \E p \in OutPipes : ChildWrites(p)
             \/ \E p \in InPipes : ChildReads(p)
             \/ \E p \in Pipes : ChildCloses(p)
             \/ ChildForks \/ GrandchildEnds \/ ChildExits \/ ChildKilled
             \/ ForeignDies \/ StragglerDies

\* They leave the mother alone, open no pipe again, and lose no chunk.
LEMMA ChildSideKeeps ==
  ASSUME TypeOK, ReadyInv, OutFlow, ChildSide
  PROVE  /\ UNCHANGED <<mother, phase, completed, forced, ends, armed>>
         /\ phase = "ready" => child' = "none" /\ holds' = {} /\ lingers' = {}
         /\ holds' \cup lingers' \subseteq holds \cup lingers
         /\ child = "none" <=> child' = "none"
         /\ child # "running" => child' = child /\ code' = code
         /\ TypeOK'
         /\ \A p \in OutPipes : buf'[p] - buf[p] = produced'[p] - produced[p]
         /\ \A p \in OutPipes : ~HeldByOthers(p) => buf'[p] <= buf[p]
<1>d. InPipes \cap OutPipes = {} /\ InPipes \subseteq Pipes /\ OutPipes \subseteq Pipes
  BY PipesAssumption DEF InPipes, OutPipes, Pipes
<1>t. /\ buf \in [Pipes -> 0 .. Cap] /\ produced \in [OutPipes -> Nat]
      /\ consumed \in [InPipes -> Nat] /\ Cap \in Nat /\ MaxOut \in Nat /\ MaxForeign \in Nat
      /\ foreign \in 0 .. MaxForeign
  BY BoundsAssumption DEF TypeOK
<1>1. ASSUME NEW p \in OutPipes, ChildWrites(p)
      PROVE  /\ UNCHANGED <<mother, phase, completed, forced, ends, armed, raised, proc, others,
                  consumed>>
             /\ buf' \in [Pipes -> 0 .. Cap] /\ produced' \in [OutPipes -> Nat]
             /\ \A q \in OutPipes : buf'[q] - buf[q] = produced'[q] - produced[q]
             /\ \A q \in OutPipes : ~HeldByOthers(q) => buf'[q] <= buf[q]
             /\ phase # "ready"
  <2>1. /\ UNCHANGED <<mother, phase, completed, forced, ends, armed, raised, proc, others,
             consumed>>
        /\ phase # "ready" /\ p \in holds /\ buf[p] < Cap
        /\ buf' = [buf EXCEPT ![p] = @ + 1] /\ produced' = [produced EXCEPT ![p] = @ + 1]
    BY <1>1 DEF ChildWrites, ChildIO, MayWrite
  <2>2. buf' \in [Pipes -> 0 .. Cap] /\ produced' \in [OutPipes -> Nat]
    BY <2>1, <1>t, <1>d
  <2>3. \A q \in OutPipes : buf'[q] - buf[q] = produced'[q] - produced[q]
    BY <2>1, <1>t, <1>d
  <2>4. \A q \in OutPipes : ~HeldByOthers(q) => buf'[q] <= buf[q]
    BY <2>1, <1>t, <1>d DEF HeldByOthers
  <2>5. QED
    BY <2>1, <2>2, <2>3, <2>4
<1>2. ASSUME NEW p \in InPipes, ChildReads(p)
      PROVE  /\ UNCHANGED <<mother, phase, completed, forced, ends, armed, raised, proc, others,
                  produced>>
             /\ buf' \in [Pipes -> 0 .. Cap] /\ consumed' \in [InPipes -> Nat]
             /\ \A q \in OutPipes : buf'[q] = buf[q]
             /\ phase # "ready"
  <2>1. /\ UNCHANGED <<mother, phase, completed, forced, ends, armed, raised, proc, others,
             produced>>
        /\ phase # "ready" /\ buf[p] > 0
        /\ buf' = [buf EXCEPT ![p] = @ - 1] /\ consumed' = [consumed EXCEPT ![p] = @ + 1]
    BY <1>2 DEF ChildReads, ChildIO
  <2>2. buf' \in [Pipes -> 0 .. Cap] /\ consumed' \in [InPipes -> Nat]
    BY <2>1, <1>t, <1>d
  <2>3. \A q \in OutPipes : buf'[q] = buf[q]
    BY <2>1, <1>t, <1>d
  <2>4. QED
    BY <2>1, <2>2, <2>3
<1>3. ASSUME \/ \E p \in Pipes : ChildCloses(p)
             \/ ChildForks \/ GrandchildEnds \/ ForeignDies \/ StragglerDies
      PROVE  /\ UNCHANGED <<mother, phase, completed, forced, ends, armed, child, code, program,
                  data>>
             /\ holds' \subseteq holds /\ lingers' \subseteq holds \cup lingers
             /\ raised' \in BOOLEAN /\ straggler' \in BOOLEAN /\ foreign' \in 0 .. MaxForeign
  <2>1. ASSUME NEW p \in Pipes, ChildCloses(p)
        PROVE  /\ UNCHANGED <<mother, phase, completed, forced, ends, armed, raised, child, code,
                    program, data, others, lingers>>
               /\ holds' \subseteq holds
    BY <2>1 DEF ChildCloses
  <2>2. ASSUME ChildForks \/ GrandchildEnds
        PROVE  /\ UNCHANGED <<mother, phase, completed, forced, ends, armed, raised, child, code,
                    program, data, others, holds>>
               /\ lingers' \subseteq holds
    BY <2>2 DEF ChildForks, GrandchildEnds
  <2>3. ASSUME ForeignDies \/ StragglerDies
        PROVE  /\ UNCHANGED <<mother, phase, completed, forced, ends, armed, proc, data>>
               /\ raised' \in BOOLEAN /\ straggler' \in BOOLEAN /\ foreign' \in 0 .. MaxForeign
    <3>1. raised' = (phase = "running" \/ raised)
      BY <2>3 DEF ForeignDies, StragglerDies
    <3>2. raised' \in BOOLEAN
      BY <3>1
    <3>3. CASE ForeignDies
      BY <3>2, <3>3, <1>t DEF ForeignDies, TypeOK
    <3>4. CASE StragglerDies
      BY <3>2, <3>4, <1>t DEF StragglerDies
    <3>5. QED
      BY <2>3, <3>3, <3>4
  <2>t. raised \in BOOLEAN /\ straggler \in BOOLEAN
    BY DEF TypeOK
  <2>4. CASE \E p \in Pipes : ChildCloses(p)
    BY <2>4, <2>1, <2>t, <1>t DEF others
  <2>5. CASE ChildForks \/ GrandchildEnds
    BY <2>5, <2>2, <2>t, <1>t DEF others
  <2>6. CASE ForeignDies \/ StragglerDies
    BY <2>6, <2>3 DEF proc
  <2>7. QED
    BY <1>3, <2>4, <2>5, <2>6
<1>4. ASSUME ChildExits \/ ChildKilled
      PROVE  /\ UNCHANGED <<mother, phase, completed, forced, ends, armed, program, lingers, data,
                  others>>
             /\ child = "running" /\ child' \in {"exited", "killed"}
             /\ code' \in {-1, 0, 1, 42} /\ holds' = {} /\ raised' \in BOOLEAN
  <2>1. ASSUME NEW s, NEW c, Dies(s, c)
        PROVE  /\ UNCHANGED <<mother, phase, completed, forced, ends, armed, program, lingers,
                    data, others>>
               /\ child = "running" /\ child' = s /\ code' = c /\ holds' = {}
               /\ raised' \in BOOLEAN
    BY <2>1 DEF Dies, TypeOK
  <2>2. CASE ChildKilled
    BY <2>1, <2>2 DEF ChildKilled
  <2>3. CASE ChildExits
    <3>1. PICK c \in {0, 1, 42} : Dies("exited", c)
      BY <2>3 DEF ChildExits
    <3>2. QED
      BY <2>1, <3>1
  <2>4. QED
    BY <1>4, <2>2, <2>3
<1>5. CASE \E p \in OutPipes : ChildWrites(p)
  BY <1>5, <1>1 DEF TypeOK, ReadyInv, mother, ends, proc, others
<1>6. CASE \E p \in InPipes : ChildReads(p)
  BY <1>6, <1>2, <1>t, <1>d DEF TypeOK, ReadyInv, mother, ends, proc, others
<1>7. CASE \/ \E p \in Pipes : ChildCloses(p)
           \/ ChildForks \/ GrandchildEnds \/ ForeignDies \/ StragglerDies
  <2>1. TypeOK'
    BY <1>7, <1>3 DEF TypeOK, mother, ends, data
  <2>2. QED
    BY <1>7, <1>3, <1>t, <1>d, <2>1 DEF ReadyInv, data
<1>8. CASE ChildExits \/ ChildKilled
  <2>1. TypeOK'
    BY <1>8, <1>4 DEF TypeOK, mother, ends, data, others
  <2>2. QED
    BY <1>8, <1>4, <1>t, <1>d, <2>1 DEF ReadyInv, data
<1>9. QED
  BY <1>5, <1>6, <1>7, <1>8 DEF ChildSide

\* The child's side breaks nothing.
LEMMA ChildSidePreserves == IInv /\ ChildSide => IInv'
<1> SUFFICES ASSUME IInv, ChildSide PROVE IInv'
  OBVIOUS
<1>k. /\ UNCHANGED <<mother, phase, completed, forced, ends, armed>>
      /\ phase = "ready" => child' = "none" /\ holds' = {} /\ lingers' = {}
      /\ holds' \cup lingers' \subseteq holds \cup lingers
      /\ child = "none" <=> child' = "none"
      /\ child # "running" => child' = child /\ code' = code
      /\ TypeOK'
      /\ \A p \in OutPipes : buf'[p] - buf[p] = produced'[p] - produced[p]
      /\ \A p \in OutPipes : ~HeldByOthers(p) => buf'[p] <= buf[p]
  BY ChildSideKeeps DEF IInv
<1>u. /\ attempt' = attempt /\ sinEof' = sinEof /\ exitCode' = exitCode /\ phase' = phase
      /\ completed' = completed /\ forced' = forced /\ armed' = armed
      /\ reader' = reader /\ got' = got /\ writer' = writer /\ sent' = sent
  BY <1>k DEF mother, ends
<1>1. CountInv'
  <2>1. AtEof' = AtEof /\ Closed' = Closed /\ Handled' = Handled
    BY <1>k, <1>u DEF AtEof, Closed, Handled
  <2>2. QED
    BY <2>1, <1>u DEF IInv, CountInv
<1>2. ReadyInv'
  BY <1>k, <1>u DEF IInv, ReadyInv
<1>3. OutFlow'
  <2> SUFFICES ASSUME NEW p \in OutPipes
               PROVE  /\ buf'[p] + got'[p] = produced'[p]
                      /\ reader'[p] = "eof" => buf'[p] = 0 /\ ~HeldByOthers(p)'
    BY DEF OutFlow
  <2>1. /\ buf[p] + got[p] = produced[p]
        /\ reader[p] = "eof" => buf[p] = 0 /\ ~HeldByOthers(p)
    BY DEF IInv, OutFlow
  <2>2. /\ buf[p] \in Nat /\ got[p] \in Nat /\ produced[p] \in Nat
        /\ buf'[p] \in Nat /\ produced'[p] \in Nat
    BY <1>k, BoundsAssumption DEF IInv, TypeOK, Pipes
  <2>3. ~HeldByOthers(p) => ~HeldByOthers(p)'
    BY <1>k DEF HeldByOthers
  <2>4. QED
    BY <2>1, <2>2, <2>3, <1>k, <1>u
<1>4. InFlow'
  BY <1>u DEF IInv, InFlow
<1>5. StopsWhenDone'
  BY <1>u DEF IInv, StopsWhenDone, RanToTheEnd
<1>6. ExitCodeHonest'
  BY <1>k, <1>u DEF IInv, ExitCodeHonest
<1>7. QED
  BY <1>k, <1>1, <1>2, <1>3, <1>4, <1>5, <1>6 DEF IInv

\* A pipe at its end stays so, and the command is stopped only when all are.
LEMMA ReadEofPreserves ==
  ASSUME IInv, NEW p \in OutPipes, ReadEof(p)
  PROVE  IInv'
<1>1. /\ phase = "running" /\ reader[p] = "reading" /\ buf[p] = 0 /\ ~HeldByOthers(p)
      /\ reader' = [reader EXCEPT ![p] = "eof"] /\ HandleCompleted(1, FALSE)
      /\ UNCHANGED <<mother, got, writer, sent, armed, raised, proc, data, others>>
  BY DEF ReadEof
<1>t. reader \in [OutPipes -> {"reading", "eof"}] /\ writer \in [InPipes -> {"writing", "closed"}]
  BY DEF IInv, TypeOK
<1>2. /\ AtEof' = AtEof \cup {p} /\ p \notin AtEof /\ Closed' = Closed /\ Handled' = Handled
  BY <1>1, <1>t DEF AtEof, Closed, Handled, proc
<1>3. Cardinality(AtEof') = Cardinality(AtEof) + 1
  <2>1. IsFiniteSet(AtEof)
    BY Totals DEF AtEof
  <2>2. QED
    BY <1>2, <2>1, OneMore
<1>4. /\ CountInv' /\ completed' \in 0 .. Total /\ phase' \in {"running", "stopped"}
      /\ phase' = "stopped" => AtEof' = OutPipes /\ Closed' = InPipes /\ Handled' = 1
  <2>1. AtEof' \in SUBSET OutPipes /\ Closed' \in SUBSET InPipes /\ Handled' \in {0, 1}
    BY DEF AtEof, Closed, Handled
  <2>2. /\ Cardinality(AtEof) \in Nat /\ Cardinality(Closed) \in Nat /\ Handled \in {0, 1}
    BY Totals DEF AtEof, Closed, Handled
  <2>3. Cardinality(AtEof') + Cardinality(Closed') + Handled'
          = Cardinality(AtEof) + Cardinality(Closed) + Handled + 1
    BY <1>2, <1>3, <2>2
  <2>4. QED
    BY <1>1, <2>1, <2>3, Reports DEF IInv
<1>5. TypeOK'
  <2>1. reader' \in [OutPipes -> {"reading", "eof"}] /\ forced' \in BOOLEAN
    BY <1>1, <1>t DEF HandleCompleted
  <2>2. TypeOK
    BY DEF IInv
  <2>3. QED
    BY <1>1, <1>4, <2>1, <2>2 DEF TypeOK, mother, proc, data, others
<1>6. ReadyInv'
  BY <1>1, <1>4 DEF ReadyInv, HandleCompleted
<1>7. OutFlow'
  BY <1>1, <1>t DEF IInv, OutFlow, HeldByOthers, proc, data
<1>8. InFlow'
  BY <1>1, <1>4 DEF IInv, InFlow, ReadyInv, HandleCompleted, mother
<1>9. StopsWhenDone'
  BY <1>4 DEF StopsWhenDone, RanToTheEnd, AtEof, Closed, Handled
<1>10. ExitCodeHonest'
  BY <1>1 DEF IInv, ExitCodeHonest, mother, proc
<1>11. QED
  BY <1>4, <1>5, <1>6, <1>7, <1>8, <1>9, <1>10 DEF IInv

\* A chunk moves from the pipe into the result.
LEMMA ReadSomePreserves ==
  ASSUME IInv, NEW p \in OutPipes, ReadSome(p)
  PROVE  IInv'
<1>1. /\ phase = "running" /\ reader[p] = "reading" /\ buf[p] > 0
      /\ buf' = [buf EXCEPT ![p] = @ - 1] /\ got' = [got EXCEPT ![p] = @ + 1]
      /\ UNCHANGED <<mother, phase, completed, forced, reader, writer, sent, armed, raised,
                     proc, produced, consumed, others>>
  BY DEF ReadSome
<1>t. /\ buf \in [Pipes -> 0 .. Cap] /\ got \in [OutPipes -> Nat] /\ Cap \in Nat
      /\ produced \in [OutPipes -> Nat] /\ OutPipes \subseteq Pipes /\ MaxOut \in Nat
  BY BoundsAssumption DEF IInv, TypeOK, Pipes
<1>2. CountInv'
  <2>1. AtEof' = AtEof /\ Closed' = Closed /\ Handled' = Handled
    BY <1>1 DEF AtEof, Closed, Handled, proc
  <2>2. QED
    BY <2>1, <1>1 DEF IInv, CountInv
<1>3. TypeOK'
  <2>1. buf' \in [Pipes -> 0 .. Cap] /\ got' \in [OutPipes -> Nat]
    BY <1>1, <1>t
  <2>2. TypeOK
    BY DEF IInv
  <2>3. QED
    BY <1>1, <2>1, <2>2 DEF TypeOK, mother, proc, others
<1>4. OutFlow'
  <2> SUFFICES ASSUME NEW q \in OutPipes
               PROVE  /\ buf'[q] + got'[q] = produced'[q]
                      /\ reader'[q] = "eof" => buf'[q] = 0 /\ ~HeldByOthers(q)'
    BY DEF OutFlow
  <2>1. /\ buf[q] + got[q] = produced[q]
        /\ reader[q] = "eof" => buf[q] = 0 /\ ~HeldByOthers(q)
    BY DEF IInv, OutFlow
  <2>2. HeldByOthers(q)' <=> HeldByOthers(q)
    BY <1>1 DEF HeldByOthers, proc
  <2>3. CASE q = p
    BY <1>1, <1>t, <2>1, <2>2, <2>3
  <2>4. CASE q # p
    BY <1>1, <1>t, <2>1, <2>2, <2>4
  <2>5. QED
    BY <2>3, <2>4
<1>5. InFlow' /\ ReadyInv'
  BY <1>1 DEF IInv, InFlow, ReadyInv, mother
<1>6. StopsWhenDone' /\ ExitCodeHonest'
  BY <1>1 DEF IInv, StopsWhenDone, RanToTheEnd, ExitCodeHonest, mother, proc
<1>7. QED
  BY <1>2, <1>3, <1>4, <1>5, <1>6 DEF IInv

\* A pipe to the child is closed once: what both write handlers have in common.
LEMMA OneClosed ==
  ASSUME IInv, NEW p \in InPipes, NEW force \in BOOLEAN, HandleCompleted(1, force),
         phase = "running", writer[p] = "writing",
         writer' = [writer EXCEPT ![p] = "closed"],
         UNCHANGED <<reader, armed, child>>
  PROVE  /\ CountInv' /\ completed' \in 0 .. Total /\ phase' \in {"running", "stopped"}
         /\ phase' = "stopped" /\ ~force
              => AtEof' = OutPipes /\ Closed' = InPipes /\ Handled' = 1
<1>t. writer \in [InPipes -> {"writing", "closed"}]
  BY DEF IInv, TypeOK
<1>1. AtEof' = AtEof /\ Closed' = Closed \cup {p} /\ p \notin Closed /\ Handled' = Handled
  BY <1>t DEF AtEof, Closed, Handled
<1>2. Cardinality(Closed') = Cardinality(Closed) + 1
  <2>1. IsFiniteSet(Closed)
    BY Totals DEF Closed
  <2>2. QED
    BY <1>1, <2>1, OneMore
<1>3. AtEof' \in SUBSET OutPipes /\ Closed' \in SUBSET InPipes /\ Handled' \in {0, 1}
  BY DEF AtEof, Closed, Handled
<1>4. /\ Cardinality(AtEof) \in Nat /\ Cardinality(Closed) \in Nat /\ Handled \in {0, 1}
  BY Totals DEF AtEof, Closed, Handled
<1>5. Cardinality(AtEof') + Cardinality(Closed') + Handled'
        = Cardinality(AtEof) + Cardinality(Closed) + Handled + 1
  BY <1>1, <1>2, <1>4
<1>6. QED
  BY <1>3, <1>5, Reports DEF IInv

\* A chunk moves into a pipe to the child; after the last one it is closed.
LEMMA WrittenPreserves ==
  ASSUME IInv, NEW p \in InPipes, Written(p)
  PROVE  IInv'
<1> DEFINE n == sent[p] + 1
<1>1. /\ phase = "running" /\ writer[p] = "writing" /\ buf[p] < Cap
      /\ buf' = [buf EXCEPT ![p] = @ + 1] /\ sent' = [sent EXCEPT ![p] = n]
      /\ sinEof' \in BOOLEAN
      /\ UNCHANGED <<attempt, exitCode, ok, reader, got, armed, raised, proc, produced,
                     consumed, others>>
  BY DEF Written, ReadsSin, IInv, TypeOK
<1>2. \/ HasChunk(p, n) /\ UNCHANGED <<writer, completed, forced, phase>>
      \/ ~HasChunk(p, n) /\ writer' = [writer EXCEPT ![p] = "closed"]
         /\ HandleCompleted(1, FALSE)
  BY DEF Written
<1>t. /\ buf \in [Pipes -> 0 .. Cap] /\ sent \in [InPipes -> Nat] /\ Cap \in Nat
      /\ writer \in [InPipes -> {"writing", "closed"}] /\ InPipes \subseteq Pipes
      /\ InPipes \cap OutPipes = {} /\ OutPipes \subseteq Pipes /\ Size \in [InPipes -> Nat]
  BY BoundsAssumption, PipesAssumption, SizeAssumption
     DEF IInv, TypeOK, Pipes, InPipes, OutPipes
<1>n. n \in Nat /\ n > 0 /\ n <= Size[p]
  BY <1>1, <1>t DEF IInv, InFlow
<1>h. HasChunk(p, n) <=> n < Size[p]
  BY <1>n DEF HasChunk
<1> HIDE DEF n
<1>3. /\ CountInv' /\ completed' \in 0 .. Total /\ phase' \in {"running", "stopped"}
      /\ forced' = FALSE
      /\ phase' = "stopped" => AtEof' = OutPipes /\ Closed' = InPipes /\ Handled' = 1
  <2>1. CASE HasChunk(p, n)
    <3>1. UNCHANGED <<writer, completed, forced, phase>>
      BY <1>2, <2>1
    <3>2. AtEof' = AtEof /\ Closed' = Closed /\ Handled' = Handled
      BY <1>1, <3>1 DEF AtEof, Closed, Handled, proc
    <3>3. CountInv' /\ completed' \in 0 .. Total
      BY <3>1, <3>2 DEF IInv, CountInv, TypeOK
    <3>4. QED
      BY <1>1, <3>1, <3>3 DEF IInv, ReadyInv, TypeOK
  <2>2. CASE ~HasChunk(p, n)
    <3>1. writer' = [writer EXCEPT ![p] = "closed"] /\ HandleCompleted(1, FALSE)
      BY <1>2, <2>2
    <3>2. UNCHANGED <<reader, armed, child>>
      BY <1>1 DEF proc
    <3>3. QED
      BY <1>1, <3>1, <3>2, OneClosed DEF HandleCompleted
  <2>3. QED
    BY <2>1, <2>2
<1>4. TypeOK'
  <2>1. buf' \in [Pipes -> 0 .. Cap]
    <3>1. buf[p] \in 0 .. Cap /\ buf[p] + 1 \in 0 .. Cap
      BY <1>1, <1>t
    <3>2. QED
      BY <1>1, <1>t, <3>1
  <2>2. sent' \in [InPipes -> Nat]
    BY <1>1, <1>t, <1>n
  <2>3. writer' \in [InPipes -> {"writing", "closed"}]
    BY <1>2, <1>t
  <2>4. /\ phase' \in {"ready", "running", "stopped", "returned"}
        /\ completed' \in 0 .. Total /\ forced' \in BOOLEAN
    BY <1>3
  <2>5. TypeOK
    BY DEF IInv
  <2>6. UNCHANGED <<attempt, exitCode, ok, reader, got, armed, raised, child, code, program,
                    holds, lingers, produced, consumed, straggler, foreign>>
    BY <1>1 DEF proc, others
  <2>7. QED
    BY <1>1, <2>1, <2>2, <2>3, <2>4, <2>5, <2>6 DEF TypeOK
<1>5. ReadyInv'
  BY <1>3 DEF ReadyInv
<1>6. OutFlow'
  <2>1. \A q \in OutPipes : buf'[q] = buf[q]
    BY <1>1, <1>t
  <2>2. \A q \in OutPipes : HeldByOthers(q)' <=> HeldByOthers(q)
    BY <1>1 DEF HeldByOthers, proc
  <2>3. QED
    BY <1>1, <2>1, <2>2 DEF IInv, OutFlow
<1>7. InFlow'
  <2> SUFFICES ASSUME NEW q \in InPipes
               PROVE  /\ phase' = "running" /\ writer'[q] = "writing" => sent'[q] < Size[q]
                      /\ writer'[q] = "closed" /\ ~forced'
                           => sent'[q] = Size[q] \/ (attempt' = 1 /\ sent'[q] = 0)
    BY DEF InFlow
  <2>1. CASE q = p
    <3>1. sent'[p] = n
      BY <1>1, <1>t
    <3>2. CASE HasChunk(p, n)
      BY <1>1, <1>2, <1>h, <2>1, <3>1, <3>2
    <3>3. CASE ~HasChunk(p, n)
      <4>1. writer'[p] = "closed"
        BY <1>2, <1>t, <3>3
      <4>2. n = Size[p]
        BY <1>h, <1>n, <1>t, <3>3
      <4>3. QED
        BY <2>1, <3>1, <4>1, <4>2
    <3>4. QED
      BY <3>2, <3>3
  <2>2. CASE q # p
    <3>1. writer'[q] = writer[q] /\ sent'[q] = sent[q] /\ ~forced
      BY <1>1, <1>2, <1>t, <2>2 DEF IInv, ReadyInv
    <3>2. QED
      BY <1>1, <3>1 DEF IInv, InFlow
  <2>3. QED
    BY <2>1, <2>2
<1>8. StopsWhenDone'
  BY <1>3 DEF StopsWhenDone, RanToTheEnd, AtEof, Closed, Handled
<1>9. ExitCodeHonest'
  BY <1>1 DEF IInv, ExitCodeHonest, proc
<1>10. QED
  BY <1>3, <1>4, <1>5, <1>6, <1>7, <1>8, <1>9 DEF IInv

\* A failing write stops the command by force.
LEMMA WriteFailsPreserves ==
  ASSUME IInv, NEW p \in InPipes, WriteFails(p)
  PROVE  IInv'
<1>1. /\ phase = "running" /\ writer[p] = "writing"
      /\ writer' = [writer EXCEPT ![p] = "closed"] /\ HandleCompleted(1, TRUE)
      /\ UNCHANGED <<mother, reader, got, sent, armed, raised, proc, data, others>>
  BY DEF WriteFails
<1>2. forced' = TRUE /\ phase' = "stopped"
  BY <1>1 DEF HandleCompleted
<1>3. CountInv' /\ completed' \in 0 .. Total
  <2>1. UNCHANGED <<reader, armed, child>>
    BY <1>1 DEF proc
  <2>2. QED
    BY <1>1, <2>1, OneClosed
<1>4. TypeOK'
  <2>1. writer' \in [InPipes -> {"writing", "closed"}] /\ forced' \in BOOLEAN
    BY <1>1, <1>2 DEF IInv, TypeOK
  <2>2. TypeOK
    BY DEF IInv
  <2>3. QED
    BY <1>1, <1>2, <1>3, <2>1, <2>2 DEF TypeOK, mother, proc, data, others
<1>5. ReadyInv' /\ InFlow' /\ StopsWhenDone'
  BY <1>2 DEF ReadyInv, InFlow, StopsWhenDone, RanToTheEnd
<1>6. OutFlow' /\ ExitCodeHonest'
  BY <1>1 DEF IInv, OutFlow, HeldByOthers, ExitCodeHonest, mother, proc, data
<1>7. QED
  BY <1>3, <1>4, <1>5, <1>6 DEF IInv

\* The one wait for SIGCHLD ends.
LEMMA SigChildPreserves == IInv /\ SigChild => IInv'
<1> SUFFICES ASSUME IInv, SigChild PROVE IInv'
  OBVIOUS
<1>1. /\ phase = "running" /\ armed /\ armed' = FALSE /\ raised' = FALSE
      /\ UNCHANGED <<attempt, sinEof, ok, ends, code, program, holds, lingers, data, others>>
  BY DEF SigChild
<1>2. AtEof' = AtEof /\ Closed' = Closed /\ Handled = 0
  BY <1>1 DEF AtEof, Closed, Handled, ends
<1>3. CASE child = "none"
  <2>1. UNCHANGED <<exitCode, child, phase, completed, forced>>
    BY <1>3 DEF SigChild
  <2>2. Handled' = 0
    BY <1>3, <2>1 DEF Handled
  <2>3. CountInv'
    BY <1>2, <2>1, <2>2 DEF IInv, CountInv
  <2>4. TypeOK'
    <3>1. TypeOK
      BY DEF IInv
    <3>2. armed' \in BOOLEAN /\ raised' \in BOOLEAN
      BY <1>1
    <3>3. UNCHANGED <<attempt, sinEof, ok, reader, got, writer, sent, code, program, holds,
                      lingers, buf, produced, consumed, straggler, foreign>>
      BY <1>1 DEF ends, data, others
    <3>4. QED
      BY <2>1, <3>1, <3>2, <3>3 DEF TypeOK
  <2>5. ReadyInv' /\ InFlow' /\ StopsWhenDone'
    BY <1>1, <2>1 DEF IInv, ReadyInv, InFlow, StopsWhenDone, RanToTheEnd, ends
  <2>6. OutFlow' /\ ExitCodeHonest'
    BY <1>1, <2>1 DEF IInv, OutFlow, HeldByOthers, ExitCodeHonest, ends, data
  <2>7. QED
    BY <2>3, <2>4, <2>5, <2>6 DEF IInv
<1>4. CASE child # "none"
  <2>1. /\ exitCode' = ExitCodeSeen /\ HandleCompleted(1, FALSE)
        /\ child' = IF child \in {"exited", "killed"} THEN "gone" ELSE child
    BY <1>4 DEF SigChild
  <2>2. Handled' = 1 /\ forced' = FALSE
    BY <1>1, <1>4, <2>1 DEF Handled, HandleCompleted
  <2>3. /\ CountInv' /\ completed' \in 0 .. Total /\ phase' \in {"running", "stopped"}
        /\ phase' = "stopped" => AtEof' = OutPipes /\ Closed' = InPipes /\ Handled' = 1
    <3>1. AtEof' \in SUBSET OutPipes /\ Closed' \in SUBSET InPipes /\ Handled' \in {0, 1}
      BY DEF AtEof, Closed, Handled
    <3>2. /\ Cardinality(AtEof) \in Nat /\ Cardinality(Closed) \in Nat
      BY Totals DEF AtEof, Closed
    <3>3. Cardinality(AtEof') + Cardinality(Closed') + Handled'
            = Cardinality(AtEof) + Cardinality(Closed) + Handled + 1
      BY <1>2, <2>2, <3>2
    <3>4. QED
      BY <1>1, <2>1, <3>1, <3>3, Reports DEF IInv
  <2>4. TypeOK'
    <3>1. exitCode' \in {-1, 0, 1, 42}
      BY <2>1 DEF IInv, TypeOK, ExitCodeSeen
    <3>2. child' \in {"none", "running", "exited", "killed", "gone"}
      BY <2>1 DEF IInv, TypeOK
    <3>3. TypeOK
      BY DEF IInv
    <3>4. /\ armed' \in BOOLEAN /\ raised' \in BOOLEAN /\ forced' \in BOOLEAN
          /\ phase' \in {"ready", "running", "stopped", "returned"}
          /\ completed' \in 0 .. Total
      BY <1>1, <2>2, <2>3
    <3>5. UNCHANGED <<attempt, sinEof, ok, reader, got, writer, sent, code, program, holds,
                      lingers, buf, produced, consumed, straggler, foreign>>
      BY <1>1 DEF ends, data, others
    <3>6. QED
      BY <3>1, <3>2, <3>3, <3>4, <3>5 DEF TypeOK
  <2>5. ReadyInv' /\ StopsWhenDone'
    BY <2>2, <2>3 DEF ReadyInv, StopsWhenDone, RanToTheEnd, AtEof, Closed, Handled
  <2>6. InFlow'
    BY <1>1, <2>2, <2>3 DEF IInv, InFlow, ReadyInv, ends
  <2>7. OutFlow'
    BY <1>1 DEF IInv, OutFlow, HeldByOthers, ends, data
  <2>8. ExitCodeHonest'
    BY <1>1, <2>1 DEF IInv, ExitCodeHonest, ExitCodeSeen
  <2>9. QED
    BY <2>3, <2>4, <2>5, <2>6, <2>7, <2>8 DEF IInv
<1>5. QED
  BY <1>3, <1>4

\* The steps of run around the io_service.
LEMMA RunPreserves == IInv /\ (NoPipe \/ OutOfWork \/ Return \/ Again) => IInv'
<1>1. ASSUME IInv, NoPipe PROVE IInv'
  <2>1. /\ phase = "ready" /\ phase' = "returned"
        /\ UNCHANGED <<mother, completed, forced, ends, armed, raised, proc, data, others>>
    BY <1>1 DEF NoPipe
  <2>2. AtEof' = AtEof /\ Closed' = Closed /\ Handled' = Handled
    BY <2>1 DEF AtEof, Closed, Handled, ends, proc
  <2>3. CountInv' /\ TypeOK'
    BY <1>1, <2>1, <2>2 DEF IInv, CountInv, TypeOK, mother, ends, proc, data, others
  <2>4. completed = 0
    <3>1. AtEof = {} /\ Closed = {} /\ Handled = 0
      BY <1>1, <2>1 DEF IInv, ReadyInv, AtEof, Closed, Handled
    <3>2. QED
      BY <1>1, <3>1, FS_EmptySet DEF IInv, CountInv
  <2>5. ReadyInv' /\ InFlow' /\ StopsWhenDone'
    BY <1>1, <2>1, <2>4 DEF IInv, ReadyInv, InFlow, StopsWhenDone, RanToTheEnd, mother, ends
  <2>6. OutFlow' /\ ExitCodeHonest'
    BY <1>1, <2>1 DEF IInv, OutFlow, HeldByOthers, ExitCodeHonest, mother, ends, proc, data
  <2>7. QED
    BY <2>3, <2>5, <2>6 DEF IInv
<1>2. ASSUME IInv, OutOfWork \/ Return PROVE IInv'
  <2>0. TypeOK
    BY <1>2 DEF IInv
  <2>1. /\ ok' \in BOOLEAN /\ phase' \in {"stopped", "returned"}
        /\ phase \in {"running", "stopped"}
        /\ UNCHANGED <<attempt, sinEof, exitCode, completed, forced, ends, armed, raised,
                       proc, data, others>>
    <3>1. CASE OutOfWork
      BY <2>0, <3>1 DEF OutOfWork, mother, TypeOK
    <3>2. CASE Return
      BY <3>2 DEF Return, IsExecError
    <3>3. QED
      BY <1>2, <3>1, <3>2
  <2>2. AtEof' = AtEof /\ Closed' = Closed /\ Handled' = Handled
    BY <2>1 DEF AtEof, Closed, Handled, ends, proc
  <2>3. CountInv' /\ TypeOK'
    BY <1>2, <2>0, <2>1, <2>2 DEF IInv, CountInv, TypeOK, ends, proc, data, others
  <2>4. ReadyInv' /\ InFlow'
    BY <1>2, <2>1 DEF IInv, ReadyInv, InFlow, ends
  <2>5. StopsWhenDone'
    <3>1. CASE OutOfWork
      BY <2>1, <3>1 DEF OutOfWork, StopsWhenDone, RanToTheEnd, ends
    <3>2. CASE Return
      BY <1>2, <2>1, <3>2 DEF Return, IInv, StopsWhenDone, RanToTheEnd, ends
    <3>3. QED
      BY <1>2, <3>1, <3>2
  <2>6. OutFlow' /\ ExitCodeHonest'
    BY <1>2, <2>1 DEF IInv, OutFlow, HeldByOthers, ExitCodeHonest, ends, proc, data
  <2>7. QED
    BY <2>3, <2>4, <2>5, <2>6 DEF IInv
<1>3. ASSUME IInv, Again PROVE IInv'
  <2>1. AtEof' = {} /\ Closed' = {} /\ Handled' = 0
    BY <1>3 DEF Again, AtEof, Closed, Handled
  <2>2. CountInv'
    BY <1>3, <2>1, FS_EmptySet DEF Again, CountInv
  <2>3. TypeOK'
    <3>1. /\ buf' \in [Pipes -> 0 .. Cap] /\ produced' \in [OutPipes -> Nat]
          /\ reader' \in [OutPipes -> {"reading", "eof"}] /\ got' \in [OutPipes -> Nat]
          /\ writer' \in [InPipes -> {"writing", "closed"}] /\ sent' \in [InPipes -> Nat]
          /\ consumed' \in [InPipes -> Nat]
      BY <1>3, BoundsAssumption DEF Again
    <3>2. completed' \in 0 .. Total
      <4>1. Total \in Nat
        BY <2>1, Totals
      <4>2. QED
        BY <1>3, <4>1 DEF Again
    <3>3. straggler' \in BOOLEAN
      BY <1>3 DEF Again
    <3>4. attempt' \in 0 .. 1
      BY <1>3 DEF Again, MayRetry
    <3>5. /\ phase' = "ready" /\ forced' = FALSE /\ armed' = TRUE /\ raised' = FALSE
          /\ exitCode' = -1 /\ child' = "none" /\ code' = -1 /\ program' = "any"
          /\ holds' = {} /\ lingers' = {} /\ UNCHANGED <<sinEof, ok, foreign>>
      BY <1>3 DEF Again
    <3>6. sinEof \in BOOLEAN /\ ok \in BOOLEAN /\ foreign \in 0 .. MaxForeign
      BY <1>3 DEF IInv, TypeOK
    <3>7. QED
      BY <3>1, <3>2, <3>3, <3>4, <3>5, <3>6 DEF TypeOK, Programs
  <2>4. ReadyInv'
    BY <1>3 DEF Again, MayRetry, ReadyInv
  <2>5. OutFlow'
    BY <1>3 DEF Again, OutFlow, OutPipes, Pipes
  <2>6. InFlow' /\ StopsWhenDone' /\ ExitCodeHonest'
    BY <1>3 DEF Again, InFlow, StopsWhenDone, RanToTheEnd, ExitCodeHonest
  <2>7. QED
    BY <2>2, <2>3, <2>4, <2>5, <2>6 DEF IInv
<1>4. QED
  BY <1>1, <1>2, <1>3

\* fork, and the first chunk for every pipe.
LEMMA LaunchPreserves == IInv /\ Launch => IInv'
<1> SUFFICES ASSUME IInv, Launch PROVE IInv'
  OBVIOUS
<1> DEFINE empty == {p \in InPipes : ~HasChunk(p, 0)}
<1>1. /\ phase = "ready" /\ phase' = "running" /\ completed' = Cardinality(empty)
      /\ writer' = [p \in InPipes |-> IF p \in empty THEN "closed" ELSE "writing"]
      /\ sinEof' \in BOOLEAN
      /\ UNCHANGED <<attempt, exitCode, ok, forced, reader, got, sent, armed, raised,
                     code, lingers, data, others>>
  BY DEF Launch, ReadsSin, IInv, TypeOK
<1>2. \/ child' = "running" /\ holds' = Pipes /\ program' \in Programs
      \/ child' = "none" /\ UNCHANGED <<holds, program>>
  BY DEF Launch
<1>r. /\ armed /\ exitCode = -1 /\ ~forced
      /\ \A p \in OutPipes : reader[p] = "reading"
      /\ \A p \in InPipes : sent[p] = 0
      /\ attempt = 0 => ~sinEof
  BY <1>1 DEF IInv, ReadyInv
<1>3. CountInv' /\ completed' \in 0 .. Total
  <2>1. AtEof' = {} /\ Closed' = empty /\ Handled' = 0
    BY <1>1, <1>r DEF AtEof, Closed, Handled
  <2>2. Cardinality({}) = 0
    BY FS_EmptySet
  <2>3. /\ Cardinality(empty) \in Nat
        /\ Cardinality({}) + Cardinality(empty) + 0 \in 0 .. Total
    BY Totals
  <2> HIDE DEF empty
  <2>4. QED
    BY <1>1, <2>1, <2>2, <2>3 DEF CountInv
<1>4. TypeOK'
  <2>1. writer' \in [InPipes -> {"writing", "closed"}]
    BY <1>1
  <2>2. TypeOK
    BY DEF IInv
  <2>3. /\ holds' \subseteq Pipes /\ program' \in Programs
        /\ child' \in {"none", "running", "exited", "killed", "gone"}
    BY <1>2, <2>2 DEF TypeOK
  <2>4. QED
    BY <1>1, <1>3, <2>1, <2>2, <2>3 DEF TypeOK, data, others
<1>5. ReadyInv' /\ StopsWhenDone' /\ ExitCodeHonest'
  BY <1>1, <1>r DEF ReadyInv, StopsWhenDone, RanToTheEnd, ExitCodeHonest
<1>6. OutFlow'
  BY <1>1, <1>r DEF IInv, OutFlow, data
<1>7. InFlow'
  <2> SUFFICES ASSUME NEW p \in InPipes
               PROVE  /\ writer'[p] = "writing" => sent'[p] < Size[p]
                      /\ writer'[p] = "closed" => sent'[p] = Size[p]
                           \/ (attempt' = 1 /\ sent'[p] = 0)
    BY DEF InFlow
  <2>1. sent'[p] = 0 /\ Size[p] \in Nat /\ attempt' = attempt /\ attempt \in 0 .. 1
    BY <1>1, <1>r, SizeAssumption DEF IInv, TypeOK
  <2>2. writer'[p] = IF HasChunk(p, 0) THEN "writing" ELSE "closed"
    BY <1>1
  <2>3. CASE HasChunk(p, 0)
    BY <2>1, <2>2, <2>3 DEF HasChunk
  <2>4. CASE ~HasChunk(p, 0)
    BY <2>1, <2>2, <2>4, <1>r DEF HasChunk
  <2>5. QED
    BY <2>3, <2>4
<1>8. QED
  BY <1>3, <1>4, <1>5, <1>6, <1>7 DEF IInv

\* The inductive invariant.
LEMMA Invariant == Spec => []IInv
<1>1. IInv /\ [Next]_vars => IInv'
  <2> SUFFICES ASSUME IInv, [Next]_vars PROVE IInv'
    OBVIOUS
  <2>1. CASE Mother
    BY <2>1, LaunchPreserves, RunPreserves, ReadSomePreserves, ReadEofPreserves,
       WrittenPreserves, WriteFailsPreserves, SigChildPreserves DEF Mother, Handler
  <2>2. CASE ChildStep \/ ChildExits \/ GrandchildEnds \/ StragglerDies \/ Outside
    <3>1. ChildSide
      BY <2>2 DEF ChildSide, ChildStep, Outside
    <3>2. QED
      BY <3>1, ChildSidePreserves
  <2>3. CASE UNCHANGED vars
    <3>1. AtEof' = AtEof /\ Closed' = Closed /\ Handled' = Handled
      BY <2>3 DEF vars, ends, proc, AtEof, Closed, Handled
    <3>2. CountInv' /\ TypeOK'
      BY <2>3, <3>1 DEF vars, IInv, CountInv, TypeOK, mother, ends, proc, data, others
    <3>3. ReadyInv' /\ InFlow' /\ StopsWhenDone'
      BY <2>3 DEF vars, IInv, ReadyInv, InFlow, StopsWhenDone, RanToTheEnd, mother, ends, proc
    <3>4. OutFlow' /\ ExitCodeHonest'
      BY <2>3 DEF vars, IInv, OutFlow, HeldByOthers, ExitCodeHonest, mother, ends, proc, data
    <3>5. QED
      BY <3>2, <3>3, <3>4 DEF IInv
  <2>4. QED
    BY <2>1, <2>2, <2>3 DEF Next
<1>2. QED
  BY <1>1, Start, PTL DEF Spec

\* Every variable keeps its type, and there is one retry at most.
THEOREM TypeCorrect == Spec => []TypeOK
<1>1. IInv => TypeOK
  BY DEF IInv
<1>2. QED
  BY <1>1, Invariant, PTL

\* The io_service is only stopped when each pipe and the signal have reported.
THEOREM NeverStopsEarly == Spec => []StopsWhenDone
<1>1. IInv => StopsWhenDone
  BY DEF IInv
<1>2. QED
  BY <1>1, Invariant, PTL

\* A result holds the output of the child to the last chunk.
THEOREM NothingIsLost == Spec => []OutputComplete
<1>1. IInv => OutputComplete
  <2> SUFFICES ASSUME IInv, RanToTheEnd PROVE OutputComplete
    BY DEF OutputComplete
  <2>1. /\ \A p \in OutPipes : reader[p] = "eof"
        /\ \A p \in InPipes : writer[p] = "closed"
        /\ ~forced
    BY DEF IInv, StopsWhenDone, RanToTheEnd
  <2>2. \A p \in OutPipes : got[p] \in Nat /\ buf[p] = 0 /\ buf[p] + got[p] = produced[p]
    BY <2>1 DEF IInv, OutFlow, TypeOK
  <2>3. \A p \in OutPipes : got[p] = produced[p] /\ ~HeldByOthers(p)
    BY <2>1, <2>2 DEF IInv, OutFlow
  <2>4. QED
    BY <2>1, <2>3 DEF IInv, InFlow, OutputComplete
<1>2. QED
  BY <1>1, Invariant, PTL

\* An exit code that is reported is the child's own.
THEOREM ExitCodeIsTheChilds == Spec => []ExitCodeHonest
<1>1. IInv => ExitCodeHonest
  BY DEF IInv
<1>2. QED
  BY <1>1, Invariant, PTL
-----------------------------------------------------------------------------
(***************************************************************************)
(* A second invariant, for the command that is run again: what SIGCHLD and *)
(* the exit code say of each other.                                        *)
(***************************************************************************)

\* The wait for SIGCHLD is over when the io_service stops by itself; in the first
\* attempt only another child can have ended it while the own one had not died.
SignalInv ==
  /\ phase = "stopped" => forced \/ ~armed
  /\ straggler => attempt = 1
  /\ child = "killed" => code = -1
  /\ child = "gone" /\ code # -1 => exitCode = code
  /\ attempt = 0 /\ raised /\ child \in {"none", "running"} => foreign > 0
  /\ attempt = 0 /\ ~armed /\ child \in {"running", "exited", "killed"} => foreign > 0

LEMMA SignalStart == Init => SignalInv
BY DEF Init, SignalInv

\* The io_service is stopped by force, or with the signal handled.
LEMMA StoppedHandled ==
  IInv' /\ phase' = "stopped" /\ completed' >= Total => forced' \/ ~armed'
<1> SUFFICES ASSUME IInv', phase' = "stopped", completed' >= Total, ~forced'
             PROVE  ~armed'
  OBVIOUS
<1>1. Total \in Nat /\ Total > 0
  <2>1. IsFiniteSet(Pipes)
    <3>1. IsFiniteSet(OutPipes) /\ IsFiniteSet(InPipes)
      BY Totals
    <3>2. QED
      BY <3>1, FS_Union DEF Pipes
  <2>2. QED
    BY <2>1, FS_CardinalityType DEF Total
<1>2. completed' > 0
  BY <1>1 DEF IInv, TypeOK
<1>3. QED
  BY <1>2 DEF IInv, StopsWhenDone, RanToTheEnd

LEMMA SignalHandlers ==
  ASSUME IInv, SignalInv, IInv', Handler
  PROVE  SignalInv'
<1> USE DEF SignalInv
<1>1. CASE \E p \in OutPipes : ReadSome(p)
  BY <1>1 DEF ReadSome, mother, proc, others
<1>2. CASE \E p \in OutPipes : ReadEof(p)
  BY <1>2, StoppedHandled DEF ReadEof, HandleCompleted, mother, proc, others
<1>3. CASE \E p \in InPipes : Written(p)
  <2> PICK p \in InPipes : Written(p)
    BY <1>3
  <2>1. /\ UNCHANGED <<attempt, exitCode, armed, raised, child, code, foreign, straggler>>
        /\ phase = "running"
    BY DEF Written, proc, others
  <2>2. phase' = "stopped" => completed' >= Total \/ forced'
    BY <2>1 DEF Written, HandleCompleted
  <2>3. QED
    BY <2>1, <2>2, StoppedHandled
<1>4. CASE \E p \in InPipes : WriteFails(p)
  BY <1>4 DEF WriteFails, HandleCompleted, mother, proc, others
<1>5. CASE SigChild
  <2>1. phase = "running" /\ armed /\ raised /\ ~armed' /\ ~raised'
    BY <1>5 DEF SigChild
  <2>2. UNCHANGED <<attempt, code, foreign, straggler>>
    BY <1>5 DEF SigChild, others
  <2>3. CASE child = "none"
    BY <1>5, <2>1, <2>2, <2>3 DEF SigChild
  <2>4. CASE child # "none"
    <3>1. /\ exitCode' = ExitCodeSeen
          /\ child' = IF child \in {"exited", "killed"} THEN "gone" ELSE child
      BY <1>5, <2>4 DEF SigChild
    <3>2. child \in {"running", "exited", "killed", "gone"}
      BY <2>4 DEF IInv, TypeOK
    <3>3. QED
      BY <2>1, <2>2, <3>1, <3>2 DEF ExitCodeSeen
  <2>5. QED
    BY <2>3, <2>4
<1>6. CASE OutOfWork
  BY <1>6 DEF OutOfWork, mother, proc, others
<1>7. QED
  BY <1>1, <1>2, <1>3, <1>4, <1>5, <1>6 DEF Handler

LEMMA SignalMother ==
  ASSUME IInv, SignalInv, NoPipe \/ Launch \/ Return \/ Again
  PROVE  SignalInv'
<1> USE DEF SignalInv
<1>1. CASE NoPipe \/ Return
  BY <1>1 DEF NoPipe, Return, mother, proc, others
<1>2. CASE Launch
  <2>1. /\ UNCHANGED <<attempt, exitCode, forced, armed, raised, code, straggler, foreign>>
        /\ child' \in {"running", "none"} /\ phase' = "running" /\ phase = "ready"
    BY <1>2 DEF Launch, others
  <2>2. armed /\ child = "none"
    BY <2>1 DEF IInv, ReadyInv
  <2>3. QED
    BY <2>1, <2>2
<1>3. CASE Again
  BY <1>3 DEF Again, MayRetry
<1>4. QED
  BY <1>1, <1>2, <1>3

LEMMA SignalChild ==
  ASSUME IInv, SignalInv, ChildSide
  PROVE  SignalInv'
<1> USE DEF SignalInv
<1>1. CASE \E p \in OutPipes : ChildWrites(p)
  BY <1>1 DEF ChildWrites, mother, proc, others
<1>2. CASE \E p \in InPipes : ChildReads(p)
  BY <1>2 DEF ChildReads, mother, proc, others
<1>3. CASE \E p \in Pipes : ChildCloses(p)
  BY <1>3 DEF ChildCloses, mother, others
<1>4. CASE ChildForks \/ GrandchildEnds
  BY <1>4 DEF ChildForks, GrandchildEnds, mother, others
<1>5. CASE ChildExits \/ ChildKilled
  <2>1. PICK state \in {"exited", "killed"}, c \in {-1, 0, 1, 42} :
          Dies(state, c) /\ (state = "killed" => c = -1)
    BY <1>5 DEF ChildExits, ChildKilled
  <2>2. QED
    BY <2>1 DEF Dies, mother, others
<1>6. CASE ForeignDies
  BY <1>6 DEF ForeignDies, mother, proc, IInv, TypeOK
<1>7. CASE StragglerDies
  BY <1>7 DEF StragglerDies, mother, proc
<1>8. QED
  BY <1>1, <1>2, <1>3, <1>4, <1>5, <1>6, <1>7 DEF ChildSide

LEMMA SignalInvariant == Spec => []SignalInv
<1>1. IInv /\ IInv' /\ SignalInv /\ [Next]_vars => SignalInv'
  <2> SUFFICES ASSUME IInv, IInv', SignalInv, [Next]_vars PROVE SignalInv'
    OBVIOUS
  <2>1. CASE Mother
    BY <2>1, SignalHandlers, SignalMother DEF Mother
  <2>2. CASE ChildStep \/ ChildExits \/ GrandchildEnds \/ StragglerDies \/ Outside
    BY <2>2, SignalChild DEF ChildSide, ChildStep, Outside
  <2>3. CASE UNCHANGED vars
    BY <2>3 DEF SignalInv, vars, mother, proc, others
  <2>4. QED
    BY <2>1, <2>2, <2>3 DEF Next
<1>2. QED
  BY <1>1, SignalStart, Invariant, PTL DEF Spec

\* A command that went well is run again only if a pipe failed, or if another
\* child took the wait for SIGCHLD, for any number of children and pipes.
THEOREM SuccessIsNotRepeated == Spec => SuccessIsFinal
<1>1. IInv /\ SignalInv /\ [Next]_vars =>
        [attempt' # attempt /\ child \in {"exited", "gone"} /\ code = 0
           => forced \/ (child = "exited" /\ foreign > 0)]_vars
  <2> SUFFICES ASSUME IInv, SignalInv, [Next]_vars, attempt' # attempt,
                      child \in {"exited", "gone"}, code = 0, ~forced
               PROVE  child = "exited" /\ foreign > 0
    OBVIOUS
  <2>1. Again
    BY DEF Next, Mother, Handler, ChildStep, Outside, NoPipe, Launch, ReadSome, ReadEof, Written,
       WriteFails, SigChild, OutOfWork, Return, ChildWrites, ChildReads, ChildCloses, ChildForks,
       ChildExits, ChildKilled, Dies, GrandchildEnds, ForeignDies, StragglerDies, mother, vars
  <2>2. phase = "stopped" /\ attempt = 0 /\ exitCode # 0
    BY <2>1 DEF Again, MayRetry
  <2>3. QED
    BY <2>2 DEF SignalInv
<1>2. QED
  BY <1>1, Invariant, SignalInvariant, PTL DEF Spec, SuccessIsFinal
=============================================================================
