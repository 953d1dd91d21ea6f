--------------------------- MODULE ObserversProofs ---------------------------
(***************************************************************************)
(* Proofs about Observers, for every set of sockets, chains, transfers and *)
(* values.                                                                 *)
(***************************************************************************)
EXTENDS Observers, TLAPS

-----------------------------------------------------------------------------
(* The shapes a chain can take. *)

\* Every record the actions store for a chain has the type of one.
LEMMA ChainShapes ==
  /\ \A p \in Phase : Blank(p) \in Chain /\ Blank(p).phase = p
  /\ \A S \in SUBSET Sockets, b \in BOOLEAN :
       /\ Poll(S, b) \in Chain
       /\ Poll(S, b).phase = "running"
       /\ Poll(S, b).wss = S
  /\ \A S \in SUBSET Sockets :
       /\ Sent(S) \in Chain
       /\ Sent(S).phase \in {"armed", "sending"}
       /\ Sent(S).phase = "sending" => Sent(S).pending # {}
  <1>1. \A p \in Phase : Blank(p) \in Chain /\ Blank(p).phase = p
  BY DEF Blank, Chain
<1>2. \A S \in SUBSET Sockets, b \in BOOLEAN :
        /\ Poll(S, b) \in Chain
        /\ Poll(S, b).phase = "running"
        /\ Poll(S, b).wss = S
  BY DEF Poll, Chain, Phase
<1>3. \A S \in SUBSET Sockets : /\ Sending(S) \in Chain
                                /\ Sending(S).phase = "sending"
                                /\ Sending(S).pending = S
  BY DEF Sending, Chain, Phase
<1>4. QED
  BY <1>1, <1>2, <1>3 DEF Sent, Phase

\* What a record keeps when one of its fields is replaced.
LEMMA FieldUpdates ==
  ASSUME NEW r \in Chain
  PROVE  /\ r.wss \in SUBSET Sockets
         /\ r.phase \in Phase
         /\ \A S \in SUBSET Sockets :
              /\ WithSockets(r, S) \in Chain
              /\ WithSockets(r, S).wss = S
              /\ WithSockets(r, S).phase = r.phase
              /\ WithSockets(r, S).val = r.val
              /\ WithSockets(r, S).pending = r.pending
         /\ Unshared(r) \in Chain
         /\ Unshared(r).wss = r.wss
         /\ Unshared(r).phase = r.phase
         /\ Unshared(r).val = r.val
         /\ Unshared(r).pending = r.pending
         /\ \A v \in Values :
              /\ WithList(r, v) \in Chain
              /\ WithList(r, v).phase = "read"
              /\ WithList(r, v).val = v
              /\ WithList(r, v).wss = r.wss
  BY DEF Chain, Phase, WithSockets, Unshared, WithList

\* Clearing a timer leaves a chain alone or makes an armed one idle.
LEMMA ClearShapes ==
  ASSUME ChainsOK, NEW k \in Kinds
  PROVE  /\ AfterClear(k) \in [Chains -> Chain]
         /\ \A c \in Chains :
              \/ AfterClear(k)[c] = chain[k][c]
              \/ chain[k][c].phase = "armed" /\ AfterClear(k)[c] = Blank("idle")
  BY ChainShapes DEF AfterClear, ChainsOK, Phase

\* A push changes no more than the sockets of a chain.
LEMMA SeePushShapes ==
  ASSUME NEW row \in [Chains -> Chain], NEW ws \in Sockets
  PROVE  /\ SeePush(row, ws) \in [Chains -> Chain]
         /\ \A c \in Chains :
              /\ SeePush(row, ws)[c].phase = row[c].phase
              /\ SeePush(row, ws)[c].val = row[c].val
              /\ SeePush(row, ws)[c].pending = row[c].pending
              /\ row[c].wss \subseteq SeePush(row, ws)[c].wss
              /\ SeePush(row, ws)[c].wss \subseteq row[c].wss \cup {ws}
<1>1. ASSUME NEW c \in Chains
      PROVE  /\ SeePush(row, ws)[c] \in Chain
             /\ SeePush(row, ws)[c].phase = row[c].phase
             /\ SeePush(row, ws)[c].val = row[c].val
             /\ SeePush(row, ws)[c].pending = row[c].pending
             /\ row[c].wss \subseteq SeePush(row, ws)[c].wss
             /\ SeePush(row, ws)[c].wss \subseteq row[c].wss \cup {ws}
  <2> DEFINE S == row[c].wss \cup {ws}
  <2>1. S \in SUBSET Sockets
    BY FieldUpdates
  <2>2. SeePush(row, ws)[c] = IF row[c].shared THEN WithSockets(row[c], S) ELSE row[c]
    BY DEF SeePush
  <2> HIDE DEF S
  <2>3. CASE row[c].shared
    BY <2>1, <2>2, <2>3, FieldUpdates DEF S
  <2>4. CASE ~row[c].shared
    BY <2>2, <2>4
  <2>5. QED
    BY <2>3, <2>4
<1>2. SeePush(row, ws) = [c \in Chains |-> SeePush(row, ws)[c]]
  BY DEF SeePush
<1>3. QED
  BY <1>1, <1>2

\* What a chain's own step does to the table of chains.
LEMMA RowUpdate ==
  ASSUME ChainsOK, NEW k \in Kinds, NEW c \in Chains, NEW r \in Chain,
         r.phase = "read" => r.val \in Values,
         r.phase = "sending" => r.pending # {},
         GoesOn(k, c, r)
  PROVE  /\ ChainsOK'
         /\ chain'[k][c] = r
         /\ \A j \in Kinds, d \in Chains : j # k \/ d # c => chain'[j][d] = chain[j][d]
  BY DEF ChainsOK, GoesOn

-----------------------------------------------------------------------------
(* Every step that changes a chain keeps the table well-formed. *)

LEMMA RegisterChains ==
  ASSUME TypeOK, NEW ws \in Sockets, Register(ws)
  PROVE  ChainsOK'
<1>1. PICK new \in [Kinds -> Chains] :
        chain' = [k \in Kinds |->
          [SeePush(AfterClear(k), ws) EXCEPT ![new[k]] = Poll({ws}, FALSE)]]
  BY DEF Register
<1>2. ASSUME NEW k \in Kinds
      PROVE  /\ AfterClear(k) \in [Chains -> Chain]
             /\ SeePush(AfterClear(k), ws) \in [Chains -> Chain]
  BY ClearShapes, SeePushShapes DEF TypeOK
<1>3. chain' \in [Kinds -> [Chains -> Chain]]
  BY <1>1, <1>2, ChainShapes
<1>4. ASSUME NEW k \in Kinds, NEW c \in Chains
      PROVE  /\ chain'[k][c].phase = "read" => chain'[k][c].val \in Values
             /\ chain'[k][c].phase = "sending" => chain'[k][c].pending # {}
  <2>1. CASE c = new[k]
    <3>1. chain'[k][c] = Poll({ws}, FALSE)
      BY <1>1, <1>2, <2>1
    <3>2. Poll({ws}, FALSE).phase = "running"
      BY ChainShapes
    <3>3. QED
      BY <3>1, <3>2
  <2>2. CASE c # new[k]
    <3>1. chain'[k][c] = SeePush(AfterClear(k), ws)[c]
      BY <1>1, <1>2, <2>2
    <3>2. /\ chain'[k][c].phase = AfterClear(k)[c].phase
          /\ chain'[k][c].val = AfterClear(k)[c].val
          /\ chain'[k][c].pending = AfterClear(k)[c].pending
      BY <1>2, <3>1, SeePushShapes
    <3>3. AfterClear(k)[c] = chain[k][c] \/ AfterClear(k)[c] = Blank("idle")
      BY ClearShapes DEF TypeOK
    <3>4. QED
      BY <3>2, <3>3, ChainShapes DEF TypeOK, ChainsOK, Phase
  <2>3. QED
    BY <2>1, <2>2
<1>5. QED
  BY <1>3, <1>4 DEF ChainsOK

LEMMA UnregisterChains ==
  ASSUME TypeOK, NEW ws \in Sockets, Unregister(ws)
  PROVE  ChainsOK'
<1>1. ASSUME NEW k \in Kinds, NEW c \in Chains
      PROVE  /\ chain'[k][c] \in Chain
             /\ chain'[k][c].phase = chain[k][c].phase
             /\ chain'[k][c].val = chain[k][c].val
             /\ chain'[k][c].pending = chain[k][c].pending
  <2>1. chain[k][c] \in Chain
    BY DEF TypeOK, ChainsOK
  <2>2. chain'[k][c] = Unshared(chain[k][c])
    BY DEF Unregister
  <2>3. QED
    BY <2>1, <2>2, FieldUpdates
<1>2. chain' \in [Kinds -> [Chains -> Chain]]
  BY <1>1 DEF Unregister
<1>3. ASSUME NEW k \in Kinds, NEW c \in Chains
      PROVE  /\ chain'[k][c].phase = "read" => chain'[k][c].val \in Values
             /\ chain'[k][c].phase = "sending" => chain'[k][c].pending # {}
  <2>1. /\ chain[k][c].phase = "read" => chain[k][c].val \in Values
        /\ chain[k][c].phase = "sending" => chain[k][c].pending # {}
    BY DEF TypeOK, ChainsOK
  <2>2. QED
    BY <1>1, <2>1
<1>4. QED
  BY <1>2, <1>3 DEF ChainsOK

LEMMA SuspendChains ==
  ASSUME TypeOK, NEW t \in Transfers, Suspend(t)
  PROVE  ChainsOK'
<1>1. chain' \in [Kinds -> [Chains -> Chain]]
  BY ClearShapes DEF Suspend, TypeOK
<1>2. ASSUME NEW k \in Kinds, NEW c \in Chains
      PROVE  chain'[k][c] = chain[k][c] \/ chain'[k][c] = Blank("idle")
  BY ClearShapes DEF Suspend, TypeOK
<1>3. Blank("idle").phase = "idle"
  BY ChainShapes DEF Phase
<1>4. ASSUME NEW k \in Kinds, NEW c \in Chains
      PROVE  /\ chain'[k][c].phase = "read" => chain'[k][c].val \in Values
             /\ chain'[k][c].phase = "sending" => chain'[k][c].pending # {}
  BY <1>2, <1>3 DEF TypeOK, ChainsOK
<1>5. QED
  BY <1>1, <1>4 DEF ChainsOK

\* A new timer in a row that kept its chains but for cleared ones.
LEMMA RearmShapes ==
  ASSUME TypeOK, NEW row \in [Kinds -> [Chains -> Chain]], NEW new \in [Kinds -> Chains],
         \A k \in Kinds, c \in Chains :
           \/ row[k][c] = chain[k][c]
           \/ chain[k][c].phase = "armed" /\ row[k][c] = Blank("idle"),
         \A k \in Kinds : new[k] \in IdleChains(k),
         chain' = [k \in Kinds |-> [row[k] EXCEPT ![new[k]] = Blank("armed")]]
  PROVE  /\ ChainsOK'
         /\ \A k \in Kinds :
              /\ \E c \in Chains : chain'[k][c].phase = "armed"
              /\ \A c \in Chains : /\ InFlight(k, c)' <=> InFlight(k, c)
                                   /\ InFlight(k, c) => chain'[k][c] = chain[k][c]
<1>1. Blank("armed").phase = "armed" /\ Blank("idle").phase = "idle"
  BY ChainShapes DEF Phase
<1>2. chain' \in [Kinds -> [Chains -> Chain]]
  BY ChainShapes DEF Phase
<1>3. \A k \in Kinds : chain'[k][new[k]] = Blank("armed")
  OBVIOUS
<1>4. \A k \in Kinds, c \in Chains : c # new[k] => chain'[k][c] = row[k][c]
  OBVIOUS
<1>5. \A k \in Kinds : chain[k][new[k]].phase = "idle"
  BY DEF IdleChains
<1>6. ASSUME NEW k \in Kinds, NEW c \in Chains
      PROVE  /\ chain'[k][c].phase = "read" => chain'[k][c].val \in Values
             /\ chain'[k][c].phase = "sending" => chain'[k][c].pending # {}
             /\ InFlight(k, c)' <=> InFlight(k, c)
             /\ InFlight(k, c) => chain'[k][c] = chain[k][c]
  <2>1. CASE c = new[k]
    BY <1>1, <1>3, <1>5, <2>1 DEF InFlight
  <2>2. CASE c # new[k] /\ row[k][c] = chain[k][c]
    <3>1. chain'[k][c] = chain[k][c]
      BY <1>4, <2>2
    <3>2. /\ chain[k][c].phase = "read" => chain[k][c].val \in Values
          /\ chain[k][c].phase = "sending" => chain[k][c].pending # {}
      BY DEF TypeOK, ChainsOK
    <3>3. QED
      BY <3>1, <3>2 DEF InFlight
  <2>3. CASE c # new[k] /\ chain[k][c].phase = "armed" /\ row[k][c] = Blank("idle")
    BY <1>1, <1>4, <2>3 DEF InFlight
  <2>4. QED
    BY <2>1, <2>2, <2>3
<1>7. QED
  BY <1>1, <1>2, <1>3, <1>6 DEF ChainsOK

\* Resuming arms one more chain and leaves the polls in flight alone.
LEMMA ResumeKeeps ==
  ASSUME TypeOK, NEW t \in Transfers, Resume(t) \/ Restart(t)
  PROVE  /\ ChainsOK'
         /\ timeoutId' \in [Kinds -> Chains]
         /\ \A k \in Kinds :
              /\ \E c \in Chains : chain'[k][c].phase = "armed"
              /\ \A c \in Chains : /\ InFlight(k, c)' <=> InFlight(k, c)
                                   /\ InFlight(k, c) => chain'[k][c] = chain[k][c]
<1>1. CASE Resume(t)
  <2>1. PICK new \in [Kinds -> Chains] :
          /\ \A k \in Kinds : new[k] \in IdleChains(k)
          /\ chain' = [k \in Kinds |-> [chain[k] EXCEPT ![new[k]] = Blank("armed")]]
          /\ timeoutId' = new
    BY <1>1 DEF Resume
  <2>2. chain \in [Kinds -> [Chains -> Chain]]
    BY DEF TypeOK, ChainsOK
  <2>3. QED
    BY <2>1, <2>2, RearmShapes
<1>2. CASE Restart(t)
  <2> DEFINE row == [k \in Kinds |-> AfterClear(k)]
  <2>1. PICK new \in [Kinds -> Chains] :
          /\ \A k \in Kinds : new[k] \in IdleChains(k)
          /\ chain' = [k \in Kinds |-> [AfterClear(k) EXCEPT ![new[k]] = Blank("armed")]]
          /\ timeoutId' = new
    BY <1>2 DEF Restart
  <2>2. row \in [Kinds -> [Chains -> Chain]]
    BY ClearShapes DEF TypeOK
  <2>3. \A k \in Kinds, c \in Chains :
          \/ row[k][c] = chain[k][c]
          \/ chain[k][c].phase = "armed" /\ row[k][c] = Blank("idle")
    BY ClearShapes DEF TypeOK
  <2>4. chain' = [k \in Kinds |-> [row[k] EXCEPT ![new[k]] = Blank("armed")]]
    BY <2>1
  <2> HIDE DEF row
  <2>5. QED
    BY <2>1, <2>2, <2>3, <2>4, RearmShapes
<1>3. QED
  BY <1>1, <1>2

LEMMA FireChains ==
  ASSUME TypeOK, NEW k \in Kinds, NEW c \in Chains, Fire(k, c)
  PROVE  /\ ChainsOK'
         /\ chain'[k][c] = IF registry = {} THEN Blank("idle") ELSE Poll(registry, TRUE)
         /\ \A j \in Kinds, d \in Chains : j # k \/ d # c => chain'[j][d] = chain[j][d]
<1> DEFINE r == IF registry = {} THEN Blank("idle") ELSE Poll(registry, TRUE)
<1>1. r \in Chain /\ r.phase \in {"idle", "running"}
  BY ChainShapes DEF TypeOK, Phase
<1>2. GoesOn(k, c, r)
  BY DEF Fire
<1> HIDE DEF r
<1>3. /\ ChainsOK'
      /\ chain'[k][c] = r
      /\ \A j \in Kinds, d \in Chains : j # k \/ d # c => chain'[j][d] = chain[j][d]
  BY <1>1, <1>2, RowUpdate DEF TypeOK
<1>4. QED
  BY <1>3 DEF r

LEMMA ReadChains ==
  ASSUME TypeOK, NEW k \in Kinds, NEW c \in Chains, Read(k, c) \/ ReadFails(k, c)
  PROVE  /\ ChainsOK'
         /\ chain[k][c].phase = "running"
         /\ chain'[k][c].phase = "read"
         /\ chain'[k][c].wss = chain[k][c].wss
         /\ \A j \in Kinds, d \in Chains : j # k \/ d # c => chain'[j][d] = chain[j][d]
<1>1. PICK v \in Values : GoesOn(k, c, WithList(chain[k][c], v))
  BY EmptyAssumption DEF Read, ReadFails, TypeOK
<1> DEFINE r == WithList(chain[k][c], v)
<1>2. chain[k][c] \in Chain
  BY DEF TypeOK, ChainsOK
<1>3. r \in Chain /\ r.phase = "read" /\ r.val = v /\ r.wss = chain[k][c].wss
  BY <1>2, FieldUpdates
<1>4. GoesOn(k, c, r)
  BY <1>1
<1> HIDE DEF r
<1>5. /\ ChainsOK'
      /\ chain'[k][c] = r
      /\ \A j \in Kinds, d \in Chains : j # k \/ d # c => chain'[j][d] = chain[j][d]
  BY <1>3, <1>4, RowUpdate DEF TypeOK
<1>6. QED
  BY <1>3, <1>5 DEF Read, ReadFails

\* Both callbacks of a child that was never started have the empty list.
LEMMA SpawnChains ==
  ASSUME TypeOK, NEW k \in Kinds, NEW c \in Chains, SpawnFails(k, c)
  PROVE  /\ ChainsOK'
         /\ chain[k][c].phase = "running"
         /\ chain'[k][c].phase = "read"
         /\ chain'[k][c].wss = chain[k][c].wss
         /\ \A j \in Kinds : j # k => chain'[j] = chain[j]
         /\ \A d \in Chains \ {c} :
              \/ chain'[k][d] = chain[k][d]
              \/ /\ chain[k][d].phase = "idle"
                 /\ chain'[k][d].phase = "read"
                 /\ chain'[k][d].wss = chain[k][c].wss
<1> DEFINE r == WithList(chain[k][c], Empty)
<1>1. PICK twin \in IdleChains(k) :
        chain' = [chain EXCEPT ![k] = [@ EXCEPT ![c] = r, ![twin] = r]]
  BY DEF SpawnFails
<1>2. /\ chain[k][c].phase = "running"
      /\ twin \in Chains
      /\ chain[k][twin].phase = "idle"
  BY DEF SpawnFails, IdleChains
<1>3. r \in Chain /\ r.phase = "read" /\ r.val \in Values /\ r.wss = chain[k][c].wss
  <2>1. chain[k][c] \in Chain
    BY DEF TypeOK, ChainsOK
  <2>2. QED
    BY <2>1, EmptyAssumption, FieldUpdates
<1> HIDE DEF r
<1>4. /\ chain'[k][c] = r
      /\ \A j \in Kinds : j # k => chain'[j] = chain[j]
      /\ \A d \in Chains \ {c} :
           IF d = twin THEN chain'[k][d] = r ELSE chain'[k][d] = chain[k][d]
  BY <1>1, <1>2 DEF TypeOK, ChainsOK
<1>5. chain' \in [Kinds -> [Chains -> Chain]]
  BY <1>1, <1>3 DEF TypeOK, ChainsOK
<1>6. ASSUME NEW j \in Kinds, NEW d \in Chains
      PROVE  /\ chain'[j][d].phase = "read" => chain'[j][d].val \in Values
             /\ chain'[j][d].phase = "sending" => chain'[j][d].pending # {}
  <2>1. chain'[j][d] = r \/ chain'[j][d] = chain[j][d]
    BY <1>4
  <2>2. QED
    BY <1>3, <2>1 DEF TypeOK, ChainsOK
<1>7. QED
  BY <1>2, <1>3, <1>4, <1>5, <1>6 DEF ChainsOK

\* A reader that throws ends its thread and no other.
LEMMA ThrowsChains ==
  ASSUME TypeOK, NEW k \in Kinds, NEW c \in Chains, Throws(k, c)
  PROVE  /\ ChainsOK'
         /\ chain[k][c].wss \in SUBSET Sockets
         /\ chain'[k][c].phase = "idle"
         /\ \A j \in Kinds, d \in Chains : j # k \/ d # c => chain'[j][d] = chain[j][d]
         /\ threw'[k]
         /\ \A j \in Kinds : missed[j] \subseteq missed'[j]
         /\ chain[k][c].wss \subseteq missed'[k]
<1>1. Blank("idle") \in Chain /\ Blank("idle").phase = "idle"
  BY ChainShapes DEF Phase
<1>2. GoesOn(k, c, Blank("idle"))
  BY DEF Throws
<1>3. /\ ChainsOK'
      /\ chain'[k][c] = Blank("idle")
      /\ \A j \in Kinds, d \in Chains : j # k \/ d # c => chain'[j][d] = chain[j][d]
  BY <1>1, <1>2, RowUpdate DEF TypeOK
<1>4. chain[k][c].wss \in SUBSET Sockets
  <2>1. chain[k][c] \in Chain
    BY DEF TypeOK, ChainsOK
  <2>2. QED
    BY <2>1, FieldUpdates
<1>5. /\ threw'[k]
      /\ \A j \in Kinds : missed[j] \subseteq missed'[j]
      /\ chain[k][c].wss \subseteq missed'[k]
  BY DEF Throws, TypeOK
<1>6. QED
  BY <1>1, <1>3, <1>4, <1>5

LEMMA AnswerChains ==
  ASSUME TypeOK, NEW k \in Kinds, NEW c \in Chains, Answer(k, c)
  PROVE  /\ chain[k][c].wss \in SUBSET Sockets
         /\ chain[k][c].val \in Values
         /\ ChainsOK'
         /\ chain'[k][c].phase \in {"armed", "sending"}
         /\ \A j \in Kinds, d \in Chains : j # k \/ d # c => chain'[j][d] = chain[j][d]
<1> DEFINE to == Targets(k, chain[k][c].wss, chain[k][c].val)
<1>1. chain[k][c].wss \in SUBSET Sockets /\ chain[k][c].val \in Values
  BY FieldUpdates DEF Answer, TypeOK, ChainsOK
<1>2. to \in SUBSET Sockets
  BY <1>1 DEF Targets
<1>3. GoesOn(k, c, Sent(to))
  BY DEF Answer
<1> HIDE DEF to
<1>4. /\ Sent(to) \in Chain
      /\ Sent(to).phase \in {"armed", "sending"}
      /\ Sent(to).phase = "sending" => Sent(to).pending # {}
  BY <1>2, ChainShapes
<1>5. QED
  BY <1>1, <1>3, <1>4, RowUpdate DEF TypeOK

LEMMA SendDoneChains ==
  ASSUME TypeOK, NEW k \in Kinds, NEW c \in Chains, NEW ws \in Sockets,
         SendDone(k, c, ws)
  PROVE  /\ ChainsOK'
         /\ chain[k][c].phase = "sending"
         /\ chain'[k][c].phase \in {"armed", "sending"}
         /\ \A j \in Kinds, d \in Chains : j # k \/ d # c => chain'[j][d] = chain[j][d]
<1> DEFINE left == chain[k][c].pending \ {ws}
           r == IF left = {} THEN Blank("armed") ELSE Sending(left)
<1>1. left \in SUBSET Sockets
  BY DEF TypeOK, ChainsOK, Chain
<1>2. GoesOn(k, c, r)
  BY DEF SendDone
<1>3. r \in Chain /\ r.phase \in {"armed", "sending"}
                  /\ (r.phase = "sending" => r.pending # {})
  <2> HIDE DEF left
  <2>1. CASE left = {}
    BY <2>1, ChainShapes DEF Phase
  <2>2. CASE left # {}
    BY <1>1, <2>2 DEF Sending, Chain, Phase
  <2>3. QED
    BY <2>1, <2>2
<1> HIDE DEF r
<1>4. QED
  BY <1>2, <1>3, RowUpdate DEF TypeOK, SendDone

-----------------------------------------------------------------------------
(* Types. *)

\* No action takes a variable out of its type.
THEOREM TypeCorrect == Spec => []TypeOK
<1>1. Init => TypeOK
  BY ChainShapes, EmptyAssumption, MaxChangesAssumption
  DEF Init, TypeOK, ChainsOK, Phase, T!Init
<1>2. TypeOK /\ [Next]_vars => TypeOK'
  <2> SUFFICES ASSUME TypeOK, [Next]_vars PROVE TypeOK'
    OBVIOUS
  <2>1. ASSUME NEW ws \in Sockets, Register(ws) PROVE TypeOK'
    BY <2>1, RegisterChains DEF TypeOK, Register, StartsAnew
  <2>2. ASSUME NEW ws \in Sockets, Drop(ws) PROVE TypeOK'
    BY <2>2 DEF Drop, TypeOK, ChainsOK, history
  <2>3. ASSUME NEW ws \in Sockets, Unregister(ws) PROVE TypeOK'
    BY <2>3, UnregisterChains DEF TypeOK, Unregister, history
  <2>4. ASSUME NEW t \in Transfers, Suspend(t) PROVE TypeOK'
    BY <2>4, SuspendChains DEF TypeOK, Suspend, history, T!Start
  <2>5. ASSUME NEW t \in Transfers, Resume(t) \/ Restart(t) PROVE TypeOK'
    BY <2>5, ResumeKeeps DEF TypeOK, Resume, Restart, StartsAnew, T!Finish, T!Pass
  <2>6. ASSUME NEW t \in Transfers, Abort(t) PROVE TypeOK'
    BY <2>6 DEF Abort, TypeOK, ChainsOK, history, T!Fail
  <2>7. ASSUME NEW k \in Kinds, Change(k) PROVE TypeOK'
    <3>1. changes' \in 0 .. MaxChanges
      BY <2>7, MaxChangesAssumption DEF Change, TypeOK
    <3>2. device' \in [Kinds -> Values]
      BY <2>7 DEF Change, TypeOK, Printable
    <3>3. QED
      BY <2>7, <3>1, <3>2 DEF Change, TypeOK, ChainsOK, history
  <2>8. ASSUME NEW k \in Kinds, NEW c \in Chains, ChainStep(k, c) PROVE TypeOK'
    <3>1. CASE Fire(k, c)
      BY <3>1, FireChains DEF TypeOK, Fire, history
    <3>2. CASE Read(k, c) \/ ReadFails(k, c)
      BY <3>2, ReadChains, MaxChangesAssumption DEF TypeOK, Read, ReadFails, history
    <3>3. CASE Answer(k, c)
      <4> DEFINE to == Targets(k, chain[k][c].wss, chain[k][c].val)
      <4>1. /\ chain[k][c].wss \in SUBSET Sockets
            /\ chain[k][c].val \in Values
            /\ ChainsOK'
        BY <3>3, AnswerChains
      <4>2. /\ timeoutId' = TimeoutAfter(k, c, Sent(to))
            /\ prevWss' = [prevWss EXCEPT ![k] = @ \cup chain[k][c].wss]
            /\ prevT' = [prevT EXCEPT ![k] = chain[k][c].val]
            /\ shown' = [shown EXCEPT ![k] = [ws \in Sockets |->
                 IF ws \in to /\ IsOpen(ws) THEN chain[k][c].val ELSE shown[k][ws]]]
            /\ UNCHANGED <<conn, registry, device, transfer, changes, threw, missed>>
        BY <3>3 DEF Answer, history
      <4> HIDE DEF to
      <4>3. shown' \in [Kinds -> [Sockets -> Values \cup {NoValue}]]
        BY <4>1, <4>2 DEF TypeOK
      <4>4. timeoutId' \in [Kinds -> Chains \cup {NoTimer}]
        BY <4>2 DEF TimeoutAfter, TypeOK
      <4>5. prevWss' \in [Kinds -> SUBSET Sockets] /\ prevT' \in [Kinds -> Values]
        BY <4>1, <4>2 DEF TypeOK
      <4>6. QED
        BY <4>1, <4>2, <4>3, <4>4, <4>5 DEF TypeOK
    <3>4. ASSUME NEW ws \in Sockets, SendDone(k, c, ws) PROVE TypeOK'
      <4>1. timeoutId' \in [Kinds -> Chains \cup {NoTimer}]
        BY <3>4 DEF SendDone, TimeoutAfter, TypeOK
      <4>2. QED
        BY <3>4, <4>1, SendDoneChains DEF TypeOK, SendDone, history
    <3>5. CASE SpawnFails(k, c)
      <4>1. ChainsOK'
        BY <3>5, SpawnChains
      <4>2. /\ changes < MaxChanges /\ changes' = changes + 1
            /\ UNCHANGED <<conn, registry, timeoutId, prevWss, prevT, shown, device,
                           transfer, threw, missed>>
        BY <3>5 DEF SpawnFails, history
      <4>3. QED
        BY <4>1, <4>2, MaxChangesAssumption DEF TypeOK
    <3>6. CASE Throws(k, c)
      BY <3>6, ThrowsChains DEF TypeOK, Throws
    <3>7. QED
      BY <2>8, <3>1, <3>2, <3>3, <3>4, <3>5, <3>6 DEF ChainStep
  <2>9. CASE UNCHANGED vars
    BY <2>9 DEF vars, TypeOK, ChainsOK, history
  <2>10. QED
    BY <2>1, <2>2, <2>3, <2>4, <2>5, <2>6, <2>7, <2>8, <2>9 DEF Next
<1>3. QED
  BY <1>1, <1>2, PTL DEF Spec

-----------------------------------------------------------------------------
(* What becomes of a poll in flight. *)

\* A step keeps the poll of chain c going, for no fewer sockets.
Keeps(k, c) ==
  InFlight(k, c) => InFlight(k, c)' /\ chain[k][c].wss \subseteq chain'[k][c].wss

\* A registration starts a poll for the newcomer and disturbs no other.
LEMMA RegisterKeeps ==
  ASSUME TypeOK, NEW ws \in Sockets, Register(ws), NEW k \in Kinds
  PROVE  /\ \E c \in Chains : InFlight(k, c)' /\ chain'[k][c].wss = {ws}
         /\ \A c \in Chains : Keeps(k, c)
         /\ \A c \in Chains : InFlight(k, c)' =>
              \/ chain'[k][c].wss = {ws}
              \/ InFlight(k, c) /\ chain'[k][c].wss \subseteq chain[k][c].wss \cup {ws}
<1>1. PICK new \in [Kinds -> Chains] :
        /\ \A j \in Kinds : new[j] \in IdleChains(j)
        /\ chain' = [j \in Kinds |->
             [SeePush(AfterClear(j), ws) EXCEPT ![new[j]] = Poll({ws}, FALSE)]]
  BY DEF Register
<1>2. /\ AfterClear(k) \in [Chains -> Chain]
      /\ SeePush(AfterClear(k), ws) \in [Chains -> Chain]
  BY ClearShapes, SeePushShapes DEF TypeOK
<1>3. chain'[k] = [SeePush(AfterClear(k), ws) EXCEPT ![new[k]] = Poll({ws}, FALSE)]
  BY <1>1
<1>4. chain'[k][new[k]] = Poll({ws}, FALSE)
  BY <1>1, <1>2, <1>3
<1>5. InFlight(k, new[k])' /\ chain'[k][new[k]].wss = {ws}
  <2>1. {ws} \in SUBSET Sockets /\ FALSE \in BOOLEAN
    OBVIOUS
  <2>2. Poll({ws}, FALSE).phase = "running" /\ Poll({ws}, FALSE).wss = {ws}
    BY <2>1, ChainShapes
  <2>3. QED
    BY <1>1, <1>4, <2>2 DEF InFlight
<1>6. ASSUME NEW c \in Chains
      PROVE  /\ Keeps(k, c)
             /\ InFlight(k, c)' =>
                  \/ chain'[k][c].wss = {ws}
                  \/ InFlight(k, c) /\ chain'[k][c].wss \subseteq chain[k][c].wss \cup {ws}
  <2>1. CASE c = new[k]
    BY <1>1, <1>5, <2>1 DEF Keeps, InFlight, IdleChains
  <2>2. CASE c # new[k]
    <3>1. chain'[k][c] = SeePush(AfterClear(k), ws)[c]
      BY <1>2, <1>3, <2>2
    <3>2. \/ AfterClear(k)[c] = chain[k][c]
          \/ /\ chain[k][c].phase = "armed"
             /\ AfterClear(k)[c].phase = "idle"
      BY ClearShapes, ChainShapes DEF TypeOK, Phase
    <3>3. /\ chain'[k][c].phase = AfterClear(k)[c].phase
          /\ AfterClear(k)[c].wss \subseteq chain'[k][c].wss
          /\ chain'[k][c].wss \subseteq AfterClear(k)[c].wss \cup {ws}
      BY <1>2, <3>1, SeePushShapes
    <3>4. QED
      BY <3>2, <3>3 DEF Keeps, InFlight
  <2>3. QED
    BY <2>1, <2>2
<1>7. QED
  BY <1>1, <1>5, <1>6

\* Closing a socket changes no chain but for its view of later pushes.
LEMMA UnregisterSame ==
  ASSUME TypeOK, NEW ws \in Sockets, Unregister(ws), NEW k \in Kinds, NEW c \in Chains
  PROVE  chain'[k][c].phase = chain[k][c].phase /\ chain'[k][c].wss = chain[k][c].wss
<1>1. chain'[k][c] = Unshared(chain[k][c]) /\ chain[k][c] \in Chain
  BY DEF Unregister, TypeOK, ChainsOK
<1>2. QED
  BY <1>1, FieldUpdates

\* Suspending stops no poll in flight.
LEMMA SuspendKeeps ==
  ASSUME TypeOK, NEW t \in Transfers, Suspend(t), NEW k \in Kinds, NEW c \in Chains
  PROVE  /\ InFlight(k, c)' <=> InFlight(k, c)
         /\ InFlight(k, c) => chain'[k][c] = chain[k][c]
<1>1. chain'[k][c] = AfterClear(k)[c]
  BY DEF Suspend
<1>2. QED
  BY <1>1, ClearShapes, ChainShapes DEF InFlight, TypeOK, Phase

-----------------------------------------------------------------------------
(* Polling stops only for a key transfer. *)

\* The loops of a list end only when nobody is registered, when a key transfer
\* is under way or failed, or when a list could not be read since they were
\* started.  PollingAlive is inductive over the type invariant.
THEOREM PollingNeverStops == Spec => []PollingAlive
<1> DEFINE Excused(k) == \/ \E t \in Transfers : transfer[t] \in {"moving", "failed"}
                         \/ threw[k]
<1>1. Init => PollingAlive
  BY DEF Init, PollingAlive
<1>2. TypeOK /\ PollingAlive /\ [Next]_vars => PollingAlive'
  <2> SUFFICES ASSUME TypeOK, PollingAlive, [Next]_vars, NEW k \in Kinds,
                      registry' # {}, \A c \in Chains : chain'[k][c].phase = "idle"
               PROVE  Excused(k)'
    BY DEF PollingAlive, IdleChains
  <2>0. ASSUME registry # {}, \A c \in Chains : chain[k][c].phase = "idle"
        PROVE  Excused(k)
    BY <2>0 DEF PollingAlive, IdleChains
  <2>a. ASSUME transfer' = transfer, threw' = threw, Excused(k) PROVE Excused(k)'
    BY <2>a
  <2> HIDE DEF Excused
  <2>1. ASSUME NEW ws \in Sockets, Register(ws) PROVE FALSE
    BY <2>1, RegisterKeeps DEF InFlight
  <2>2. CASE \E ws \in Sockets : Drop(ws)
    BY <2>0, <2>2, <2>a DEF Drop, history
  <2>3. ASSUME NEW ws \in Sockets, Unregister(ws) PROVE Excused(k)'
    BY <2>0, <2>3, <2>a, UnregisterSame DEF Unregister, history
  <2>4. ASSUME NEW t \in Transfers, Suspend(t) \/ Abort(t) PROVE Excused(k)'
    BY <2>4 DEF Suspend, Abort, TypeOK, T!Start, T!Fail, Excused
  <2>5. ASSUME NEW t \in Transfers, Resume(t) \/ Restart(t) PROVE FALSE
    BY <2>5, ResumeKeeps
  <2>6. CASE \E j \in Kinds : Change(j)
    BY <2>0, <2>6, <2>a DEF Change, history
  <2>7. ASSUME NEW j \in Kinds, NEW c \in Chains, ChainStep(j, c), ~Throws(j, c)
        PROVE  Excused(k)'
    <3>1. registry' = registry /\ transfer' = transfer /\ threw' = threw
      BY <2>7 DEF ChainStep, Fire, Read, ReadFails, SpawnFails, Answer, SendDone, history
    <3>2. chain'[j][c].phase # "idle"
      <4>1. CASE Fire(j, c)
        <5>1. chain'[j][c] = Poll(registry, TRUE)
          BY <3>1, <4>1, FireChains
        <5>2. Poll(registry, TRUE).phase = "running"
          BY ChainShapes DEF TypeOK
        <5>3. QED
          BY <5>1, <5>2
      <4>2. CASE Read(j, c) \/ ReadFails(j, c) \/ SpawnFails(j, c)
        BY <4>2, ReadChains, SpawnChains
      <4>3. CASE Answer(j, c)
        BY <4>3, AnswerChains
      <4>4. CASE \E ws \in Sockets : SendDone(j, c, ws)
        BY <4>4, SendDoneChains
      <4>5. QED
        BY <2>7, <4>1, <4>2, <4>3, <4>4 DEF ChainStep
    <3>3. chain'[k] = chain[k] \/ j = k
      BY <2>7 DEF ChainStep, Fire, Read, ReadFails, SpawnFails, Answer, SendDone,
                  GoesOn, TypeOK, ChainsOK
    <3>4. QED
      BY <2>0, <2>a, <3>1, <3>2, <3>3
  <2>8. ASSUME NEW j \in Kinds, NEW c \in Chains, Throws(j, c) PROVE Excused(k)'
    <3>1. CASE j = k
      BY <2>8, <3>1, ThrowsChains DEF Excused
    <3>2. CASE j # k
      <4>1. /\ registry' = registry
            /\ transfer' = transfer
            /\ threw'[k] = threw[k]
        BY <2>8, <3>2 DEF Throws, TypeOK
      <4>2. \A d \in Chains : chain[k][d].phase = "idle"
        BY <2>8, <3>2, ThrowsChains
      <4>3. QED
        BY <2>0, <4>1, <4>2 DEF Excused
    <3>3. QED
      BY <3>1, <3>2
  <2>9. CASE UNCHANGED vars
    BY <2>0, <2>9, <2>a DEF vars, history
  <2>10. QED
    BY <2>1, <2>2, <2>3, <2>4, <2>5, <2>6, <2>7, <2>8, <2>9 DEF Next
<1>3. QED
  BY <1>1, <1>2, TypeCorrect, PTL DEF Spec

-----------------------------------------------------------------------------
(* Every browser is served. *)

\* An open socket that WssUpdate does not know yet is in the array of a poll,
\* or was in that of one whose list could not be read.
NewcomerPolled ==
  \A k \in Kinds, ws \in Sockets :
    IsOpen(ws) /\ ws \notin prevWss[k] /\ ws \notin missed[k]
      => \E c \in Chains : InFlight(k, c) /\ ws \in chain[k][c].wss

\* The answer of a poll sends the list to each newcomer in its array.
LEMMA AnswerServes ==
  ASSUME TypeOK, NEW k \in Kinds, NEW c \in Chains, Answer(k, c)
  PROVE  /\ prevWss'[k] = prevWss[k] \cup chain[k][c].wss
         /\ \A j \in Kinds : j # k => /\ prevWss'[j] = prevWss[j]
                                      /\ shown'[j] = shown[j]
         /\ \A ws \in Sockets :
              /\ shown[k][ws] # NoValue => shown'[k][ws] # NoValue
              /\ IsOpen(ws) /\ ws \in chain[k][c].wss \ prevWss[k]
                   => shown'[k][ws] # NoValue
<1> DEFINE val == chain[k][c].val
           to == Targets(k, chain[k][c].wss, val)
<1>1. val \in Values /\ val # NoValue
  BY AnswerChains, NoValueAssumption
<1>2. /\ prevWss' = [prevWss EXCEPT ![k] = @ \cup chain[k][c].wss]
      /\ shown' = [shown EXCEPT ![k] = [ws \in Sockets |->
           IF ws \in to /\ IsOpen(ws) THEN val ELSE shown[k][ws]]]
  BY DEF Answer
<1>3. \A ws \in chain[k][c].wss \ prevWss[k] : ws \in to
  BY DEF Targets
<1> HIDE DEF val, to
<1>4. /\ prevWss'[k] = prevWss[k] \cup chain[k][c].wss
      /\ \A j \in Kinds : j # k => prevWss'[j] = prevWss[j] /\ shown'[j] = shown[j]
  BY <1>2 DEF TypeOK
<1>5. \A ws \in Sockets :
        shown'[k][ws] = IF ws \in to /\ IsOpen(ws) THEN val ELSE shown[k][ws]
  BY <1>2 DEF TypeOK
<1>6. QED
  BY <1>1, <1>3, <1>4, <1>5

\* A socket that did not connect yet is known to nobody.
NewIsUnknown ==
  \A ws \in Sockets : conn[ws] = "new" =>
    /\ ws \notin registry
    /\ \A k \in Kinds : /\ ws \notin prevWss[k]
                        /\ \A c \in Chains : InFlight(k, c) => ws \notin chain[k][c].wss

THEOREM StrangersAreUnknown == Spec => []NewIsUnknown
<1>1. Init => NewIsUnknown
  BY ChainShapes DEF Init, NewIsUnknown, InFlight, Phase
<1>2. TypeOK /\ NewIsUnknown /\ [Next]_vars => NewIsUnknown'
  <2> SUFFICES ASSUME TypeOK, NewIsUnknown, [Next]_vars,
                      NEW ws \in Sockets, conn'[ws] = "new"
               PROVE  /\ ws \notin registry'
                      /\ \A k \in Kinds :
                           /\ ws \notin prevWss'[k]
                           /\ \A c \in Chains : InFlight(k, c)' => ws \notin chain'[k][c].wss
    BY DEF NewIsUnknown
  <2>0. conn[ws] = "new"
    <3>1. CASE conn' = conn
      BY <3>1
    <3>2. ASSUME NEW v \in Sockets, Register(v) \/ Drop(v) \/ Unregister(v)
          PROVE  conn[ws] = "new"
      BY <3>2 DEF Register, Drop, Unregister, TypeOK
    <3>3. ASSUME NEW k \in Kinds, NEW c \in Chains, ChainStep(k, c)
          PROVE  conn' = conn
      BY <3>3 DEF ChainStep, Fire, Read, ReadFails, SpawnFails, Throws, Answer, SendDone
    <3>4. ASSUME NEW t \in Transfers, Suspend(t) \/ Resume(t) \/ Restart(t) \/ Abort(t)
          PROVE  conn' = conn
      BY <3>4 DEF Suspend, Resume, Restart, Abort
    <3>5. ASSUME NEW k \in Kinds, Change(k)
          PROVE  conn' = conn
      BY <3>5 DEF Change
    <3>6. UNCHANGED vars => conn' = conn
      BY DEF vars
    <3>7. QED
      BY <3>1, <3>2, <3>3, <3>4, <3>5, <3>6 DEF Next
  <2>1. /\ ws \notin registry
        /\ \A k \in Kinds :
             /\ ws \notin prevWss[k]
             /\ \A c \in Chains : InFlight(k, c) => ws \notin chain[k][c].wss
    BY <2>0 DEF NewIsUnknown
  <2>2. ASSUME NEW v \in Sockets, Register(v)
        PROVE  /\ ws \notin registry'
               /\ \A k \in Kinds :
                    /\ ws \notin prevWss'[k]
                    /\ \A c \in Chains : InFlight(k, c)' => ws \notin chain'[k][c].wss
    <3>1. v # ws
      BY <2>2 DEF Register, TypeOK
    <3>2. registry' = registry \cup {v} /\ prevWss' = prevWss
      BY <2>2 DEF Register
    <3>3. QED
      BY <2>1, <2>2, <3>1, <3>2, RegisterKeeps
  <2>3. CASE \E v \in Sockets : Drop(v)
    BY <2>1, <2>3 DEF Drop, InFlight
  <2>4. ASSUME NEW v \in Sockets, Unregister(v)
        PROVE  /\ ws \notin registry'
               /\ \A k \in Kinds :
                    /\ ws \notin prevWss'[k]
                    /\ \A c \in Chains : InFlight(k, c)' => ws \notin chain'[k][c].wss
    <3>1. registry' = registry \ {v} /\ prevWss' = prevWss
      BY <2>4 DEF Unregister
    <3>2. QED
      BY <2>1, <2>4, <3>1, UnregisterSame DEF InFlight
  <2>5. ASSUME NEW t \in Transfers, Suspend(t) \/ Resume(t) \/ Restart(t)
        PROVE  /\ ws \notin registry'
               /\ \A k \in Kinds :
                    /\ ws \notin prevWss'[k]
                    /\ \A c \in Chains : InFlight(k, c)' => ws \notin chain'[k][c].wss
    <3>1. registry' = registry /\ prevWss' = prevWss
      BY <2>5 DEF Suspend, Resume, Restart
    <3>2. QED
      BY <2>1, <2>5, <3>1, SuspendKeeps, ResumeKeeps
  <2>6. CASE (\E t \in Transfers : Abort(t)) \/ (\E k \in Kinds : Change(k))
    BY <2>1, <2>6 DEF Abort, Change, InFlight
  <2>7. ASSUME NEW j \in Kinds, NEW d \in Chains, ChainStep(j, d)
        PROVE  /\ ws \notin registry'
               /\ \A k \in Kinds :
                    /\ ws \notin prevWss'[k]
                    /\ \A c \in Chains : InFlight(k, c)' => ws \notin chain'[k][c].wss
    <3>1. registry' = registry
      BY <2>7 DEF ChainStep, Fire, Read, ReadFails, SpawnFails, Throws, Answer, SendDone
    <3>2. \A k \in Kinds, c \in Chains : InFlight(k, c)' => ws \notin chain'[k][c].wss
      <4>1. CASE Fire(j, d)
        <5>1. \/ chain'[j][d] = Blank("idle")
              \/ chain'[j][d] = Poll(registry, TRUE)
          BY <4>1, FireChains
        <5>2. /\ Blank("idle").phase = "idle"
              /\ Poll(registry, TRUE).wss = registry
          BY ChainShapes DEF TypeOK, Phase
        <5>3. \A k \in Kinds, c \in Chains : k # j \/ c # d => chain'[k][c] = chain[k][c]
          BY <4>1, FireChains
        <5>4. QED
          BY <2>1, <5>1, <5>2, <5>3 DEF InFlight
      <4>2. CASE Read(j, d) \/ ReadFails(j, d)
        BY <2>1, <4>2, ReadChains DEF InFlight
      <4>3. CASE SpawnFails(j, d)
        BY <2>1, <4>3, SpawnChains DEF InFlight
      <4>4. CASE Throws(j, d)
        BY <2>1, <4>4, ThrowsChains DEF InFlight
      <4>5. CASE Answer(j, d)
        BY <2>1, <4>5, AnswerChains DEF InFlight
      <4>6. CASE \E v \in Sockets : SendDone(j, d, v)
        BY <2>1, <4>6, SendDoneChains DEF InFlight
      <4>7. QED
        BY <2>7, <4>1, <4>2, <4>3, <4>4, <4>5, <4>6 DEF ChainStep
    <3>3. \A k \in Kinds : ws \notin prevWss'[k]
      <4>1. CASE Answer(j, d)
        <5>1. ws \notin chain[j][d].wss
          BY <2>1, <4>1 DEF Answer, InFlight
        <5>2. QED
          BY <2>1, <4>1, <5>1, AnswerServes
      <4>2. CASE ~Answer(j, d)
        BY <2>1, <2>7, <4>2 DEF ChainStep, Fire, Read, ReadFails, SpawnFails, Throws, SendDone
      <4>3. QED
        BY <4>1, <4>2
    <3>4. QED
      BY <2>1, <3>1, <3>2, <3>3
  <2>8. CASE UNCHANGED vars
    BY <2>1, <2>8 DEF vars, InFlight
  <2>9. QED
    BY <2>2, <2>3, <2>4, <2>5, <2>6, <2>7, <2>8 DEF Next
<1>3. QED
  BY <1>1, <1>2, TypeCorrect, PTL DEF Spec

\* The book of known sockets is right and no newcomer is forgotten: the two
\* halves of ServedOrPending, inductive together over the invariants above.
THEOREM NewcomersAreServed == Spec => [](NewcomerPolled /\ KnownWasServed)
<1> DEFINE Inv == NewcomerPolled /\ KnownWasServed
<1>1. Init => Inv
  BY DEF Init, NewcomerPolled, KnownWasServed, IsOpen
<1>2. TypeOK /\ NewIsUnknown /\ Inv /\ [Next]_vars => Inv'
  <2> SUFFICES ASSUME TypeOK, NewIsUnknown, Inv, [Next]_vars PROVE Inv'
    OBVIOUS
  <2>0. ASSUME NEW k \in Kinds, NEW ws \in Sockets, IsOpen(ws), ws \notin prevWss[k],
               ws \notin missed[k]
        PROVE  \E c \in Chains : InFlight(k, c) /\ ws \in chain[k][c].wss
    BY <2>0 DEF NewcomerPolled
  \* A step that keeps the book and what was shown, opens nothing, and ends a
  \* poll only if that is what its sockets missed.
  <2>a. ASSUME prevWss' = prevWss, shown' = shown,
               \A ws \in Sockets : IsOpen(ws)' => IsOpen(ws),
               \A k \in Kinds : missed[k] \subseteq missed'[k],
               \A k \in Kinds, c \in Chains :
                 Keeps(k, c) \/ chain[k][c].wss \subseteq missed'[k]
        PROVE  Inv'
    <3>1. KnownWasServed'
      BY <2>a DEF KnownWasServed, TypeOK
    <3>2. NewcomerPolled'
      <4> SUFFICES ASSUME NEW k \in Kinds, NEW ws \in Sockets,
                          IsOpen(ws)', ws \notin prevWss[k], ws \notin missed'[k]
                   PROVE  \E c \in Chains : InFlight(k, c)' /\ ws \in chain'[k][c].wss
        BY <2>a DEF NewcomerPolled
      <4>1. PICK c \in Chains : InFlight(k, c) /\ ws \in chain[k][c].wss
        BY <2>0, <2>a
      <4>2. Keeps(k, c)
        BY <2>a, <4>1
      <4>3. QED
        BY <4>1, <4>2 DEF Keeps
    <3>3. QED
      BY <3>1, <3>2
  <2>1. ASSUME NEW ws \in Sockets, Register(ws) PROVE Inv'
    <3>1. /\ prevWss' = prevWss
          /\ shown' = shown
          /\ missed' = missed
          /\ \A v \in Sockets : v # ws => IsOpen(v)' = IsOpen(v)
      BY <2>1 DEF Register, IsOpen, TypeOK
    <3>2. NewcomerPolled'
      <4> SUFFICES ASSUME NEW k \in Kinds, NEW v \in Sockets,
                          IsOpen(v)', v \notin prevWss[k], v \notin missed[k]
                   PROVE  \E c \in Chains : InFlight(k, c)' /\ v \in chain'[k][c].wss
        BY <3>1 DEF NewcomerPolled
      <4>1. CASE v = ws
        BY <2>1, <4>1, RegisterKeeps
      <4>2. CASE v # ws
        BY <2>1, <2>0, <3>1, <4>2, RegisterKeeps DEF Keeps
      <4>3. QED
        BY <4>1, <4>2
    <3>3. \A k \in Kinds : ws \notin prevWss[k]
      BY <2>1 DEF Register, NewIsUnknown
    <3>4. KnownWasServed'
      BY <3>1, <3>3 DEF KnownWasServed, TypeOK
    <3>5. QED
      BY <3>2, <3>4
  <2>2. ASSUME NEW ws \in Sockets, Drop(ws) \/ Unregister(ws) PROVE Inv'
    <3>1. /\ prevWss' = prevWss
          /\ shown' = shown
          /\ missed' = missed
          /\ \A v \in Sockets : IsOpen(v)' => IsOpen(v)
      BY <2>2 DEF Drop, Unregister, IsOpen, TypeOK, history
    <3>2. \A k \in Kinds, c \in Chains : Keeps(k, c)
      <4>1. CASE Drop(ws)
        BY <4>1 DEF Drop, Keeps, InFlight
      <4>2. CASE Unregister(ws)
        BY <4>2, UnregisterSame DEF Keeps, InFlight
      <4>3. QED
        BY <2>2, <4>1, <4>2
    <3>3. QED
      BY <2>a, <3>1, <3>2
  <2>3. ASSUME NEW t \in Transfers, Suspend(t) \/ Resume(t) \/ Restart(t) \/ Abort(t) PROVE Inv'
    <3>1. /\ prevWss' = prevWss
          /\ shown' = shown
          /\ missed' = missed
          /\ \A v \in Sockets : IsOpen(v)' => IsOpen(v)
      BY <2>3 DEF Suspend, Resume, Restart, Abort, IsOpen, history
    <3>2. \A k \in Kinds, c \in Chains : Keeps(k, c)
      <4>1. CASE Suspend(t)
        BY <4>1, SuspendKeeps DEF Keeps
      <4>2. CASE Resume(t) \/ Restart(t)
        BY <4>2, ResumeKeeps DEF Keeps
      <4>3. CASE Abort(t)
        BY <4>3 DEF Abort, Keeps, InFlight
      <4>4. QED
        BY <2>3, <4>1, <4>2, <4>3
    <3>3. QED
      BY <2>a, <3>1, <3>2
  <2>4. CASE (\E k \in Kinds : Change(k)) \/ UNCHANGED vars
    <3>1. /\ prevWss' = prevWss
          /\ shown' = shown
          /\ missed' = missed
          /\ conn' = conn
          /\ chain' = chain
      BY <2>4 DEF Change, vars, history
    <3>2. QED
      BY <2>a, <3>1 DEF Keeps, InFlight, IsOpen
  <2>5. ASSUME NEW k \in Kinds, NEW c \in Chains, ChainStep(k, c), ~Answer(k, c)
        PROVE  Inv'
    <3>1. /\ prevWss' = prevWss
          /\ shown' = shown
          /\ conn' = conn
      BY <2>5 DEF ChainStep, Fire, Read, ReadFails, SpawnFails, Throws, SendDone
    <3>2. \A j \in Kinds, d \in Chains : j # k \/ d # c => Keeps(j, d)
      <4>1. CASE Fire(k, c)
        <5>1. \A j \in Kinds, d \in Chains :
                j # k \/ d # c => chain'[j][d] = chain[j][d]
          BY <4>1, FireChains
        <5>2. QED
          BY <5>1 DEF Keeps, InFlight
      <4>2. CASE Read(k, c) \/ ReadFails(k, c)
        BY <4>2, ReadChains DEF Keeps, InFlight
      <4>3. CASE SpawnFails(k, c)
        BY <4>3, SpawnChains DEF Keeps, InFlight
      <4>4. CASE Throws(k, c)
        BY <4>4, ThrowsChains DEF Keeps, InFlight
      <4>5. CASE \E ws \in Sockets : SendDone(k, c, ws)
        BY <4>5, SendDoneChains DEF Keeps, InFlight
      <4>6. QED
        BY <2>5, <4>1, <4>2, <4>3, <4>4, <4>5 DEF ChainStep
    <3>3. /\ \A j \in Kinds : missed[j] \subseteq missed'[j]
          /\ Keeps(k, c) \/ chain[k][c].wss \subseteq missed'[k]
      <4>1. CASE Fire(k, c)
        BY <4>1 DEF Fire, Keeps, InFlight, history
      <4>2. CASE Read(k, c) \/ ReadFails(k, c)
        BY <4>2, ReadChains DEF Keeps, InFlight, Read, ReadFails, history
      <4>3. CASE SpawnFails(k, c)
        <5>1. missed' = missed
          BY <4>3 DEF SpawnFails, history
        <5>2. Keeps(k, c)
          BY <4>3, SpawnChains DEF Keeps, InFlight
        <5>3. QED
          BY <5>1, <5>2
      <4>4. CASE Throws(k, c)
        BY <4>4, ThrowsChains
      <4>5. CASE \E ws \in Sockets : SendDone(k, c, ws)
        BY <4>5 DEF SendDone, Keeps, InFlight, history
      <4>6. QED
        BY <2>5, <4>1, <4>2, <4>3, <4>4, <4>5 DEF ChainStep
    <3>4. \A j \in Kinds, d \in Chains :
            Keeps(j, d) \/ chain[j][d].wss \subseteq missed'[j]
      BY <3>2, <3>3
    <3>5. QED
      BY <2>a, <3>1, <3>3, <3>4 DEF IsOpen
  <2>6. ASSUME NEW k \in Kinds, NEW c \in Chains, Answer(k, c) PROVE Inv'
    <3>1. conn' = conn /\ missed' = missed
      BY <2>6 DEF Answer, history
    <3>2. \A j \in Kinds, d \in Chains : j # k \/ d # c => chain'[j][d] = chain[j][d]
      BY <2>6, AnswerChains
    <3>3. KnownWasServed'
      <4> SUFFICES ASSUME NEW j \in Kinds, NEW ws \in prevWss'[j], IsOpen(ws)
                   PROVE  shown'[j][ws] # NoValue
        BY <3>1 DEF KnownWasServed, IsOpen
      <4>1. ws \in Sockets
        BY <2>6, AnswerServes, AnswerChains DEF TypeOK
      <4>2. CASE j = k
        BY <2>6, <4>1, <4>2, AnswerServes DEF KnownWasServed
      <4>3. CASE j # k
        BY <2>6, <4>3, AnswerServes DEF KnownWasServed
      <4>4. QED
        BY <4>2, <4>3
    <3>4. NewcomerPolled'
      <4> SUFFICES ASSUME NEW j \in Kinds, NEW ws \in Sockets,
                          IsOpen(ws), ws \notin prevWss'[j], ws \notin missed[j]
                   PROVE  \E d \in Chains : InFlight(j, d)' /\ ws \in chain'[j][d].wss
        BY <3>1 DEF NewcomerPolled, IsOpen
      <4>1. ws \notin prevWss[j] /\ (j = k => ws \notin chain[k][c].wss)
        BY <2>6, AnswerServes
      <4>2. PICK d \in Chains : InFlight(j, d) /\ ws \in chain[j][d].wss
        BY <2>0, <4>1
      <4>3. chain'[j][d] = chain[j][d]
        BY <3>2, <4>1, <4>2
      <4>4. QED
        BY <4>2, <4>3 DEF InFlight
    <3>5. QED
      BY <3>3, <3>4
  <2>7. QED
    BY <2>1, <2>2, <2>3, <2>4, <2>5, <2>6 DEF Next
<1>3. QED
  BY <1>1, <1>2, TypeCorrect, StrangersAreUnknown, PTL DEF Spec

\* Every open socket was sent each list, or a poll that will is in flight, or
\* one that should have got a list nobody can read.
THEOREM OpenIsServedOrPending == Spec => []ServedOrPending
<1>1. NewcomerPolled /\ KnownWasServed => ServedOrPending
  BY DEF NewcomerPolled, KnownWasServed, ServedOrPending
<1>2. QED
  BY <1>1, NewcomersAreServed, PTL

-----------------------------------------------------------------------------
(* Browsers that agree go on agreeing. *)

\* Agreement about a list survives a step that drops no open socket from a
\* poll, adds none WssUpdate does not know, and shows nothing new.
LEMMA AgreementFrame ==
  ASSUME NEW k \in Kinds, TypeOK, Agreed(k),
         registry' \subseteq registry, prevWss'[k] = prevWss[k],
         prevT'[k] = prevT[k], shown'[k] = shown[k],
         \A ws \in Sockets : IsOpen(ws)' => IsOpen(ws),
         \A c \in Chains : InFlight(k, c)' =>
           InFlight(k, c) /\ chain'[k][c].wss = chain[k][c].wss
  PROVE  Agreed(k)'
<1>1. registry \subseteq Sockets
  BY DEF TypeOK
<1>2. QED
  BY <1>1 DEF Agreed

\* A poll answered among browsers that agree shows its list to all of them.
LEMMA AnswerAgrees ==
  ASSUME TypeOK, NEW k \in Kinds, NEW c \in Chains, Answer(k, c), Agreed(k)
  PROVE  Agreed(k)'
<1> DEFINE wss == chain[k][c].wss
           val == chain[k][c].val
           to == Targets(k, wss, val)
<1>1. /\ wss \subseteq prevWss[k]
      /\ \A ws \in registry : IsOpen(ws) => ws \in wss
  BY DEF Agreed, Answer, InFlight
<1>2. to = IF val # prevT[k] THEN wss ELSE {}
  BY <1>1 DEF Targets
<1>3. /\ prevT' = [prevT EXCEPT ![k] = val]
      /\ shown' = [shown EXCEPT ![k] = [ws \in Sockets |->
           IF ws \in to /\ IsOpen(ws) THEN val ELSE shown[k][ws]]]
      /\ registry' = registry
      /\ conn' = conn
  BY DEF Answer
<1>4. prevWss'[k] = prevWss[k]
  BY <1>1, AnswerServes
<1>5. ~InFlight(k, c)' /\ \A d \in Chains : d # c => chain'[k][d] = chain[k][d]
  BY AnswerChains DEF InFlight
<1> HIDE DEF val, to, wss
<1>6. registry \subseteq Sockets /\ prevT'[k] = val
  BY <1>3 DEF TypeOK
<1>7. \A ws \in registry : IsOpen(ws) => shown'[k][ws] = val
  <2> SUFFICES ASSUME NEW ws \in registry, IsOpen(ws) PROVE shown'[k][ws] = val
    OBVIOUS
  <2>1. shown'[k][ws] = IF ws \in to /\ IsOpen(ws) THEN val ELSE shown[k][ws]
    BY <1>3, <1>6 DEF TypeOK
  <2>2. shown[k][ws] = prevT[k]
    BY DEF Agreed
  <2>3. QED
    BY <1>1, <1>2, <2>1, <2>2
<1>8. QED
  BY <1>3, <1>4, <1>5, <1>6, <1>7 DEF Agreed, IsOpen, InFlight

\* Only a newcomer makes browsers disagree.
THEOREM AgreementIsKept == Spec => OnlyRegisterDisagrees
<1> DEFINE Step == \A k \in Kinds : Agreed(k) =>
                     Agreed(k)' \/ \E ws \in Sockets : Register(ws)
<1>1. TypeOK /\ [Next]_vars => [Step]_vars
  <2> SUFFICES ASSUME TypeOK, Next, NEW k \in Kinds, Agreed(k),
                      ~\E ws \in Sockets : Register(ws)
               PROVE  Agreed(k)'
    OBVIOUS
  <2>1. ASSUME NEW ws \in Sockets, Drop(ws) \/ Unregister(ws) PROVE Agreed(k)'
    <3>1. /\ registry' \subseteq registry
          /\ prevWss' = prevWss
          /\ prevT' = prevT
          /\ shown' = shown
          /\ \A v \in Sockets : IsOpen(v)' => IsOpen(v)
      BY <2>1 DEF Drop, Unregister, IsOpen, TypeOK
    <3>2. \A c \in Chains : InFlight(k, c)' =>
            InFlight(k, c) /\ chain'[k][c].wss = chain[k][c].wss
      <4>1. CASE Drop(ws)
        BY <4>1 DEF Drop, InFlight
      <4>2. CASE Unregister(ws)
        BY <4>2, UnregisterSame DEF InFlight
      <4>3. QED
        BY <2>1, <4>1, <4>2
    <3>3. QED
      BY <3>1, <3>2, AgreementFrame
  <2>2. ASSUME NEW t \in Transfers, Suspend(t) \/ Resume(t) \/ Restart(t) \/ Abort(t)
        PROVE  Agreed(k)'
    <3>1. /\ registry' = registry
          /\ prevWss' = prevWss
          /\ prevT' = prevT
          /\ shown' = shown
          /\ \A v \in Sockets : IsOpen(v)' => IsOpen(v)
      BY <2>2 DEF Suspend, Resume, Restart, Abort, IsOpen
    <3>2. \A c \in Chains : InFlight(k, c)' =>
            InFlight(k, c) /\ chain'[k][c].wss = chain[k][c].wss
      <4>1. CASE Suspend(t)
        BY <4>1, SuspendKeeps
      <4>2. CASE Resume(t) \/ Restart(t)
        BY <4>2, ResumeKeeps
      <4>3. CASE Abort(t)
        BY <4>3 DEF Abort, InFlight
      <4>4. QED
        BY <2>2, <4>1, <4>2, <4>3
    <3>3. QED
      BY <3>1, <3>2, AgreementFrame
  <2>3. ASSUME NEW j \in Kinds, Change(j) PROVE Agreed(k)'
    BY <2>3 DEF Change, Agreed, InFlight, IsOpen
  <2>4. ASSUME NEW j \in Kinds, NEW c \in Chains, ChainStep(j, c) PROVE Agreed(k)'
    <3>1. CASE Fire(j, c)
      <4>1. /\ registry' = registry
            /\ prevWss' = prevWss
            /\ prevT' = prevT
            /\ shown' = shown
            /\ conn' = conn
        BY <3>1 DEF Fire
      <4>2. \/ chain'[j][c] = Blank("idle")
            \/ chain'[j][c] = Poll(registry, TRUE)
        BY <3>1, FireChains
      <4>3. /\ Blank("idle").phase = "idle"
            /\ Poll(registry, TRUE).wss = registry
        BY ChainShapes DEF TypeOK, Phase
      <4>4. \A i \in Kinds, d \in Chains : i # j \/ d # c => chain'[i][d] = chain[i][d]
        BY <3>1, FireChains
      <4>5. \A d \in Chains : InFlight(k, d)' =>
              \/ chain'[k][d].wss = registry
              \/ InFlight(k, d) /\ chain'[k][d].wss = chain[k][d].wss
        BY <4>2, <4>3, <4>4 DEF InFlight
      <4>6. QED
        BY <4>1, <4>5 DEF Agreed, IsOpen
    <3>2. CASE Read(j, c) \/ ReadFails(j, c)
      <4>1. /\ registry' = registry
            /\ prevWss' = prevWss
            /\ prevT' = prevT
            /\ shown' = shown
            /\ conn' = conn
        BY <3>2 DEF Read, ReadFails
      <4>2. \A d \in Chains : InFlight(k, d)' =>
              InFlight(k, d) /\ chain'[k][d].wss = chain[k][d].wss
        BY <3>2, ReadChains DEF InFlight
      <4>3. QED
        BY <4>1, <4>2, AgreementFrame DEF IsOpen
    <3>3. CASE Answer(j, c)
      <4>1. CASE j = k
        BY <3>3, <4>1, AnswerAgrees
      <4>2. CASE j # k
        <5>1. /\ registry' = registry
              /\ conn' = conn
              /\ prevT'[k] = prevT[k]
          BY <3>3, <4>2 DEF Answer, TypeOK
        <5>2. prevWss'[k] = prevWss[k] /\ shown'[k] = shown[k]
          BY <3>3, <4>2, AnswerServes
        <5>3. \A d \in Chains : chain'[k][d] = chain[k][d]
          BY <3>3, <4>2, AnswerChains
        <5>4. QED
          BY <5>1, <5>2, <5>3, AgreementFrame DEF IsOpen, InFlight
      <4>3. QED
        BY <4>1, <4>2
    <3>4. ASSUME NEW ws \in Sockets, SendDone(j, c, ws) PROVE Agreed(k)'
      <4>1. /\ registry' = registry
            /\ prevWss' = prevWss
            /\ prevT' = prevT
            /\ shown' = shown
            /\ conn' = conn
        BY <3>4 DEF SendDone
      <4>2. \A d \in Chains : InFlight(k, d)' =>
              InFlight(k, d) /\ chain'[k][d].wss = chain[k][d].wss
        BY <3>4, SendDoneChains DEF InFlight
      <4>3. QED
        BY <4>1, <4>2, AgreementFrame DEF IsOpen
    <3>5. CASE SpawnFails(j, c)
      <4>1. /\ registry' = registry
            /\ prevWss' = prevWss
            /\ prevT' = prevT
            /\ shown' = shown
            /\ conn' = conn
        BY <3>5 DEF SpawnFails
      <4>2. \A d \in Chains : InFlight(k, d)' =>
              \E e \in Chains : InFlight(k, e) /\ chain'[k][d].wss = chain[k][e].wss
        BY <3>5, SpawnChains DEF InFlight
      <4>3. QED
        BY <4>1, <4>2 DEF Agreed, IsOpen
    <3>6. CASE Throws(j, c)
      <4>1. /\ registry' = registry
            /\ prevWss' = prevWss
            /\ prevT' = prevT
            /\ shown' = shown
            /\ conn' = conn
        BY <3>6 DEF Throws
      <4>2. \A d \in Chains : InFlight(k, d)' =>
              InFlight(k, d) /\ chain'[k][d].wss = chain[k][d].wss
        BY <3>6, ThrowsChains DEF InFlight
      <4>3. QED
        BY <4>1, <4>2, AgreementFrame DEF IsOpen
    <3>7. QED
      BY <2>4, <3>1, <3>2, <3>3, <3>4, <3>5, <3>6 DEF ChainStep
  <2>5. QED
    BY <2>1, <2>2, <2>3, <2>4 DEF Next
<1>2. QED
  BY <1>1, TypeCorrect, PTL DEF Spec, OnlyRegisterDisagrees

=============================================================================
