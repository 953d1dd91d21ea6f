----------------------------- MODULE PageProofs -----------------------------
(***************************************************************************)
(* Proofs about Page, for every set of sockets, keys, actions and lists.   *)
(*                                                                         *)
(* The invariant ties the connection, what is asked on it and what waits   *)
(* for an answer together; that of the cards is about a list and the       *)
(* message that changes it.  Liveness is left to TLC.                      *)
(***************************************************************************)
EXTENDS Page, FiniteSetTheorems, TLAPS

\* The channel is active when its socket is open; only then is anything asked.
ActiveInv ==
  /\ isActive <=> ws \in {s \in Sockets : sock[s] = "open"}
  /\ \A s \in Sockets : sock[s] # "open" => asked[s] = {}

\* Transactions are new; a request with that of the dialog is its own.
TxnInv ==
  /\ dialog.txn <= asks
  /\ dialog.stage # "closed" => dialog.txn # 0 /\ dialog.act \in Actions /\ dialog.key # NoKey
  /\ dialog.stage # "read" => dialog.data = NoData
  /\ \A s \in Sockets : \A r \in asked[s] :
       /\ r.txn <= asks
       /\ r.txn = 0 => r = DiceRequest
       /\ dialog.stage # "closed" /\ r.txn = dialog.txn =>
            dialog.stage = "read" /\ r = AsciiRequest(dialog)

\* One callback is registered by the one load there is.
DiceInv ==
  /\ handlers \in {0, 1} /\ diceWares \in {0, 1}
  /\ handlers = 0 <=> ~loading /\ diceWares = 0
  /\ loading => diceWares = 0
  /\ ~loading => \A s \in Sockets : DiceRequest \notin asked[s]

IInv ==
  /\ TypeOK /\ OneSocket /\ ActiveInv /\ TxnInv /\ DiceInv
  /\ ShowsOnlyLive /\ AnswerFits /\ LoadingHasReason
-----------------------------------------------------------------------------
LEMMA Start == Init => IInv
<1> SUFFICES ASSUME Init PROVE IInv
  OBVIOUS
<1>1. Closed \in Dialog
  BY BoundsAssumption DEF Closed, Dialog, KeyOrNone, NoData, Text
<1>2. TypeOK
  <2>1. statusTimers \in 0 .. MaxTimers /\ asks \in 0 .. MaxAsks
    BY BoundsAssumption DEF Init
  <2>2. /\ sock \in [Sockets -> {"connecting", "open", "failing", "closed"}]
        /\ asked \in [Sockets -> SUBSET Request]
    BY DEF Init
  <2>3. QED
    BY <1>1, <2>1, <2>2 DEF Init, TypeOK
<1>3. OneSocket
  BY DEF Init, OneSocket, Live
<1>4. ActiveInv
  BY DEF Init, ActiveInv
<1>5. TxnInv /\ AnswerFits /\ LoadingHasReason
  BY DEF Init, TxnInv, AnswerFits, LoadingHasReason, Closed
<1>6. DiceInv /\ ShowsOnlyLive
  BY DEF Init, DiceInv, ShowsOnlyLive
<1>7. QED
  BY <1>2, <1>3, <1>4, <1>5, <1>6 DEF IInv

-----------------------------------------------------------------------------
(* The channel. *)

LEMMA ConnectorPreserves ==
  ASSUME IInv, NEW s \in Sockets, Connector(s)
  PROVE  IInv'
<1>1. /\ reconnects > 0 /\ reconnects' = reconnects - 1 /\ sock[s] = "closed"
      /\ ws' = s /\ sock' = [sock EXCEPT ![s] = "connecting"]
      /\ UNCHANGED <<isActive, mounted, status, statusTimers, cards, keys, last, seen, loading,
                     handlers, diceWares, dialog, asks, asked, lost>>
  BY DEF Connector, TimerFires, view, lists, dice, requests
<1>2. reconnects = 1 /\ ws = NoSocket /\ Live = {} /\ ~isActive
  BY <1>1, SocketsAssumption DEF IInv, OneSocket, ActiveInv
<1>3. /\ \A t \in Sockets : sock[t] = "closed" /\ asked[t] = {}
      /\ sock \in [Sockets -> {"connecting", "open", "failing", "closed"}]
  BY <1>2 DEF IInv, Live, ActiveInv, TypeOK
<1>4. TypeOK'
  BY <1>1, <1>2, <1>3 DEF IInv, TypeOK
<1>5. OneSocket'
  <2>1. Live' = {s}
    BY <1>1, <1>3 DEF Live
  <2>2. QED
    BY <1>1, <1>2, <2>1 DEF OneSocket
<1>6. ActiveInv'
  BY <1>1, <1>2, <1>3 DEF ActiveInv
<1>7. TxnInv' /\ DiceInv' /\ ShowsOnlyLive' /\ AnswerFits'
  BY <1>1 DEF IInv, TxnInv, DiceInv, ShowsOnlyLive, AnswerFits
<1>8. LoadingHasReason'
  BY <1>1, <1>2 DEF IInv, LoadingHasReason
<1>9. QED
  BY <1>4, <1>5, <1>6, <1>7, <1>8 DEF IInv

LEMMA OpenedPreserves ==
  ASSUME IInv, NEW s \in Sockets, Opened(s)
  PROVE  IInv'
<1>1. /\ sock[s] = "connecting" /\ sock' = [sock EXCEPT ![s] = "open"] /\ isActive' = TRUE
      /\ statusTimers < MaxTimers
      /\ statusTimers' = IF mounted THEN statusTimers + 1 ELSE statusTimers
      /\ UNCHANGED <<ws, reconnects, mounted, status, cards, keys, last, seen, loading,
                     handlers, diceWares, dialog, asks, asked, lost>>
  BY DEF Opened, lists, dice, requests
<1>2. ws = s /\ reconnects = 0 /\ Live = {s}
  BY <1>1 DEF IInv, OneSocket, Live
<1>3. sock \in [Sockets -> {"connecting", "open", "failing", "closed"}]
  BY DEF IInv, TypeOK
<1>4. TypeOK'
  <2>1. statusTimers' \in 0 .. MaxTimers
    BY <1>1, BoundsAssumption DEF IInv, TypeOK
  <2>2. QED
    BY <1>1, <1>3, <2>1 DEF IInv, TypeOK
<1>5. OneSocket'
  <2>1. Live' = {s}
    BY <1>1, <1>2, <1>3 DEF Live
  <2>2. QED
    BY <1>1, <1>2, <2>1 DEF OneSocket
<1>6. ActiveInv'
  BY <1>1, <1>2, <1>3 DEF IInv, ActiveInv
<1>7. TxnInv' /\ DiceInv' /\ ShowsOnlyLive' /\ AnswerFits' /\ LoadingHasReason'
  BY <1>1 DEF IInv, TxnInv, DiceInv, ShowsOnlyLive, AnswerFits, LoadingHasReason
<1>8. QED
  BY <1>4, <1>5, <1>6, <1>7 DEF IInv

LEMMA OnClosePreserves ==
  ASSUME IInv, NEW s \in Sockets, OnClose(s)
  PROVE  IInv'
<1>1. /\ sock[s] # "closed" /\ sock' = [sock EXCEPT ![s] = "closed"] /\ isActive' = FALSE
      /\ cards' = <<>> /\ keys' = {} /\ ws' = NoSocket /\ reconnects' = reconnects + 1
      /\ asked' = [asked EXCEPT ![s] = {}] /\ lost' = lost \cup {r.txn : r \in asked[s]}
      /\ status' = IF mounted THEN "NotConnected" ELSE status
      /\ UNCHANGED <<mounted, statusTimers, loading, handlers, diceWares, dialog, asks>>
  BY DEF OnClose, ClearLists, Reconnect, dice
<1>2. ws = s /\ reconnects = 0 /\ Live = {s}
  BY <1>1 DEF IInv, OneSocket, Live
<1>3. /\ sock \in [Sockets -> {"connecting", "open", "failing", "closed"}]
      /\ asked \in [Sockets -> SUBSET Request] /\ lost \subseteq 0 .. MaxAsks
  BY DEF IInv, TypeOK
<1>4. TypeOK'
  <2>1. lost' \subseteq 0 .. MaxAsks
    <3>1. \A r \in asked[s] : r.txn \in 0 .. MaxAsks
      BY <1>3 DEF Request
    <3>2. QED
      BY <1>1, <1>3, <3>1
  <2>2. asked' \in [Sockets -> SUBSET Request]
    BY <1>1, <1>3
  <2>3. sock' \in [Sockets -> {"connecting", "open", "failing", "closed"}]
    BY <1>1, <1>3
  <2>4. status' \in {"NotStarted", "Connected", "NotConnected"} /\ reconnects' \in Nat
    BY <1>1, <1>2 DEF IInv, TypeOK
  <2>5. QED
    BY <1>1, <2>1, <2>2, <2>3, <2>4 DEF IInv, TypeOK
<1>5. OneSocket'
  <2>1. Live' = {}
    BY <1>1, <1>2, <1>3 DEF Live
  <2>2. QED
    BY <1>1, <1>2, <2>1 DEF OneSocket
<1>6. ActiveInv'
  BY <1>1, <1>3, SocketsAssumption DEF IInv, ActiveInv
<1>7. \A t \in Sockets : asked'[t] \subseteq asked[t]
  BY <1>1, <1>3
<1>8. TxnInv' /\ DiceInv' /\ ShowsOnlyLive' /\ AnswerFits'
  BY <1>1, <1>7 DEF IInv, TxnInv, DiceInv, ShowsOnlyLive, AnswerFits, AsciiRequest
<1>9. LoadingHasReason'
  <2>1. DiceRequest \in asked[s] => 0 \in lost'
    BY <1>1 DEF DiceRequest
  <2>2. AsciiRequest(dialog) \in asked[s] => dialog.txn \in lost'
    BY <1>1 DEF AsciiRequest
  <2>3. QED
    BY <1>1, <1>2, <2>1, <2>2 DEF IInv, LoadingHasReason
<1>10. QED
  BY <1>4, <1>5, <1>6, <1>8, <1>9 DEF IInv

\* Lists and the timer of ChannelStatus leave the channel and the requests alone.
LEMMA ShowPreserves ==
  ASSUME IInv,
         \/ StatusTimer
         \/ \E s \in Sockets : (\E m \in CardLists : CardStatusList(s, m))
                               \/ \E m \in KeyLists : KeyChainList(s, m)
  PROVE  IInv'
<1>1. UNCHANGED <<ws, sock, isActive, reconnects, mounted, loading, handlers, diceWares,
                  dialog, asks, asked, lost>>
  BY DEF StatusTimer, CardStatusList, KeyChainList, channel, view, dice, requests
<1>2. /\ keys' \subseteq Keys
      /\ statusTimers' \in 0 .. MaxTimers
      /\ status' \in {"NotStarted", "Connected", "NotConnected"}
  <2>1. CASE StatusTimer
    BY <2>1, BoundsAssumption DEF IInv, TypeOK, StatusTimer, lists
  <2>2. CASE \E s \in Sockets : \E m \in CardLists : CardStatusList(s, m)
    BY <2>2 DEF IInv, TypeOK, CardStatusList, view
  <2>3. CASE \E s \in Sockets : \E m \in KeyLists : KeyChainList(s, m)
    BY <2>3, KeysAssumption DEF IInv, TypeOK, KeyChainList, view
  <2>4. QED
    BY <2>1, <2>2, <2>3
<1>3. TypeOK'
  BY <1>1, <1>2 DEF IInv, TypeOK
<1>4. OneSocket'
  BY <1>1 DEF IInv, OneSocket, Live
<1>5. ActiveInv' /\ TxnInv' /\ DiceInv' /\ AnswerFits' /\ LoadingHasReason'
  BY <1>1 DEF IInv, ActiveInv, TxnInv, DiceInv, AnswerFits, LoadingHasReason
<1>6. ShowsOnlyLive'
  <2>1. CASE StatusTimer
    BY <2>1, <1>1 DEF IInv, ShowsOnlyLive, StatusTimer, lists
  <2>2. ASSUME NEW s \in Sockets, sock[s] = "open" PROVE isActive
    BY <2>2 DEF IInv, OneSocket, ActiveInv, Live
  <2>3. QED
    BY <1>1, <2>1, <2>2 DEF CardStatusList, KeyChainList, Receives, ShowsOnlyLive
<1>7. QED
  BY <1>3, <1>4, <1>5, <1>6 DEF IInv

-----------------------------------------------------------------------------
(* The user. *)

\* A component that throws while it mounts leaves the channel without a request.
LEMMA BlankPreserves ==
  ASSUME IInv, NEW r, r.txn \in 0 .. MaxAsks, Blank(r),
         UNCHANGED <<cards, keys, diceWares>>, asks' \in asks .. MaxAsks,
         \/ UNCHANGED <<loading, handlers>>
         \/ r = DiceRequest /\ NeedsDiceWare /\ loading' = TRUE /\ handlers' = handlers + 1
  PROVE  IInv'
<1>1. /\ ws \notin {s \in Sockets : sock[s] = "open"}
      /\ mounted' = FALSE /\ dialog' = Closed
      /\ sock' = IF ws = NoSocket THEN sock ELSE [sock EXCEPT ![ws] = "failing"]
      /\ lost' = lost \cup {r.txn}
      /\ UNCHANGED <<ws, isActive, reconnects, status, statusTimers, asked>>
  BY DEF Blank, Throws
<1>2. /\ sock \in [Sockets -> {"connecting", "open", "failing", "closed"}]
      /\ asks \in 0 .. MaxAsks /\ ws \in Sockets \cup {NoSocket} /\ MaxAsks \in Nat
      /\ handlers \in Nat /\ loading \in BOOLEAN
  BY BoundsAssumption DEF IInv, TypeOK
<1>3. ~isActive /\ \A s \in Sockets : sock[s] # "open" /\ asked[s] = {}
  BY <1>1 DEF IInv, ActiveInv, OneSocket, Live
<1>4. TypeOK'
  <2>1. Closed \in Dialog
    BY <1>2 DEF Closed, Dialog, KeyOrNone, NoData, Text
  <2>2. sock' \in [Sockets -> {"connecting", "open", "failing", "closed"}]
    BY <1>1, <1>2
  <2>3. asks' \in 0 .. MaxAsks /\ handlers' \in Nat
    BY <1>2
  <2>4. loading' \in BOOLEAN
    BY <1>2
  <2>5. lost' \subseteq 0 .. MaxAsks
    BY <1>1 DEF IInv, TypeOK
  <2>6. QED
    BY <1>1, <2>1, <2>2, <2>3, <2>4, <2>5 DEF IInv, TypeOK
<1>5. OneSocket'
  <2>1. Live' = Live
    BY <1>1, <1>2 DEF IInv, OneSocket, Live
  <2>2. QED
    BY <1>1, <2>1 DEF IInv, OneSocket
<1>6. ActiveInv'
  BY <1>1, <1>2, <1>3 DEF ActiveInv
<1>7. TxnInv' /\ AnswerFits' /\ ShowsOnlyLive'
  BY <1>1, <1>2, <1>3 DEF IInv, TxnInv, AnswerFits, ShowsOnlyLive, Closed
<1>8. DiceInv'
  BY <1>1, <1>2, <1>3 DEF IInv, DiceInv, NeedsDiceWare
<1>9. LoadingHasReason'
  BY <1>1, <1>3 DEF IInv, LoadingHasReason, Closed, DiceRequest
<1>10. QED
  BY <1>4, <1>5, <1>6, <1>7, <1>8, <1>9 DEF IInv

LEMMA LoadPreserves == IInv /\ Load => IInv'
<1> SUFFICES ASSUME IInv, Load PROVE IInv'
  OBVIOUS
<1>1. /\ dialog = Closed /\ diceWares = 0 /\ ~loading
      /\ loading' = TRUE /\ handlers' = handlers + 1
      /\ UNCHANGED <<cards, keys, last, seen, diceWares, asks>>
  BY DEF Load, NeedsDiceWare, lists
<1>2. DiceRequest \in Request /\ DiceRequest.txn \in 0 .. MaxAsks /\ DiceRequest.txn = 0
  BY BoundsAssumption DEF DiceRequest, Request, KeyOrNone
<1>3. CASE Blank(DiceRequest)
  <2>1. asks' \in asks .. MaxAsks
    BY <1>1 DEF IInv, TypeOK
  <2>2. QED
    BY <1>1, <1>2, <1>3, <2>1, BlankPreserves DEF NeedsDiceWare
<1>4. CASE Send(DiceRequest) /\ UNCHANGED <<channel, view, dialog>>
  <2>1. /\ ws \in Sockets /\ sock[ws] = "open" /\ lost' = lost
        /\ asked' = [asked EXCEPT ![ws] = @ \cup {DiceRequest}]
        /\ UNCHANGED <<ws, sock, isActive, reconnects, mounted, status, statusTimers, dialog>>
    BY <1>4 DEF Send, Throws, channel, view
  <2>2. /\ asked \in [Sockets -> SUBSET Request]
        /\ \A s \in Sockets : asked'[s] = asked[s]
             \/ (s = ws /\ asked'[s] = asked[s] \cup {DiceRequest})
        /\ DiceRequest \in asked'[ws]
    BY <2>1 DEF IInv, TypeOK
  <2>3. TypeOK'
    <3>1. asked' \in [Sockets -> SUBSET Request]
      BY <1>2, <2>1, <2>2
    <3>2. QED
      BY <1>1, <2>1, <3>1 DEF IInv, TypeOK
  <2>4. OneSocket' /\ ShowsOnlyLive' /\ AnswerFits'
    BY <1>1, <2>1 DEF IInv, OneSocket, Live, ShowsOnlyLive, AnswerFits
  <2>5. ActiveInv'
    BY <2>1, <2>2 DEF IInv, ActiveInv
  <2>6. TxnInv'
    BY <1>1, <1>2, <2>1, <2>2 DEF IInv, TypeOK, TxnInv, Closed
  <2>7. DiceInv'
    BY <1>1 DEF IInv, DiceInv
  <2>8. LoadingHasReason'
    BY <1>1, <2>1, <2>2, SocketsAssumption DEF LoadingHasReason, Closed
  <2>9. QED
    BY <2>3, <2>4, <2>5, <2>6, <2>7, <2>8 DEF IInv
<1>5. QED
  BY <1>3, <1>4 DEF Load

\* A dialog that reads sends its request: from a button, or after Ready.
LEMMA AskPreserves ==
  ASSUME IInv, NEW d \in Dialog, d.stage = "read", d.data = NoData, d.txn # 0, d.act \in Actions,
         d.key # NoKey,
         \/ dialog = Closed /\ d.txn = asks + 1 /\ asks' = d.txn
         \/ dialog.stage = "pass" /\ d.txn = dialog.txn /\ asks' = asks,
         Send(AsciiRequest(d)), dialog' = d, UNCHANGED <<channel, view, lists, dice>>
  PROVE  IInv'
<1> DEFINE r == AsciiRequest(d)
<1>1. /\ ws \in Sockets /\ sock[ws] = "open" /\ lost' = lost
      /\ asked' = [asked EXCEPT ![ws] = @ \cup {r}]
      /\ UNCHANGED <<ws, sock, isActive, reconnects, mounted, status, statusTimers, cards, keys,
                     loading, handlers, diceWares>>
  BY DEF Send, Throws, channel, view, lists, dice
<1>2. r \in Request /\ r.txn = d.txn /\ d.txn \in 0 .. MaxAsks
  BY DEF AsciiRequest, Request, Dialog
<1>3. /\ asked \in [Sockets -> SUBSET Request] /\ asks \in Nat /\ MaxAsks \in Nat
      /\ \A s \in Sockets : asked'[s] = asked[s] \/ (s = ws /\ asked'[s] = asked[s] \cup {r})
      /\ r \in asked'[ws]
  BY <1>1, BoundsAssumption DEF IInv, TypeOK
<1>4. asks' \in 0 .. MaxAsks /\ asks <= asks' /\ d.txn <= asks'
  BY <1>2, <1>3 DEF IInv, TypeOK, TxnInv
<1>5. TypeOK'
  <2>1. asked' \in [Sockets -> SUBSET Request]
    BY <1>1, <1>2, <1>3
  <2>2. QED
    BY <1>1, <1>4, <2>1 DEF IInv, TypeOK
<1>6. OneSocket' /\ ShowsOnlyLive' /\ AnswerFits'
  BY <1>1 DEF IInv, OneSocket, Live, ShowsOnlyLive, AnswerFits
<1>7. ActiveInv'
  BY <1>1, <1>3 DEF IInv, ActiveInv
<1>8. \A s \in Sockets : \A q \in asked[s] : q.txn <= asks /\ q.txn # d.txn
        /\ (q.txn = 0 => q = DiceRequest)
  <2> SUFFICES ASSUME NEW s \in Sockets, NEW q \in asked[s]
               PROVE  q.txn <= asks /\ q.txn # d.txn /\ (q.txn = 0 => q = DiceRequest)
    OBVIOUS
  <2>1. q.txn <= asks /\ (q.txn = 0 => q = DiceRequest) /\ q.txn \in Nat
    BY <1>3 DEF IInv, TxnInv, Request
  <2>2. q.txn # d.txn
    BY <1>2, <1>3, <2>1 DEF IInv, TxnInv
  <2>3. QED
    BY <2>1, <2>2
<1>9. TxnInv'
  <2> SUFFICES ASSUME NEW s \in Sockets, NEW q \in asked'[s]
               PROVE  /\ q.txn <= asks' /\ (q.txn = 0 => q = DiceRequest)
                      /\ q.txn = d.txn => q = AsciiRequest(d)
    BY <1>4 DEF TxnInv
  <2>1. q \in asked[s] \/ q = r
    BY <1>3
  <2>2. CASE q = r
    BY <1>2, <1>4, <2>2
  <2>3. CASE q \in asked[s]
    <3>1. q.txn \in Nat
      BY <1>3, <2>3 DEF Request
    <3>2. QED
      BY <1>3, <1>4, <1>8, <2>3, <3>1
  <2>4. QED
    BY <2>1, <2>2, <2>3
<1>10. DiceInv'
  <2>1. r # DiceRequest
    BY <1>2 DEF DiceRequest
  <2>2. QED
    BY <1>1, <1>3, <2>1 DEF IInv, DiceInv
<1>11. LoadingHasReason'
  BY <1>1, <1>3, SocketsAssumption DEF IInv, LoadingHasReason
<1>12. QED
  BY <1>5, <1>6, <1>7, <1>9, <1>10, <1>11 DEF IInv

LEMMA OpenDialogPreserves ==
  ASSUME IInv, NEW k \in Keys, NEW a \in Actions, OpenDialog(k, a)
  PROVE  IInv'
<1> DEFINE d == [stage |-> IF a = "pem-private" THEN "pass" ELSE "read",
                 key |-> k, act |-> a, txn |-> asks + 1, data |-> NoData]
<1>1. /\ dialog = Closed /\ asks < MaxAsks /\ asks' = asks + 1
      /\ UNCHANGED <<lists, dice>>
      /\ IF d.stage = "pass"
         THEN dialog' = d /\ UNCHANGED <<channel, view, asked, lost>>
         ELSE \/ Send(AsciiRequest(d)) /\ dialog' = d /\ UNCHANGED <<channel, view>>
              \/ Blank(AsciiRequest(d))
  BY DEF OpenDialog
<1>2. asks \in Nat /\ MaxAsks \in Nat /\ asks + 1 \in 0 .. MaxAsks
  BY <1>1, BoundsAssumption DEF IInv, TypeOK
<1>3. /\ d \in Dialog /\ d.data = NoData /\ d.txn = asks + 1 /\ d.txn # 0 /\ d.act \in Actions
      /\ d.act = a /\ d.key # NoKey
  BY <1>2, KeysAssumption DEF Dialog, KeyOrNone, NoData, Text
<1> HIDE DEF d
<1>4. CASE d.stage = "pass"
  <2>1. /\ dialog' = d
        /\ UNCHANGED <<ws, sock, isActive, reconnects, mounted, status, statusTimers, cards, keys,
                       loading, handlers, diceWares, asked, lost>>
    BY <1>1, <1>4 DEF channel, view, lists, dice
  <2>2. TypeOK'
    BY <1>1, <1>2, <1>3, <2>1 DEF IInv, TypeOK
  <2>3. OneSocket' /\ ShowsOnlyLive' /\ ActiveInv' /\ DiceInv'
    BY <2>1 DEF IInv, OneSocket, Live, ShowsOnlyLive, ActiveInv, DiceInv
  <2>4. AnswerFits' /\ LoadingHasReason'
    BY <1>3, <1>4, <2>1 DEF IInv, AnswerFits, LoadingHasReason
  <2>5. TxnInv'
    <3>1. \A s \in Sockets : \A r \in asked[s] :
            /\ r.txn \in Nat /\ r.txn <= asks /\ (r.txn = 0 => r = DiceRequest)
      BY DEF IInv, TypeOK, TxnInv, Request
    <3>2. \A s \in Sockets : \A r \in asked[s] : r.txn <= asks' /\ r.txn # d.txn
      BY <1>1, <1>2, <1>3, <3>1
    <3>3. QED
      BY <1>1, <1>2, <1>3, <1>4, <2>1, <3>1, <3>2 DEF TxnInv
  <2>6. QED
    BY <2>2, <2>3, <2>4, <2>5 DEF IInv
<1>5. CASE d.stage # "pass"
  <2>1. d.stage = "read"
    BY <1>5 DEF d
  <2>2. CASE Send(AsciiRequest(d)) /\ dialog' = d /\ UNCHANGED <<channel, view>>
    BY <1>1, <1>3, <2>1, <2>2, AskPreserves
  <2>3. CASE Blank(AsciiRequest(d))
    <3>1. /\ AsciiRequest(d).txn \in 0 .. MaxAsks /\ asks' \in asks .. MaxAsks
          /\ UNCHANGED <<cards, keys, loading, handlers, diceWares>>
      BY <1>1, <1>2, <1>3 DEF AsciiRequest, lists, dice
    <3>2. QED
      BY <2>3, <3>1, BlankPreserves
  <2>4. QED
    BY <1>1, <1>5, <2>2, <2>3
<1>6. QED
  BY <1>4, <1>5

LEMMA ReadyPreserves == IInv /\ Ready => IInv'
<1> SUFFICES ASSUME IInv, Ready PROVE IInv'
  OBVIOUS
<1> DEFINE d == [dialog EXCEPT !.stage = "read"]
<1>1. dialog.stage = "pass" /\ asks' = asks /\ UNCHANGED <<lists, dice>>
  BY DEF Ready
<1>2. dialog \in Dialog /\ asks \in 0 .. MaxAsks
  BY DEF IInv, TypeOK
<1>3. /\ d \in Dialog /\ d.stage = "read" /\ d.data = NoData /\ d.txn = dialog.txn
      /\ d.txn # 0 /\ d.act \in Actions /\ d.key # NoKey
  BY <1>1, <1>2 DEF IInv, TxnInv, Dialog
<1>4. AsciiRequest(d) = AsciiRequest(dialog) /\ AsciiRequest(d).txn \in 0 .. MaxAsks
  BY <1>2 DEF AsciiRequest, Dialog
<1>5. CASE Send(AsciiRequest(dialog)) /\ dialog' = d /\ UNCHANGED <<channel, view>>
  BY <1>1, <1>3, <1>4, <1>5, AskPreserves
<1>6. CASE Blank(AsciiRequest(dialog))
  <2>1. asks' \in asks .. MaxAsks /\ UNCHANGED <<cards, keys, loading, handlers, diceWares>>
    BY <1>1, <1>2 DEF lists, dice
  <2>2. QED
    BY <1>4, <1>6, <2>1, BlankPreserves
<1>7. QED
  BY <1>5, <1>6 DEF Ready

LEMMA CloseDialogPreserves == IInv /\ CloseDialog => IInv'
<1> SUFFICES ASSUME IInv, CloseDialog PROVE IInv'
  OBVIOUS
<1>1. /\ dialog' = Closed
      /\ UNCHANGED <<ws, sock, isActive, reconnects, mounted, status, statusTimers, cards, keys,
                     loading, handlers, diceWares, asks, asked, lost>>
  BY DEF CloseDialog, channel, view, lists, dice
<1>2. Closed \in Dialog
  BY BoundsAssumption DEF Closed, Dialog, KeyOrNone, NoData, Text
<1>3. TypeOK'
  BY <1>1, <1>2 DEF IInv, TypeOK
<1>4. OneSocket' /\ ShowsOnlyLive' /\ ActiveInv' /\ DiceInv'
  BY <1>1 DEF IInv, OneSocket, Live, ShowsOnlyLive, ActiveInv, DiceInv
<1>5. TxnInv'
  BY <1>1 DEF IInv, TypeOK, TxnInv, Closed
<1>6. AnswerFits' /\ LoadingHasReason'
  BY <1>1 DEF IInv, AnswerFits, LoadingHasReason, Closed
<1>7. QED
  BY <1>3, <1>4, <1>5, <1>6 DEF IInv

-----------------------------------------------------------------------------
(* Answers. *)

\* What the steps with an answer have in common.
LEMMA Answered ==
  ASSUME IInv, NEW s \in Sockets, NEW r \in asked[s],
         asked' = [asked EXCEPT ![s] = @ \ {r}],
         UNCHANGED <<channel, view, lists, asks>>
  PROVE  /\ asked' \in [Sockets -> SUBSET Request]
         /\ s = ws /\ ws # NoSocket
         /\ \A t \in Sockets : asked'[t] \subseteq asked[t]
         /\ \A q \in asked[ws] : q # r => q \in asked'[ws]
         /\ OneSocket' /\ ActiveInv' /\ ShowsOnlyLive'
<1>1. asked \in [Sockets -> SUBSET Request]
  BY DEF IInv, TypeOK
<1>2. \A t \in Sockets : asked'[t] = IF t = s THEN asked[s] \ {r} ELSE asked[t]
  BY <1>1
<1>3. sock[s] = "open"
  BY DEF IInv, ActiveInv
<1>4. s = ws /\ ws # NoSocket
  BY <1>3, SocketsAssumption DEF IInv, OneSocket, Live
<1>5. asked' \in [Sockets -> SUBSET Request]
  BY <1>1
<1>6. UNCHANGED <<ws, sock, isActive, reconnects, cards, keys>>
  BY DEF channel, lists
<1>7. ActiveInv'
  BY <1>2, <1>3, <1>6 DEF IInv, ActiveInv
<1>8. OneSocket' /\ ShowsOnlyLive'
  BY <1>6 DEF IInv, OneSocket, Live, ShowsOnlyLive
<1>9. QED
  BY <1>2, <1>4, <1>5, <1>7, <1>8

LEMMA RespondAsciiPreserves ==
  ASSUME IInv, NEW s \in Sockets, NEW r \in asked[s], RespondAscii(s, r)
  PROVE  IInv'
<1>1. /\ r.txn # 0 /\ asked' = [asked EXCEPT ![s] = @ \ {r}]
      /\ UNCHANGED <<channel, view, lists, asks, dice, lost>>
      /\ dialog' = IF ForDialog(r) THEN [dialog EXCEPT !.data = Text(r.key, r.act)] ELSE dialog
  BY DEF RespondAscii
<1>2. /\ asked' \in [Sockets -> SUBSET Request] /\ s = ws /\ ws # NoSocket
      /\ \A t \in Sockets : asked'[t] \subseteq asked[t]
      /\ \A q \in asked[ws] : q # r => q \in asked'[ws]
      /\ OneSocket' /\ ActiveInv' /\ ShowsOnlyLive'
  BY <1>1, Answered
<1>3. UNCHANGED <<ws, sock, isActive, reconnects, mounted, status, statusTimers, cards, keys,
                  loading, handlers, diceWares, asks, lost>>
  BY <1>1 DEF channel, view, lists, dice
<1>4. dialog \in Dialog /\ r \in Request
  BY DEF IInv, TypeOK
<1>5. /\ dialog' \in Dialog /\ AsciiRequest(dialog') = AsciiRequest(dialog)
      /\ dialog'.stage = dialog.stage /\ dialog'.txn = dialog.txn /\ dialog'.act = dialog.act
      /\ dialog'.key = dialog.key
      /\ ~ForDialog(r) => dialog'.data = dialog.data
      /\ ForDialog(r) => dialog'.data = Text(r.key, r.act) /\ dialog.stage = "read"
  <2>1. CASE ForDialog(r)
    <3>1. Text(r.key, r.act) \in [key : KeyOrNone, act : Actions \cup {"none", "dice"}]
      BY <1>4 DEF Text, Request
    <3>2. dialog' = [dialog EXCEPT !.data = Text(r.key, r.act)]
      BY <1>1, <2>1
    <3>3. QED
      BY <1>4, <2>1, <3>1, <3>2 DEF Dialog, AsciiRequest, ForDialog
  <2>2. CASE ~ForDialog(r)
    BY <1>1, <1>4, <2>2
  <2>3. QED
    BY <2>1, <2>2
<1>6. TypeOK'
  BY <1>2, <1>3, <1>5 DEF IInv, TypeOK
<1>7. TxnInv'
  BY <1>2, <1>3, <1>5 DEF IInv, TxnInv
<1>8. DiceInv'
  BY <1>2, <1>3 DEF IInv, DiceInv
<1>9. ForDialog(r) => r = AsciiRequest(dialog)
  BY DEF IInv, TxnInv, ForDialog
<1>10. AnswerFits'
  BY <1>5, <1>9 DEF IInv, AnswerFits, AsciiRequest
<1>11. LoadingHasReason'
  <2>1. r # DiceRequest
    BY <1>1 DEF DiceRequest
  <2>2. ASSUME dialog.stage = "read", AsciiRequest(dialog) = r PROVE dialog'.data # NoData
    <3>1. r.txn = dialog.txn /\ r.key = dialog.key
      BY <2>2, <1>4 DEF AsciiRequest, Dialog
    <3>2. dialog'.data.key # NoKey
      BY <1>5, <2>2, <3>1 DEF IInv, TxnInv, ForDialog, Text
    <3>3. QED
      BY <3>2 DEF Text, NoData
  <2>3. QED
    BY <1>2, <1>3, <1>5, <1>9, <2>1, <2>2 DEF IInv, LoadingHasReason
<1>12. QED
  BY <1>2, <1>6, <1>7, <1>8, <1>10, <1>11 DEF IInv

LEMMA NoRespondPreserves ==
  ASSUME IInv, NEW s \in Sockets, NEW r \in asked[s], NoRespond(s, r)
  PROVE  IInv'
<1>1. /\ asked' = [asked EXCEPT ![s] = @ \ {r}] /\ lost' = lost \cup {r.txn}
      /\ UNCHANGED <<channel, view, lists, asks, dice, dialog>>
  BY DEF NoRespond
<1>2. /\ asked' \in [Sockets -> SUBSET Request] /\ s = ws /\ ws # NoSocket
      /\ \A t \in Sockets : asked'[t] \subseteq asked[t]
      /\ \A q \in asked[ws] : q # r => q \in asked'[ws]
      /\ OneSocket' /\ ActiveInv' /\ ShowsOnlyLive'
  BY <1>1, Answered
<1>3. UNCHANGED <<ws, sock, isActive, reconnects, mounted, status, statusTimers, cards, keys,
                  loading, handlers, diceWares, asks, dialog>>
  BY <1>1 DEF channel, view, lists, dice
<1>4. r \in Request /\ r.txn \in 0 .. MaxAsks
  BY DEF IInv, TypeOK, Request
<1>5. TypeOK'
  <2>1. lost' \subseteq 0 .. MaxAsks
    BY <1>1, <1>4 DEF IInv, TypeOK
  <2>2. QED
    BY <1>2, <1>3, <2>1 DEF IInv, TypeOK
<1>6. TxnInv' /\ DiceInv' /\ AnswerFits'
  BY <1>2, <1>3 DEF IInv, TxnInv, DiceInv, AnswerFits
<1>7. LoadingHasReason'
  BY <1>1, <1>2, <1>3 DEF IInv, LoadingHasReason, AsciiRequest, DiceRequest
<1>8. QED
  BY <1>2, <1>5, <1>6, <1>7 DEF IInv

LEMMA DiceWaresResponsePreserves ==
  ASSUME IInv, NEW s \in Sockets, DiceWaresResponse(s)
  PROVE  IInv'
<1>1. /\ DiceRequest \in asked[s] /\ asked' = [asked EXCEPT ![s] = @ \ {DiceRequest}]
      /\ diceWares' = diceWares + handlers /\ loading' = FALSE
      /\ UNCHANGED <<channel, view, lists, handlers, dialog, asks, lost>>
  BY DEF DiceWaresResponse
<1>2. /\ asked' \in [Sockets -> SUBSET Request] /\ s = ws /\ ws # NoSocket
      /\ \A t \in Sockets : asked'[t] \subseteq asked[t]
      /\ \A q \in asked[ws] : q # DiceRequest => q \in asked'[ws]
      /\ OneSocket' /\ ActiveInv' /\ ShowsOnlyLive'
  BY <1>1, Answered
<1>3. UNCHANGED <<ws, sock, isActive, reconnects, mounted, status, statusTimers, cards, keys,
                  handlers, asks, dialog, lost>>
  BY <1>1 DEF channel, view, lists
<1>4. loading /\ diceWares = 0 /\ handlers = 1
  BY <1>1 DEF IInv, TypeOK, DiceInv
<1>5. TypeOK'
  <2>1. diceWares' = 1
    BY <1>1, <1>4
  <2>2. loading' = FALSE
    BY <1>1
  <2>3. QED
    BY <1>2, <1>3, <2>1, <2>2 DEF IInv, TypeOK
<1>6. TxnInv' /\ AnswerFits'
  BY <1>2, <1>3 DEF IInv, TxnInv, AnswerFits
<1>7. DiceInv'
  <2>1. \A t \in Sockets : DiceRequest \notin asked'[t]
    <3>1. \A t \in Sockets : t # ws => asked[t] = {}
      BY DEF IInv, ActiveInv, OneSocket, Live
    <3>2. DiceRequest \notin asked'[s]
      BY <1>1 DEF IInv, TypeOK
    <3>3. QED
      BY <1>2, <3>1, <3>2
  <2>2. QED
    BY <1>1, <1>3, <1>4, <2>1 DEF DiceInv
<1>8. LoadingHasReason'
  <2>1. dialog.stage = "read" => AsciiRequest(dialog) # DiceRequest
    BY DEF IInv, TxnInv, AsciiRequest, DiceRequest
  <2>2. QED
    BY <1>1, <1>2, <1>3, <2>1 DEF IInv, LoadingHasReason
<1>9. QED
  BY <1>2, <1>5, <1>6, <1>7, <1>8 DEF IInv

-----------------------------------------------------------------------------
LEMMA Stutters == IInv /\ UNCHANGED vars => IInv'
BY DEF IInv, TypeOK, OneSocket, Live, ActiveInv, TxnInv, DiceInv, ShowsOnlyLive, AnswerFits,
       LoadingHasReason, vars, channel, view, lists, dice, requests

LEMMA Invariant == Spec => []IInv
<1>1. IInv /\ [Next]_vars => IInv'
  <2> SUFFICES ASSUME IInv, [Next]_vars PROVE IInv'
    OBVIOUS
  <2>1. CASE StatusTimer
    BY <2>1, ShowPreserves
  <2>2. CASE User
    BY <2>2, LoadPreserves, ReadyPreserves, CloseDialogPreserves, OpenDialogPreserves DEF User
  <2>3. ASSUME NEW s \in Sockets, Connector(s) \/ Opened(s) \/ OnClose(s) PROVE IInv'
    BY <2>3, ConnectorPreserves, OpenedPreserves, OnClosePreserves
  <2>4. ASSUME NEW s \in Sockets, FromServer(s) PROVE IInv'
    BY <2>4, ShowPreserves, RespondAsciiPreserves, NoRespondPreserves,
       DiceWaresResponsePreserves DEF FromServer
  <2>5. CASE UNCHANGED vars
    BY <2>5, Stutters
  <2>6. QED
    BY <2>1, <2>2, <2>3, <2>4, <2>5 DEF Next
<1>2. QED
  BY <1>1, Start, PTL DEF Spec

\* Every variable keeps its type.
THEOREM TypeCorrect == Spec => []TypeOK
<1>1. IInv => TypeOK
  BY DEF IInv
<1>2. QED
  BY <1>1, Invariant, PTL

\* The channel has one socket or one timer for the next, whatever happens.
THEOREM NeverTwoSockets == Spec => []OneSocket
<1>1. IInv => OneSocket
  BY DEF IInv
<1>2. QED
  BY <1>1, Invariant, PTL

\* A dialog only ever shows the answer to its own question.
THEOREM NoForeignAnswer == Spec => []AnswerFits
<1>1. IInv => AnswerFits
  BY DEF IInv
<1>2. QED
  BY <1>1, Invariant, PTL

\* What goes on loading waits for an answer, or has lost it.
THEOREM WaitsForSomething == Spec => []LoadingHasReason
<1>1. IInv => LoadingHasReason
  BY DEF IInv
<1>2. QED
  BY <1>1, Invariant, PTL

\* The dice ware lists are loaded once, and what is shown is of this connection.
THEOREM LoadedOnce == Spec => [](DiceWareOnce /\ ShowsOnlyLive)
<1>1. IInv => DiceWareOnce /\ ShowsOnlyLive
  BY DEF IInv, DiceInv, DiceWareOnce
<1>2. QED
  BY <1>1, Invariant, PTL
-----------------------------------------------------------------------------
(* The list of cards. *)

AnyCards == UNION {Range(l) : l \in CardLists}
OnePerReader(l) == \A i, j \in DOMAIN l : l[i].reader = l[j].reader => i = j

\* A list that shows each reader once, of readers that were seen: if none of them has
\* gone, they are those of the last message, as many as it has.
CardsInv ==
  /\ cards \in Seq(AnyCards) /\ OnePerReader(cards) /\ last \in CardLists \cup {<<>>}
  /\ Readers(cards) \subseteq seen /\ Readers(last) \subseteq seen
  /\ CardsShown

\* What a message has for a reader.
LEMMA CardOfReader ==
  ASSUME NEW m, NEW r \in Readers(m)
  PROVE  /\ (CHOOSE c \in Range(m) : c.reader = r) \in Range(m)
         /\ (CHOOSE c \in Range(m) : c.reader = r).reader = r
BY DEF Readers

LEMMA MessageTyped ==
  ASSUME NEW m \in CardLists
  PROVE  m \in Seq(AnyCards) /\ OnePerReader(m) /\ Range(m) \subseteq AnyCards
<1>1. Range(m) \subseteq AnyCards
  BY DEF AnyCards
<1>2. m \in Seq(Range(m)) /\ OnePerReader(m)
  BY CardListsAssumption DEF OnePerReader
<1>3. \A i \in DOMAIN m : m[i] \in Range(m)
  BY DEF Range
<1>4. m \in Seq(AnyCards)
  BY <1>1, <1>2, <1>3
<1>5. QED
  BY <1>1, <1>2, <1>4

\* Before it is cut a list has a card for every reader of the message, and no reader twice.
LEMMA ExtendedCards ==
  ASSUME NEW list \in Seq(AnyCards), OnePerReader(list), NEW m \in CardLists,
         NEW fresh \in SetToSeqs(Fresh(list, m)), NEW W, W = Extended(list, m, fresh)
  PROVE  /\ W \in Seq(AnyCards) /\ Len(m) <= Len(W) /\ OnePerReader(W)
         /\ \A k \in 1 .. Len(W) :
              W[k] \in Range(m) \/ (W[k] \in Range(list) /\ W[k].reader \notin Readers(m))
<1> DEFINE D == DOMAIN m
           F == Fresh(list, m)
           A == [i \in DOMAIN list |->
                   IF list[i].reader \in Readers(m)
                   THEN CHOOSE c \in Range(m) : c.reader = list[i].reader
                   ELSE list[i]]
           B == [k \in DOMAIN fresh |-> m[fresh[k]]]
<1>1. D = 1 .. Len(m) /\ IsFiniteSet(D) /\ Cardinality(D) = Len(m) /\ Len(m) \in Nat
  BY MessageTyped, FS_Interval
<1>2. F \subseteq D /\ IsFiniteSet(F) /\ Cardinality(F) \in Nat
  BY <1>1, FS_Subset, FS_CardinalityType DEF Fresh
<1>3. /\ fresh \in [1 .. Cardinality(F) -> F]
      /\ \A i, j \in 1 .. Cardinality(F) : i # j => fresh[i] # fresh[j]
  BY DEF SetToSeqs
<1>4. fresh \in Seq(F) /\ Len(fresh) = Cardinality(F)
  BY <1>2, <1>3
<1>5. Len(m) <= Len(list) + Len(fresh)
  <2> DEFINE at == [i \in D \ F |-> CHOOSE j \in DOMAIN list : list[j].reader = m[i].reader]
  <2>1. \A i \in D \ F : \E j \in DOMAIN list : list[j].reader = m[i].reader
    BY DEF Fresh, Readers, Range
  <2>2. \A i \in D \ F : at[i] \in DOMAIN list /\ list[at[i]].reader = m[i].reader
    BY <2>1
  <2>3. at \in Injection(D \ F, DOMAIN list)
    <3>1. at \in [D \ F -> DOMAIN list]
      BY <2>2
    <3> HIDE DEF at, D, F
    <3>2. \A a, b \in D \ F : at[a] = at[b] => m[a].reader = m[b].reader
      BY <2>2
    <3>3. \A a, b \in D \ F : at[a] = at[b] => a = b
      BY <3>2, MessageTyped DEF D, OnePerReader
    <3>4. QED
      BY <3>1, <3>3 DEF Injection, IsInjective
  <2>4. IsFiniteSet(DOMAIN list) /\ Cardinality(DOMAIN list) = Len(list)
    <3>1. DOMAIN list = 1 .. Len(list) /\ Len(list) \in Nat
      OBVIOUS
    <3> HIDE DEF at, D, F
    <3>2. IsFiniteSet(1 .. Len(list)) /\ Cardinality(1 .. Len(list)) = Len(list)
      BY <3>1, FS_Interval
    <3>3. QED
      BY <3>1, <3>2
  <2>5. D \cap F = F
    BY <1>2
  <2> HIDE DEF at, D, F
  <2>6. Cardinality(D \ F) <= Cardinality(DOMAIN list)
    BY <2>3, <2>4, FS_Injection
  <2>7. Cardinality(D \ F) = Cardinality(D) - Cardinality(D \cap F)
    BY <1>1, FS_Difference
  <2>8. Cardinality(D \ F) = Len(m) - Len(fresh) /\ Len(fresh) \in Nat
    BY <1>1, <1>2, <1>4, <2>5, <2>7
  <2>9. QED
    BY <1>1, <2>4, <2>6, <2>8
<1>6. A \in Seq(AnyCards) /\ Len(A) = Len(list)
  <2>1. \A i \in DOMAIN list : A[i] \in AnyCards
    BY CardOfReader, MessageTyped
  <2>2. QED
    BY <2>1
<1>7. B \in Seq(AnyCards) /\ Len(B) = Len(fresh)
  <2>1. \A k \in DOMAIN fresh : fresh[k] \in D
    BY <1>2, <1>3
  <2>2. \A k \in DOMAIN fresh : B[k] \in AnyCards
    BY <2>1, MessageTyped
  <2>3. QED
    BY <1>4, <2>2
<1>8. W = A \o B
  BY DEF Extended
<1> HIDE DEF A, B
<1>9. /\ W \in Seq(AnyCards) /\ Len(W) = Len(list) + Len(fresh)
      /\ \A k \in 1 .. Len(W) : W[k] = IF k <= Len(list) THEN A[k] ELSE B[k - Len(list)]
  <2>1. A \o B \in Seq(AnyCards) /\ Len(A \o B) = Len(A) + Len(B)
    BY <1>6, <1>7
  <2>2. \A k \in 1 .. Len(A) + Len(B) : (A \o B)[k] = IF k <= Len(A) THEN A[k] ELSE B[k - Len(A)]
    BY <1>6, <1>7
  <2>3. QED
    BY <1>6, <1>7, <1>8, <2>1, <2>2
<1> USE DEF A, B
<1> HIDE DEF F
<1>10. \A i \in DOMAIN list :
         /\ A[i].reader = list[i].reader
         /\ A[i] \in Range(m) \/ (A[i] \in Range(list) /\ A[i].reader \notin Readers(m))
  <2>1. \A i \in DOMAIN list : list[i] \in Range(list)
    BY DEF Range
  <2>2. QED
    BY <2>1, CardOfReader
<1>11. \A k \in 1 .. Len(fresh) :
         /\ fresh[k] \in D /\ B[k] = m[fresh[k]] /\ B[k] \in Range(m)
         /\ B[k].reader \notin Readers(list)
  <2>1. \A k \in 1 .. Len(fresh) : fresh[k] \in F
    BY <1>3, <1>4
  <2>2. \A i \in F : i \in D /\ m[i] \in Range(m) /\ m[i].reader \notin Readers(list)
    BY DEF F, Fresh, Range
  <2>3. QED
    BY <1>4, <2>1, <2>2
<1>12. \A k \in 1 .. Len(W) :
         /\ k <= Len(list) => k \in DOMAIN list /\ W[k] = A[k]
         /\ k > Len(list) => k - Len(list) \in 1 .. Len(fresh) /\ W[k] = B[k - Len(list)]
  <2> HIDE DEF A, B
  <2>1. Len(list) \in Nat /\ Len(fresh) \in Nat /\ DOMAIN list = 1 .. Len(list)
    BY <1>4
  <2>2. QED
    BY <1>9, <2>1
<1> HIDE DEF A, B
<1>13. \A k \in 1 .. Len(W) :
         W[k] \in Range(m) \/ (W[k] \in Range(list) /\ W[k].reader \notin Readers(m))
  <2>1. \A k \in 1 .. Len(W) : k <= Len(list) \/ k > Len(list)
    BY <1>9
  <2>2. QED
    BY <1>10, <1>11, <1>12, <2>1
<1>14. OnePerReader(W)
  <2> SUFFICES ASSUME NEW i \in 1 .. Len(W), NEW j \in 1 .. Len(W), W[i].reader = W[j].reader
               PROVE  i = j
    BY <1>9 DEF OnePerReader
  <2>1. \A k \in 1 .. Len(W) : k <= Len(list) => W[k].reader \in Readers(list)
    BY <1>10, <1>12 DEF Readers, Range
  <2>2. \A k \in 1 .. Len(W) : k > Len(list) => W[k].reader \notin Readers(list)
    BY <1>11, <1>12
  <2>3. Len(list) \in Nat /\ Len(fresh) \in Nat
    BY <1>4
  <2>4. CASE i <= Len(list) /\ j <= Len(list)
    BY <1>10, <1>12, <2>4 DEF OnePerReader
  <2>5. CASE i > Len(list) /\ j > Len(list)
    <3> DEFINE a == i - Len(list)
               b == j - Len(list)
    <3>1. /\ a \in 1 .. Len(fresh) /\ b \in 1 .. Len(fresh)
          /\ W[i] = m[fresh[a]] /\ W[j] = m[fresh[b]]
      BY <1>11, <1>12, <2>5
    <3>2. fresh[a] = fresh[b]
      BY <1>11, <3>1, MessageTyped DEF OnePerReader
    <3>3. a = b
      BY <1>3, <1>4, <3>1, <3>2
    <3>4. QED
      BY <2>3, <3>3
  <2>6. QED
    BY <2>1, <2>2, <2>3, <2>4, <2>5
<1>15. QED
  BY <1>4, <1>5, <1>9, <1>13, <1>14

LEMMA MergedCards ==
  ASSUME NEW list \in Seq(AnyCards), OnePerReader(list), NEW m \in CardLists,
         NEW fresh \in SetToSeqs(Fresh(list, m)), NEW M, M = Merged(list, m, fresh)
  PROVE  /\ M \in Seq(AnyCards) /\ Len(M) = Len(m) /\ OnePerReader(M)
         /\ \A c \in Range(M) :
              c \in Range(m) \/ (c \in Range(list) /\ c.reader \notin Readers(m))
<1> DEFINE W == Extended(list, m, fresh)
<1>1. /\ W \in Seq(AnyCards) /\ Len(m) <= Len(W) /\ OnePerReader(W)
      /\ \A k \in 1 .. Len(W) :
           W[k] \in Range(m) \/ (W[k] \in Range(list) /\ W[k].reader \notin Readers(m))
  BY ExtendedCards
<1>2. M = SubSeq(W, 1, Len(m))
  BY DEF Merged
<1> HIDE DEF W
<1>3. Len(m) \in Nat
  BY MessageTyped
<1>4. /\ M \in Seq(AnyCards) /\ Len(M) = Len(m)
      /\ \A k \in 1 .. Len(m) : k \in 1 .. Len(W) /\ M[k] = W[k]
  BY <1>1, <1>2, <1>3
<1>5. OnePerReader(M)
  BY <1>1, <1>4 DEF OnePerReader
<1>6. QED
  BY <1>1, <1>4, <1>5 DEF Range

LEMMA CardsArrive ==
  ASSUME CardsInv, NEW s \in Sockets, NEW m \in CardLists, CardStatusList(s, m)
  PROVE  CardsInv'
<1>1. PICK fresh \in SetToSeqs(Fresh(cards, m)) : cards' = Merged(cards, m, fresh)
  BY DEF CardStatusList
<1>2. last' = m /\ seen' = seen \cup Readers(m)
  BY DEF CardStatusList
<1>3. /\ cards' \in Seq(AnyCards) /\ Len(cards') = Len(m) /\ OnePerReader(cards')
      /\ \A c \in Range(cards') :
           c \in Range(m) \/ (c \in Range(cards) /\ c.reader \notin Readers(m))
  BY <1>1, MergedCards DEF CardsInv
<1>4. Readers(cards') \subseteq seen'
  BY <1>2, <1>3 DEF CardsInv, Readers
<1>5. seen' = Readers(m) => Range(cards') = Range(m)
  <2> SUFFICES ASSUME seen' = Readers(m) PROVE Range(cards') = Range(m)
    OBVIOUS
  <2> DEFINE D == 1 .. Len(m)
  <2>1. \A c \in Range(cards') : c \in Range(m)
    BY <1>3, <1>4 DEF Readers
  <2>2. D = DOMAIN m /\ D = DOMAIN cards' /\ Len(m) \in Nat
    BY <1>3, MessageTyped
  <2>3. cards' \in Injection(D, Range(m))
    <3>1. \A i \in D : cards'[i] \in Range(m)
      BY <2>1, <2>2 DEF Range
    <3>2. cards' \in [D -> Range(m)]
      BY <1>3, <2>2, <3>1
    <3>3. \A i, j \in D : cards'[i] = cards'[j] => i = j
      BY <1>3, <2>2 DEF OnePerReader
    <3>4. QED
      BY <3>2, <3>3 DEF Injection, IsInjective
  <2>4. m \in Bijection(D, Range(m))
    <3>1. m \in [D -> Range(m)] /\ \A c \in Range(m) : \E i \in D : m[i] = c
      BY <2>2, MessageTyped DEF Range
    <3>2. \A i, j \in D : m[i] = m[j] => i = j
      BY <2>2, MessageTyped DEF OnePerReader
    <3>3. QED
      BY <3>1, <3>2 DEF Bijection, Injection, Surjection, IsInjective
  <2>5. IsFiniteSet(D)
    BY <2>2, FS_Interval
  <2>6. IsFiniteSet(Range(m)) /\ Cardinality(D) = Cardinality(Range(m))
    <3>1. ExistsBijection(D, Range(m))
      BY <2>4 DEF ExistsBijection
    <3> HIDE DEF D
    <3>2. QED
      BY <2>5, <3>1, FS_Bijection
  <2>7. cards' \in Surjection(D, Range(m))
    BY <2>3, <2>5, <2>6, FS_Injection
  <2>8. QED
    BY <2>1, <2>2, <2>7 DEF Surjection, Range
<1>6. CardsShown'
  BY <1>2, <1>3, <1>5 DEF CardsShown, Readers
<1>7. QED
  BY <1>2, <1>3, <1>4, <1>6 DEF CardsInv

LEMMA CardsStart == Init => CardsInv
<1> SUFFICES ASSUME Init PROVE CardsInv
  OBVIOUS
<1>1. cards = <<>> /\ last = <<>> /\ seen = {}
  BY DEF Init
<1>2. <<>> \in Seq(AnyCards) /\ DOMAIN <<>> = {}
  OBVIOUS
<1>3. QED
  BY <1>1, <1>2 DEF CardsInv, CardsShown, OnePerReader, Readers, Range

LEMMA CardsStay == CardsInv /\ UNCHANGED <<cards, last, seen>> => CardsInv'
BY DEF CardsInv, CardsShown

LEMMA CardsInvariant == Spec => []CardsInv
<1>1. CardsInv /\ [Next]_vars => CardsInv'
  <2> SUFFICES ASSUME CardsInv, [Next]_vars PROVE CardsInv'
    OBVIOUS
  <2>1. CASE StatusTimer \/ User \/ UNCHANGED vars
    <3>1. UNCHANGED <<cards, last, seen>>
      BY <2>1 DEF StatusTimer, User, Load, Ready, CloseDialog, OpenDialog, vars, lists
    <3>2. QED
      BY <3>1, CardsStay
  <2>2. ASSUME NEW s \in Sockets, OnClose(s) PROVE CardsInv'
    <3>1. cards' = <<>> /\ last' = <<>> /\ seen' = {}
      BY <2>2 DEF OnClose, ClearLists
    <3>2. <<>> \in Seq(AnyCards) /\ DOMAIN <<>> = {}
      OBVIOUS
    <3>3. QED
      BY <3>1, <3>2 DEF CardsInv, CardsShown, OnePerReader, Readers, Range
  <2>3. ASSUME NEW s \in Sockets, Connector(s) \/ Opened(s) PROVE CardsInv'
    BY <2>3, CardsStay DEF Connector, Opened, lists
  <2>4. ASSUME NEW s \in Sockets, FromServer(s) PROVE CardsInv'
    <3>1. CASE \E m \in CardLists : CardStatusList(s, m)
      BY <3>1, CardsArrive
    <3>2. CASE \E m \in KeyLists : KeyChainList(s, m)
      BY <3>2, CardsStay DEF KeyChainList
    <3>3. CASE DiceWaresResponse(s) \/ \E r \in asked[s] : RespondAscii(s, r) \/ NoRespond(s, r)
      BY <3>3, CardsStay DEF DiceWaresResponse, RespondAscii, NoRespond, lists
    <3>4. QED
      BY <2>4, <3>1, <3>2, <3>3 DEF FromServer
  <2>5. QED
    BY <2>1, <2>2, <2>3, <2>4 DEF Next
<1>2. QED
  BY <1>1, CardsStart, PTL DEF Spec

\* The page shows as many cards as the server said last, and what it said of them; if
\* no reader has gone since the connection opened, all of them.
THEOREM ShowsWhatWasSaid == Spec => []CardsShown
<1>1. CardsInv => CardsShown
  BY DEF CardsInv
<1>2. QED
  BY <1>1, CardsInvariant, PTL
=============================================================================
