-------------------------------- MODULE Page --------------------------------
(***************************************************************************)
(* The page in a browser: the channel (Dispatch of ws-channel.ts) that     *)
(* reconnects for ever, the states it feeds (CardStatusListState,          *)
(* KeyChainListState, ChannelStatus), the loading of the dice ware lists   *)
(* and the dialogs that ask for a key as text.                             *)
(*                                                                         *)
(* The server may send any list at any time and answers requests in any    *)
(* order: Observers says when it does.  ChannelStatus is the last of the   *)
(* channels, so splice(idx, idx) of unregister removes it alone, and       *)
(* "mounted" tells whether it is there.  The list of progress messages is  *)
(* left out: nothing depends on it.                                        *)
(***************************************************************************)
EXTENDS Integers, Sequences, FiniteSets, SequencesExt

CONSTANTS
  Sockets, NoSocket,  \* WebSocket objects; one that is closed may stand for a new one
  Keys, NoKey,        \* secret keys
  CardLists,          \* lists of cards the server may send
  KeyLists,           \* lists of keys it may send
  Actions,            \* what is asked for: "pem-private" needs a pass phrase first
  MaxTimers,          \* bound: timers of ChannelStatus
  MaxAsks             \* bound: dialogs opened

ASSUME SocketsAssumption == Sockets # {} /\ IsFiniteSet(Sockets) /\ NoSocket \notin Sockets
ASSUME KeysAssumption == NoKey \notin Keys /\ KeyLists \subseteq SUBSET Keys
\* A reader is listed once.
ASSUME CardListsAssumption ==
  \A l \in CardLists :
    l \in Seq(Range(l)) /\ \A i, j \in DOMAIN l : l[i].reader = l[j].reader => i = j
ASSUME BoundsAssumption == MaxTimers \in Nat \ {0} /\ MaxAsks \in Nat

VARIABLES
  ws,            \* Dispatch.ws
  sock,          \* sock[s]: "connecting", "open", "closed"; "failing": closed by close()
                 \* before it was open
  isActive,      \* Dispatch.isActive
  reconnects,    \* pending timers that call connector
  mounted,       \* the components are there: no exception has removed them
  status,        \* ChannelStatus.status
  statusTimers,  \* pending timers of ChannelStatus.onOpen
  cards,         \* cardStatusList
  keys,          \* keyChainList
  loading,       \* diceWareLoading
  handlers,      \* callbacks AssistentState.load registered
  diceWares,     \* copies of the lists in AssistentState.diceWares
  dialog,        \* the dialog that shows a key as text
  asks,          \* transactions of dialogs so far
  asked,         \* asked[s]: requests sent on s and not answered yet
  last, seen,    \* history: cards of the last message of this connection, readers of all
  lost           \* history: transactions that will not be answered any more

channel == <<ws, sock, isActive, reconnects>>
view == <<mounted, status, statusTimers>>
lists == <<cards, keys, last, seen>>
dice == <<loading, handlers, diceWares>>
requests == <<dialog, asks, asked, lost>>
vars == <<channel, view, lists, dice, requests>>

Readers(l) == {c.reader : c \in Range(l)}

DiceRequest == [txn |-> 0, key |-> NoKey, act |-> "dice"]
AsciiRequest(d) == [txn |-> d.txn, key |-> d.key, act |-> d.act]
Text(key, act) == [key |-> key, act |-> act]
NoData == Text(NoKey, "none")
Closed == [stage |-> "closed", key |-> NoKey, act |-> "none", txn |-> 0, data |-> NoData]

KeyOrNone == Keys \cup {NoKey}
Request == [txn : 0 .. MaxAsks, key : KeyOrNone, act : Actions \cup {"dice"}]
Dialog == [stage : {"closed", "pass", "read"}, key : KeyOrNone, act : Actions \cup {"none"},
           txn : 0 .. MaxAsks, data : [key : KeyOrNone, act : Actions \cup {"none", "dice"}]]

-----------------------------------------------------------------------------
(***************************************************************************)
(* The channel.                                                            *)
(***************************************************************************)

\* AppState.create and the first mount: connector, and ChannelStatus registers,
\* whose onOpen is called though nothing is open.
Init ==
  /\ ws \in Sockets /\ sock = [s \in Sockets |-> IF s = ws THEN "connecting" ELSE "closed"]
  /\ isActive = FALSE /\ reconnects = 0
  /\ mounted = TRUE /\ status = "NotStarted" /\ statusTimers = 1
  /\ cards = <<>> /\ keys = {} /\ last = <<>> /\ seen = {}
  /\ loading = FALSE /\ handlers = 0 /\ diceWares = 0
  /\ dialog = Closed /\ asks = 0 /\ asked = [s \in Sockets |-> {}] /\ lost = {}

TimerFires == reconnects > 0 /\ reconnects' = reconnects - 1

\* connector: a new WebSocket.
Connector(s) ==
  /\ TimerFires /\ sock[s] = "closed"
  /\ ws' = s /\ sock' = [sock EXCEPT ![s] = "connecting"]
  /\ UNCHANGED <<isActive, view, lists, dice, requests>>

\* ws.onopen, with onOpen of ChannelStatus.
Opened(s) ==
  /\ sock[s] = "connecting" /\ statusTimers < MaxTimers
  /\ sock' = [sock EXCEPT ![s] = "open"]
  /\ isActive' = TRUE
  /\ statusTimers' = IF mounted THEN statusTimers + 1 ELSE statusTimers
  /\ UNCHANGED <<ws, reconnects, mounted, status, lists, dice, requests>>

\* onClose of the two list states.
ClearLists == cards' = <<>> /\ keys' = {}

\* Mutants: an error event and the close event both start the timer; none does.
ReconnectTwice == reconnects' = reconnects + 2
ReconnectNever == reconnects' = reconnects

\* setTimeout(connector, 1000).
Reconnect == reconnects' = reconnects + 1

\* ws.onclose, after a connection that was lost, refused or closed by the page.
OnClose(s) ==
  /\ sock[s] # "closed"
  /\ sock' = [sock EXCEPT ![s] = "closed"]
  /\ isActive' = FALSE
  /\ ClearLists /\ last' = <<>> /\ seen' = {}
  /\ status' = IF mounted THEN "NotConnected" ELSE status
  /\ ws' = NoSocket
  /\ Reconnect
  /\ asked' = [asked EXCEPT ![s] = {}]
  /\ lost' = lost \cup {r.txn : r \in asked[s]}
  /\ UNCHANGED <<mounted, statusTimers, dice, dialog, asks>>

\* Mutant: the timer only ends the first wait.
StatusTimerOnce ==
  /\ statusTimers > 0
  /\ statusTimers' = statusTimers - 1
  /\ status' = IF status = "NotStarted" THEN "Connected" ELSE status
  /\ UNCHANGED <<channel, mounted, lists, dice, requests>>

\* The timer of ChannelStatus.onOpen, whatever has happened meanwhile.
StatusTimer ==
  /\ statusTimers > 0
  /\ statusTimers' = statusTimers - 1 /\ status' = "Connected"
  /\ UNCHANGED <<channel, mounted, lists, dice, requests>>

Receives(s) == sock[s] = "open"

\* Places in a message of cards whose reader is not in the list.
Fresh(list, m) == {i \in DOMAIN m : m[i].reader \notin Readers(list)}
Rising(places) == \A i, j \in DOMAIN places : i < j => places[i] < places[j]

\* Known readers are updated where they are, and the cards of others appended.
Extended(list, m, fresh) ==
  [i \in DOMAIN list |-> IF list[i].reader \in Readers(m)
                         THEN CHOOSE c \in Range(m) : c.reader = list[i].reader
                         ELSE list[i]]
    \o [k \in DOMAIN fresh |-> m[fresh[k]]]

\* Mutant: the list is cut before new cards are appended, not after.
MergedCutFirst(list, m, fresh) ==
  Extended(SubSeq(list, 1, Min({Len(list), Len(m)})), m, fresh)

\* CardStatusListState.onMessage cuts the array to the length of the message.
Merged(list, m, fresh) == SubSeq(Extended(list, m, fresh), 1, Len(m))

CardStatusList(s, m) ==
  /\ Receives(s)
  /\ \E fresh \in SetToSeqs(Fresh(cards, m)) : Rising(fresh) /\ cards' = Merged(cards, m, fresh)
  /\ last' = m /\ seen' = seen \cup Readers(m)
  /\ UNCHANGED <<channel, view, keys, dice, requests>>

KeyChainList(s, m) ==
  /\ Receives(s)
  /\ keys' = m
  /\ UNCHANGED <<channel, view, cards, last, seen, dice, requests>>

-----------------------------------------------------------------------------
(***************************************************************************)
(* The user.  While ChannelStatus shows its dialog nothing else can be     *)
(* clicked, nor can what is behind the dialog of a key.                    *)
(***************************************************************************)

Clickable == mounted /\ status = "Connected"

\* send throws: there is no socket, or it is not open yet.
Throws == ws \notin {s \in Sockets : sock[s] = "open"}

Send(r) ==
  /\ ~Throws
  /\ asked' = [asked EXCEPT ![ws] = @ \cup {r}]
  /\ lost' = lost

\* An exception while a component mounts removes all of them; App closes the
\* channel, which comes back all the same.
Blank(r) ==
  /\ Throws
  /\ mounted' = FALSE /\ dialog' = Closed
  /\ sock' = IF ws = NoSocket THEN sock ELSE [sock EXCEPT ![ws] = "failing"]
  /\ lost' = lost \cup {r.txn}
  /\ UNCHANGED <<ws, isActive, reconnects, status, statusTimers, asked>>

NeedsDiceWare == diceWares = 0 /\ ~loading

\* The tab of the assistent is selected: AssistentState.load.
Load ==
  /\ Clickable /\ dialog = Closed /\ NeedsDiceWare
  /\ loading' = TRUE /\ handlers' = handlers + 1
  /\ \/ Send(DiceRequest) /\ UNCHANGED <<channel, view, dialog>>
     \/ Blank(DiceRequest)
  /\ UNCHANGED <<lists, diceWares, asks>>

\* A button of a key: the dialog for "pem-private" asks for the pass phrase, the
\* others send their request when they are mounted.
OpenDialog(k, a) ==
  LET d == [stage |-> IF a = "pem-private" THEN "pass" ELSE "read",
            key |-> k, act |-> a, txn |-> asks + 1, data |-> NoData]
  IN
  /\ Clickable /\ dialog = Closed /\ k \in keys /\ asks < MaxAsks
  /\ asks' = asks + 1
  /\ IF d.stage = "pass"
     THEN dialog' = d /\ UNCHANGED <<channel, view, asked, lost>>
     ELSE \/ Send(AsciiRequest(d)) /\ dialog' = d /\ UNCHANGED <<channel, view>>
          \/ Blank(AsciiRequest(d))
  /\ UNCHANGED <<lists, dice>>

\* The button Ready of the dialog with the pass phrase.
Ready ==
  /\ Clickable /\ dialog.stage = "pass"
  /\ \/ /\ Send(AsciiRequest(dialog))
        /\ dialog' = [dialog EXCEPT !.stage = "read"]
        /\ UNCHANGED <<channel, view>>
     \/ Blank(AsciiRequest(dialog))
  /\ UNCHANGED <<lists, dice, asks>>

CloseDialog ==
  /\ Clickable /\ dialog # Closed
  /\ dialog' = Closed
  /\ UNCHANGED <<channel, view, lists, dice, asks, asked, lost>>

-----------------------------------------------------------------------------
(***************************************************************************)
(* Answers of the server.                                                  *)
(***************************************************************************)

\* Mutant: the transaction is not compared.
ForDialogAnyTransaction(r) == dialog.stage = "read" /\ dialog.key = r.key

\* The receiver of ReadAsciiRespond takes the answer for its own.
ForDialog(r) == dialog.stage = "read" /\ dialog.txn = r.txn /\ dialog.key = r.key

RespondAscii(s, r) ==
  /\ Receives(s) /\ r \in asked[s] /\ r.txn # 0
  /\ asked' = [asked EXCEPT ![s] = @ \ {r}]
  /\ dialog' = IF ForDialog(r) THEN [dialog EXCEPT !.data = Text(r.key, r.act)] ELSE dialog
  /\ UNCHANGED <<channel, view, lists, dice, asks, lost>>

\* gpg fails: there is nothing to show, and the dialog goes on loading.  Or the
\* lists cannot be read: a message says so, and the page goes on loading.
NoRespond(s, r) ==
  /\ Receives(s) /\ r \in asked[s]
  /\ asked' = [asked EXCEPT ![s] = @ \ {r}]
  /\ lost' = lost \cup {r.txn}
  /\ UNCHANGED <<channel, view, lists, dice, dialog, asks>>

\* Mutant: diceWareLoading is not reset.
DiceWaresResponseLoading(s) ==
  /\ Receives(s) /\ DiceRequest \in asked[s]
  /\ asked' = [asked EXCEPT ![s] = @ \ {DiceRequest}]
  /\ diceWares' = diceWares + handlers
  /\ UNCHANGED <<channel, view, lists, loading, handlers, dialog, asks, lost>>

\* Every callback that load registered adds the lists.
DiceWaresResponse(s) ==
  /\ Receives(s) /\ DiceRequest \in asked[s]
  /\ asked' = [asked EXCEPT ![s] = @ \ {DiceRequest}]
  /\ diceWares' = diceWares + handlers
  /\ loading' = FALSE
  /\ UNCHANGED <<channel, view, lists, handlers, dialog, asks, lost>>

-----------------------------------------------------------------------------
FromServer(s) ==
  \/ \E m \in CardLists : CardStatusList(s, m)
  \/ \E m \in KeyLists : KeyChainList(s, m)
  \/ \E r \in asked[s] : RespondAscii(s, r) \/ NoRespond(s, r)
  \/ DiceWaresResponse(s)

User ==
  \/ Load \/ Ready \/ CloseDialog
  \/ \E k \in Keys, a \in Actions : OpenDialog(k, a)

Next ==
  \/ \E s \in Sockets : Connector(s) \/ Opened(s) \/ OnClose(s) \/ FromServer(s)
  \/ StatusTimer \/ User

Spec == Init /\ [][Next]_vars

\* Timers fire, and a page that tries for ever gets a connection.
Fairness ==
  /\ WF_vars(StatusTimer) /\ WF_vars(\E s \in Sockets : Connector(s))
  /\ SF_vars(\E s \in Sockets : Opened(s))
  /\ \A s \in Sockets : WF_vars(sock[s] = "failing" /\ OnClose(s))

FairSpec == Spec /\ Fairness
-----------------------------------------------------------------------------
(***************************************************************************)
(* Properties.                                                             *)
(***************************************************************************)

\* Every variable has its type.
TypeOK ==
  /\ ws \in Sockets \cup {NoSocket}
  /\ sock \in [Sockets -> {"connecting", "open", "failing", "closed"}]
  /\ isActive \in BOOLEAN /\ reconnects \in Nat
  /\ mounted \in BOOLEAN /\ status \in {"NotStarted", "Connected", "NotConnected"}
  /\ statusTimers \in 0 .. MaxTimers
  /\ keys \subseteq Keys
  /\ loading \in BOOLEAN /\ handlers \in Nat /\ diceWares \in Nat
  /\ dialog \in Dialog /\ asks \in 0 .. MaxAsks
  /\ asked \in [Sockets -> SUBSET Request] /\ lost \subseteq 0 .. MaxAsks

Live == {s \in Sockets : sock[s] # "closed"}

\* The page has one socket, or one timer that will make one, and never both or
\* two: whatever way a connection ends, the channel comes back once.
OneSocket ==
  \/ reconnects = 0 /\ ws \in Sockets /\ Live = {ws}
  \/ reconnects = 1 /\ ws = NoSocket /\ Live = {}

\* What is shown was sent on the connection there is.
ShowsOnlyLive == ~isActive => cards = <<>> /\ keys = {}

\* There are as many cards as the server said last.  They are what it said last
\* unless a reader has gone since the connection opened: then one that has gone
\* may stay in the place of one that is there.
CardsShown ==
  /\ Len(cards) = Len(last)
  /\ \A c \in Range(cards) : c.reader \in Readers(last) => c \in Range(last)
  /\ seen = Readers(last) => Range(cards) = Range(last)

\* A dialog shows the text of its own key that it asked for, never the late
\* answer to a dialog closed before.
AnswerFits == dialog.data # NoData => dialog.data = Text(dialog.key, dialog.act)

\* The lists are loaded once, however often the tab is selected.
DiceWareOnce == diceWares <= 1

\* What loads is still to be answered by the server, or its request or answer was lost.
LoadingHasReason ==
  /\ loading => (ws # NoSocket /\ DiceRequest \in asked[ws]) \/ 0 \in lost
  /\ dialog.stage = "read" /\ dialog.data = NoData =>
       (ws # NoSocket /\ AsciiRequest(dialog) \in asked[ws]) \/ dialog.txn \in lost

\* What throw 'ws socket not connected' asserts: nothing is sent while there is
\* no connection, since the dialog 'Wait for Reconnect' is up then.
SendsConnected == mounted

\* The page always gets its connection back.
ComesBack == []<>isActive

\* A connection that lasts is shown as one: late timers and closes of earlier
\* connections do not leave the dialog up.
StatusCatchesUp == <>[](isActive /\ mounted) => <>[](status = "Connected")
=============================================================================
