------------------------------- MODULE Dialogs -------------------------------
(***************************************************************************)
(* The dialogs of a card: its pins and attributes are changed, or it is    *)
(* wiped.  A dialog keeps the card it was opened for, and a form copied    *)
(* from what the page knew of it; its button sends one request, of which   *)
(* a change of pin and of attributes name the card and a reset does not.   *)
(* The request of another browser is like one of an earlier dialog of this *)
(* page.  How the server runs gpg for it is in Dispatch; here it ends in   *)
(* one step, with any part of the attributes written.                      *)
(*                                                                         *)
(* What a field says is who wrote it, and the name is odd at first: it has *)
(* two given names, which do not survive the way to the page and back.     *)
(* The language is a field like the login; the sex one like the name (not  *)
(* said, it comes back as male), and the url too (of its escapes only the  *)
(* first is decoded).                                                      *)
(***************************************************************************)
EXTENDS Naturals, Sequences, FiniteSets, SequencesExt

CONSTANTS
  YubiKeys,    \* ids of cards
  MaxDialogs,  \* bound on the dialogs opened
  MaxEdits     \* bound on the fields edited in one dialog

ASSUME YubiKeysAssumption == YubiKeys # {} /\ IsFiniteSet(YubiKeys)
ASSUME DialogBoundsAssumption == MaxDialogs \in Nat /\ MaxEdits \in Nat

VARIABLES
  inserted,  \* external: the cards that are in a reader
  attrs,     \* external: attrs[c][f], what is on the card
  connected, \* the page has a connection
  shown,     \* cardStatusList: the cards the page shows
  dialog,    \* the dialog of CardStatusList, and the button in it
  progress,  \* transactions whose end was put into progressList
  pending,   \* requests the server is at
  blank,     \* an exception while rendering has removed the page
  opened,    \* dialogs opened so far: the transaction of the last
  listed,    \* history: ids of the last list of this connection
  parted,    \* history: a card went while others stayed, since the list was empty
  moved,     \* history: a card was plugged or pulled since the last list
  dirty      \* history: cards written since they were listed last

history == <<listed, parted, moved, dirty>>
outside == <<inserted, attrs>>
view == <<progress, blank, opened>>
dialogVars == <<outside, connected, shown, view, dialog, pending, history>>

---------------------------------------------------------------------------
(* Cards and forms. *)

AttrFields == {"login", "name"}
Says(by, how) == [by |-> by, how |-> how]
Nothing == [f \in AttrFields |-> Says("nobody", "plain")]

IdsOf(list) == {list[i].id : i \in DOMAIN list}
Known(list, id) == list[CHOOSE i \in DOMAIN list : list[i].id = id]

\* changeCard: the first word of a name is the given name, all others the surname.
AsWritten(f, v) ==
  IF f = "name" THEN Says(v.by, "plain") ELSE v

CardStatus(c) == [id |-> c, attrs |-> attrs[c]]

\* Mutant: the login is filled with the name.
FromCardStatusMixed(card) == [card.attrs EXCEPT !.login = card.attrs.name]

\* ChangeCard.fromCardStatus, in the constructor of the dialog.
FromCardStatus(card) == card.attrs

\* The two pins make no difference.
Kinds == {"changeAttributes", "changePin", "resetYubikey"}
NoDialog == [kind |-> "closed"]

\* What the dialogs keep of their card: its id, and a form.
DialogChangePin(card) == [id |-> card.id, form |-> Nothing]
DialogResetYubiKey(card) == [id |-> card.id, form |-> Nothing]
DialogChangeAttributes(card) == [id |-> card.id, form |-> FromCardStatus(card)]

CardStatusDialog(kind, card) ==
  CASE kind = "changePin" -> DialogChangePin(card)
    [] kind = "resetYubikey" -> DialogResetYubiKey(card)
    [] kind = "changeAttributes" -> DialogChangeAttributes(card)

\* What may be true of a dialog or request: its card may not be the one that is in,
\* its form may be older than the card, its answer is lost.
FlagsOf(kind) ==
  {"unheard"} \cup (IF kind = "resetYubikey" THEN {"unsure"} ELSE {})
              \cup (IF kind = "changeAttributes" THEN {"stale"} ELSE {})

Request(d) ==
  [kind |-> d.kind, txn |-> d.txn, id |-> d.id, form |-> d.form, edited |-> d.edited,
   flags |-> d.flags]

Flagged(x, cs, flag) ==
  IF x # NoDialog /\ x.id \in cs /\ flag \in FlagsOf(x.kind)
  THEN [x EXCEPT !.flags = @ \cup {flag}]
  ELSE x

\* The dialog, and the requests the server is still at, about one of the cards cs.
Flag(cs, flag, requests) ==
  /\ dialog' = Flagged(dialog, cs, flag)
  /\ pending' = {Flagged(p, cs, flag) : p \in requests}

---------------------------------------------------------------------------
DialogsInit ==
  /\ inserted = {}
  /\ attrs = [c \in YubiKeys |->
                [f \in AttrFields |-> Says("owner", IF f = "name" THEN "odd" ELSE "plain")]]
  /\ connected = FALSE /\ shown = <<>>
  /\ dialog = NoDialog /\ progress = {} /\ pending = {}
  /\ blank = FALSE /\ opened = 0
  /\ listed = {} /\ parted = FALSE /\ moved = FALSE /\ dirty = {}

\* External: a person plugs a card in, or pulls it.
Plug(c) ==
  /\ inserted' = IF c \in inserted THEN inserted \ {c} ELSE inserted \cup {c}
  /\ moved' = TRUE
  /\ Flag(YubiKeys, "unsure", pending)
  /\ UNCHANGED <<attrs, connected, shown, view, listed, parted, dirty>>

\* What the page or a form says of c is old from now on.
Writes(c, values, requests) ==
  /\ attrs' = [attrs EXCEPT ![c] = values]
  /\ dirty' = dirty \cup ({c} \cap IdsOf(shown))
  /\ Flag({c}, "stale", requests)
  /\ UNCHANGED <<listed, parted, moved>>

\* The places of the cards in the message that are not in the list.
Fresh(list, m) == {i \in DOMAIN m : m[i].id \notin IdsOf(list)}
Rising(places) == \A i, j \in DOMAIN places : i < j => places[i] < places[j]

\* Cards that are known are updated where they are, the others pushed.
\* (Mutant for Merged: the list is not cut.)
MergedWhole(list, m, fresh) ==
  [i \in DOMAIN list |-> IF list[i].id \in IdsOf(m) THEN Known(m, list[i].id) ELSE list[i]]
    \o [k \in DOMAIN fresh |-> m[fresh[k]]]

\* CardStatusListState.onMessage cuts the list to the length of the message.
Merged(list, m, fresh) == SubSeq(MergedWhole(list, m, fresh), 1, Len(m))

\* A list, in any order, of the cards that are in; Observers says when it comes.
\* What changes while it is on its way is as if it changed after.
ListArrives(order) ==
  /\ connected
  /\ order \in SetToSeqs(inserted)
  /\ LET m == [i \in DOMAIN order |-> CardStatus(order[i])]
     IN  \E fresh \in SetToSeqs(Fresh(shown, m)) :
           Rising(fresh) /\ shown' = Merged(shown, m, fresh)
  /\ listed' = inserted
  /\ parted' = (inserted # {} /\ (parted \/ ~(listed \subseteq inserted)))
  /\ moved' = FALSE /\ dirty' = dirty \ inserted
  /\ UNCHANGED <<outside, connected, view, dialog, pending>>

ConnectionLost ==
  /\ connected
  /\ connected' = FALSE
  /\ shown' = <<>>
  /\ listed' = {} /\ parted' = FALSE /\ moved' = FALSE /\ dirty' = {}
  /\ pending' = {Flagged(p, YubiKeys, "unheard") : p \in pending}
  /\ dialog' = IF dialog # NoDialog /\ dialog.running
               THEN Flagged(dialog, YubiKeys, "unheard") ELSE dialog
  /\ UNCHANGED <<outside, view>>

Connect ==
  /\ ~connected
  /\ connected' = TRUE
  /\ UNCHANGED <<outside, shown, view, dialog, pending, history>>

---------------------------------------------------------------------------
(* The person at the page. *)

\* A button under a card; the dialog is modal.
OpenDialog(i, kind) ==
  /\ dialog = NoDialog /\ opened < MaxDialogs
  /\ i \in DOMAIN shown
  /\ opened' = opened + 1
  /\ dialog' = [kind |-> kind, txn |-> opened',
                id |-> CardStatusDialog(kind, shown[i]).id,
                form |-> CardStatusDialog(kind, shown[i]).form,
                edited |-> {}, running |-> FALSE,
                flags |-> FlagsOf(kind) \cap
                            ((IF moved \/ parted THEN {"unsure"} ELSE {})
                               \cup (IF shown[i].id \in dirty THEN {"stale"} ELSE {}))]
  /\ UNCHANGED <<outside, connected, shown, progress, pending, blank, history>>

\* The dialog that sends a key to a card: AskKeyToYubiKey takes the first card,
\* if there is one, and CardSlot, a function, looks into this.state.
AskThrows == shown = <<>>
SlotThrows == TRUE

SendToCard ==
  /\ dialog = NoDialog
  /\ AskThrows \/ SlotThrows
  /\ blank' = TRUE
  /\ UNCHANGED <<outside, connected, shown, dialog, progress, pending,
                 opened, history>>

Edit(f) ==
  /\ dialog.kind = "changeAttributes"
  /\ Cardinality(dialog.edited \cup {f}) <= MaxEdits
  /\ dialog' = [dialog EXCEPT !.form[f] = Says("page", "plain"), !.edited = @ \cup {f}]
  /\ UNCHANGED <<outside, connected, shown, progress, pending, blank,
                 opened, history>>

\* ButtonToProgressor: the button gives way to the list of progress.
Runs(d) == [d EXCEPT !.running = TRUE]

\* Without a connection send throws, and the button is gone all the same.
Press ==
  /\ dialog # NoDialog
  /\ ~dialog.running
  /\ IF connected
     THEN /\ dialog' = Runs(dialog)
          /\ pending' = pending \cup {Request(dialog)}
     ELSE /\ dialog' = Flagged(Runs(dialog), YubiKeys, "unheard")
          /\ UNCHANGED pending
  /\ UNCHANGED <<outside, connected, shown, progress, blank, opened, history>>

CardStatusClose ==
  /\ dialog # NoDialog
  /\ dialog' = NoDialog
  /\ UNCHANGED <<outside, connected, shown, progress, pending, blank,
                 opened, history>>

---------------------------------------------------------------------------
(* The server ends a request. *)

\* Mutant: only what went well is told.
TellsSuccess(p, ok) == IF ok /\ "unheard" \notin p.flags THEN {p.txn} ELSE {}

\* Whatever gpg did, the end is told, to the socket the request came from.
Tells(p, ok) == IF "unheard" \notin p.flags THEN {p.txn} ELSE {}

ServerEnds(p, ok) ==
  /\ p \in pending
  /\ progress' = progress \cup Tells(p, ok)
  /\ UNCHANGED <<inserted, connected, shown, blank, opened>>

\* A pin, or a request gpg does nothing for: nothing the page knows changes.
DoesNothing(p) ==
  /\ \E ok \in BOOLEAN :
       /\ ok => p.kind = "changePin" /\ p.id \in inserted
       /\ ServerEnds(p, ok)
  /\ pending' = pending \ {p}
  /\ UNCHANGED <<attrs, dialog, history>>

\* changeCard: the card must be in; any run may fail.
ChangesCard(p, written) ==
  /\ p.kind = "changeAttributes" /\ p.id \in inserted
  /\ written # {}
  /\ LET values == [f \in AttrFields |->
                     IF f \in written THEN AsWritten(f, p.form[f]) ELSE attrs[p.id][f]]
     IN  Writes(p.id, values, pending \ {p})
  /\ ServerEnds(p, written = AttrFields)

\* resetYubikey: the card scdaemon has selected, one of those that are in.
ResetsCard(p, c) ==
  /\ p.kind = "resetYubikey" /\ c \in inserted
  /\ Writes(c, Nothing, pending \ {p})
  /\ ServerEnds(p, TRUE)

Person ==
  \/ \E i \in 1 .. Cardinality(YubiKeys), kind \in Kinds : OpenDialog(i, kind)
  \/ \E f \in AttrFields : Edit(f)
  \/ SendToCard \/ Press \/ CardStatusClose

Server ==
  \E p \in pending :
    \/ DoesNothing(p)
    \/ \E written \in SUBSET AttrFields : ChangesCard(p, written)
    \/ \E c \in YubiKeys : ResetsCard(p, c)

\* A blank page does nothing any more, and what the server does is in Dispatch.
DialogsNext ==
  /\ ~blank
  /\ \/ \E c \in YubiKeys : Plug(c)
     \/ \E order \in SetToSeqs(inserted) : ListArrives(order)
     \/ ConnectionLost \/ Connect
     \/ Person \/ Server

DialogsSpec == DialogsInit /\ [][DialogsNext]_dialogVars

---------------------------------------------------------------------------
(* Properties. *)

\* The requests that end in this step.
Ended == {p \in pending : \A q \in pending' : q.txn # p.txn}

\* Update writes all fields of the form, and yet changes only those that were
\* edited, if nobody has written the card since the list came that the page shows;
\* but an odd one does not survive.
OnlyEditedChanges ==
  [][\A p \in Ended : \A c \in YubiKeys, f \in AttrFields :
       p.kind = "changeAttributes" /\ attrs'[c][f] # attrs[c][f] =>
         c = p.id /\ (f \in p.edited \/ "stale" \in p.flags \/ attrs[c][f].how = "odd")
    ]_dialogVars

\* The card that is wiped is the one the dialog names, though the request names
\* none: unless two are in, one was plugged or pulled since the list came that the
\* page shows, or one went while others stayed, which leaves the list with the
\* wrong one.
WipesNamedCard ==
  [][\A p \in Ended : \A c \in YubiKeys :
       p.kind = "resetYubikey" /\ attrs'[c] # attrs[c] =>
         c = p.id \/ Cardinality(inserted) > 1 \/ "unsure" \in p.flags]_dialogVars

\* A dialog sends its request once, however often it fails or is cut off; and once
\* its button is gone its end is shown or to come, or the connection was lost.
OneTryPerDialog ==
  /\ \A p, q \in pending : p.txn = q.txn => p = q
  /\ \A p \in pending : p.txn \notin progress
  /\ dialog # NoDialog /\ dialog.running =>
       \/ \E p \in pending : p.txn = dialog.txn
       \/ dialog.txn \in progress \/ "unheard" \in dialog.flags
=============================================================================
