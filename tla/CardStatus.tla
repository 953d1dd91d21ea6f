----------------------------- MODULE CardStatus -----------------------------
(***************************************************************************)
(* The readers of gpg --card-status --with-colons: Gpg2CardStatus.read of  *)
(* the server and of the PAM module.  A value of a line is "" where gpg    *)
(* leaves it empty, else a name for what is printed.                       *)
(***************************************************************************)
EXTENDS GpgText

CONSTANTS
  CardIds,  \* ids of cards
  Slots,    \* keys of a card: 1 .. Slots
  MaxCardLines  \* bound on the lines of a text

ASSUME MaxCardLinesAssumption == MaxCardLines \in Nat
ASSUME SlotsAssumption == Slots \in Nat \ {0}

\* Fields of a slot; a line has a value for each slot, one after the other.
Numbers == {"maxpinlen", "pinretry", "fprtime"}
SlotFields == Numbers \cup {"fpr", "cafpr", "sigcount"}

\* Fields of a card, the ones read alike as "text".
CardFields == {"text", "url", "sigcount", "cafpr"}

NoCards == [done |-> <<>>, open |-> FALSE]

CardsInit == text = <<>> /\ server = NoCards /\ pam = NoCards

---------------------------------------------------------------------------
(* A card as it is read: done are the cards complete or, at the PAM module, *)
(* begun; open says that lines still go to a card, which is the last.       *)

\* What a slot is before a line names it: KeyState's constructor.
ServerSlot == [attr |-> "0", maxpinlen |-> "0", pinretry |-> "0", fprtime |-> "undefined",
               fpr |-> "undefined", cafpr |-> "0", sigcount |-> "0"]
PamSlot == [attr |-> "0", maxpinlen |-> "0", pinretry |-> "0", fprtime |-> "0",
            fpr |-> "", cafpr |-> "0", sigcount |-> "0"]

NewCard(id, blank) == [id |-> id, blank |-> blank, text |-> blank, url |-> blank,
                       sigcount |-> blank, cafpr |-> blank, slots |-> <<>>]

\* Only a Reader line with AID as third or sixth field makes a card; any other one
\* ends the card before it, and the lines up to the next one are dropped.
OpenCard(r, form, card) ==
  IF form = "noAid" THEN [r EXCEPT !.open = FALSE]
  ELSE [done |-> Append(r.done, card), open |-> TRUE]

\* The card of the lines that follow, if there is one, with its slots from..to
\* given by f.
Fill(r, field, val) ==
  IF r.open THEN [r EXCEPT !.done[Len(r.done)][field] = val] ELSE r

\* allocKeyState: an array with holes at the server, filled up at the PAM module.
ServerAlloc(slots, S) ==
  [i \in DOMAIN slots \cup S |-> IF i \in DOMAIN slots THEN slots[i] ELSE ServerSlot]
PamAlloc(slots, S) ==
  [i \in 1 .. Max(DOMAIN slots \cup S \cup {0}) |->
     IF i \in DOMAIN slots THEN slots[i] ELSE PamSlot]

\* Slot i of S gets valueOf[i] in the field.
SetSlots(slots, field, valueOf) ==
  [i \in DOMAIN slots |->
     IF i \in DOMAIN valueOf THEN [slots[i] EXCEPT ![field] = valueOf[i]] ELSE slots[i]]

ServerSlots(r, field, valueOf) ==
  IF ~r.open THEN r
  ELSE LET n == Len(r.done)
       IN  [r EXCEPT !.done[n].slots =
              SetSlots(ServerAlloc(@, DOMAIN valueOf), field, valueOf)]
PamSlots(r, field, valueOf) ==
  IF ~r.open THEN r
  ELSE LET n == Len(r.done)
       IN  [r EXCEPT !.done[n].slots =
              SetSlots(PamAlloc(@, DOMAIN valueOf), field, valueOf)]

---------------------------------------------------------------------------
(* Values. *)

ParseInt(v) == IF v = "" THEN "NaN" ELSE v
OrZero(v) == IF v = "" THEN "0" ELSE v
StrToUl(v) == OrZero(v)

EachOf(vals, Parse(_)) == [i \in DOMAIN vals |-> Parse(vals[i])]
Same(v) == v

\* decode replaces the first escape only, and the PAM module none.
Decoded(v) == IF v = "two escapes" THEN "one escape" ELSE IF v = "one escape" THEN "plain" ELSE v

---------------------------------------------------------------------------
\* External: the lines of a card come in the order gpg prints them.
Order == <<"Reader", "text", "url", "keyattr", "maxpinlen", "pinretry", "sigcount", "cafpr",
           "fpr", "fprtime">>
PlaceOf(tag) == CHOOSE i \in DOMAIN Order : Order[i] = tag
Printed == SelectSeq(text, LAMBDA l : l.tag # "other")
InPlace(tag) == Printed # <<>> /\ PlaceOf(tag) > PlaceOf(Last(Printed).tag)

ReaderLine(form, id) ==
  Reads([tag |-> "Reader", form |-> form, id |-> id],
        OpenCard(server, form, NewCard(id, "undefined")),
        OpenCard(pam, form, NewCard(id, "")))

\* version, vendor, serial, name, lang, sex, login and forcepin.
TextLine(v) ==
  /\ InPlace("text")
  /\ Reads([tag |-> "text", val |-> v], Fill(server, "text", v), Fill(pam, "text", v))

UrlLine(v) ==
  /\ InPlace("url")
  /\ Reads([tag |-> "url", val |-> v],
           Fill(server, "url", Decoded(v)), Fill(pam, "url", v))

\* One line for a slot, those of a card in order.
KeyAttrLine(slot, v) ==
  /\ \/ InPlace("keyattr")
     \/ Printed # <<>> /\ Last(Printed).tag = "keyattr" /\ Last(Printed).slot < slot
  /\ Reads([tag |-> "keyattr", slot |-> slot, val |-> v],
           ServerSlots(server, "attr", [i \in {slot} |-> v]),
           PamSlots(pam, "attr", [i \in {slot} |-> v]))

NumbersLine(field, vals) ==
  /\ InPlace(field)
  /\ Reads([tag |-> field, vals |-> vals],
           ServerSlots(server, field, EachOf(vals, ParseInt)),
           PamSlots(pam, field, EachOf(vals, StrToUl)))

FprLineOfCard(vals) ==
  /\ InPlace("fpr")
  /\ Reads([tag |-> "fpr", vals |-> vals],
           ServerSlots(server, "fpr", vals), PamSlots(pam, "fpr", vals))

\* A counter for the card and, with cards that have them, counters for the slots.
SigCountLine(total, vals) ==
  /\ InPlace("sigcount")
  /\ Reads([tag |-> "sigcount", vals |-> <<total>> \o vals],
           ServerSlots(Fill(server, "sigcount", OrZero(total)), "sigcount", EachOf(vals, OrZero)),
           PamSlots(Fill(pam, "sigcount", StrToUl(total)), "sigcount", EachOf(vals, StrToUl)))

\* The PAM module takes the first one for the card, and so every slot for the
\* one before it.
CaFprLine(vals) ==
  /\ InPlace("cafpr")
  /\ Reads([tag |-> "cafpr", vals |-> vals],
           ServerSlots(server, "cafpr", EachOf(vals, OrZero)),
           PamSlots(Fill(pam, "cafpr", StrToUl(vals[1])), "cafpr", EachOf(Tail(vals), StrToUl)))

\* No action is found for any other line.
UnknownLine == Reads([tag |-> "other"], server, pam)

\* A line has an empty value or not, in any slot.
Vals == [1 .. Slots -> {"", "7"}]

CardsNext ==
  /\ Len(text) < MaxCardLines
  /\ \/ \E form \in {"short", "long", "noAid"}, id \in CardIds : ReaderLine(form, id)
     \/ TextLine("x")
     \/ \E v \in {"plain", "one escape", "two escapes"} : UrlLine(v)
     \/ \E slot \in 1 .. Slots : KeyAttrLine(slot, "1")
     \/ \E field \in Numbers, vals \in Vals : NumbersLine(field, vals)
     \/ \E vals \in Vals :
          FprLineOfCard(vals) \/ CaFprLine(vals) \/ SigCountLine(vals[1], Tail(vals))
     \/ UnknownLine

---------------------------------------------------------------------------
(* What WssUpdate makes of two polls that printed the same. *)

\* KeyState.eq and Gpg2CardStatus.eq; NaN equals nothing, and a hole throws.
Hole(c) == DOMAIN c.slots # 1 .. Max(DOMAIN c.slots \cup {0})
SlotEq(a, b) == a = b /\ \A f \in Numbers : a[f] # "NaN"

CardEq(a, b) ==
  /\ [a EXCEPT !.slots = <<>>] = [b EXCEPT !.slots = <<>>]
  /\ DOMAIN a.slots = DOMAIN b.slots
  /\ \A i \in DOMAIN a.slots : SlotEq(a.slots[i], b.slots[i])

CardsChanged(prev, cards) ==
  \/ Len(prev) # Len(cards)
  \/ \E i \in DOMAIN cards : ~CardEq(cards[i], prev[i])

---------------------------------------------------------------------------
(* Properties. *)

\* The accepted Reader lines, the lines that belong to one, and the last of them
\* with a tag.
Accepted == InOrder({i \in LinesWith({"Reader"}) : text[i].form # "noAid"})
CardLines(i) ==
  {j \in DOMAIN text : j > i /\ ~\E k \in LinesWith({"Reader"}) : i < k /\ k <= j}
LineOf(i, tag) == Latest(LinesWith({tag}) \cap CardLines(i))
Given(i, tag, default, Parse(_)) ==
  IF LineOf(i, tag) = 0 THEN default ELSE Parse(text[LineOf(i, tag)].val)

SlotGiven(i, tag, n, default, Parse(_)) ==
  IF LineOf(i, tag) = 0 \/ n \notin DOMAIN text[LineOf(i, tag)].vals THEN default
  ELSE Parse(text[LineOf(i, tag)].vals[n])

\* Every Reader line with an id makes a card, and what follows is that card's and
\* no other's, also after a Reader line that is turned down: its slots have the
\* values printed at their place, and no slot is missing once the lengths of the
\* pins are there, which name them all.
ServerReadsCards ==
  format = "cards" =>
    /\ Len(server.done) = Len(Accepted)
    /\ \A k \in DOMAIN server.done :
         LET c == server.done[k]  i == Accepted[k]
         IN  /\ c.id = text[i].id
             /\ c.text = Given(i, "text", "undefined", Same)
             /\ c.url = Given(i, "url", "undefined", Decoded)
             /\ \A n \in DOMAIN c.slots :
                  /\ \A f \in Numbers :
                       c.slots[n][f] = SlotGiven(i, f, n, ServerSlot[f], ParseInt)
                  /\ c.slots[n].fpr = SlotGiven(i, "fpr", n, "undefined", Same)
                  /\ c.slots[n].cafpr = SlotGiven(i, "cafpr", n, "0", OrZero)
                  /\ c.slots[n].sigcount = SlotGiven(i, "sigcount", n + 1, "0", OrZero)
             /\ LineOf(i, "maxpinlen") # 0 => DOMAIN c.slots = 1 .. Slots

\* An unchanged card is sent to every browser again with every poll if, and only
\* if, gpg leaves one of its numbers empty.  (A whole text has no holes in it.)
CardsQuietUnlessEmpty ==
  format = "cards" /\ (\A k \in DOMAIN server.done : ~Hole(server.done[k])) =>
    (CardsChanged(server.done, server.done)
       <=> \E k \in DOMAIN Accepted : \E f \in Numbers : \E n \in 1 .. Slots :
             SlotGiven(Accepted[k], f, n, "0", Same) = "")

\* The two programs find the same cards with the same slots, but for what is
\* empty, for escapes in the url, and for the fingerprints of CAs: those the PAM
\* module has at the slot before the one they belong to.
PamFindsTheSameCards ==
  format = "cards" =>
    /\ Len(pam.done) = Len(server.done) /\ pam.open = server.open
    /\ \A k \in DOMAIN pam.done :
         LET p == pam.done[k]  s == server.done[k]
         IN  /\ p.id = s.id
             /\ p.text = s.text \/ s.text = "undefined"
             /\ p.url \in {"one escape", "two escapes"} \/ p.url = s.url \/ s.url = "undefined"
             /\ \A n \in DOMAIN p.slots \cap DOMAIN s.slots :
                  /\ p.slots[n].attr = s.slots[n].attr
                  /\ p.slots[n].sigcount = s.slots[n].sigcount
                  /\ \A f \in Numbers \cup {"fpr"} :
                       p.slots[n][f] = s.slots[n][f]
                         \/ s.slots[n][f] \in {"NaN", "undefined"}
             /\ \A n \in DOMAIN s.slots :
                  \/ n = 1 \/ s.slots[n].cafpr = "0"
                  \/ n - 1 \in DOMAIN p.slots /\ p.slots[n - 1].cafpr = s.slots[n].cafpr
=============================================================================
