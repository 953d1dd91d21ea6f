------------------------------ MODULE Assistent ------------------------------
(***************************************************************************)
(* The assistent of the page: the people a key is made for (the code calls *)
(* them warrents) are entered one by one, a SimpleYubikey is made for      *)
(* them, its parts of pass phrases and pins are typed or drawn, and the    *)
(* whole is sent to the server, which builds a SimpleYubikey of its own    *)
(* from the message.                                                       *)
(*                                                                         *)
(* A value in a password field is how it came about and its length: two    *)
(* values typed with the same length are the same.                         *)
(***************************************************************************)
EXTENDS Naturals, Sequences, FiniteSets, SequencesExt

CONSTANTS
  Ids,        \* the Warrent objects there may be
  Names,      \* names that match the expression of Warrent
  NoName,     \* the empty input
  Cards,      \* ids of cards
  NParts,     \* parts of the pass phrase
  AdminLen,   \* digits of the admin pin
  UserMin, UserMax, \* digits of the user pin
  MaxUids,    \* bound on the uids ever added
  MaxTyped    \* bound on the fields a person changes

ASSUME NamesAssumption == NoName \notin Names
ASSUME IdsAssumption == Ids # {}
ASSUME LengthsAssumption ==
  /\ NParts \in Nat \ {0} /\ AdminLen \in Nat \ {0}
  /\ UserMin \in Nat \ {0} /\ UserMax \in Nat /\ UserMin <= UserMax
ASSUME BoundsAssumption == MaxUids \in Nat \ {0} /\ MaxTyped \in Nat

VARIABLES
  name,      \* what each Warrent object says
  warrents,  \* AssistentState.warrents, also SimpleYubikey.warrents
  mounted,   \* the tab of the assistent is shown
  done,      \* RcWarrents.done of the list that is shown
  lists,     \* the dice ware lists are there
  cards,     \* external: the cards of the page, first to last
  syk,       \* AssistentState._simpleYubiKey
  typed,     \* bound: fields changed by a person so far
  outcome,   \* how the last step ended
  reopened   \* history: the list of warrents was shown again for a key that is made

page == <<name, warrents, mounted, done, syk, typed, reopened>>
assistentVars == <<name, warrents, mounted, done, lists, cards, syk, typed, outcome, reopened>>

---------------------------------------------------------------------------
(* Values, and how long the parts of a pass phrase must be. *)

MaxLen == Max({AdminLen, UserMax, 1})
Typed(n) == [by |-> "person", len |-> n]
Empty == Typed(0)
Drawn(n) == IF n = 0 THEN Empty ELSE [by |-> "chance", len |-> n]
Value == [by : {"person", "chance"}, len : 0 .. MaxLen]
NoValue == [by |-> "nobody", len |-> 0]

DealtFirst(len, parts, i) == IF i = 1 THEN len ELSE 0

\* MinMax.create deals minLen and maxLen out to the parts one by one.
Dealt(len, parts, i) == Cardinality({k \in 0 .. len - 1 : k % parts = i - 1})
MinMax(parts, i, minLen, maxLen) ==
  [min |-> Dealt(minLen, parts, i), max |-> Dealt(maxLen, parts, i)]

\* A maximum of 0 is left out of the expression: no limit.
Matches(v, minMax) ==
  v.len >= minMax.min /\ (minMax.max = 0 \/ v.len <= minMax.max)

\* A DoublePassword, with its two fields and what was set last by the page.
NewPart(owner, minMax, dice) ==
  [owner |-> owner, minMax |-> minMax, dice |-> dice,
   first |-> Empty, second |-> Empty, prev |-> NoValue]

PartValid(p) ==
  /\ Matches(p.first, p.minMax) /\ Matches(p.second, p.minMax)
  /\ p.first = p.second

SetPassword(p, v) == [p EXCEPT !.first = v, !.second = v, !.prev = v]

AllValid(parts) == \A i \in DOMAIN parts : PartValid(parts[i])

---------------------------------------------------------------------------
(* The warrents and the key that is made for them. *)

NoKey == [made |-> FALSE, owners |-> <<>>, card |-> NoName, uids |-> <<>>,
          pass |-> <<>>, admin |-> <<>>, user |-> <<>>]

WarrentsValid(list, nameOf) ==
  /\ \A i \in DOMAIN list : nameOf[list[i]] \in Names
  /\ \A i, j \in DOMAIN list : i # j => nameOf[list[i]] # nameOf[list[j]]

PassPartsFirst(owners, dice) ==
  [i \in 1 .. NParts |-> NewPart(owners[1], [min |-> 1, max |-> 0], dice)]

\* The constructor of SimpleYubikey with its three pass phrases.
PassParts(owners, dice) ==
  [i \in 1 .. NParts |->
     NewPart(owners[((i - 1) % Len(owners)) + 1], [min |-> 1, max |-> 0], dice)]

PerWarrent(owners, minLen, maxLen) ==
  [i \in 1 .. Len(owners) |->
     NewPart(owners[i], MinMax(Len(owners), i, minLen, maxLen), FALSE)]

\* SimpleKeyCommon: one uid, with the name and mail of nobody.
NewUids == <<"bad">>

SimpleYubikey(owners, dice, card) ==
  [made |-> TRUE, owners |-> owners, card |-> card, uids |-> NewUids,
   pass |-> PassParts(owners, dice),
   admin |-> PerWarrent(owners, AdminLen, AdminLen),
   user |-> PerWarrent(<<owners[1]>>, UserMin, UserMax)]

\* checkOrComplete: what the button under the list does.
CheckOrComplete ==
  LET text == IF WarrentsValid(warrents, name) THEN "add" ELSE "none"
  IN  IF Len(warrents) > 1 /\ name[Last(warrents)] = NoName THEN "done" ELSE text

\* A uid is good, bad or, once deleted, a hole in the array.
UidsValid(uids) == \A i \in DOMAIN uids : uids[i] # "bad"
Present(uids) == {i \in DOMAIN uids : uids[i] # "gone"}

KeyValidPins ==
  /\ WarrentsValid(warrents, name)
  /\ UidsValid(syk.uids)
  /\ AllValid(syk.admin) /\ AllValid(syk.user)

KeyValid ==
  /\ WarrentsValid(warrents, name)
  /\ UidsValid(syk.uids)
  /\ AllValid(syk.pass) /\ AllValid(syk.admin) /\ AllValid(syk.user)

\* Which of the two forms the assistent shows.
ShowsKey == mounted /\ syk.made /\ lists
ShowsWarrents == mounted /\ ~(syk.made /\ lists)

---------------------------------------------------------------------------
\* A Warrent that is none of those in use.
NewWarrent(used) == CHOOSE w \in Ids \ used : TRUE

AssistentInit ==
  /\ warrents = <<NewWarrent({})>>
  /\ name = [w \in Ids |-> NoName]
  /\ mounted = FALSE /\ done = FALSE /\ lists = FALSE
  /\ cards = <<>> /\ syk = NoKey
  /\ typed = 0 /\ outcome = "ok" /\ reopened = FALSE

\* The tab is selected: a list that is shown is a new RcWarrents.
Mount ==
  /\ ~mounted
  /\ mounted' = TRUE
  /\ done' = FALSE
  /\ reopened' = (reopened \/ (syk.made /\ ~lists))
  /\ outcome' = "ok"
  /\ UNCHANGED <<name, warrents, lists, cards, syk, typed>>

Unmount ==
  /\ mounted
  /\ mounted' = FALSE
  /\ outcome' = "ok"
  /\ UNCHANGED <<name, warrents, done, lists, cards, syk, typed, reopened>>

\* External: the answer with the lists, and the cards of a message.
ListsArrive ==
  /\ ~lists
  /\ lists' = TRUE
  /\ outcome' = "ok"
  /\ UNCHANGED <<page, cards>>

CardsChange ==
  /\ cards' \in {<<>>} \cup {<<c>> : c \in Cards}
  /\ outcome' = "ok"
  /\ UNCHANGED <<page, lists>>

---------------------------------------------------------------------------
(* The list of warrents: only the last one has an input. *)

TypeName(n) ==
  /\ ShowsWarrents /\ ~done
  /\ n \in Names \cup {NoName}
  /\ name' = [name EXCEPT ![Last(warrents)] = n]
  /\ outcome' = "ok"
  /\ UNCHANGED <<warrents, mounted, done, lists, cards, syk, typed, reopened>>

UsedIds == ToSet(warrents) \cup ToSet(syk.owners)

AddClick ==
  /\ ShowsWarrents /\ ~done
  /\ CheckOrComplete = "add"
  /\ Ids \ UsedIds # {}
  /\ LET w == NewWarrent(UsedIds)
     IN  /\ warrents' = Append(warrents, w)
         /\ name' = [name EXCEPT ![w] = NoName]
  /\ outcome' = "ok"
  /\ UNCHANGED <<mounted, done, lists, cards, syk, typed, reopened>>

\* The empty last one is dropped and completed() makes the key, or throws when
\* there is no card.
DoneClick ==
  /\ ShowsWarrents /\ ~done
  /\ CheckOrComplete = "done"
  /\ warrents' = Front(warrents)
  /\ done' = TRUE
  /\ IF cards = <<>>
     THEN outcome' = "threw" /\ UNCHANGED syk
     ELSE /\ outcome' = "ok"
          /\ syk' = SimpleYubikey(Front(warrents), lists, cards[1])
  /\ UNCHANGED <<name, mounted, lists, cards, typed, reopened>>

---------------------------------------------------------------------------
(* The form of the key: all that is shown is the key, and typed counts. *)

Elsewhere == <<name, warrents, mounted, done, lists, cards, reopened>>

ChangesKey(key) ==
  /\ ShowsKey
  /\ syk' = key /\ outcome' = "ok"
  /\ UNCHANGED Elsewhere

ByPerson == typed < MaxTyped /\ typed' = typed + 1

PickCard(c) ==
  /\ cards = <<c>>
  /\ ChangesKey([syk EXCEPT !.card = c])
  /\ UNCHANGED typed

\* KeyGenUid: the name and the mail both match their expressions.
UidValue(good) == IF good THEN "good" ELSE "bad"

EditUid(i, good) ==
  /\ i \in Present(syk.uids)
  /\ ByPerson
  /\ ChangesKey([syk EXCEPT !.uids[i] = UidValue(good)])

\* The button of a good uid; the new one has a name and no mail.
AddUid ==
  /\ \E i \in Present(syk.uids) : syk.uids[i] = "good"
  /\ Len(syk.uids) < MaxUids
  /\ ChangesKey([syk EXCEPT !.uids = Append(@, "bad")])
  /\ UNCHANGED typed

\* Container.del leaves a hole.
DelUid(i) ==
  /\ i \in Present(syk.uids)
  /\ Cardinality(Present(syk.uids)) > 1
  /\ ChangesKey([syk EXCEPT !.uids[i] = "gone"])
  /\ UNCHANGED typed

Phrases == {"pass", "admin", "user"}
Fields == {"first", "second"}

TypePart(f, i, field, n) ==
  /\ i \in DOMAIN syk[f]
  /\ ByPerson
  /\ ChangesKey([syk EXCEPT ![f][i][field] = Typed(n)])

\* generateRandom and onDiceResult leave alone what a person has changed.
UntouchedFirst(p) == p.first = Empty \/ p.first = p.prev
Untouched(p) ==
  \/ p.first = Empty /\ p.second = Empty
  \/ p.first = p.prev /\ p.second = p.prev
Draw(p, n) == IF Untouched(p) THEN SetPassword(p, Drawn(n)) ELSE p

\* The label of a pin draws all its parts at their greatest length.
Randomize(f) ==
  /\ f \in {"admin", "user"}
  /\ ChangesKey([syk EXCEPT ![f] = [i \in DOMAIN @ |-> Draw(@[i], @[i].minMax.max)]])
  /\ UNCHANGED typed

\* A word from the lists, which is one as long as another.
Diced(p) == Draw(p, 1)

\* A part of a pass phrase with lists has a button of its own.
DiceOne(i) ==
  /\ i \in DOMAIN syk.pass /\ syk.pass[i].dice
  /\ ChangesKey([syk EXCEPT !.pass[i] = Diced(@)])
  /\ UNCHANGED typed

\* The button for all parts, and the choice of a list, are there for one
\* warrent; both need the lists the parts were made with.
HasDice == \A i \in DOMAIN syk.pass : syk.pass[i].dice

DiceAll ==
  /\ Len(syk.owners) = 1
  /\ HasDice
  /\ ChangesKey([syk EXCEPT !.pass = [i \in DOMAIN @ |-> Diced(@[i])]])
  /\ UNCHANGED typed

DiceThrows ==
  /\ ShowsKey /\ Len(syk.owners) = 1
  /\ ~HasDice
  /\ outcome' = "threw"
  /\ UNCHANGED <<page, lists, cards>>

\* checkWarrents sets _approved outside of an action, which mobx refuses with
\* an exception (app.tsx:33): no approval of a second warrent ever counts.
Approve ==
  /\ ShowsKey /\ Len(syk.owners) > 1
  /\ \/ UidsValid(syk.uids)
     \/ \E f \in {"pass", "admin"} : \E i \in DOMAIN syk[f] : PartValid(syk[f][i])
  /\ outcome' = "threw"
  /\ UNCHANGED <<page, lists, cards>>

---------------------------------------------------------------------------
(* The button 'testing': toObj, the message, and fill at the server. *)

\* toObj throws on a hole in the uids.
CanSerialize == Present(syk.uids) = DOMAIN syk.uids

FirstsOf(parts) == [i \in DOMAIN parts |-> parts[i].first]

Message ==
  [names |-> [i \in DOMAIN warrents |-> name[warrents[i]]],
   pass |-> FirstsOf(syk.pass), admin |-> FirstsOf(syk.admin),
   user |-> FirstsOf(syk.user)]

\* PassPhrase.fill: as many values as there are parts, or fewer.
FillFits(parts, values) == Len(values) <= Len(parts)
Filled(parts, values) ==
  [i \in DOMAIN parts |->
     IF i <= Len(values) THEN SetPassword(parts[i], values[i]) ELSE parts[i]]

\* SimpleYubikey.fill with the names as warrents, then asKeyGen, whose
\* getPassPhrase throws for a phrase that is not valid.
ServerTakes(m) ==
  LET key == SimpleYubikey(m.names, FALSE, NoName)
  IN  /\ FillFits(key.pass, m.pass) /\ FillFits(key.admin, m.admin)
      /\ FillFits(key.user, m.user)
      /\ AllValid(Filled(key.pass, m.pass))

\* The message is handled in the listener of the socket: an exception ends the
\* server (and the page meets a new one, if anybody starts it again).
Ready ==
  /\ ShowsKey
  /\ outcome' = IF ~CanSerialize THEN "threw"
                ELSE IF ServerTakes(Message) THEN "ok" ELSE "crashed"
  /\ UNCHANGED <<page, lists, cards>>

\* What the page does without a server is in Page.
AssistentNext ==
  /\ outcome # "crashed"
  /\ \/ Mount \/ Unmount \/ ListsArrive \/ CardsChange
     \/ \E n \in Names \cup {NoName} : TypeName(n)
     \/ AddClick \/ DoneClick
     \/ \E c \in Cards : PickCard(c)
     \/ \E i \in 1 .. MaxUids : DelUid(i) \/ \E good \in BOOLEAN : EditUid(i, good)
     \/ AddUid
     \/ \E f \in Phrases : \E i \in DOMAIN syk[f], field \in Fields, n \in 0 .. MaxLen :
          TypePart(f, i, field, n)
     \/ \E f \in {"admin", "user"} : Randomize(f)
     \/ \E i \in 1 .. NParts : DiceOne(i)
     \/ DiceAll \/ DiceThrows \/ Approve \/ Ready

AssistentSpec == AssistentInit /\ [][AssistentNext]_assistentVars

---------------------------------------------------------------------------
(* Properties. *)

Owners(parts) == {parts[i].owner : i \in DOMAIN parts}

\* The form is for the people of the list: they are named, no two alike, each
\* has a part of the admin pin and, if there are enough, of the pass phrase.
\* Only a list that is opened again under a key (its tab left and selected
\* before the dice ware lists are there) can part the two.
FormFits ==
  ShowsKey /\ ~reopened =>
    /\ WarrentsValid(warrents, name)
    /\ syk.owners = warrents
    /\ Owners(syk.admin) = {warrents[i] : i \in DOMAIN warrents}
    /\ Len(warrents) <= NParts => Owners(syk.pass) = Owners(syk.admin)

\* A message ends the server only if the page showed the key as not valid, or
\* for a key whose list was opened again.
TakenByServer ==
  [][outcome' = "crashed" => ~KeyValid \/ reopened]_assistentVars

\* Valid pins are as long as they must be, whoever typed or drew which part;
\* with more people than digits a part without a limit is left.
TotalLen(parts) == Cardinality(UNION {{i} \X (1 .. parts[i].first.len) : i \in DOMAIN parts})
PinLength ==
  syk.made =>
    /\ AllValid(syk.admin) /\ Len(syk.owners) <= AdminLen
         => TotalLen(syk.admin) = AdminLen
    /\ AllValid(syk.user) => TotalLen(syk.user) \in UserMin .. UserMax

\* What a person has typed into a part is replaced by that person only: no dice,
\* no random pin and no second key for the same list does it.
TypedStays ==
  [][\A f \in Phrases : \A i \in DOMAIN syk[f] : \A field \in Fields :
       syk[f][i][field].by = "person" /\ syk[f][i][field].len > 0
         => typed' # typed \/ syk'[f][i][field] = syk[f][i][field]]_assistentVars
=============================================================================
