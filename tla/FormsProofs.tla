------------------------------ MODULE FormsProofs ------------------------------
(***************************************************************************)
(* Theorems about the forms of the page.                                   *)
(*                                                                         *)
(* The assistent, for any people, any lengths of pins and any number of    *)
(* parts and uids: a form is for the people of its list, the server takes  *)
(* a valid one, what a person typed stays, and the parts of a pin make a   *)
(* pin of the right length.                                                *)
(*                                                                         *)
(* The dialogs of a card, for any cards, any number of dialogs and edits:  *)
(* a dialog sends once and hears of it, Update changes what was edited,    *)
(* and a reset wipes the card it names, with the exceptions the properties *)
(* list.                                                                   *)
(***************************************************************************)
EXTENDS Forms, FiniteSetTheorems, TLAPS

-----------------------------------------------------------------------------
(* The assistent. *)

Values == [by : {"person", "chance", "nobody"}, len : Nat]
Parts ==
  [owner : Ids, minMax : [min : Nat, max : Nat], dice : BOOLEAN,
   first : Values, second : Values, prev : Values]
KeysMade ==
  [made : BOOLEAN, owners : Seq(Ids), card : Cards \cup {NoName},
   uids : Seq({"good", "bad", "gone"}),
   pass : Seq(Parts), admin : Seq(Parts), user : Seq(Parts)]

\* Every variable has its type.
AssistentTypeOK ==
  /\ name \in [Ids -> Names \cup {NoName}] /\ warrents \in Seq(Ids)
  /\ mounted \in BOOLEAN /\ done \in BOOLEAN /\ lists \in BOOLEAN /\ reopened \in BOOLEAN
  /\ cards \in Seq(Cards) /\ syk \in KeysMade /\ typed \in Nat

\* The list has each person once, and all but the last are named, no two alike.
ListInv ==
  /\ warrents # <<>>
  /\ \A i, j \in DOMAIN warrents : warrents[i] = warrents[j] => i = j
  /\ \A i \in DOMAIN warrents : i < Len(warrents) => name[warrents[i]] \in Names
  /\ \A i, j \in DOMAIN warrents :
       i < j /\ j < Len(warrents) => name[warrents[i]] # name[warrents[j]]

\* A key has its parts for its owners, the parts of the pass phrase in turn.
KeyInv ==
  syk.made =>
    /\ syk.owners # <<>>
    /\ Len(syk.pass) = NParts /\ Len(syk.admin) = Len(syk.owners) /\ Len(syk.user) = 1
    /\ \A i \in DOMAIN syk.pass :
         /\ syk.pass[i].owner = syk.owners[((i - 1) % Len(syk.owners)) + 1]
         /\ syk.pass[i].minMax = [min |-> 1, max |-> 0]
    /\ \A i \in DOMAIN syk.admin :
         /\ syk.admin[i].owner = syk.owners[i]
         /\ syk.admin[i].minMax = MinMax(Len(syk.owners), i, AdminLen, AdminLen)
    /\ syk.user[1].minMax = MinMax(1, 1, UserMin, UserMax)

\* Until its list is opened again a key is that of the list, which is closed: the
\* dice ware lists are there, or the button was pressed.
ReopenInv ==
  syk.made /\ ~reopened =>
    syk.owners = warrents /\ WarrentsValid(warrents, name) /\ (lists \/ done)

\* What the page drew last is nothing a person typed, and a key whose form was
\* never shown has nothing typed in it.
DrawnByPage(p) == p.prev.by = "person" => p.prev.len = 0
Clean(p) == DrawnByPage(p) /\ \A field \in Fields : p[field] = Empty
FieldInv ==
  /\ \A f \in Phrases : \A i \in DOMAIN syk[f] : DrawnByPage(syk[f][i])
  /\ ~(syk.made /\ lists) =>
       \A f \in Phrases : \A i \in DOMAIN syk[f] : \A field \in Fields :
         syk[f][i][field] = Empty

AssistentInv == AssistentTypeOK /\ ListInv /\ KeyInv /\ ReopenInv /\ FieldInv

\* What a person typed stays, in a part and in a step.
KeepsTyped(p, q) ==
  \A field \in Fields : p[field].by = "person" /\ p[field].len > 0 => q[field] = p[field]
Kept ==
  \A f \in Phrases : \A i \in DOMAIN syk[f] : \A field \in Fields :
    syk[f][i][field].by = "person" /\ syk[f][i][field].len > 0
      => typed' # typed \/ syk'[f][i][field] = syk[f][i][field]
-----------------------------------------------------------------------------
(* Assistent: parts and keys. *)

LEMMA Lengths == MaxLen \in Nat /\ \A n \in 0 .. MaxLen : Typed(n) \in Values
<1>1. \E x \in {AdminLen, UserMax, 1} : \A y \in {AdminLen, UserMax, 1} : x >= y
  BY LengthsAssumption
<1>2. MaxLen \in {AdminLen, UserMax, 1}
  BY <1>1 DEF MaxLen, Max
<1>3. MaxLen \in Nat
  BY <1>2, LengthsAssumption
<1>4. QED
  BY <1>3 DEF Typed, Values

LEMMA MinMaxTyped ==
  ASSUME NEW parts, NEW i, NEW minLen \in Nat, NEW maxLen \in Nat
  PROVE  MinMax(parts, i, minLen, maxLen) \in [min : Nat, max : Nat]
<1>1. ASSUME NEW len \in Nat PROVE Dealt(len, parts, i) \in Nat
  <2>1. IsFiniteSet(0 .. len - 1)
    BY FS_Interval
  <2>2. IsFiniteSet({k \in 0 .. len - 1 : k % parts = i - 1})
    BY <2>1, FS_Subset
  <2>3. QED
    BY <2>2, FS_CardinalityType DEF Dealt
<1>2. QED
  BY <1>1 DEF MinMax

LEMMA NewPartTyped ==
  ASSUME NEW owner \in Ids, NEW minMax \in [min : Nat, max : Nat], NEW dice \in BOOLEAN
  PROVE  /\ NewPart(owner, minMax, dice) \in Parts
         /\ NewPart(owner, minMax, dice).owner = owner
         /\ NewPart(owner, minMax, dice).minMax = minMax
         /\ Clean(NewPart(owner, minMax, dice))
BY DEF Clean, NewPart, Parts, Values, Empty, Typed, NoValue, DrawnByPage, Fields

LEMMA PartTyped ==
  ASSUME NEW p \in Parts, NEW field \in Fields, NEW v \in Values, NEW q,
         q = [p EXCEPT ![field] = v]
  PROVE  /\ q \in Parts /\ q.owner = p.owner /\ q.minMax = p.minMax /\ q.prev = p.prev
BY DEF Parts, Fields

\* A part that is drawn keeps what a person typed.
LEMMA DrawTyped ==
  ASSUME NEW p \in Parts, DrawnByPage(p), NEW n \in Nat, NEW q, q = Draw(p, n)
  PROVE  /\ q \in Parts /\ q.owner = p.owner /\ q.minMax = p.minMax
         /\ DrawnByPage(q) /\ KeepsTyped(p, q)
<1>1. CASE Untouched(p)
  <2>1. Drawn(n) \in Values /\ (Drawn(n).by = "person" => Drawn(n).len = 0)
    BY DEF Drawn, Empty, Typed, Values
  <2>2. q = [p EXCEPT !.first = Drawn(n), !.second = Drawn(n), !.prev = Drawn(n)]
    BY <1>1 DEF Draw, SetPassword
  <2>3. \A field \in Fields : p[field].by = "person" => p[field].len = 0
    BY <1>1 DEF Untouched, DrawnByPage, Empty, Typed, Fields
  <2>4. p.first \in Values /\ p.second \in Values
    BY DEF Parts
  <2>5. KeepsTyped(p, q)
    BY <2>3, <2>4 DEF KeepsTyped, Fields, Values
  <2>6. QED
    BY <2>1, <2>2, <2>5 DEF Parts, DrawnByPage
<1>2. CASE ~Untouched(p)
  BY <1>2 DEF Draw, KeepsTyped
<1>3. QED
  BY <1>1, <1>2

\* The parts of one key are those of another, with other values in their fields.
SameParts(ps, qs) ==
  /\ qs \in Seq(Parts) /\ Len(qs) = Len(ps)
  /\ \A i \in DOMAIN ps :
       qs[i].owner = ps[i].owner /\ qs[i].minMax = ps[i].minMax /\ DrawnByPage(qs[i])

\* A change of one phrase, to parts of the same shape.
LEMMA PhraseChanges ==
  ASSUME AssistentInv, NEW f \in Phrases, NEW parts, SameParts(syk[f], parts),
         ChangesKey([syk EXCEPT ![f] = parts]), typed' \in Nat
  PROVE  /\ AssistentInv'
         /\ typed' # typed \/ (\A i \in DOMAIN syk[f] : KeepsTyped(syk[f][i], parts[i])) => Kept
<1>1. /\ syk' = [syk EXCEPT ![f] = parts] /\ syk.made /\ lists
      /\ UNCHANGED <<name, warrents, mounted, done, lists, cards, reopened>>
  BY DEF ChangesKey, ShowsKey, Elsewhere
<1>2. syk \in KeysMade /\ parts \in Seq(Parts)
  BY DEF AssistentInv, AssistentTypeOK, SameParts
<1>3. /\ syk' \in KeysMade /\ syk'[f] = parts /\ \A g \in Phrases : g # f => syk'[g] = syk[g]
      /\ syk'.made = syk.made /\ syk'.owners = syk.owners
  <2>1. CASE f = "pass"
    BY <1>1, <1>2, <2>1 DEF KeysMade, Phrases
  <2>2. CASE f = "admin"
    BY <1>1, <1>2, <2>2 DEF KeysMade, Phrases
  <2>3. CASE f = "user"
    BY <1>1, <1>2, <2>3 DEF KeysMade, Phrases
  <2>4. QED
    BY <2>1, <2>2, <2>3 DEF Phrases
<1>4. \A g \in Phrases : SameParts(syk[g], syk'[g])
  <2>1. ASSUME NEW g \in Phrases, g # f PROVE SameParts(syk[g], syk'[g])
    <3>1. syk[g] \in Seq(Parts)
      BY <1>2 DEF KeysMade, Phrases
    <3>2. QED
      BY <1>3, <2>1, <3>1 DEF SameParts, AssistentInv, FieldInv
  <2>2. QED
    BY <1>3, <2>1
<1>5. AssistentTypeOK' /\ ListInv' /\ ReopenInv'
  BY <1>1, <1>3 DEF AssistentInv, AssistentTypeOK, ListInv, ReopenInv
<1>6. KeyInv'
  <2>1. SameParts(syk.pass, syk'.pass) /\ SameParts(syk.admin, syk'.admin)
        /\ SameParts(syk.user, syk'.user)
    BY <1>4 DEF Phrases
  <2>2. syk.pass \in Seq(Parts) /\ syk.admin \in Seq(Parts)
    BY <1>2 DEF KeysMade
  <2>3. DOMAIN syk'.pass = DOMAIN syk.pass /\ DOMAIN syk'.admin = DOMAIN syk.admin
    BY <2>1, <2>2 DEF SameParts
  <2>4. QED
    BY <1>1, <1>3, <2>1, <2>3 DEF AssistentInv, KeyInv, SameParts
<1>7. FieldInv'
  <2>1. \A g \in Phrases : DOMAIN syk'[g] = DOMAIN syk[g]
    <3>1. \A g \in Phrases : syk[g] \in Seq(Parts)
      BY <1>2 DEF KeysMade, Phrases
    <3>2. QED
      BY <1>4, <3>1 DEF SameParts
  <2>2. QED
    BY <1>1, <1>3, <1>4, <2>1 DEF FieldInv, SameParts
<1>8. ASSUME typed' # typed \/ (\A i \in DOMAIN syk[f] : KeepsTyped(syk[f][i], parts[i]))
      PROVE  Kept
  BY <1>3, <1>8 DEF Kept, KeepsTyped
<1>9. QED
  BY <1>5, <1>6, <1>7, <1>8 DEF AssistentInv

\* A change of what is no phrase.
LEMMA OtherChanges ==
  ASSUME AssistentInv, NEW key \in KeysMade, ChangesKey(key), typed' \in Nat,
         key.made = syk.made, key.owners = syk.owners,
         \A f \in Phrases : key[f] = syk[f]
  PROVE  AssistentInv' /\ Kept
<1>1. /\ syk' = key /\ UNCHANGED <<name, warrents, mounted, done, lists, cards, reopened>>
  BY DEF ChangesKey, Elsewhere
<1>2. key.pass = syk.pass /\ key.admin = syk.admin /\ key.user = syk.user
  BY DEF Phrases
<1>3. AssistentTypeOK' /\ ListInv' /\ ReopenInv'
  BY <1>1 DEF AssistentInv, AssistentTypeOK, ListInv, ReopenInv
<1>4. KeyInv'
  BY <1>1, <1>2 DEF AssistentInv, KeyInv
<1>5. FieldInv'
  BY <1>1 DEF AssistentInv, FieldInv
<1>6. Kept
  BY <1>1 DEF Kept
<1>7. QED
  BY <1>3, <1>4, <1>5, <1>6 DEF AssistentInv
-----------------------------------------------------------------------------
(* Assistent: the steps. *)

LEMMA AssistentStart == AssistentInit => AssistentInv
<1> SUFFICES ASSUME AssistentInit PROVE AssistentInv
  OBVIOUS
<1> DEFINE w == NewWarrent({})
<1>1. w \in Ids
  BY IdsAssumption DEF NewWarrent
<1> HIDE DEF w
<1>2. /\ warrents = <<w>> /\ name = [x \in Ids |-> NoName] /\ mounted = FALSE /\ done = FALSE
      /\ lists = FALSE /\ cards = <<>> /\ syk = NoKey /\ typed = 0 /\ reopened = FALSE
  BY DEF AssistentInit, w
<1>3. NoKey \in KeysMade /\ ~NoKey.made /\ \A f \in Phrases : NoKey[f] = <<>>
  BY DEF NoKey, KeysMade, Phrases
<1>4. AssistentTypeOK
  <2>1. warrents \in Seq(Ids) /\ cards \in Seq(Cards)
    BY <1>1, <1>2
  <2>2. name \in [Ids -> Names \cup {NoName}]
    BY <1>2
  <2>3. QED
    BY <1>2, <1>3, <2>1, <2>2 DEF AssistentTypeOK
<1>5. ListInv
  BY <1>1, <1>2 DEF ListInv
<1>6. KeyInv /\ ReopenInv
  BY <1>2, <1>3 DEF KeyInv, ReopenInv
<1>7. FieldInv
  BY <1>2, <1>3 DEF FieldInv
<1>8. QED
  BY <1>4, <1>5, <1>6, <1>7 DEF AssistentInv

\* Steps that change no warrent and no key.
LEMMA TabSteps ==
  ASSUME AssistentInv, UNCHANGED <<name, warrents, syk, typed>>,
         Mount \/ Unmount \/ ListsArrive \/ CardsChange \/ UNCHANGED assistentVars
  PROVE  AssistentInv' /\ Kept
<1>1. /\ mounted' \in BOOLEAN /\ done' \in BOOLEAN /\ lists' \in BOOLEAN /\ reopened' \in BOOLEAN
      /\ cards' \in Seq(Cards) /\ (lists => lists')
  <2>1. CASE CardsChange
    <3>1. <<>> \in Seq(Cards) /\ \A c \in Cards : <<c>> \in Seq(Cards)
      OBVIOUS
    <3>2. cards' = <<>> \/ \E c \in Cards : cards' = <<c>>
      BY <2>1 DEF CardsChange
    <3>3. cards' \in Seq(Cards)
      BY <3>1, <3>2
    <3>4. QED
      BY <2>1, <3>3 DEF AssistentInv, AssistentTypeOK, CardsChange, page
  <2>2. CASE Mount \/ Unmount \/ ListsArrive \/ UNCHANGED assistentVars
    BY <2>2 DEF AssistentInv, AssistentTypeOK, Mount, Unmount, ListsArrive, page, assistentVars
  <2>3. QED
    BY <2>1, <2>2
<1>2. reopened => reopened'
  BY DEF Mount, Unmount, ListsArrive, CardsChange, page, assistentVars
<1>3. syk.made /\ ~reopened' => lists' \/ done'
  BY <1>2 DEF AssistentInv, ReopenInv, AssistentTypeOK, Mount, Unmount, ListsArrive, CardsChange,
              page, assistentVars
<1>4. ReopenInv'
  BY <1>2, <1>3 DEF AssistentInv, ReopenInv, WarrentsValid
<1>5. AssistentTypeOK' /\ ListInv' /\ KeyInv' /\ FieldInv'
  BY <1>1 DEF AssistentInv, AssistentTypeOK, ListInv, KeyInv, FieldInv
<1>6. QED
  BY <1>4, <1>5 DEF AssistentInv, Kept

\* While the list can be changed there is no key for it, or it was opened again.
LEMMA ListOpen ==
  ASSUME AssistentInv, ShowsWarrents, ~done
  PROVE  ~(syk.made /\ ~reopened) /\ ~(syk.made /\ lists)
BY DEF AssistentInv, ReopenInv, ShowsWarrents

LEMMA TypeNameKeeps ==
  ASSUME AssistentInv, NEW n, TypeName(n)
  PROVE  AssistentInv' /\ Kept
<1>1. /\ n \in Names \cup {NoName} /\ name' = [name EXCEPT ![Last(warrents)] = n]
      /\ UNCHANGED <<warrents, mounted, done, lists, cards, syk, typed, reopened>>
      /\ ShowsWarrents /\ ~done
  BY DEF TypeName
<1>2. /\ warrents \in Seq(Ids) /\ warrents # <<>> /\ Len(warrents) \in Nat \ {0}
      /\ Last(warrents) = warrents[Len(warrents)] /\ Last(warrents) \in Ids
  BY DEF AssistentInv, AssistentTypeOK, ListInv, Last
<1>3. AssistentTypeOK'
  BY <1>1, <1>2 DEF AssistentInv, AssistentTypeOK
<1>4. \A i \in DOMAIN warrents : i < Len(warrents) => name'[warrents[i]] = name[warrents[i]]
  BY <1>1, <1>2 DEF AssistentInv, AssistentTypeOK, ListInv
<1>5. ListInv'
  BY <1>1, <1>2, <1>4 DEF AssistentInv, ListInv
<1>6. ReopenInv'
  BY <1>1, ListOpen DEF ReopenInv
<1>7. KeyInv' /\ FieldInv' /\ Kept
  BY <1>1 DEF AssistentInv, KeyInv, FieldInv, Kept
<1>8. QED
  BY <1>3, <1>5, <1>6, <1>7 DEF AssistentInv

LEMMA AddClickKeeps == AssistentInv /\ AddClick => AssistentInv' /\ Kept
<1> SUFFICES ASSUME AssistentInv, AddClick PROVE AssistentInv' /\ Kept
  OBVIOUS
<1>1. PICK w : w \in Ids \ UsedIds /\ warrents' = Append(warrents, w)
               /\ name' = [name EXCEPT ![w] = NoName]
  BY DEF AddClick, NewWarrent
<1>2. /\ UNCHANGED <<mounted, done, lists, cards, syk, typed, reopened>>
      /\ ShowsWarrents /\ ~done
  BY DEF AddClick
<1>3. /\ warrents \in Seq(Ids) /\ \A i \in DOMAIN warrents : warrents[i] # w
      /\ DOMAIN warrents = 1 .. Len(warrents) /\ Len(warrents) \in Nat
  BY <1>1 DEF AssistentInv, AssistentTypeOK, UsedIds, ToSet
<1>4. /\ warrents' \in Seq(Ids) /\ Len(warrents') = Len(warrents) + 1
      /\ DOMAIN warrents' = 1 .. Len(warrents) + 1
      /\ \A i \in 1 .. Len(warrents) : warrents'[i] = warrents[i]
      /\ warrents'[Len(warrents) + 1] = w
  BY <1>1, <1>3
<1>5. AssistentTypeOK'
  BY <1>1, <1>2, <1>4 DEF AssistentInv, AssistentTypeOK
<1>6. WarrentsValid(warrents, name)
  BY DEF AddClick, CheckOrComplete
<1>7. \A i \in 1 .. Len(warrents) : name'[warrents[i]] = name[warrents[i]]
  <2>1. \A i \in 1 .. Len(warrents) : warrents[i] \in Ids /\ warrents[i] # w
    BY <1>3
  <2>2. \A x \in Ids : x # w => name'[x] = name[x]
    BY <1>1 DEF AssistentInv, AssistentTypeOK
  <2>3. QED
    BY <2>1, <2>2
<1>8. ListInv'
  <2>1. \A i, j \in 1 .. Len(warrents) + 1 : warrents'[i] = warrents'[j] => i = j
    BY <1>3, <1>4 DEF AssistentInv, ListInv
  <2>2. \A i, j \in 1 .. Len(warrents) :
          name'[warrents'[i]] \in Names /\ (i # j => name'[warrents'[i]] # name'[warrents'[j]])
    BY <1>3, <1>4, <1>6, <1>7 DEF WarrentsValid
  <2>3. warrents' # <<>>
    BY <1>3, <1>4
  <2>4. QED
    BY <1>3, <1>4, <2>1, <2>2, <2>3 DEF ListInv
<1>9. ReopenInv'
  BY <1>2, ListOpen DEF ReopenInv
<1>10. KeyInv' /\ FieldInv' /\ Kept
  BY <1>2 DEF AssistentInv, KeyInv, FieldInv, Kept
<1>11. QED
  BY <1>5, <1>8, <1>9, <1>10 DEF AssistentInv
\* The key of the constructor: its parts are those of its owners, and empty.
LEMMA KeyMade ==
  ASSUME NEW owners \in Seq(Ids), owners # <<>>, NEW dice \in BOOLEAN,
         NEW card \in Cards \cup {NoName}, NEW key, key = SimpleYubikey(owners, dice, card)
  PROVE  /\ key \in KeysMade /\ key.made /\ key.owners = owners
         /\ Len(key.pass) = NParts /\ Len(key.admin) = Len(owners) /\ Len(key.user) = 1
         /\ \A i \in DOMAIN key.pass :
              /\ key.pass[i].owner = owners[((i - 1) % Len(owners)) + 1]
              /\ key.pass[i].minMax = [min |-> 1, max |-> 0]
         /\ \A i \in DOMAIN key.admin :
              /\ key.admin[i].owner = owners[i]
              /\ key.admin[i].minMax = MinMax(Len(owners), i, AdminLen, AdminLen)
         /\ key.user[1].minMax = MinMax(1, 1, UserMin, UserMax)
         /\ \A f \in Phrases : \A i \in DOMAIN key[f] : Clean(key[f][i])
<1> DEFINE N == Len(owners)
<1>1. N \in Nat \ {0} /\ DOMAIN owners = 1 .. N /\ owners[1] \in Ids
  BY DEF N
<1>2. NParts \in Nat /\ AdminLen \in Nat /\ UserMin \in Nat /\ UserMax \in Nat
  BY LengthsAssumption
<1> HIDE DEF N
<1>3. /\ PassParts(owners, dice) \in Seq(Parts) /\ Len(PassParts(owners, dice)) = NParts
      /\ \A i \in 1 .. NParts :
           /\ PassParts(owners, dice)[i].owner = owners[((i - 1) % N) + 1]
           /\ PassParts(owners, dice)[i].minMax = [min |-> 1, max |-> 0]
           /\ Clean(PassParts(owners, dice)[i])
  <2> DEFINE p(i) == NewPart(owners[((i - 1) % N) + 1], [min |-> 1, max |-> 0], dice)
  <2>1. \A i \in 1 .. NParts : owners[((i - 1) % N) + 1] \in Ids
    <3>1. \A i \in 1 .. NParts : ((i - 1) % N) + 1 \in 1 .. N
      BY <1>1, <1>2
    <3>2. QED
      BY <1>1, <3>1
  <2>2. [min |-> 1, max |-> 0] \in [min : Nat, max : Nat]
    OBVIOUS
  <2>3. \A i \in 1 .. NParts :
          /\ p(i) \in Parts /\ p(i).owner = owners[((i - 1) % N) + 1]
          /\ p(i).minMax = [min |-> 1, max |-> 0] /\ Clean(p(i))
    BY <2>1, <2>2, NewPartTyped
  <2>4. PassParts(owners, dice) = [i \in 1 .. NParts |-> p(i)]
    BY DEF PassParts, N
  <2> HIDE DEF p
  <2>5. QED
    BY <1>2, <2>3, <2>4
<1>4. ASSUME NEW os \in Seq(Ids), NEW a \in Nat, NEW b \in Nat
      PROVE  /\ PerWarrent(os, a, b) \in Seq(Parts) /\ Len(PerWarrent(os, a, b)) = Len(os)
             /\ \A i \in DOMAIN os :
                  /\ PerWarrent(os, a, b)[i].owner = os[i] /\ Clean(PerWarrent(os, a, b)[i])
                  /\ PerWarrent(os, a, b)[i].minMax = MinMax(Len(os), i, a, b)
  <2> DEFINE p(i) == NewPart(os[i], MinMax(Len(os), i, a, b), FALSE)
  <2>1. ASSUME NEW i \in 1 .. Len(os)
        PROVE  /\ p(i) \in Parts /\ p(i).owner = os[i] /\ Clean(p(i))
               /\ p(i).minMax = MinMax(Len(os), i, a, b)
    <3>1. os[i] \in Ids /\ MinMax(Len(os), i, a, b) \in [min : Nat, max : Nat]
      BY MinMaxTyped
    <3>2. QED
      BY <3>1, NewPartTyped
  <2>2. PerWarrent(os, a, b) = [i \in 1 .. Len(os) |-> p(i)]
    BY DEF PerWarrent
  <2> HIDE DEF p
  <2>3. QED
    BY <2>1, <2>2
<1>5. /\ key.admin = PerWarrent(owners, AdminLen, AdminLen)
      /\ key.user = PerWarrent(<<owners[1]>>, UserMin, UserMax)
      /\ key.pass = PassParts(owners, dice)
      /\ key.made /\ key.owners = owners /\ key.card = card /\ key.uids = <<"bad">>
      /\ key = [made |-> TRUE, owners |-> owners, card |-> card, uids |-> <<"bad">>,
                pass |-> key.pass, admin |-> key.admin, user |-> key.user]
  BY DEF SimpleYubikey, NewUids
<1>6. /\ key.admin \in Seq(Parts) /\ Len(key.admin) = N
      /\ key.user \in Seq(Parts) /\ Len(key.user) = 1
      /\ \A i \in 1 .. N :
           /\ key.admin[i].owner = owners[i] /\ Clean(key.admin[i])
           /\ key.admin[i].minMax = MinMax(N, i, AdminLen, AdminLen)
      /\ Clean(key.user[1]) /\ key.user[1].minMax = MinMax(1, 1, UserMin, UserMax)
  <2>1. /\ key.admin \in Seq(Parts) /\ Len(key.admin) = N
        /\ \A i \in 1 .. N :
             /\ key.admin[i].owner = owners[i] /\ Clean(key.admin[i])
             /\ key.admin[i].minMax = MinMax(N, i, AdminLen, AdminLen)
    BY <1>1, <1>2, <1>4, <1>5 DEF N
  <2>2. /\ key.user \in Seq(Parts) /\ Len(key.user) = 1
        /\ Clean(key.user[1]) /\ key.user[1].minMax = MinMax(1, 1, UserMin, UserMax)
    <3> DEFINE os == <<owners[1]>>
    <3>1. os \in Seq(Ids) /\ Len(os) = 1 /\ 1 \in DOMAIN os
            /\ key.user = PerWarrent(os, UserMin, UserMax)
      BY <1>1, <1>5
    <3> HIDE DEF os
    <3>2. QED
      BY <1>2, <1>4, <3>1
  <2>3. QED
    BY <2>1, <2>2
<1>7. key \in KeysMade
  <2>1. <<"bad">> \in Seq({"good", "bad", "gone"})
    OBVIOUS
  <2>2. key.pass \in Seq(Parts)
    BY <1>3, <1>5
  <2>3. QED
    BY <1>5, <1>6, <2>1, <2>2 DEF KeysMade
<1>8. /\ DOMAIN key.pass = 1 .. NParts /\ DOMAIN key.admin = 1 .. N /\ DOMAIN key.user = {1}
      /\ Len(key.pass) = NParts
  BY <1>1, <1>2, <1>3, <1>5, <1>6
<1>9. \A f \in Phrases : \A i \in DOMAIN key[f] : Clean(key[f][i])
  <2>1. \A i \in DOMAIN key.pass : Clean(key.pass[i])
    BY <1>3, <1>5, <1>8
  <2>2. \A i \in DOMAIN key.admin : Clean(key.admin[i])
    BY <1>6, <1>8
  <2>3. \A i \in DOMAIN key.user : Clean(key.user[i])
    BY <1>6, <1>8
  <2>4. QED
    BY <2>1, <2>2, <2>3 DEF Phrases
<1>10. QED
  BY <1>3, <1>5, <1>6, <1>7, <1>8, <1>9 DEF N

LEMMA DoneClickKeeps == AssistentInv /\ DoneClick => AssistentInv' /\ Kept
<1> SUFFICES ASSUME AssistentInv, DoneClick PROVE AssistentInv' /\ Kept
  OBVIOUS
<1>1. /\ warrents' = Front(warrents) /\ done' = TRUE
      /\ UNCHANGED <<name, mounted, lists, cards, typed, reopened>>
      /\ ShowsWarrents /\ ~done
  BY DEF DoneClick
<1>2. /\ warrents \in Seq(Ids) /\ Len(warrents) \in Nat /\ Len(warrents) > 1
      /\ DOMAIN warrents = 1 .. Len(warrents)
  BY DEF AssistentInv, AssistentTypeOK, DoneClick, CheckOrComplete
<1>3. /\ warrents' \in Seq(Ids) /\ Len(warrents') = Len(warrents) - 1
      /\ DOMAIN warrents' = 1 .. Len(warrents) - 1 /\ warrents' # <<>>
      /\ \A i \in DOMAIN warrents' :
           i \in DOMAIN warrents /\ i < Len(warrents) /\ warrents'[i] = warrents[i]
  <2>1. warrents' = SubSeq(warrents, 1, Len(warrents) - 1) /\ Len(warrents) - 1 \in Nat \ {0}
    BY <1>1, <1>2 DEF Front
  <2>2. /\ warrents' \in Seq(Ids) /\ Len(warrents') = Len(warrents) - 1
        /\ \A i \in 1 .. Len(warrents) - 1 : warrents'[i] = warrents[i]
    BY <1>2, <2>1
  <2>3. DOMAIN warrents' = 1 .. Len(warrents) - 1
    BY <2>2
  <2>4. warrents' # <<>>
    <3>1. Len(<<>>) = 0
      OBVIOUS
    <3>2. QED
      BY <2>1, <2>2, <3>1
  <2>5. QED
    BY <1>2, <2>1, <2>2, <2>3, <2>4
<1>4. WarrentsValid(warrents, name)'
  <2> SUFFICES ASSUME NEW i \in DOMAIN warrents', NEW j \in DOMAIN warrents'
               PROVE  /\ name[warrents'[i]] \in Names
                      /\ i # j => name[warrents'[i]] # name[warrents'[j]]
    BY <1>1 DEF WarrentsValid
  <2>1. i < j \/ i = j \/ j < i
    BY <1>2, <1>3
  <2>2. QED
    BY <1>3, <2>1 DEF AssistentInv, ListInv
<1>5. ListInv'
  <2>1. \A i, j \in DOMAIN warrents' : warrents'[i] = warrents'[j] => i = j
    BY <1>3 DEF AssistentInv, ListInv
  <2>2. \A i, j \in DOMAIN warrents' : i < j => i # j
    BY <1>2, <1>3
  <2>3. QED
    BY <1>3, <1>4, <2>1, <2>2 DEF ListInv, WarrentsValid
<1>6. ~(syk.made /\ ~reopened) /\ ~(syk.made /\ lists)
  BY <1>1, ListOpen
<1>7. Kept
  BY <1>6 DEF AssistentInv, FieldInv, Kept, Empty, Typed
<1>8. CASE syk' = syk
  <2>1. AssistentTypeOK'
    BY <1>1, <1>3, <1>8 DEF AssistentInv, AssistentTypeOK
  <2>2. KeyInv' /\ FieldInv' /\ ReopenInv'
    BY <1>1, <1>6, <1>8 DEF AssistentInv, KeyInv, FieldInv, ReopenInv
  <2>3. QED
    BY <1>5, <1>7, <2>1, <2>2 DEF AssistentInv
<1>9. CASE cards # <<>> /\ syk' = SimpleYubikey(Front(warrents), lists, cards[1])
  <2>1. /\ cards[1] \in Cards \cup {NoName} /\ lists \in BOOLEAN
        /\ syk' = SimpleYubikey(warrents', lists, cards[1])
    BY <1>1, <1>9 DEF AssistentInv, AssistentTypeOK
  <2> DEFINE k == SimpleYubikey(warrents', lists, cards[1])
  <2>2. /\ k \in KeysMade /\ k.made /\ k.owners = warrents'
        /\ Len(k.pass) = NParts /\ Len(k.admin) = Len(warrents') /\ Len(k.user) = 1
        /\ \A i \in DOMAIN k.pass :
             /\ k.pass[i].owner = warrents'[((i - 1) % Len(warrents')) + 1]
             /\ k.pass[i].minMax = [min |-> 1, max |-> 0]
        /\ \A i \in DOMAIN k.admin :
             /\ k.admin[i].owner = warrents'[i]
             /\ k.admin[i].minMax = MinMax(Len(warrents'), i, AdminLen, AdminLen)
        /\ k.user[1].minMax = MinMax(1, 1, UserMin, UserMax)
        /\ \A f \in Phrases : \A i \in DOMAIN k[f] : Clean(k[f][i])
    BY <1>3, <2>1, KeyMade
  <2> HIDE DEF k
  <2>3. syk' = k
    BY <2>1 DEF k
  <2>4. AssistentTypeOK'
    BY <1>1, <1>3, <2>2, <2>3 DEF AssistentInv, AssistentTypeOK
  <2>5. KeyInv' /\ FieldInv'
    BY <1>3, <2>2, <2>3 DEF KeyInv, FieldInv, Clean
  <2>6. ReopenInv'
    BY <1>1, <1>4, <2>2, <2>3 DEF ReopenInv
  <2>7. QED
    BY <1>5, <1>7, <2>4, <2>5, <2>6 DEF AssistentInv
<1>10. QED
  BY <1>8, <1>9 DEF DoneClick
\* The card and the uids of a key.
LEMMA CardAndUids ==
  ASSUME AssistentInv,
         \/ \E c \in Cards : PickCard(c)
         \/ AddUid
         \/ \E i \in 1 .. MaxUids : DelUid(i) \/ \E good \in BOOLEAN : EditUid(i, good)
  PROVE  AssistentInv' /\ Kept
<1>1. syk \in KeysMade /\ typed \in Nat
  BY DEF AssistentInv, AssistentTypeOK
<1>2. ASSUME NEW c \in Cards, PickCard(c) PROVE AssistentInv' /\ Kept
  <2> DEFINE k == [syk EXCEPT !.card = c]
  <2>1. k \in KeysMade /\ k.made = syk.made /\ k.owners = syk.owners
          /\ \A f \in Phrases : k[f] = syk[f]
    BY <1>1 DEF KeysMade, Phrases
  <2>2. ChangesKey(k) /\ typed' = typed
    BY <1>2 DEF PickCard
  <2> HIDE DEF k
  <2>3. QED
    BY <1>1, <2>1, <2>2, OtherChanges
<1>3. ASSUME NEW us \in Seq({"good", "bad", "gone"}), ChangesKey([syk EXCEPT !.uids = us]),
             typed' \in Nat
      PROVE  AssistentInv' /\ Kept
  <2> DEFINE k == [syk EXCEPT !.uids = us]
  <2>1. k \in KeysMade /\ k.made = syk.made /\ k.owners = syk.owners
          /\ \A f \in Phrases : k[f] = syk[f]
    BY <1>1, <1>3 DEF KeysMade, Phrases
  <2>2. ChangesKey(k)
    BY <1>3
  <2> HIDE DEF k
  <2>3. QED
    BY <1>3, <2>1, <2>2, OtherChanges
<1>4. syk.uids \in Seq({"good", "bad", "gone"})
  BY <1>1 DEF KeysMade
<1>5. CASE AddUid
  <2>1. Append(syk.uids, "bad") \in Seq({"good", "bad", "gone"})
    BY <1>4
  <2>2. ChangesKey([syk EXCEPT !.uids = Append(syk.uids, "bad")]) /\ typed' = typed
    BY <1>5 DEF AddUid
  <2>3. QED
    BY <1>1, <1>3, <2>1, <2>2
<1>6. ASSUME NEW i \in 1 .. MaxUids, NEW v \in {"good", "bad", "gone"},
             i \in Present(syk.uids), ChangesKey([syk EXCEPT !.uids[i] = v]), typed' \in Nat
      PROVE  AssistentInv' /\ Kept
  <2>1. [syk.uids EXCEPT ![i] = v] \in Seq({"good", "bad", "gone"})
    BY <1>4, <1>6 DEF Present
  <2>2. ChangesKey([syk EXCEPT !.uids = [syk.uids EXCEPT ![i] = v]])
    BY <1>6
  <2>3. QED
    BY <1>3, <1>6, <2>1, <2>2
<1>7. ASSUME NEW i \in 1 .. MaxUids, DelUid(i) PROVE AssistentInv' /\ Kept
  BY <1>1, <1>6, <1>7 DEF DelUid
<1>8. ASSUME NEW i \in 1 .. MaxUids, NEW good \in BOOLEAN, EditUid(i, good)
      PROVE  AssistentInv' /\ Kept
  <2>1. UidValue(good) \in {"good", "bad", "gone"} /\ typed' \in Nat
    BY <1>1, <1>8 DEF UidValue, EditUid, ByPerson
  <2>2. QED
    BY <1>6, <1>8, <2>1 DEF EditUid
<1>9. QED
  BY <1>2, <1>5, <1>7, <1>8

LEMMA PhraseOfKey ==
  ASSUME AssistentInv, NEW f \in Phrases
  PROVE  /\ syk[f] \in Seq(Parts)
         /\ \A i \in DOMAIN syk[f] :
              /\ syk[f][i] \in Parts /\ DrawnByPage(syk[f][i]) /\ syk[f][i].minMax.max \in Nat
<1>1. syk[f] \in Seq(Parts)
  BY DEF AssistentInv, AssistentTypeOK, KeysMade, Phrases
<1>2. \A i \in DOMAIN syk[f] : syk[f][i] \in Parts
  BY <1>1
<1>3. \A i \in DOMAIN syk[f] : syk[f][i].minMax.max \in Nat
  BY <1>2 DEF Parts
<1>4. QED
  BY <1>1, <1>2, <1>3 DEF AssistentInv, FieldInv

LEMMA TypePartKeeps ==
  ASSUME AssistentInv, NEW f \in Phrases, NEW i \in DOMAIN syk[f], NEW field \in Fields,
         NEW n \in 0 .. MaxLen, TypePart(f, i, field, n)
  PROVE  AssistentInv' /\ Kept
<1> DEFINE q == [syk[f][i] EXCEPT ![field] = Typed(n)]
           parts == [syk[f] EXCEPT ![i] = q]
<1>1. /\ syk[f] \in Seq(Parts) /\ \A j \in DOMAIN syk[f] : syk[f][j] \in Parts
           /\ DrawnByPage(syk[f][j])
  BY PhraseOfKey
<1>2. q \in Parts /\ q.owner = syk[f][i].owner /\ q.minMax = syk[f][i].minMax
        /\ q.prev = syk[f][i].prev
  BY <1>1, Lengths, PartTyped
<1>3. ChangesKey([syk EXCEPT ![f] = parts]) /\ typed' = typed + 1 /\ typed \in Nat
  BY DEF TypePart, ByPerson, AssistentInv, AssistentTypeOK
<1> HIDE DEF q
<1>4. parts \in Seq(Parts) /\ Len(parts) = Len(syk[f])
      /\ \A j \in DOMAIN syk[f] : parts[j] = IF j = i THEN q ELSE syk[f][j]
  BY <1>1, <1>2
<1> HIDE DEF parts
<1>5. SameParts(syk[f], parts)
  BY <1>1, <1>2, <1>4 DEF SameParts, DrawnByPage
<1>6. typed' # typed /\ typed' \in Nat
  BY <1>3
<1>7. QED
  BY <1>3, <1>5, <1>6, PhraseChanges

\* Whatever is drawn, in one part or in all.
LEMMA DrawKeeps ==
  ASSUME AssistentInv, NEW f \in Phrases, NEW parts, parts \in Seq(Parts),
         Len(parts) = Len(syk[f]), ChangesKey([syk EXCEPT ![f] = parts]), typed' = typed,
         \A i \in DOMAIN syk[f] :
           parts[i] = syk[f][i] \/ \E n \in Nat : parts[i] = Draw(syk[f][i], n)
  PROVE  AssistentInv' /\ Kept
<1>1. \A i \in DOMAIN syk[f] :
        /\ parts[i].owner = syk[f][i].owner /\ parts[i].minMax = syk[f][i].minMax
        /\ DrawnByPage(parts[i]) /\ KeepsTyped(syk[f][i], parts[i])
  <2>1. ASSUME NEW i \in DOMAIN syk[f], NEW n \in Nat, parts[i] = Draw(syk[f][i], n)
        PROVE  /\ parts[i].owner = syk[f][i].owner /\ parts[i].minMax = syk[f][i].minMax
               /\ DrawnByPage(parts[i]) /\ KeepsTyped(syk[f][i], parts[i])
    <3> DEFINE p == syk[f][i]
               q == parts[i]
    <3>1. p \in Parts /\ DrawnByPage(p) /\ q = Draw(p, n)
      BY <2>1, PhraseOfKey
    <3> HIDE DEF p, q
    <3>2. q.owner = p.owner /\ q.minMax = p.minMax /\ DrawnByPage(q) /\ KeepsTyped(p, q)
      BY <3>1, DrawTyped
    <3>3. QED
      BY <3>2 DEF p, q
  <2>2. ASSUME NEW i \in DOMAIN syk[f], parts[i] = syk[f][i]
        PROVE  DrawnByPage(parts[i]) /\ KeepsTyped(syk[f][i], parts[i])
    BY <2>2, PhraseOfKey DEF KeepsTyped
  <2>3. QED
    BY <2>1, <2>2
<1>2. SameParts(syk[f], parts)
  BY <1>1 DEF SameParts
<1>3. typed' \in Nat
  BY DEF AssistentInv, AssistentTypeOK
<1>4. QED
  BY <1>1, <1>2, <1>3, PhraseChanges
LEMMA RandomizeKeeps ==
  ASSUME AssistentInv, NEW f \in Phrases, Randomize(f)
  PROVE  AssistentInv' /\ Kept
<1> DEFINE parts == [i \in DOMAIN syk[f] |-> Draw(syk[f][i], syk[f][i].minMax.max)]
<1>1. /\ syk[f] \in Seq(Parts)
      /\ \A i \in DOMAIN syk[f] :
           syk[f][i] \in Parts /\ DrawnByPage(syk[f][i]) /\ syk[f][i].minMax.max \in Nat
  BY PhraseOfKey
<1>2. ASSUME NEW i \in DOMAIN syk[f] PROVE parts[i] \in Parts
  <2>1. Draw(syk[f][i], syk[f][i].minMax.max) \in Parts
    BY <1>1, DrawTyped
  <2>2. QED
    BY <2>1
<1>3. ChangesKey([syk EXCEPT ![f] = parts]) /\ typed' = typed
  BY DEF Randomize
<1>4. \A i \in DOMAIN syk[f] : \E n \in Nat : parts[i] = Draw(syk[f][i], n)
  BY <1>1
<1>5. DOMAIN parts = DOMAIN syk[f]
  OBVIOUS
<1> HIDE DEF parts
<1>6. parts \in Seq(Parts) /\ Len(parts) = Len(syk[f])
  <2>1. DOMAIN parts = 1 .. Len(syk[f]) /\ Len(syk[f]) \in Nat
    BY <1>1, <1>5
  <2>2. parts \in [1 .. Len(syk[f]) -> Parts]
    BY <1>2, <2>1 DEF parts
  <2>3. QED
    BY <2>1, <2>2
<1>7. QED
  BY <1>3, <1>4, <1>6, DrawKeeps

LEMMA DiceKeeps ==
  ASSUME AssistentInv, DiceAll \/ \E i \in 1 .. NParts : DiceOne(i)
  PROVE  AssistentInv' /\ Kept
<1>1. /\ syk.pass \in Seq(Parts) /\ syk["pass"] = syk.pass /\ "pass" \in Phrases
      /\ \A i \in DOMAIN syk.pass : syk.pass[i] \in Parts /\ DrawnByPage(syk.pass[i])
  BY PhraseOfKey DEF Phrases
<1>2. \A i \in DOMAIN syk.pass :
        Diced(syk.pass[i]) \in Parts /\ Diced(syk.pass[i]) = Draw(syk.pass[i], 1)
  BY <1>1, DrawTyped DEF Diced
<1>3. CASE DiceAll
  <2> DEFINE parts == [i \in DOMAIN syk.pass |-> Diced(syk.pass[i])]
  <2>1. ChangesKey([syk EXCEPT !["pass"] = parts]) /\ typed' = typed
    BY <1>3 DEF DiceAll
  <2>2. \A i \in DOMAIN syk.pass : \E n \in Nat : parts[i] = Draw(syk.pass[i], n)
    BY <1>2
  <2>3. parts \in Seq(Parts) /\ Len(parts) = Len(syk.pass)
    BY <1>1, <1>2
  <2> HIDE DEF parts
  <2>4. QED
    BY <1>1, <2>1, <2>2, <2>3, DrawKeeps
<1>4. ASSUME NEW j \in 1 .. NParts, DiceOne(j) PROVE AssistentInv' /\ Kept
  <2> DEFINE parts == [syk.pass EXCEPT ![j] = Diced(syk.pass[j])]
  <2>1. ChangesKey([syk EXCEPT !["pass"] = parts]) /\ typed' = typed /\ j \in DOMAIN syk.pass
    BY <1>4 DEF DiceOne
  <2>2. \A i \in DOMAIN syk.pass :
          parts[i] = syk.pass[i] \/ \E n \in Nat : parts[i] = Draw(syk.pass[i], n)
    BY <1>1, <1>2
  <2>3. parts \in Seq(Parts) /\ Len(parts) = Len(syk.pass)
    BY <1>1, <1>2, <2>1
  <2> HIDE DEF parts
  <2>4. QED
    BY <1>1, <2>1, <2>2, <2>3, DrawKeeps
<1>5. QED
  BY <1>3, <1>4

\* The key the server builds has the parts of the page's, so a message from a valid
\* form fits.
LEMMA ServerTakesValid ==
  ASSUME AssistentInv, syk.made, ~reopened, KeyValid
  PROVE  ServerTakes(Message)
<1> DEFINE m == Message
           key == SimpleYubikey(m.names, FALSE, NoName)
<1>1. /\ syk.owners = warrents /\ warrents \in Seq(Ids)
      /\ syk.pass \in Seq(Parts) /\ syk.admin \in Seq(Parts) /\ syk.user \in Seq(Parts)
  BY DEF AssistentInv, AssistentTypeOK, ReopenInv, KeysMade
<1>2. /\ Len(syk.pass) = NParts /\ Len(syk.admin) = Len(warrents) /\ Len(syk.user) = 1
      /\ \A i \in DOMAIN syk.pass : syk.pass[i].minMax = [min |-> 1, max |-> 0]
  BY <1>1 DEF AssistentInv, KeyInv
<1>3. /\ Len(m.names) = Len(warrents) /\ Len(m.pass) = NParts
      /\ Len(m.admin) = Len(warrents) /\ Len(m.user) = 1
      /\ DOMAIN m.pass = 1 .. NParts
      /\ \A i \in 1 .. NParts : m.pass[i] = syk.pass[i].first
  BY <1>1, <1>2 DEF Message, FirstsOf
<1> HIDE DEF m
<1>4. /\ Len(key.pass) = NParts /\ Len(key.admin) = Len(warrents) /\ Len(key.user) = 1
      /\ DOMAIN key.pass = 1 .. NParts
  BY <1>1, <1>3, LengthsAssumption DEF SimpleYubikey, PassParts, PerWarrent
<1>5. \A i \in 1 .. NParts : key.pass[i] =
        NewPart(m.names[((i - 1) % Len(m.names)) + 1], [min |-> 1, max |-> 0], FALSE)
  BY DEF SimpleYubikey, PassParts
<1> HIDE DEF key
<1>6. /\ FillFits(key.pass, m.pass) /\ FillFits(key.admin, m.admin) /\ FillFits(key.user, m.user)
  BY <1>1, <1>3, <1>4, LengthsAssumption DEF FillFits
<1>7. AllValid(Filled(key.pass, m.pass))
  <2> SUFFICES ASSUME NEW i \in 1 .. NParts PROVE PartValid(Filled(key.pass, m.pass)[i])
    BY <1>4 DEF AllValid, Filled
  <2>1. Filled(key.pass, m.pass)[i] = SetPassword(key.pass[i], syk.pass[i].first)
    BY <1>3, <1>4, LengthsAssumption DEF Filled
  <2>2. /\ SetPassword(key.pass[i], syk.pass[i].first).first = syk.pass[i].first
        /\ SetPassword(key.pass[i], syk.pass[i].first).second = syk.pass[i].first
        /\ SetPassword(key.pass[i], syk.pass[i].first).minMax = [min |-> 1, max |-> 0]
    <3> DEFINE o == m.names[((i - 1) % Len(m.names)) + 1]
    <3>1. key.pass[i] = NewPart(o, [min |-> 1, max |-> 0], FALSE)
      BY <1>5
    <3> HIDE DEF o
    <3>2. key.pass[i] = [owner |-> o, minMax |-> [min |-> 1, max |-> 0], dice |-> FALSE,
                         first |-> Empty, second |-> Empty, prev |-> NoValue]
      BY <3>1 DEF NewPart
    <3>3. QED
      BY <3>2 DEF SetPassword
  <2>3. PartValid(syk.pass[i]) /\ syk.pass[i].minMax = [min |-> 1, max |-> 0]
    BY <1>1, <1>2 DEF KeyValid, AllValid
  <2>4. QED
    BY <2>1, <2>2, <2>3 DEF PartValid
<1>8. QED
  BY <1>6, <1>7 DEF ServerTakes, m, key

\* Steps that change nothing of the form.
LEMMA NoChange ==
  ASSUME AssistentInv, UNCHANGED <<page, lists, cards>>
  PROVE  AssistentInv' /\ Kept
<1>1. UNCHANGED <<name, warrents, mounted, done, syk, typed, reopened, lists, cards>>
  BY DEF page
<1>2. QED
  BY <1>1 DEF AssistentInv, AssistentTypeOK, ListInv, KeyInv, ReopenInv, FieldInv, Kept,
              WarrentsValid

LEMMA AssistentStep ==
  ASSUME AssistentInv, [AssistentNext]_assistentVars
  PROVE  /\ AssistentInv' /\ Kept
         /\ outcome' = "crashed" /\ ~UNCHANGED assistentVars => ~KeyValid \/ reopened
<1>1. CASE Ready
  <2>1. outcome' = "crashed" => ~KeyValid \/ reopened
    BY <1>1, ServerTakesValid DEF Ready, ShowsKey
  <2>2. QED
    BY <1>1, <2>1, NoChange DEF Ready
<1>2. CASE DiceThrows \/ Approve
  BY <1>2, NoChange DEF DiceThrows, Approve
<1>3. CASE Mount \/ Unmount \/ ListsArrive \/ CardsChange
  <2>1. UNCHANGED <<name, warrents, syk, typed>> /\ outcome' = "ok"
    BY <1>3 DEF Mount, Unmount, ListsArrive, CardsChange, page
  <2>2. QED
    BY <1>3, <2>1, TabSteps
<1>4. CASE (\E n \in Names \cup {NoName} : TypeName(n)) \/ AddClick
  BY <1>4, TypeNameKeeps, AddClickKeeps DEF TypeName, AddClick
<1>5. CASE DoneClick
  BY <1>5, DoneClickKeeps DEF DoneClick
<1>6. ASSUME NEW k, ChangesKey(k) PROVE outcome' # "crashed"
  BY <1>6 DEF ChangesKey
<1>7. CASE \/ \E c \in Cards : PickCard(c)
           \/ AddUid
           \/ \E i \in 1 .. MaxUids : DelUid(i) \/ \E good \in BOOLEAN : EditUid(i, good)
  <2>1. outcome' # "crashed"
    BY <1>6, <1>7 DEF PickCard, AddUid, DelUid, EditUid
  <2>2. QED
    BY <1>7, <2>1, CardAndUids
<1>8. CASE \E f \in Phrases : \E i \in DOMAIN syk[f], field \in Fields, n \in 0 .. MaxLen :
             TypePart(f, i, field, n)
  <2>1. outcome' # "crashed"
    BY <1>6, <1>8 DEF TypePart
  <2>2. QED
    BY <1>8, <2>1, TypePartKeeps
<1>9. CASE \E f \in {"admin", "user"} : Randomize(f)
  <2>1. outcome' # "crashed"
    BY <1>6, <1>9 DEF Randomize
  <2>2. QED
    BY <1>9, <2>1, RandomizeKeeps DEF Phrases
<1>10. CASE DiceAll \/ \E i \in 1 .. NParts : DiceOne(i)
  <2>1. outcome' # "crashed"
    BY <1>6, <1>10 DEF DiceAll, DiceOne
  <2>2. QED
    BY <1>10, <2>1, DiceKeeps
<1>11. CASE UNCHANGED assistentVars
  <2>1. UNCHANGED <<page, lists, cards>>
    BY <1>11 DEF assistentVars, page
  <2>2. QED
    BY <1>11, <2>1, NoChange
<1>12. QED
  BY <1>1, <1>2, <1>3, <1>4, <1>5, <1>7, <1>8, <1>9, <1>10, <1>11 DEF AssistentNext
-----------------------------------------------------------------------------
(* Assistent: what follows. *)

LEMMA AssistentInvariant == AssistentSpec => []AssistentInv
<1>1. AssistentInv /\ [AssistentNext]_assistentVars => AssistentInv'
  BY AssistentStep
<1>2. QED
  BY <1>1, AssistentStart, PTL DEF AssistentSpec

\* The form shown is for the people of the list, unless the list was opened again.
THEOREM FormIsForTheList == AssistentSpec => []FormFits
<1>1. AssistentInv => FormFits
  <2> SUFFICES ASSUME AssistentInv, ShowsKey, ~reopened
               PROVE  /\ WarrentsValid(warrents, name) /\ syk.owners = warrents
                      /\ Owners(syk.admin) = {warrents[i] : i \in DOMAIN warrents}
                      /\ Len(warrents) <= NParts => Owners(syk.pass) = Owners(syk.admin)
    BY DEF FormFits
  <2>1. syk.made /\ syk.owners = warrents /\ WarrentsValid(warrents, name)
    BY DEF ShowsKey, AssistentInv, ReopenInv
  <2> DEFINE N == Len(warrents)
  <2>2. /\ N \in Nat \ {0} /\ NParts \in Nat \ {0} /\ DOMAIN warrents = 1 .. N
        /\ DOMAIN syk.admin = 1 .. N /\ DOMAIN syk.pass = 1 .. NParts
    BY <2>1, LengthsAssumption
       DEF AssistentInv, AssistentTypeOK, KeyInv, ListInv, KeysMade
  <2>3. /\ \A i \in 1 .. N : syk.admin[i].owner = warrents[i]
        /\ \A i \in 1 .. NParts : syk.pass[i].owner = warrents[((i - 1) % N) + 1]
    BY <2>1, <2>2 DEF AssistentInv, KeyInv
  <2> HIDE DEF N
  <2>4. Owners(syk.admin) = {warrents[i] : i \in 1 .. N}
    BY <2>2, <2>3 DEF Owners
  <2>5. ASSUME N <= NParts PROVE Owners(syk.pass) = {warrents[i] : i \in 1 .. N}
    <3>1. \A i \in 1 .. N : i \in 1 .. NParts /\ ((i - 1) % N) + 1 = i
      <4>1. \A k \in 0 .. N - 1 : k % N = k
        BY <2>2
      <4>2. \A i \in 1 .. N : i - 1 \in 0 .. N - 1 /\ i \in 1 .. NParts /\ i = (i - 1) + 1
        BY <2>2, <2>5
      <4>3. QED
        BY <4>1, <4>2
    <3>2. \A i \in 1 .. NParts : ((i - 1) % N) + 1 \in 1 .. N
      BY <2>2
    <3>3. Owners(syk.pass) = {syk.pass[i].owner : i \in 1 .. NParts}
      BY <2>2 DEF Owners
    <3>4. \A i \in 1 .. N : syk.pass[i].owner = warrents[i]
      BY <2>3, <3>1
    <3>5. \A i \in 1 .. NParts : \E j \in 1 .. N : syk.pass[i].owner = warrents[j]
      BY <2>3, <3>2
    <3>6. QED
      BY <3>1, <3>3, <3>4, <3>5
  <2>6. QED
    BY <2>1, <2>2, <2>4, <2>5 DEF N
<1>2. QED
  BY <1>1, AssistentInvariant, PTL

\* A message from a valid form never ends the server, unless the list of its people
\* was opened again.
THEOREM ValidFormIsTaken == AssistentSpec => TakenByServer
<1>1. AssistentInv /\ [AssistentNext]_assistentVars
        => [outcome' = "crashed" => ~KeyValid \/ reopened]_assistentVars
  BY AssistentStep
<1>2. QED
  BY <1>1, AssistentInvariant, PTL DEF AssistentSpec, TakenByServer

\* What a person typed in a part is replaced by a person only.
THEOREM NobodyOverwrites == AssistentSpec => TypedStays
<1>1. AssistentInv /\ [AssistentNext]_assistentVars => [Kept]_assistentVars
  BY AssistentStep
<1>2. QED
  BY <1>1, AssistentInvariant, PTL DEF AssistentSpec, TypedStays, Kept

\* The digits dealt out to the parts are as many as there are to deal: place k of the
\* pin goes to part k % n + 1.
LEMMA SumOfDealt ==
  ASSUME NEW n \in Nat \ {0}, NEW L \in Nat, NEW parts, DOMAIN parts = 1 .. n,
         \A i \in 1 .. n : parts[i].first.len = Dealt(L, n, i)
  PROVE  TotalLen(parts) = L
<1> DEFINE len(i) == parts[i].first.len
           S(i) == {k \in 0 .. L - 1 : k % n = i - 1}
           T == UNION {{i} \X (1 .. len(i)) : i \in 1 .. n}
           b == [i \in 1 .. n |-> CHOOSE g : g \in Bijection(1 .. len(i), S(i))]
           f == [c \in T |-> b[c[1]][c[2]]]
<1>1. IsFiniteSet(0 .. L - 1) /\ Cardinality(0 .. L - 1) = L
  BY FS_Interval
<1>2. ASSUME NEW i \in 1 .. n PROVE b[i] \in Bijection(1 .. len(i), S(i))
  <2>1. IsFiniteSet(S(i)) /\ Cardinality(S(i)) = len(i)
    BY <1>1, FS_Subset DEF Dealt
  <2> HIDE DEF S, len
  <2>2. ExistsBijection(1 .. len(i), S(i))
    BY <2>1, FS_CardinalityType
  <2>3. \E g : g \in Bijection(1 .. len(i), S(i))
    BY <2>2 DEF ExistsBijection
  <2>4. b[i] = CHOOSE g : g \in Bijection(1 .. len(i), S(i))
    OBVIOUS
  <2>5. QED
    BY <2>3, <2>4
<1> HIDE DEF b, len
<1>3. \A i \in 1 .. n :
        /\ \A k \in 1 .. len(i) : b[i][k] \in S(i)
        /\ \A k, m \in 1 .. len(i) : b[i][k] = b[i][m] => k = m
        /\ \A x \in S(i) : \E k \in 1 .. len(i) : b[i][k] = x
  <2> HIDE DEF S
  <2> SUFFICES ASSUME NEW i \in 1 .. n
               PROVE  /\ \A k \in 1 .. len(i) : b[i][k] \in S(i)
                      /\ \A k, m \in 1 .. len(i) : b[i][k] = b[i][m] => k = m
                      /\ \A x \in S(i) : \E k \in 1 .. len(i) : b[i][k] = x
    OBVIOUS
  <2> DEFINE g == b[i]
             D == 1 .. len(i)
             R == S(i)
  <2>1. g \in Bijection(D, R)
    BY <1>2
  <2> HIDE DEF g, D, R
  <2>2. g \in [D -> R] /\ IsInjective(g) /\ \A x \in R : \E k \in D : g[k] = x
    BY <2>1 DEF Bijection, Injection, Surjection
  <2>3. \A k, m \in D : g[k] = g[m] => k = m
    BY <2>2 DEF IsInjective
  <2>4. \A k \in D : g[k] \in R
    BY <2>2
  <2>5. QED
    BY <2>2, <2>3, <2>4 DEF g, D, R
<1>4. /\ \A c \in T : \E i \in 1 .. n : \E k \in 1 .. len(i) : c = <<i, k>>
      /\ \A i \in 1 .. n : \A k \in 1 .. len(i) : <<i, k>> \in T /\ f[<<i, k>>] = b[i][k]
  <2>1. \A c \in T : \E i \in 1 .. n : \E k \in 1 .. len(i) : c = <<i, k>>
    OBVIOUS
  <2>2. \A i \in 1 .. n : \A k \in 1 .. len(i) : <<i, k>> \in T
    OBVIOUS
  <2> HIDE DEF T
  <2>3. QED
    BY <2>1, <2>2
<1>5. DOMAIN f = T
  OBVIOUS
<1>6. f = [c \in T |-> f[c]]
  OBVIOUS
<1> HIDE DEF f, T
<1>7. f \in Injection(T, 0 .. L - 1)
  <2>1. \A c \in T : f[c] \in 0 .. L - 1
    BY <1>3, <1>4
  <2>2. \A c, d \in T : f[c] = f[d] => c = d
    <3> SUFFICES ASSUME NEW i \in 1 .. n, NEW k \in 1 .. len(i), NEW j \in 1 .. n,
                        NEW m \in 1 .. len(j), b[i][k] = b[j][m]
                 PROVE  i = j /\ k = m
      BY <1>4
    <3>1. b[i][k] % n = i - 1 /\ b[j][m] % n = j - 1
      BY <1>3
    <3>2. i = j
      BY <3>1
    <3>3. QED
      BY <1>3, <3>2
  <2>3. f \in [T -> 0 .. L - 1]
    BY <1>6, <2>1
  <2>4. QED
    BY <2>2, <2>3 DEF Injection, IsInjective
<1>8. f \in Surjection(T, 0 .. L - 1)
  <2>1. ASSUME NEW x \in 0 .. L - 1 PROVE \E c \in T : f[c] = x
    <3>1. (x % n) + 1 \in 1 .. n /\ x \in S((x % n) + 1)
      OBVIOUS
    <3>2. PICK k \in 1 .. len((x % n) + 1) : b[(x % n) + 1][k] = x
      BY <1>3, <3>1
    <3>3. QED
      BY <1>4, <3>1, <3>2
  <2>2. f \in [T -> 0 .. L - 1]
    BY <1>7 DEF Injection
  <2>3. QED
    BY <2>1, <2>2 DEF Surjection
<1>9. Cardinality(T) = L
  BY <1>1, <1>7, <1>8, FS_Injection
<1>10. TotalLen(parts) = Cardinality(T)
  BY DEF TotalLen, T, len
<1>11. QED
  BY <1>9, <1>10

\* All of one part, and at least one digit for each of no more parts than digits.
LEMMA DealtToAll ==
  ASSUME NEW L \in Nat
  PROVE  /\ Dealt(L, 1, 1) = L
         /\ \A n \in Nat \ {0} : \A i \in 1 .. n :
              Dealt(L, n, i) \in Nat /\ (n <= L => Dealt(L, n, i) > 0)
<1>1. IsFiniteSet(0 .. L - 1) /\ Cardinality(0 .. L - 1) = L
  BY FS_Interval
<1>2. Dealt(L, 1, 1) = L
  <2>1. {k \in 0 .. L - 1 : k % 1 = 1 - 1} = 0 .. L - 1
    OBVIOUS
  <2>2. QED
    BY <1>1, <2>1 DEF Dealt
<1>3. ASSUME NEW n \in Nat \ {0}, NEW i \in 1 .. n
      PROVE  Dealt(L, n, i) \in Nat /\ (n <= L => Dealt(L, n, i) > 0)
  <2> DEFINE S == {k \in 0 .. L - 1 : k % n = i - 1}
  <2>1. IsFiniteSet(S) /\ Cardinality(S) \in Nat
    BY <1>1, FS_Subset, FS_CardinalityType
  <2>2. n <= L => i - 1 \in S
    OBVIOUS
  <2>3. Cardinality(S) = 0 <=> S = {}
    BY <2>1, FS_EmptySet
  <2>4. Dealt(L, n, i) = Cardinality(S)
    BY DEF Dealt
  <2> HIDE DEF S
  <2>5. QED
    BY <2>1, <2>2, <2>3, <2>4
<1>4. QED
  BY <1>2, <1>3

LEMMA ValidPins == AssistentInv => PinLength
<1> SUFFICES ASSUME AssistentInv, syk.made
             PROVE  /\ AllValid(syk.admin) /\ Len(syk.owners) <= AdminLen
                         => TotalLen(syk.admin) = AdminLen
                    /\ AllValid(syk.user) => TotalLen(syk.user) \in UserMin .. UserMax
  BY DEF PinLength
<1>1. /\ syk.admin \in Seq(Parts) /\ syk.user \in Seq(Parts)
      /\ AdminLen \in Nat \ {0} /\ UserMin \in Nat \ {0} /\ UserMax \in Nat \ {0}
  BY LengthsAssumption DEF AssistentInv, AssistentTypeOK, KeysMade
<1> DEFINE n == Len(syk.owners)
<1>2. /\ n \in Nat \ {0} /\ DOMAIN syk.admin = 1 .. n /\ DOMAIN syk.user = 1 .. 1
      /\ \A i \in 1 .. n : syk.admin[i].minMax = MinMax(n, i, AdminLen, AdminLen)
      /\ syk.user[1].minMax = MinMax(1, 1, UserMin, UserMax)
  BY <1>1 DEF AssistentInv, AssistentTypeOK, KeysMade, KeyInv
<1> HIDE DEF n
<1>3. /\ \A i \in 1 .. n : syk.admin[i].first.len \in Nat
      /\ syk.user[1].first.len \in Nat
  <2>1. \A p \in Parts : p.first.len \in Nat
    BY DEF Parts, Values
  <2>2. (\A i \in 1 .. n : syk.admin[i] \in Parts) /\ syk.user[1] \in Parts
    BY <1>1, <1>2
  <2> HIDE DEF Parts
  <2>3. QED
    BY <2>1, <2>2
<1>4. ASSUME AllValid(syk.admin), n <= AdminLen PROVE TotalLen(syk.admin) = AdminLen
  <2>1. ASSUME NEW i \in 1 .. n PROVE syk.admin[i].first.len = Dealt(AdminLen, n, i)
    <3>1. Dealt(AdminLen, n, i) \in Nat /\ Dealt(AdminLen, n, i) > 0
      BY <1>1, <1>2, <1>4, DealtToAll
    <3>2. Matches(syk.admin[i].first, syk.admin[i].minMax)
      BY <1>2, <1>4 DEF AllValid, PartValid
    <3>3. /\ syk.admin[i].minMax.min = Dealt(AdminLen, n, i)
          /\ syk.admin[i].minMax.max = Dealt(AdminLen, n, i)
      <4>1. syk.admin[i].minMax = MinMax(n, i, AdminLen, AdminLen)
        BY <1>2
      <4>2. /\ MinMax(n, i, AdminLen, AdminLen).min = Dealt(AdminLen, n, i)
            /\ MinMax(n, i, AdminLen, AdminLen).max = Dealt(AdminLen, n, i)
        BY DEF MinMax
      <4>3. QED
        BY <4>1, <4>2
    <3>4. QED
      BY <1>3, <3>1, <3>2, <3>3 DEF Matches
  <2>2. QED
    BY <1>1, <1>2, <2>1, SumOfDealt
<1>5. ASSUME AllValid(syk.user) PROVE TotalLen(syk.user) \in UserMin .. UserMax
  <2> DEFINE L == syk.user[1].first.len
  <2>1. Dealt(UserMin, 1, 1) = UserMin /\ Dealt(UserMax, 1, 1) = UserMax /\ Dealt(L, 1, 1) = L
    BY <1>1, <1>3, DealtToAll
  <2>2. Matches(syk.user[1].first, syk.user[1].minMax)
    BY <1>2, <1>5 DEF AllValid, PartValid
  <2>3. syk.user[1].minMax.min = UserMin /\ syk.user[1].minMax.max = UserMax
    BY <1>2, <2>1 DEF MinMax
  <2>4. L \in UserMin .. UserMax
    BY <1>1, <1>3, <2>2, <2>3 DEF Matches
  <2>5. \A i \in 1 .. 1 : syk.user[i].first.len = Dealt(L, 1, i)
    BY <2>1
  <2>6. TotalLen(syk.user) = L
    <3>1. L \in Nat /\ 1 \in Nat \ {0} /\ DOMAIN syk.user = 1 .. 1
      BY <1>2, <1>3
    <3> HIDE DEF L
    <3>2. QED
      BY <2>5, <3>1, SumOfDealt
  <2>7. QED
    BY <2>4, <2>6
<1>6. QED
  BY <1>4, <1>5 DEF n

\* Pins that are valid part by part are as long, all together, as they must be.
THEOREM PinsAreLongEnough == AssistentSpec => []PinLength
BY ValidPins, AssistentInvariant, PTL
-----------------------------------------------------------------------------
(* The dialogs of a card. *)

AttrValues == [by : {"owner", "page", "nobody"}, how : {"plain", "odd"}]
FormsOfCard == [AttrFields -> AttrValues]
CardsShown == [id : YubiKeys, attrs : FormsOfCard]
Flags == {"unheard", "unsure", "stale"}
OpenDialogs ==
  [kind : Kinds, txn : Nat, id : YubiKeys, form : FormsOfCard, edited : SUBSET AttrFields,
   running : BOOLEAN, flags : SUBSET Flags]
SentRequests ==
  [kind : Kinds, txn : Nat, id : YubiKeys, form : FormsOfCard, edited : SUBSET AttrFields,
   flags : SUBSET Flags]

\* Every variable has its type.
DialogsTypeOK ==
  /\ inserted \subseteq YubiKeys /\ attrs \in [YubiKeys -> FormsOfCard]
  /\ connected \in BOOLEAN /\ shown \in Seq(CardsShown)
  /\ dialog \in OpenDialogs \cup {NoDialog} /\ pending \subseteq SentRequests
  /\ progress \subseteq Nat /\ blank \in BOOLEAN /\ opened \in Nat
  /\ listed \subseteq YubiKeys /\ dirty \subseteq YubiKeys
  /\ parted \in BOOLEAN /\ moved \in BOOLEAN

\* A transaction is the number of its dialog; before the button is pressed it is
\* nowhere, and if the request is cut off, so is its dialog.
TxnInv ==
  /\ \A p \in pending : p.txn <= opened
  /\ \A t \in progress : t <= opened
  /\ dialog # NoDialog =>
       /\ dialog.txn = opened
       /\ ~dialog.running => opened \notin progress /\ \A p \in pending : p.txn # opened
       /\ \A p \in pending :
            p.txn = opened /\ "unheard" \in p.flags => "unheard" \in dialog.flags

\* What the page shows of a card is what is on it, unless it is dirty; the cards it
\* shows are those listed, and those in the readers, unless one parted or moved.
ShownInv ==
  /\ \A i \in DOMAIN shown :
       shown[i].attrs = attrs[shown[i].id] \/ shown[i].id \in dirty
  /\ ~parted => IdsOf(shown) \subseteq listed
  /\ ~moved /\ shown # <<>> => listed = inserted

\* A form that is not stale has what is on the card in all fields not edited, and
\* a card that is to be wiped for sure is in a reader.
Faithful(x, onCard, in) ==
  /\ x.kind = "changeAttributes" /\ "stale" \notin x.flags =>
       \A f \in AttrFields \ x.edited : x.form[f] = onCard[x.id][f]
  /\ x.kind = "resetYubikey" /\ "unsure" \notin x.flags => x.id \in in

FormInv ==
  /\ dialog # NoDialog => Faithful(dialog, attrs, inserted)
  /\ \A p \in pending : Faithful(p, attrs, inserted)

DialogsInv == DialogsTypeOK /\ TxnInv /\ ShownInv /\ FormInv /\ OneTryPerDialog
-----------------------------------------------------------------------------
(* Marking dialogs and requests. *)

\* y is x, with flag perhaps added; with it if x is of a card in cs and can have it.
Marked(x, y, cs, flag) ==
  /\ y.kind = x.kind /\ y.txn = x.txn /\ y.id = x.id /\ y.form = x.form /\ y.edited = x.edited
  /\ x.flags \subseteq y.flags /\ y.flags \subseteq x.flags \cup {flag}
  /\ x.id \in cs /\ flag \in FlagsOf(x.kind) => flag \in y.flags

LEMMA NoDialogIsNone == NoDialog \notin OpenDialogs /\ NoDialog \notin SentRequests
BY DEF NoDialog, OpenDialogs, SentRequests, Kinds

LEMMA FlaggedRequest ==
  ASSUME NEW p \in SentRequests, NEW cs, NEW flag \in Flags
  PROVE  Flagged(p, cs, flag) \in SentRequests /\ Marked(p, Flagged(p, cs, flag), cs, flag)
<1>1. CASE p.id \in cs /\ flag \in FlagsOf(p.kind)
  <2>1. Flagged(p, cs, flag) = [p EXCEPT !.flags = @ \cup {flag}]
    BY <1>1, NoDialogIsNone DEF Flagged
  <2>2. QED
    BY <2>1 DEF SentRequests, Marked
<1>2. CASE ~(p.id \in cs /\ flag \in FlagsOf(p.kind))
  BY <1>2 DEF Flagged, Marked
<1>3. QED
  BY <1>1, <1>2

LEMMA FlaggedDialog ==
  ASSUME NEW d \in OpenDialogs, NEW cs, NEW flag \in Flags
  PROVE  /\ Flagged(d, cs, flag) \in OpenDialogs /\ Marked(d, Flagged(d, cs, flag), cs, flag)
         /\ Flagged(d, cs, flag).running = d.running
<1>1. CASE d.id \in cs /\ flag \in FlagsOf(d.kind)
  <2>1. Flagged(d, cs, flag) = [d EXCEPT !.flags = @ \cup {flag}]
    BY <1>1, NoDialogIsNone DEF Flagged
  <2>2. QED
    BY <2>1 DEF OpenDialogs, Marked
<1>2. CASE ~(d.id \in cs /\ flag \in FlagsOf(d.kind))
  BY <1>2 DEF Flagged, Marked
<1>3. QED
  BY <1>1, <1>2

LEMMA FlaggedNone == ASSUME NEW cs, NEW flag PROVE Flagged(NoDialog, cs, flag) = NoDialog
BY DEF Flagged

\* The requests of R are kept, and marked.
Keeps(R, cs, flag) ==
  /\ pending' \subseteq SentRequests
  /\ \A q \in pending' : \E p \in R : Marked(p, q, cs, flag)
  /\ \A p \in R : \E q \in pending' : q.txn = p.txn
  /\ (\A p, q \in R : p.txn = q.txn => p = q)
       => \A p, q \in pending' : p.txn = q.txn => p = q

LEMMA KeepsFlagged ==
  ASSUME NEW R \in SUBSET SentRequests, NEW cs, NEW flag \in Flags,
         pending' = {Flagged(p, cs, flag) : p \in R}
  PROVE  Keeps(R, cs, flag)
<1>1. \A p \in R : Flagged(p, cs, flag) \in SentRequests
        /\ Marked(p, Flagged(p, cs, flag), cs, flag)
  BY FlaggedRequest
<1>2. \A p \in R : Flagged(p, cs, flag).txn = p.txn
  BY <1>1 DEF Marked
<1>3. QED
  BY <1>1, <1>2 DEF Keeps

\* The dialog stays, and is marked.
StaysOpen(cs, flag) ==
  /\ dialog' \in OpenDialogs \cup {NoDialog}
  /\ dialog' = NoDialog <=> dialog = NoDialog
  /\ dialog # NoDialog =>
       Marked(dialog, dialog', cs, flag) /\ dialog'.running = dialog.running

LEMMA StaysFlagged ==
  ASSUME DialogsTypeOK, NEW cs, NEW flag \in Flags, dialog' = Flagged(dialog, cs, flag)
  PROVE  StaysOpen(cs, flag)
<1>1. CASE dialog = NoDialog
  BY <1>1, FlaggedNone DEF StaysOpen
<1>2. CASE dialog # NoDialog
  BY <1>2, FlaggedDialog, NoDialogIsNone DEF StaysOpen, DialogsTypeOK
<1>3. QED
  BY <1>1, <1>2

\* A step that leaves them alone marks nothing.
LEMMA NothingMarked ==
  ASSUME DialogsTypeOK
  PROVE  /\ \A R \in SUBSET pending : pending' = R => Keeps(R, {}, "stale")
         /\ dialog' = dialog => StaysOpen({}, "stale")
<1>1. \A x : Marked(x, x, {}, "stale")
  BY DEF Marked
<1>2. QED
  BY <1>1 DEF Keeps, StaysOpen, DialogsTypeOK

\* Requests end with their transaction told, or unheard; all others are kept.
LEMMA MarkedTxn ==
  ASSUME DialogsInv, NEW R \in SUBSET pending, NEW cs, NEW flag \in {"unsure", "stale"},
         Keeps(R, cs, flag), StaysOpen(cs, flag), opened' = opened,
         progress \subseteq progress',
         \A t \in progress' \ progress : \E p \in pending \ R : t = p.txn,
         \A p \in pending \ R : p.txn \in progress' \/ "unheard" \in p.flags
  PROVE  TxnInv' /\ OneTryPerDialog'
<1>1. \A q \in pending' : \E p \in R : p.txn = q.txn
        /\ ("unheard" \in q.flags => "unheard" \in p.flags)
  BY DEF Keeps, Marked
<1>2. dialog' # NoDialog =>
        /\ dialog # NoDialog /\ dialog'.txn = dialog.txn /\ dialog'.running = dialog.running
        /\ dialog.flags \subseteq dialog'.flags
  BY DEF StaysOpen, Marked
<1>3. \A p, q \in pending : p.txn = q.txn => p = q
  BY DEF DialogsInv, OneTryPerDialog
<1>4. TxnInv'
  <2>1. (\A p \in pending : p.txn <= opened)' /\ (\A t \in progress : t <= opened)'
    BY <1>1 DEF DialogsInv, TxnInv
  <2>2. dialog' # NoDialog /\ ~dialog'.running => opened \notin progress'
    BY <1>2 DEF DialogsInv, TxnInv
  <2>3. dialog' # NoDialog /\ ~dialog'.running => \A p \in pending' : p.txn # opened
    BY <1>1, <1>2 DEF DialogsInv, TxnInv
  <2>4. dialog' # NoDialog => \A p \in pending' :
          p.txn = opened /\ "unheard" \in p.flags => "unheard" \in dialog'.flags
    BY <1>1, <1>2 DEF DialogsInv, TxnInv
  <2>5. dialog' # NoDialog => dialog'.txn = opened
    BY <1>2 DEF DialogsInv, TxnInv
  <2>6. QED
    BY <2>1, <2>2, <2>3, <2>4, <2>5 DEF TxnInv
<1>5. \A p, q \in pending' : p.txn = q.txn => p = q
  BY <1>3 DEF Keeps
<1>6. \A p \in pending' : p.txn \notin progress'
  BY <1>1, <1>3 DEF DialogsInv, OneTryPerDialog
<1>7. dialog' # NoDialog /\ dialog'.running =>
        \/ \E p \in pending' : p.txn = dialog'.txn
        \/ dialog'.txn \in progress' \/ "unheard" \in dialog'.flags
  <2> SUFFICES ASSUME dialog' # NoDialog, dialog'.running, "unheard" \notin dialog'.flags,
                      dialog'.txn \notin progress'
               PROVE  \E p \in pending' : p.txn = dialog'.txn
    OBVIOUS
  <2>1. PICK p \in pending : p.txn = dialog.txn
    BY <1>2 DEF DialogsInv, OneTryPerDialog
  <2>2. "unheard" \notin p.flags
    BY <1>2, <2>1 DEF DialogsInv, TxnInv
  <2>3. p \in R
    BY <1>2, <2>1, <2>2
  <2>4. QED
    BY <1>2, <2>1, <2>3 DEF Keeps
<1>8. QED
  BY <1>4, <1>5, <1>6, <1>7 DEF OneTryPerDialog

\* Who is not marked stale is of a card nobody wrote, and who is not marked unsure
\* of no card, or of a step that plugs none.
LEMMA MarkedForms ==
  ASSUME DialogsInv, NEW R \in SUBSET pending, NEW cs, NEW flag,
         Keeps(R, cs, flag), StaysOpen(cs, flag),
         \A c \in YubiKeys : attrs'[c] = attrs[c] \/ (c \in cs /\ flag = "stale"),
         inserted' = inserted \/ (cs = YubiKeys /\ flag = "unsure")
  PROVE  FormInv'
<1>1. ASSUME NEW x, NEW y, Marked(x, y, cs, flag), x.id \in YubiKeys,
             Faithful(x, attrs, inserted)
      PROVE  Faithful(y, attrs', inserted')
  <2>1. y.kind = "changeAttributes" /\ "stale" \notin y.flags => attrs'[x.id] = attrs[x.id]
    BY <1>1 DEF Marked, FlagsOf
  <2>2. y.kind = "resetYubikey" /\ "unsure" \notin y.flags => inserted' = inserted
    BY <1>1 DEF Marked, FlagsOf
  <2>3. QED
    BY <1>1, <2>1, <2>2 DEF Marked, Faithful
<1>2. \A q \in pending' : Faithful(q, attrs', inserted')
  <2>1. \A p \in pending : p.id \in YubiKeys
    BY DEF DialogsInv, DialogsTypeOK, SentRequests
  <2>2. QED
    BY <1>1, <2>1 DEF Keeps, DialogsInv, FormInv
<1>3. dialog' # NoDialog => Faithful(dialog', attrs', inserted')
  <2>1. dialog # NoDialog => dialog.id \in YubiKeys
    BY DEF DialogsInv, DialogsTypeOK, OpenDialogs
  <2>2. QED
    BY <1>1, <2>1 DEF StaysOpen, DialogsInv, FormInv
<1>4. QED
  BY <1>2, <1>3 DEF FormInv
-----------------------------------------------------------------------------
(* The list a message makes of the one before. *)

\* A message without doubles names no card twice, so there are enough cards in the
\* list and the message to cut the list to the length of the message.
LEMMA MergedCards ==
  ASSUME NEW list \in Seq(CardsShown), NEW m \in Seq(CardsShown),
         \A i, j \in DOMAIN m : m[i].id = m[j].id => i = j,
         NEW fresh \in SetToSeqs(Fresh(list, m))
  PROVE  /\ Merged(list, m, fresh) \in Seq(CardsShown)
         /\ Len(Merged(list, m, fresh)) = Len(m)
         /\ \A k \in DOMAIN Merged(list, m, fresh) :
              \/ \E j \in DOMAIN m : Merged(list, m, fresh)[k] = m[j]
              \/ \E j \in DOMAIN list :
                   Merged(list, m, fresh)[k] = list[j] /\ list[j].id \notin IdsOf(m)
<1> DEFINE D == DOMAIN m
           F == Fresh(list, m)
           A == [i \in DOMAIN list |->
                   IF list[i].id \in IdsOf(m) THEN Known(m, list[i].id) ELSE list[i]]
           B == [k \in DOMAIN fresh |-> m[fresh[k]]]
           W == MergedWhole(list, m, fresh)
<1>1. D = 1 .. Len(m) /\ IsFiniteSet(D) /\ Cardinality(D) = Len(m) /\ Len(m) \in Nat
  BY FS_Interval
<1>2. F \subseteq D /\ IsFiniteSet(F) /\ Cardinality(F) \in Nat
  BY <1>1, FS_Subset, FS_CardinalityType DEF Fresh
<1>3. fresh \in [1 .. Cardinality(F) -> F]
  BY DEF SetToSeqs
<1>4. fresh \in Seq(F) /\ Len(fresh) = Cardinality(F)
  BY <1>2, <1>3
<1>5. Len(m) <= Len(list) + Len(fresh)
  <2> DEFINE at == [i \in D \ F |-> CHOOSE j \in DOMAIN list : list[j].id = m[i].id]
  <2>1. \A i \in D \ F : \E j \in DOMAIN list : list[j].id = m[i].id
    BY DEF Fresh, IdsOf
  <2>2. \A i \in D \ F : at[i] \in DOMAIN list /\ list[at[i]].id = m[i].id
    BY <2>1
  <2>3. at \in Injection(D \ F, DOMAIN list)
    <3>1. at \in [D \ F -> DOMAIN list]
      BY <2>2
    <3>2. DOMAIN at = D \ F
      OBVIOUS
    <3> HIDE DEF at, D, F
    <3>3. \A a, b \in D \ F : at[a] = at[b] => m[a].id = m[b].id
      BY <2>2
    <3>4. \A a, b \in D \ F : at[a] = at[b] => a = b
      BY <3>3 DEF D
    <3>5. QED
      BY <3>1, <3>2, <3>4 DEF Injection, IsInjective
  <2>4. IsFiniteSet(DOMAIN list) /\ Cardinality(DOMAIN list) = Len(list)
    BY FS_Interval
  <2>5. Cardinality(D \ F) <= Len(list)
    BY <2>3, <2>4, FS_Injection
  <2>6. D \cap F = F
    BY <1>2
  <2>7. Cardinality(D \ F) = Cardinality(D) - Cardinality(D \cap F)
    BY <1>1, FS_Difference
  <2> HIDE DEF D, F
  <2>8. Cardinality(D \ F) = Len(m) - Len(fresh) /\ Len(fresh) \in Nat
    BY <1>1, <1>2, <1>4, <2>6, <2>7
  <2>9. QED
    BY <1>1, <2>5, <2>8
<1>6. A \in Seq(CardsShown) /\ Len(A) = Len(list)
  <2>1. \A i \in DOMAIN list : A[i] \in CardsShown
    BY DEF IdsOf, Known
  <2>2. QED
    BY <2>1
<1>7. B \in Seq(CardsShown) /\ Len(B) = Len(fresh)
  <2>1. \A k \in DOMAIN fresh : fresh[k] \in D
    BY <1>2, <1>3
  <2>2. \A k \in DOMAIN fresh : B[k] \in CardsShown
    BY <2>1
  <2>3. QED
    BY <1>4, <2>2
<1>8. W = A \o B
  BY DEF MergedWhole
<1>9. /\ W \in Seq(CardsShown) /\ Len(W) = Len(list) + Len(fresh)
      /\ \A k \in 1 .. Len(W) : W[k] = IF k <= Len(list) THEN A[k] ELSE B[k - Len(list)]
  BY <1>6, <1>7, <1>8
<1> HIDE DEF W, F
<1>10. \A k \in 1 .. Len(W) :
         \/ \E j \in DOMAIN m : W[k] = m[j]
         \/ \E j \in DOMAIN list : W[k] = list[j] /\ list[j].id \notin IdsOf(m)
  <2> SUFFICES ASSUME NEW k \in 1 .. Len(W)
               PROVE  \/ \E j \in DOMAIN m : W[k] = m[j]
                      \/ \E j \in DOMAIN list : W[k] = list[j] /\ list[j].id \notin IdsOf(m)
    OBVIOUS
  <2>1. CASE k <= Len(list)
    <3> HIDE DEF A, B
    <3>1. W[k] = A[k]
      BY <1>9, <2>1
    <3>2. k \in DOMAIN list
      BY <1>4, <1>9, <2>1
    <3> USE DEF A
    <3>3. CASE list[k].id \in IdsOf(m)
      BY <3>1, <3>2, <3>3 DEF IdsOf, Known
    <3>4. CASE list[k].id \notin IdsOf(m)
      BY <3>1, <3>2, <3>4
    <3>5. QED
      BY <3>3, <3>4
  <2>2. CASE k > Len(list)
    <3> HIDE DEF A, B
    <3>1. k - Len(list) \in 1 .. Len(fresh) /\ W[k] = B[k - Len(list)]
      BY <1>4, <1>9, <2>2
    <3> USE DEF B
    <3>2. fresh[k - Len(list)] \in D /\ W[k] = m[fresh[k - Len(list)]]
      BY <1>2, <1>3, <1>4, <3>1
    <3>3. QED
      BY <3>2
  <2>3. QED
    BY <1>4, <2>1, <2>2
<1>11. /\ SubSeq(W, 1, Len(m)) \in Seq(CardsShown) /\ Len(SubSeq(W, 1, Len(m))) = Len(m)
       /\ \A k \in 1 .. Len(m) : k \in 1 .. Len(W) /\ SubSeq(W, 1, Len(m))[k] = W[k]
  BY <1>1, <1>5, <1>9
<1>12. Merged(list, m, fresh) = SubSeq(W, 1, Len(m))
  BY DEF Merged, W
<1>13. \A k \in DOMAIN Merged(list, m, fresh) : k \in 1 .. Len(W)
         /\ Merged(list, m, fresh)[k] = W[k]
  BY <1>1, <1>11, <1>12
<1> DEFINE M == Merged(list, m, fresh)
<1>14. M \in Seq(CardsShown) /\ Len(M) = Len(m)
  BY <1>11, <1>12
<1> HIDE DEF M
<1>15. \A k \in DOMAIN M :
         \/ \E j \in DOMAIN m : M[k] = m[j]
         \/ \E j \in DOMAIN list : M[k] = list[j] /\ list[j].id \notin IdsOf(m)
  BY <1>10, <1>13 DEF M
<1>16. QED
  BY <1>14, <1>15 DEF M

\* A list names every card that is in, each once, with what is on it.
LEMMA ListOfInserted ==
  ASSUME DialogsTypeOK, NEW order \in SetToSeqs(inserted), NEW m,
         m = [i \in DOMAIN order |-> CardStatus(order[i])]
  PROVE  /\ m \in Seq(CardsShown) /\ IdsOf(m) = inserted
         /\ \A i, j \in DOMAIN m : m[i].id = m[j].id => i = j
         /\ \A i \in DOMAIN m : m[i].attrs = attrs[m[i].id]
         /\ inserted = {} => Len(m) = 0
<1>1. IsFiniteSet(inserted) /\ Cardinality(inserted) \in Nat
  BY YubiKeysAssumption, FS_Subset, FS_CardinalityType DEF DialogsTypeOK
<1> DEFINE D == 1 .. Cardinality(inserted)
<1>2. order \in [D -> inserted] /\ \A i, j \in D : i # j => order[i] # order[j]
  BY DEF SetToSeqs
<1>3. DOMAIN m = D /\ \A i \in D : m[i] = CardStatus(order[i])
  BY <1>2
<1>4. \A i \in D : m[i] \in CardsShown /\ m[i].id = order[i] /\ m[i].attrs = attrs[order[i]]
  BY <1>2, <1>3 DEF CardStatus, CardsShown, DialogsTypeOK
<1>5. m \in Seq(CardsShown) /\ Len(m) = Cardinality(inserted)
  BY <1>1, <1>3, <1>4
<1>6. IdsOf(m) = inserted
  <2>1. order \in Injection(D, inserted)
    BY <1>2 DEF Injection, IsInjective
  <2>2. Cardinality(D) = Cardinality(inserted)
    BY <1>1, FS_Interval
  <2>3. order \in Surjection(D, inserted)
    BY <1>1, <2>1, <2>2, FS_Injection
  <2>4. QED
    BY <1>2, <1>3, <1>4, <2>3 DEF IdsOf, Surjection
<1>7. QED
  BY <1>2, <1>3, <1>4, <1>5, <1>6, FS_EmptySet
-----------------------------------------------------------------------------
(* Every step keeps the invariant. *)

LEMMA DialogsStart == DialogsInit => DialogsInv
<1> SUFFICES ASSUME DialogsInit PROVE DialogsInv
  OBVIOUS
<1>1. DialogsTypeOK
  <2>1. attrs \in [YubiKeys -> FormsOfCard]
    BY DEF DialogsInit, FormsOfCard, AttrValues, Says
  <2>2. shown \in Seq(CardsShown)
    BY DEF DialogsInit
  <2>3. QED
    BY <2>1, <2>2 DEF DialogsInit, DialogsTypeOK
<1>2. TxnInv /\ FormInv /\ OneTryPerDialog
  BY DEF DialogsInit, TxnInv, FormInv, OneTryPerDialog
<1>3. ShownInv
  BY DEF DialogsInit, ShownInv, IdsOf
<1>4. QED
  BY <1>1, <1>2, <1>3 DEF DialogsInv

LEMMA PlugPreserves == ASSUME DialogsInv, NEW c \in YubiKeys, Plug(c) PROVE DialogsInv'
<1>1. Keeps(pending, YubiKeys, "unsure")
  BY KeepsFlagged DEF Plug, Flag, DialogsInv, DialogsTypeOK, Flags
<1>2. StaysOpen(YubiKeys, "unsure")
  BY StaysFlagged DEF Plug, Flag, DialogsInv, Flags
<1>3. TxnInv' /\ OneTryPerDialog'
  BY <1>1, <1>2, MarkedTxn DEF Plug, view
<1>4. FormInv'
  BY <1>1, <1>2, MarkedForms DEF Plug
<1>5. DialogsTypeOK'
  BY <1>1, <1>2 DEF Plug, view, DialogsInv, DialogsTypeOK, Keeps, StaysOpen
<1>6. ShownInv'
  BY DEF Plug, DialogsInv, ShownInv
<1>7. QED
  BY <1>3, <1>4, <1>5, <1>6 DEF DialogsInv

LEMMA ListArrivesPreserves ==
  ASSUME DialogsInv, NEW order \in SetToSeqs(inserted), ListArrives(order) PROVE DialogsInv'
<1> DEFINE m == [i \in DOMAIN order |-> CardStatus(order[i])]
<1>1. PICK fresh \in SetToSeqs(Fresh(shown, m)) : shown' = Merged(shown, m, fresh)
  BY DEF ListArrives
<1>2. /\ m \in Seq(CardsShown) /\ IdsOf(m) = inserted
      /\ \A i, j \in DOMAIN m : m[i].id = m[j].id => i = j
      /\ \A i \in DOMAIN m : m[i].attrs = attrs[m[i].id]
      /\ inserted = {} => Len(m) = 0
  BY ListOfInserted DEF DialogsInv
<1> HIDE DEF m
<1>3. /\ shown' \in Seq(CardsShown) /\ Len(shown') = Len(m)
      /\ \A k \in DOMAIN shown' :
           \/ \E j \in DOMAIN m : shown'[k] = m[j]
           \/ \E j \in DOMAIN shown : shown'[k] = shown[j] /\ shown[j].id \notin IdsOf(m)
  BY <1>1, <1>2, MergedCards DEF DialogsInv, DialogsTypeOK
<1>4. Keeps(pending, {}, "stale") /\ StaysOpen({}, "stale")
  BY NothingMarked DEF ListArrives, DialogsInv
<1>5. TxnInv' /\ OneTryPerDialog'
  BY <1>4, MarkedTxn DEF ListArrives, view
<1>6. FormInv'
  BY <1>4, MarkedForms DEF ListArrives, outside
<1>7. DialogsTypeOK'
  BY <1>3 DEF ListArrives, outside, view, DialogsInv, DialogsTypeOK
<1>8. (\A i \in DOMAIN shown : shown[i].attrs = attrs[shown[i].id] \/ shown[i].id \in dirty)'
  BY <1>2, <1>3 DEF ListArrives, outside, DialogsInv, ShownInv
<1>9. ~parted' => IdsOf(shown') \subseteq listed'
  <2>1. CASE inserted = {}
    <3>1. DOMAIN shown' = {}
      <4>1. shown' \in Seq(CardsShown) /\ Len(shown') = 0
        BY <1>2, <1>3, <2>1
      <4>2. QED
        BY <4>1
    <3>2. QED
      BY <3>1 DEF IdsOf
  <2>2. CASE inserted # {} /\ ~parted /\ listed \subseteq inserted
    <3>1. IdsOf(shown) \subseteq inserted
      BY <2>2 DEF DialogsInv, ShownInv
    <3>2. \A k \in DOMAIN shown' : shown'[k].id \in inserted
      BY <1>2, <1>3, <3>1 DEF IdsOf
    <3>3. listed' = inserted
      BY DEF ListArrives
    <3>4. QED
      BY <3>2, <3>3 DEF IdsOf
  <2>3. QED
    BY <2>1, <2>2 DEF ListArrives
<1>10. listed' = inserted'
  BY DEF ListArrives, outside
<1>11. QED
  BY <1>5, <1>6, <1>7, <1>8, <1>9, <1>10 DEF DialogsInv, ShownInv

LEMMA ConnectionLostPreserves == ASSUME DialogsInv, ConnectionLost PROVE DialogsInv'
<1>1. Keeps(pending, YubiKeys, "unheard")
  BY KeepsFlagged DEF ConnectionLost, DialogsInv, DialogsTypeOK, Flags
<1>2. /\ dialog' \in OpenDialogs \cup {NoDialog}
      /\ dialog' = NoDialog <=> dialog = NoDialog
      /\ dialog # NoDialog =>
           /\ dialog'.kind = dialog.kind /\ dialog'.txn = dialog.txn /\ dialog'.id = dialog.id
           /\ dialog'.form = dialog.form /\ dialog'.edited = dialog.edited
           /\ dialog'.running = dialog.running /\ dialog.flags \subseteq dialog'.flags
           /\ dialog.running => "unheard" \in dialog'.flags
  <2>1. CASE dialog # NoDialog /\ dialog.running
    <3>1. StaysOpen(YubiKeys, "unheard")
      BY <2>1, StaysFlagged DEF ConnectionLost, DialogsInv, Flags
    <3>2. dialog.id \in YubiKeys
      BY <2>1 DEF DialogsInv, DialogsTypeOK, OpenDialogs
    <3>3. QED
      BY <2>1, <3>1, <3>2 DEF StaysOpen, Marked, FlagsOf
  <2>2. CASE ~(dialog # NoDialog /\ dialog.running)
    <3>1. dialog' = dialog
      BY <2>2 DEF ConnectionLost
    <3>2. QED
      BY <2>2, <3>1 DEF DialogsInv, DialogsTypeOK
  <2>3. QED
    BY <2>1, <2>2
<1>3. DialogsTypeOK'
  <2>1. shown' \in Seq(CardsShown)
    BY DEF ConnectionLost
  <2>2. pending' \subseteq SentRequests
    BY <1>1 DEF Keeps
  <2>3. QED
    BY <1>2, <2>1, <2>2 DEF ConnectionLost, outside, view, DialogsInv, DialogsTypeOK
<1>4. ShownInv'
  BY DEF ConnectionLost, ShownInv, IdsOf
<1>5. FormInv'
  <2>1. ASSUME NEW x, NEW y, Faithful(x, attrs, inserted), x.flags \subseteq y.flags,
               y.kind = x.kind, y.id = x.id, y.form = x.form, y.edited = x.edited
        PROVE  Faithful(y, attrs, inserted)
    BY <2>1 DEF Faithful
  <2>2. attrs' = attrs /\ inserted' = inserted
    BY DEF ConnectionLost, outside
  <2>3. \A q \in pending' : Faithful(q, attrs, inserted)
    BY <1>1, <2>1 DEF Keeps, Marked, DialogsInv, FormInv
  <2>4. dialog' # NoDialog => Faithful(dialog', attrs, inserted)
    BY <1>2, <2>1 DEF DialogsInv, FormInv
  <2>5. QED
    BY <2>2, <2>3, <2>4 DEF FormInv
<1>6. \A q \in pending' : \E p \in pending : p.txn = q.txn
  BY <1>1 DEF Keeps, Marked
<1>7. opened' = opened /\ progress' = progress
  BY DEF ConnectionLost, view
<1>8. TxnInv'
  BY <1>2, <1>6, <1>7 DEF DialogsInv, TxnInv
<1>9. OneTryPerDialog'
  <2>1. \A p, q \in pending' : p.txn = q.txn => p = q
    BY <1>1 DEF Keeps, DialogsInv, OneTryPerDialog
  <2>2. QED
    BY <1>2, <1>6, <1>7, <2>1 DEF DialogsInv, OneTryPerDialog
<1>10. QED
  BY <1>3, <1>4, <1>5, <1>8, <1>9 DEF DialogsInv

LEMMA ConnectPreserves == ASSUME DialogsInv, Connect PROVE DialogsInv'
<1>1. Keeps(pending, {}, "stale") /\ StaysOpen({}, "stale")
  BY NothingMarked DEF Connect, DialogsInv
<1>2. TxnInv' /\ OneTryPerDialog'
  BY <1>1, MarkedTxn DEF Connect, view
<1>3. FormInv'
  BY <1>1, MarkedForms DEF Connect, outside
<1>4. DialogsTypeOK' /\ ShownInv'
  BY DEF Connect, outside, view, history, DialogsInv, DialogsTypeOK, ShownInv
<1>5. QED
  BY <1>2, <1>3, <1>4 DEF DialogsInv

LEMMA FaithfulDialog ==
  ASSUME DialogsInv, dialog # NoDialog
  PROVE  /\ dialog \in OpenDialogs /\ Request(dialog) \in SentRequests
         /\ Request(dialog).txn = opened /\ Request(dialog).flags = dialog.flags
         /\ Faithful(Request(dialog), attrs, inserted)
<1>1. dialog \in OpenDialogs /\ dialog.txn = opened /\ Faithful(dialog, attrs, inserted)
  BY DEF DialogsInv, DialogsTypeOK, TxnInv, FormInv
<1>2. QED
  BY <1>1 DEF OpenDialogs, SentRequests, Request, Faithful

LEMMA OpenDialogPreserves ==
  ASSUME DialogsInv, NEW i \in Nat, NEW kind \in Kinds, OpenDialog(i, kind) PROVE DialogsInv'
<1>1. shown[i] \in CardsShown /\ i \in DOMAIN shown
  BY DEF OpenDialog, DialogsInv, DialogsTypeOK
<1>2. /\ CardStatusDialog(kind, shown[i]).id = shown[i].id
      /\ CardStatusDialog(kind, shown[i]).form \in FormsOfCard
      /\ kind = "changeAttributes" => CardStatusDialog(kind, shown[i]).form = shown[i].attrs
  <2>1. Nothing \in FormsOfCard
    BY DEF Nothing, Says, FormsOfCard, AttrValues
  <2>2. QED
    BY <1>1, <2>1 DEF CardStatusDialog, DialogChangePin, DialogResetYubiKey,
         DialogChangeAttributes, FromCardStatus, CardsShown, Kinds
<1>3. /\ dialog' \in OpenDialogs /\ dialog'.kind = kind /\ dialog'.txn = opened + 1
      /\ dialog'.id = shown[i].id /\ dialog'.form = CardStatusDialog(kind, shown[i]).form
      /\ dialog'.edited = {} /\ ~dialog'.running
      /\ moved \/ parted => "unsure" \in dialog'.flags \/ kind # "resetYubikey"
      /\ shown[i].id \in dirty => "stale" \in dialog'.flags \/ kind # "changeAttributes"
  <2>1. dialog'.flags = FlagsOf(kind) \cap
          ((IF moved \/ parted THEN {"unsure"} ELSE {})
             \cup (IF shown[i].id \in dirty THEN {"stale"} ELSE {}))
    BY DEF OpenDialog
  <2>2. dialog'.flags \subseteq Flags
    BY <2>1 DEF Flags
  <2>3. dialog' \in OpenDialogs
    BY <1>1, <1>2, <2>2 DEF OpenDialog, OpenDialogs, CardsShown, DialogsInv, DialogsTypeOK
  <2>4. QED
    BY <1>2, <2>1, <2>3 DEF OpenDialog, FlagsOf
<1>4. DialogsTypeOK'
  BY <1>3 DEF OpenDialog, outside, history, DialogsInv, DialogsTypeOK
<1>5. TxnInv' /\ OneTryPerDialog'
  <2>1. opened' = opened + 1 /\ opened \in Nat /\ progress' = progress /\ pending' = pending
    BY DEF OpenDialog, DialogsInv, DialogsTypeOK
  <2>2. \A p \in pending : p.txn \in Nat
    BY DEF DialogsInv, DialogsTypeOK, SentRequests
  <2>3. \A p \in pending : p.txn # opened + 1 /\ p.txn <= opened + 1
    BY <2>1, <2>2 DEF DialogsInv, TxnInv
  <2>4. opened + 1 \notin progress /\ \A t \in progress : t <= opened + 1
    BY <2>1 DEF DialogsInv, TxnInv, DialogsTypeOK
  <2>5. TxnInv'
    BY <1>3, <2>1, <2>3, <2>4 DEF TxnInv
  <2>6. QED
    BY <1>3, <2>1, <2>5 DEF DialogsInv, OneTryPerDialog
<1>6. ShownInv'
  BY DEF OpenDialog, outside, history, DialogsInv, ShownInv
<1>7. FormInv'
  <2>1. attrs' = attrs /\ inserted' = inserted /\ pending' = pending
    BY DEF OpenDialog, outside
  <2>2. kind = "changeAttributes" /\ "stale" \notin dialog'.flags
          => shown[i].attrs = attrs[shown[i].id]
    BY <1>1, <1>3 DEF DialogsInv, ShownInv
  <2>3. kind = "resetYubikey" /\ "unsure" \notin dialog'.flags => shown[i].id \in inserted
    <3> SUFFICES ASSUME kind = "resetYubikey", "unsure" \notin dialog'.flags
                 PROVE  shown[i].id \in inserted
      OBVIOUS
    <3>1. ~moved /\ ~parted
      BY <1>3
    <3>2. shown # <<>>
      BY <1>1
    <3>3. shown[i].id \in IdsOf(shown)
      BY <1>1 DEF IdsOf
    <3>4. QED
      BY <3>1, <3>2, <3>3 DEF DialogsInv, ShownInv
  <2>4. Faithful(dialog', attrs, inserted)
    BY <1>2, <1>3, <2>2, <2>3 DEF Faithful
  <2>5. QED
    BY <2>1, <2>4 DEF DialogsInv, FormInv
<1>8. QED
  BY <1>4, <1>5, <1>6, <1>7 DEF DialogsInv

LEMMA EditPreserves == ASSUME DialogsInv, NEW f \in AttrFields, Edit(f) PROVE DialogsInv'
<1>1. dialog # NoDialog /\ dialog \in OpenDialogs
  BY DEF Edit, NoDialog, DialogsInv, DialogsTypeOK
<1>2. Says("page", "plain") \in AttrValues
  BY DEF Says, AttrValues
<1>3. dialog' \in OpenDialogs /\ dialog' # NoDialog
  <2> DEFINE F == [dialog.form EXCEPT ![f] = Says("page", "plain")]
  <2>1. F \in FormsOfCard
    BY <1>1, <1>2 DEF OpenDialogs, FormsOfCard
  <2>2. dialog' = [dialog EXCEPT !.form = F, !.edited = dialog.edited \cup {f}]
    BY <1>1 DEF Edit, OpenDialogs
  <2> HIDE DEF F
  <2>3. dialog' \in OpenDialogs
    BY <1>1, <2>1, <2>2 DEF OpenDialogs
  <2>4. QED
    BY <2>3, NoDialogIsNone
<1>4. /\ dialog'.kind = "changeAttributes" /\ dialog'.txn = dialog.txn /\ dialog'.id = dialog.id
      /\ dialog'.edited = dialog.edited \cup {f} /\ dialog'.running = dialog.running
      /\ dialog'.flags = dialog.flags
      /\ \A g \in AttrFields \ {f} : dialog'.form[g] = dialog.form[g]
  BY <1>1 DEF Edit, OpenDialogs, FormsOfCard
<1>5. DialogsTypeOK' /\ ShownInv'
  BY <1>3 DEF Edit, outside, history, DialogsInv, DialogsTypeOK, ShownInv
<1>6. TxnInv' /\ OneTryPerDialog'
  BY <1>1, <1>4 DEF Edit, DialogsInv, TxnInv, OneTryPerDialog
<1>7. FormInv'
  <2>1. attrs' = attrs /\ inserted' = inserted /\ pending' = pending
    BY DEF Edit, outside
  <2>2. Faithful(dialog, attrs, inserted)
    BY <1>1 DEF DialogsInv, FormInv
  <2>3. dialog.kind = "changeAttributes"
    BY DEF Edit
  <2>4. Faithful(dialog', attrs, inserted)
    BY <1>4, <2>2, <2>3 DEF Faithful
  <2>5. QED
    BY <2>1, <2>4 DEF DialogsInv, FormInv
<1>8. QED
  BY <1>5, <1>6, <1>7 DEF DialogsInv

LEMMA PressPreserves == ASSUME DialogsInv, Press PROVE DialogsInv'
<1>1. dialog # NoDialog /\ dialog \in OpenDialogs /\ ~dialog.running
  BY DEF Press, DialogsInv, DialogsTypeOK
<1>2. Runs(dialog) \in OpenDialogs /\ Runs(dialog) = [dialog EXCEPT !.running = TRUE]
  BY <1>1 DEF Runs, OpenDialogs
<1>3. /\ dialog' \in OpenDialogs /\ dialog' # NoDialog
      /\ dialog'.kind = dialog.kind /\ dialog'.txn = dialog.txn /\ dialog'.id = dialog.id
      /\ dialog'.form = dialog.form /\ dialog'.edited = dialog.edited /\ dialog'.running
      /\ dialog.flags \subseteq dialog'.flags
      /\ ~connected => "unheard" \in dialog'.flags
  <2>1. CASE connected
    BY <1>1, <1>2, <2>1, NoDialogIsNone DEF Press, OpenDialogs
  <2>2. CASE ~connected
    <3>1. dialog' = Flagged(Runs(dialog), YubiKeys, "unheard")
      BY <2>2 DEF Press
    <3>2. dialog' \in OpenDialogs /\ Marked(Runs(dialog), dialog', YubiKeys, "unheard")
          /\ dialog'.running = Runs(dialog).running
      BY <1>2, <3>1, FlaggedDialog DEF Flags
    <3>3. Runs(dialog).id \in YubiKeys
      BY <1>2 DEF OpenDialogs
    <3>4. QED
      BY <1>1, <1>2, <3>2, <3>3, NoDialogIsNone DEF Marked, OpenDialogs, FlagsOf
  <2>3. QED
    BY <2>1, <2>2
<1>4. /\ pending' = pending \cup {Request(dialog)} \/ (pending' = pending /\ ~connected)
      /\ connected => Request(dialog) \in pending'
      /\ connected => dialog'.flags = dialog.flags
  BY <1>1, <1>2 DEF Press, OpenDialogs
<1>5. DialogsTypeOK'
  BY <1>1, <1>3, <1>4, FaithfulDialog DEF Press, outside, history, DialogsInv, DialogsTypeOK
<1>6. ShownInv'
  BY DEF Press, outside, history, DialogsInv, ShownInv
<1>7. FormInv'
  <2>1. attrs' = attrs /\ inserted' = inserted
    BY DEF Press, outside
  <2>2. Faithful(dialog, attrs, inserted)
    BY <1>1 DEF DialogsInv, FormInv
  <2>3. Faithful(dialog', attrs, inserted)
    BY <1>3, <2>2 DEF Faithful
  <2>4. \A p \in pending' : Faithful(p, attrs, inserted)
    BY <1>1, <1>4, FaithfulDialog DEF DialogsInv, FormInv
  <2>5. QED
    BY <2>1, <2>3, <2>4 DEF FormInv
<1>8. opened' = opened /\ progress' = progress /\ dialog.txn = opened
  BY <1>1 DEF Press, DialogsInv, TxnInv
<1>9. opened \notin progress /\ \A p \in pending : p.txn # opened
  BY <1>1 DEF DialogsInv, TxnInv
<1>10. Request(dialog).txn = opened /\ Request(dialog).flags = dialog.flags /\ opened \in Nat
  BY <1>1, FaithfulDialog DEF DialogsInv, DialogsTypeOK
<1>11. TxnInv'
  BY <1>3, <1>4, <1>8, <1>9, <1>10 DEF DialogsInv, TxnInv
<1>12. OneTryPerDialog'
  BY <1>3, <1>4, <1>8, <1>9, <1>10 DEF DialogsInv, OneTryPerDialog
<1>13. QED
  BY <1>5, <1>6, <1>7, <1>11, <1>12 DEF DialogsInv

LEMMA ClosePreserves == ASSUME DialogsInv, CardStatusClose PROVE DialogsInv'
<1>1. DialogsTypeOK' /\ ShownInv'
  BY DEF CardStatusClose, outside, history, DialogsInv, DialogsTypeOK, ShownInv
<1>2. TxnInv' /\ OneTryPerDialog' /\ FormInv'
  BY DEF CardStatusClose, outside, DialogsInv, TxnInv, OneTryPerDialog, FormInv
<1>3. QED
  BY <1>1, <1>2 DEF DialogsInv

LEMMA SendToCardPreserves == ASSUME DialogsInv, SendToCard PROVE DialogsInv'
<1>1. DialogsTypeOK' /\ ShownInv'
  BY DEF SendToCard, outside, history, DialogsInv, DialogsTypeOK, ShownInv
<1>2. TxnInv' /\ OneTryPerDialog' /\ FormInv'
  BY DEF SendToCard, outside, DialogsInv, TxnInv, OneTryPerDialog, FormInv
<1>3. QED
  BY <1>1, <1>2 DEF DialogsInv
-----------------------------------------------------------------------------
(* What the server does. *)

\* A request that ends alone keeps the transactions, if the others are kept.
LEMMA EndsAlone ==
  ASSUME DialogsInv, NEW p \in pending, NEW ok, ServerEnds(p, ok), NEW cs,
         NEW flag \in {"unsure", "stale"}, Keeps(pending \ {p}, cs, flag), StaysOpen(cs, flag)
  PROVE  TxnInv' /\ OneTryPerDialog' /\ Ended \subseteq {p} /\ progress' \subseteq Nat
<1>1. pending \ (pending \ {p}) = {p}
  OBVIOUS
<1>2. /\ progress' = progress \cup Tells(p, ok) /\ opened' = opened
      /\ Tells(p, ok) \subseteq {p.txn} /\ (p.txn \in Tells(p, ok) \/ "unheard" \in p.flags)
  BY DEF ServerEnds, Tells
<1>3. TxnInv' /\ OneTryPerDialog'
  BY <1>1, <1>2, MarkedTxn
<1>4. Ended \subseteq {p}
  BY DEF Ended, Keeps
<1>5. p.txn \in Nat /\ progress \subseteq Nat
  BY DEF DialogsInv, DialogsTypeOK, SentRequests
<1>6. QED
  BY <1>2, <1>3, <1>4, <1>5

LEMMA DoesNothingPreserves == ASSUME DialogsInv, NEW p \in pending, DoesNothing(p) PROVE DialogsInv'
<1>1. PICK ok \in BOOLEAN : ServerEnds(p, ok)
  BY DEF DoesNothing
<1>2. Keeps(pending \ {p}, {}, "stale") /\ StaysOpen({}, "stale")
  BY NothingMarked DEF DoesNothing, DialogsInv
<1>3. TxnInv' /\ OneTryPerDialog' /\ progress' \subseteq Nat
  BY <1>1, <1>2, EndsAlone
<1>4. FormInv'
  BY <1>1, <1>2, MarkedForms DEF DoesNothing, ServerEnds
<1>5. DialogsTypeOK' /\ ShownInv'
  BY <1>1, <1>3 DEF DoesNothing, ServerEnds, history, DialogsInv, DialogsTypeOK, ShownInv
<1>6. QED
  BY <1>3, <1>4, <1>5 DEF DialogsInv

LEMMA WritesPreserves ==
  ASSUME DialogsInv, NEW p \in pending, NEW c \in YubiKeys, NEW values \in FormsOfCard,
         NEW ok, Writes(c, values, pending \ {p}), ServerEnds(p, ok)
  PROVE  DialogsInv' /\ Ended \subseteq {p}
<1>1. Keeps(pending \ {p}, {c}, "stale")
  BY KeepsFlagged DEF Writes, Flag, DialogsInv, DialogsTypeOK, Flags
<1>2. StaysOpen({c}, "stale")
  BY StaysFlagged DEF Writes, Flag, DialogsInv, Flags
<1>3. TxnInv' /\ OneTryPerDialog' /\ Ended \subseteq {p} /\ progress' \subseteq Nat
  BY <1>1, <1>2, EndsAlone
<1>4. /\ attrs' \in [YubiKeys -> FormsOfCard]
      /\ \A d \in YubiKeys : d # c => attrs'[d] = attrs[d]
  BY DEF Writes, DialogsInv, DialogsTypeOK
<1>5. FormInv'
  BY <1>1, <1>2, <1>4, MarkedForms DEF ServerEnds
<1>6. DialogsTypeOK'
  <2>1. dirty' \subseteq YubiKeys
    BY DEF Writes, DialogsInv, DialogsTypeOK
  <2>2. dialog' \in OpenDialogs \cup {NoDialog} /\ pending' \subseteq SentRequests
    BY <1>1, <1>2 DEF Keeps, StaysOpen
  <2>3. QED
    BY <1>3, <1>4, <2>1, <2>2 DEF Writes, ServerEnds, DialogsInv, DialogsTypeOK
<1>7. ShownInv'
  <2>1. \A i \in DOMAIN shown : shown[i].id \in YubiKeys /\ shown[i].id \in IdsOf(shown)
    <3>1. \A i \in DOMAIN shown : shown[i] \in CardsShown
      BY DEF DialogsInv, DialogsTypeOK
    <3>2. \A i \in DOMAIN shown : shown[i].id \in IdsOf(shown)
      BY DEF IdsOf
    <3>3. QED
      BY <3>1, <3>2 DEF CardsShown
  <2>2. \A i \in DOMAIN shown :
          shown[i].attrs = attrs'[shown[i].id] \/ shown[i].id \in dirty'
    BY <1>4, <2>1 DEF Writes, DialogsInv, ShownInv
  <2>3. QED
    BY <2>2 DEF Writes, ServerEnds, DialogsInv, ShownInv
<1>8. QED
  BY <1>3, <1>5, <1>6, <1>7 DEF DialogsInv

\* Update writes a field of the card the dialog names; the field is one that was
\* edited, or of a stale form, or an odd one.
LEMMA ChangesCardPreserves ==
  ASSUME DialogsInv, NEW p \in pending, NEW written \in SUBSET AttrFields, ChangesCard(p, written)
  PROVE  /\ DialogsInv' /\ Ended \subseteq {p} /\ p.kind = "changeAttributes"
         /\ \A c \in YubiKeys, f \in AttrFields :
              attrs'[c][f] # attrs[c][f] =>
                c = p.id /\ (f \in p.edited \/ "stale" \in p.flags \/ attrs[c][f].how = "odd")
<1> DEFINE values == [f \in AttrFields |->
              IF f \in written THEN AsWritten(f, p.form[f]) ELSE attrs[p.id][f]]
<1>1. p \in SentRequests /\ p.id \in YubiKeys /\ p.form \in FormsOfCard
  BY DEF DialogsInv, DialogsTypeOK, SentRequests
<1>2. attrs \in [YubiKeys -> FormsOfCard] /\ attrs[p.id] \in FormsOfCard
  BY <1>1 DEF DialogsInv, DialogsTypeOK
<1>3. \A f, v : v \in AttrValues => AsWritten(f, v) \in AttrValues
  BY DEF AsWritten, Says, AttrValues
<1>4. values \in FormsOfCard
  BY <1>1, <1>2, <1>3 DEF FormsOfCard
<1>5. Writes(p.id, values, pending \ {p}) /\ ServerEnds(p, written = AttrFields)
  BY DEF ChangesCard
<1>6. DialogsInv' /\ Ended \subseteq {p}
  BY <1>1, <1>4, <1>5, WritesPreserves
<1>7. p.kind = "changeAttributes"
  BY DEF ChangesCard
<1>8. ASSUME NEW c \in YubiKeys, NEW f \in AttrFields, attrs'[c][f] # attrs[c][f]
      PROVE  c = p.id /\ (f \in p.edited \/ "stale" \in p.flags \/ attrs[c][f].how = "odd")
  <2>1. attrs' = [attrs EXCEPT ![p.id] = values]
    BY <1>5 DEF Writes
  <2>2. c = p.id
    BY <1>2, <1>8, <2>1
  <2>3. attrs'[c] = values
    BY <1>2, <2>1, <2>2
  <2>4. f \in written /\ AsWritten(f, p.form[f]) # attrs[c][f]
    BY <1>8, <2>2, <2>3
  <2>5. \A v \in AttrValues : v.how # "odd" => AsWritten(f, v) = v
    BY DEF AsWritten, AttrValues, Says
  <2>6. attrs[c][f] \in AttrValues
    BY <1>2 DEF FormsOfCard
  <2>7. f \notin p.edited /\ "stale" \notin p.flags => p.form[f] = attrs[c][f]
    BY <1>7, <2>2 DEF DialogsInv, FormInv, Faithful
  <2>8. QED
    BY <2>2, <2>4, <2>5, <2>6, <2>7
<1>9. QED
  BY <1>6, <1>7, <1>8

\* A reset wipes one of the cards in the readers, and if there is but one and the
\* request is sure, the one it names.
LEMMA ResetsCardPreserves ==
  ASSUME DialogsInv, NEW p \in pending, NEW c \in YubiKeys, ResetsCard(p, c)
  PROVE  /\ DialogsInv' /\ Ended \subseteq {p} /\ p.kind = "resetYubikey"
         /\ \A d \in YubiKeys : attrs'[d] # attrs[d] =>
              d = p.id \/ Cardinality(inserted) > 1 \/ "unsure" \in p.flags
<1>1. Nothing \in FormsOfCard
  BY DEF Nothing, Says, FormsOfCard, AttrValues
<1>2. Writes(c, Nothing, pending \ {p}) /\ ServerEnds(p, TRUE)
  BY DEF ResetsCard
<1>3. DialogsInv' /\ Ended \subseteq {p}
  BY <1>1, <1>2, WritesPreserves
<1>4. p.kind = "resetYubikey" /\ c \in inserted
  BY DEF ResetsCard
<1>5. ASSUME NEW d \in YubiKeys, attrs'[d] # attrs[d],
             ~(Cardinality(inserted) > 1), "unsure" \notin p.flags
      PROVE  d = p.id
  <2>1. d = c
    BY <1>2, <1>5 DEF Writes, DialogsInv, DialogsTypeOK
  <2>2. p.id \in inserted
    BY <1>4, <1>5 DEF DialogsInv, FormInv, Faithful
  <2>3. IsFiniteSet(inserted) /\ Cardinality(inserted) \in Nat
    BY YubiKeysAssumption, FS_Subset, FS_CardinalityType DEF DialogsInv, DialogsTypeOK
  <2>4. Cardinality(inserted) # 0
    BY <1>4, <2>3, FS_EmptySet
  <2>5. Cardinality(inserted) = 1
    BY <1>5, <2>3, <2>4
  <2>6. \E x : inserted = {x}
    BY <2>3, <2>5, FS_Singleton
  <2>7. QED
    BY <1>4, <2>1, <2>2, <2>6
<1>6. QED
  BY <1>3, <1>4, <1>5

\* Nothing but a change of attributes or a reset changes what is on a card.
LEMMA DialogsStep ==
  ASSUME DialogsInv, [DialogsNext]_dialogVars
  PROVE  /\ DialogsInv'
         /\ \/ attrs' = attrs
            \/ \E p \in pending, written \in SUBSET AttrFields : ChangesCard(p, written)
            \/ \E p \in pending, c \in YubiKeys : ResetsCard(p, c)
<1>1. ASSUME NEW c \in YubiKeys, Plug(c) PROVE DialogsInv' /\ attrs' = attrs
  BY <1>1, PlugPreserves DEF Plug
<1>2. ASSUME NEW order \in SetToSeqs(inserted), ListArrives(order)
      PROVE  DialogsInv' /\ attrs' = attrs
  BY <1>2, ListArrivesPreserves DEF ListArrives, outside
<1>3. CASE ConnectionLost
  BY <1>3, ConnectionLostPreserves DEF ConnectionLost, outside
<1>4. CASE Connect
  BY <1>4, ConnectPreserves DEF Connect, outside
<1>5. ASSUME NEW i \in 1 .. Cardinality(YubiKeys), NEW kind \in Kinds, OpenDialog(i, kind)
      PROVE  DialogsInv' /\ attrs' = attrs
  <2>1. i \in Nat
    BY YubiKeysAssumption, FS_CardinalityType
  <2>2. QED
    BY <1>5, <2>1, OpenDialogPreserves DEF OpenDialog, outside
<1>6. ASSUME NEW f \in AttrFields, Edit(f) PROVE DialogsInv' /\ attrs' = attrs
  BY <1>6, EditPreserves DEF Edit, outside
<1>7. CASE SendToCard
  BY <1>7, SendToCardPreserves DEF SendToCard, outside
<1>8. CASE Press
  BY <1>8, PressPreserves DEF Press, outside
<1>9. CASE CardStatusClose
  BY <1>9, ClosePreserves DEF CardStatusClose, outside
<1>10. ASSUME NEW p \in pending, DoesNothing(p) PROVE DialogsInv' /\ attrs' = attrs
  BY <1>10, DoesNothingPreserves DEF DoesNothing
<1>11. ASSUME NEW p \in pending, NEW written \in SUBSET AttrFields, ChangesCard(p, written)
       PROVE  DialogsInv'
  BY <1>11, ChangesCardPreserves
<1>12. ASSUME NEW p \in pending, NEW c \in YubiKeys, ResetsCard(p, c) PROVE DialogsInv'
  BY <1>12, ResetsCardPreserves
<1>13. CASE UNCHANGED dialogVars
  <2>1. DialogsTypeOK' /\ ShownInv'
    BY <1>13 DEF dialogVars, outside, view, history, DialogsInv, DialogsTypeOK, ShownInv
  <2>2. TxnInv' /\ FormInv' /\ OneTryPerDialog' /\ attrs' = attrs
    BY <1>13 DEF dialogVars, outside, view, DialogsInv, TxnInv, FormInv, OneTryPerDialog
  <2>3. QED
    BY <2>1, <2>2 DEF DialogsInv
<1>14. CASE Person
  BY <1>5, <1>6, <1>7, <1>8, <1>9, <1>14 DEF Person
<1>15. CASE Server
  BY <1>10, <1>11, <1>12, <1>15 DEF Server
<1>16. QED
  BY <1>1, <1>2, <1>3, <1>4, <1>13, <1>14, <1>15 DEF DialogsNext
-----------------------------------------------------------------------------
LEMMA DialogsInvariant == DialogsSpec => []DialogsInv
<1>1. DialogsInv /\ [DialogsNext]_dialogVars => DialogsInv'
  BY DialogsStep
<1>2. QED
  BY <1>1, DialogsStart, PTL DEF DialogsSpec

\* Every variable keeps its type: a list from the server never leaves holes in the
\* one that is shown.
THEOREM DialogsTypeCorrect == DialogsSpec => []DialogsTypeOK
<1>1. DialogsInv => DialogsTypeOK
  BY DEF DialogsInv
<1>2. QED
  BY <1>1, DialogsInvariant, PTL

\* A dialog sends its request once, and its end is told, or is to come, or is lost
\* with the connection.
THEOREM TriesOnce == DialogsSpec => []OneTryPerDialog
<1>1. DialogsInv => OneTryPerDialog
  BY DEF DialogsInv
<1>2. QED
  BY <1>1, DialogsInvariant, PTL

\* Update changes what was edited, of the card it was opened for.
THEOREM UpdatesWhatWasEdited == DialogsSpec => OnlyEditedChanges
<1> DEFINE Fits ==
      \A p \in Ended : \A c \in YubiKeys, f \in AttrFields :
        p.kind = "changeAttributes" /\ attrs'[c][f] # attrs[c][f] =>
          c = p.id /\ (f \in p.edited \/ "stale" \in p.flags \/ attrs[c][f].how = "odd")
<1>1. ASSUME DialogsInv, [DialogsNext]_dialogVars PROVE Fits
  <2>1. CASE attrs' = attrs
    BY <2>1
  <2>2. ASSUME NEW q \in pending, NEW written \in SUBSET AttrFields, ChangesCard(q, written)
        PROVE  Fits
    BY <1>1, <2>2, ChangesCardPreserves
  <2>3. ASSUME NEW q \in pending, NEW c \in YubiKeys, ResetsCard(q, c) PROVE Fits
    BY <1>1, <2>3, ResetsCardPreserves
  <2>4. QED
    BY <1>1, <2>1, <2>2, <2>3, DialogsStep
<1>2. DialogsInv /\ [DialogsNext]_dialogVars => [Fits]_dialogVars
  BY <1>1
<1>3. QED
  BY <1>2, DialogsInvariant, PTL DEF DialogsSpec, OnlyEditedChanges

\* A reset wipes the card of its dialog, with the exceptions that are named.
THEOREM WipesTheRightCard == DialogsSpec => WipesNamedCard
<1> DEFINE Fits ==
      \A p \in Ended : \A c \in YubiKeys :
        p.kind = "resetYubikey" /\ attrs'[c] # attrs[c] =>
          c = p.id \/ Cardinality(inserted) > 1 \/ "unsure" \in p.flags
<1>1. ASSUME DialogsInv, [DialogsNext]_dialogVars PROVE Fits
  <2>1. CASE attrs' = attrs
    BY <2>1
  <2>2. ASSUME NEW q \in pending, NEW written \in SUBSET AttrFields, ChangesCard(q, written)
        PROVE  Fits
    BY <1>1, <2>2, ChangesCardPreserves
  <2>3. ASSUME NEW q \in pending, NEW c \in YubiKeys, ResetsCard(q, c) PROVE Fits
    BY <1>1, <2>3, ResetsCardPreserves
  <2>4. QED
    BY <1>1, <2>1, <2>2, <2>3, DialogsStep
<1>2. DialogsInv /\ [DialogsNext]_dialogVars => [Fits]_dialogVars
  BY <1>1
<1>3. QED
  BY <1>2, DialogsInvariant, PTL DEF DialogsSpec, WipesNamedCard
-----------------------------------------------------------------------------
(* Both. *)

LEMMA EachAlone == Spec => AssistentSpec /\ DialogsSpec
<1>1. Init => AssistentInit /\ DialogsInit
  BY DEF Init
<1>2. [Next]_vars => [AssistentNext]_assistentVars /\ [DialogsNext]_dialogVars
  BY DEF Next, vars
<1>3. QED
  BY <1>1, <1>2, PTL DEF Spec, AssistentSpec, DialogsSpec

\* A page with both forms keeps what each promises: neither disturbs the other.
THEOREM BothForms ==
  Spec => /\ [](FormFits /\ PinLength /\ OneTryPerDialog)
          /\ TakenByServer /\ TypedStays /\ OnlyEditedChanges /\ WipesNamedCard
BY EachAlone, FormIsForTheList, PinsAreLongEnough, ValidFormIsTaken, NobodyOverwrites, TriesOnce,
   UpdatesWhatWasEdited, WipesTheRightCard, PTL
=============================================================================
