----------------------------- MODULE SecretKeys -----------------------------
(***************************************************************************)
(* The readers of gpg --list-secret-keys --with-colons: runSecretKeys of   *)
(* the server and SecretKey::read of the PAM module.  A line stands for    *)
(* all its fields; what either reader tells apart of them is named:        *)
(* whether a key has an expiry, and how a uid is written.                  *)
(***************************************************************************)
EXTENDS GpgText

CONSTANTS MaxKeyLines   \* bound on the lines of a text

ASSUME MaxKeyLinesAssumption == MaxKeyLines \in Nat

\* How a uid is written: with a comment, without one, and with no mail at all
\* (gpg allows it).
Forms == {"plain", "comment", "bare"}

NoKeys == [keys |-> <<>>, at |-> 0, failed |-> FALSE]

KeysInit == text = <<>> /\ server = NoKeys /\ pam = NoKeys

---------------------------------------------------------------------------
(* What both readers keep: the secret keys with their uids and sub keys,   *)
(* and the key the next fpr and grp belong to (0 is the main key).         *)

Key(line, expires) == [line |-> line, expires |-> expires, fpr |-> 0, grp |-> 0]

AddSec(r, key) ==
  [r EXCEPT !.keys = Append(@, [key |-> key, uids |-> <<>>, subs |-> <<>>]), !.at = 0]

AddSsb(r, key) ==
  LET n == Len(r.keys)
  IN  [r EXCEPT !.keys[n].subs = Append(@, key), !.at = Len(r.keys[n].subs) + 1]

AddUidTo(r, uid) == [r EXCEPT !.keys[Len(r.keys)].uids = Append(@, uid)]

\* Mutant: an fpr or grp line is taken for one of the main key.
SetOfMain(r, field, line) == [r EXCEPT !.keys[Len(r.keys)].key[field] = line]

SetOfCurrent(r, field, line) ==
  LET n == Len(r.keys)
  IN  IF r.at = 0 THEN [r EXCEPT !.keys[n].key[field] = line]
      ELSE [r EXCEPT !.keys[n].subs[r.at][field] = line]

\* An exception of the server's reader loses the whole list.
Survives(r, next) == IF r.failed THEN r ELSE next

---------------------------------------------------------------------------
(* Numbers and uids. *)

\* parseInt of an empty field is NaN, strtoul of it is 0.
ServerNumber(given) == IF given THEN "number" ELSE "NaN"
PamNumber(given) == IF given THEN "number" ELSE "0"

\* GpgUid.fill tries both expressions, and reads from no match if neither fits.
ServerUid(line, form) ==
  [line |-> line, name |-> "name", comment |-> form = "comment"]

\* Mutant: the expression asks for a comment.
PamUidWithComment(line, form) ==
  [line |-> line, comment |-> FALSE, name |-> IF form = "comment" THEN "name" ELSE ""]

\* Uid::fill has one expression, whose name takes a comment in, and leaves name
\* and mail empty if it does not fit.
PamUid(line, form) ==
  [line |-> line, comment |-> FALSE,
   name |-> CASE form = "plain" -> "name"
              [] form = "comment" -> "name (comment)"
              [] form = "bare" -> ""]

---------------------------------------------------------------------------
Next1 == Len(text) + 1

SecLine(given) ==
  Reads([tag |-> "sec", given |-> given],
        Survives(server, AddSec(server, Key(Next1, ServerNumber(given)))),
        AddSec(pam, Key(Next1, PamNumber(given))))

\* External: what gpg prints begins with a sec line.
AfterSec == LinesWith({"sec"}) # {}

SsbLine(given) ==
  /\ AfterSec
  /\ Reads([tag |-> "ssb", given |-> given],
           Survives(server, AddSsb(server, Key(Next1, ServerNumber(given)))),
           AddSsb(pam, Key(Next1, PamNumber(given))))

UidLine(form) ==
  /\ AfterSec
  /\ Reads([tag |-> "uid", form |-> form],
           IF form = "bare" THEN [server EXCEPT !.failed = TRUE]
           ELSE Survives(server, AddUidTo(server, ServerUid(Next1, form))),
           AddUidTo(pam, PamUid(Next1, form)))

FprLine ==
  /\ AfterSec
  /\ Reads([tag |-> "fpr"],
           Survives(server, SetOfCurrent(server, "fpr", Next1)),
           SetOfCurrent(pam, "fpr", Next1))

GrpLine ==
  /\ AfterSec
  /\ Reads([tag |-> "grp"],
           Survives(server, SetOfCurrent(server, "grp", Next1)),
           SetOfCurrent(pam, "grp", Next1))

\* Any other line is logged.
OtherLine == Reads([tag |-> "other"], server, pam)

KeysNext ==
  /\ Len(text) < MaxKeyLines
  /\ \/ \E given \in BOOLEAN : SecLine(given) \/ SsbLine(given)
     \/ \E form \in Forms : UidLine(form)
     \/ FprLine \/ GrpLine \/ OtherLine

---------------------------------------------------------------------------
(* What WssUpdate makes of two polls that printed the same. *)

\* Mutant: two keys are the same if their fingerprints are.
KeyEqByFpr(a, b) == a.fpr = b.fpr

\* GpgKey.eq compares field by field; NaN equals nothing.
KeyEq(a, b) == a = b /\ a.expires # "NaN"

SecretKeyEq(a, b) ==
  /\ KeyEq(a.key, b.key)
  /\ a.uids = b.uids
  /\ Len(a.subs) = Len(b.subs)
  /\ \A i \in DOMAIN a.subs : KeyEq(a.subs[i], b.subs[i])

KeysChanged(prev, keys) ==
  \/ Len(prev) # Len(keys)
  \/ \E i \in DOMAIN keys : ~SecretKeyEq(keys[i], prev[i])

---------------------------------------------------------------------------
(* Properties. *)

\* The lines that belong to the sec or ssb line i, by what gpg says: a sec line
\* owns the uid and ssb lines before the next sec line, a sec or ssb line the
\* fpr and grp lines before the next sec or ssb line.
Before(i, tags) == {j \in DOMAIN text : j > i /\ ~\E k \in LinesWith(tags) : i < k /\ k <= j}
SectionOf(i, tag) == LinesWith({tag}) \cap Before(i, {"sec"})
PartOf(i, tag) == Latest(LinesWith({tag}) \cap Before(i, {"sec", "ssb"}))

LineNumbers(items) == [i \in DOMAIN items |-> items[i].line]

Belongs(key) == key.fpr = PartOf(key.line, "fpr") /\ key.grp = PartOf(key.line, "grp")

\* The server reads every list but those with a uid that has no mail, for which it
\* throws; of a list it reads, uids, sub keys, fingerprints and groups belong to
\* the key they were printed under.
ServerReadsKeys ==
  format = "keys" =>
    /\ server.failed <=> \E i \in LinesWith({"uid"}) : text[i].form = "bare"
    /\ ~server.failed =>
         /\ [k \in DOMAIN server.keys |-> server.keys[k].key.line] = InOrder(LinesWith({"sec"}))
         /\ \A k \in DOMAIN server.keys :
              LET s == server.keys[k]
              IN  /\ LineNumbers(s.subs) = InOrder(SectionOf(s.key.line, "ssb"))
                  /\ LineNumbers(s.uids) = InOrder(SectionOf(s.key.line, "uid"))
                  /\ Belongs(s.key)
                  /\ \A i \in DOMAIN s.subs : Belongs(s.subs[i])

\* An unchanged key ring is sent to every browser again with every poll if, and
\* only if, one of its keys never expires.
QuietUnlessEndless ==
  format = "keys" /\ ~server.failed =>
    (KeysChanged(server.keys, server.keys)
       <=> \E i \in LinesWith({"sec", "ssb"}) : ~text[i].given)

WithoutNumber(key) == [line |-> key.line, fpr |-> key.fpr, grp |-> key.grp]

\* The two programs find the same keys, sub keys, fingerprints and groups in a
\* text the server reads, and the same names where no uid has a comment.
PamFindsTheSameKeys ==
  format = "keys" /\ ~server.failed =>
    /\ Len(pam.keys) = Len(server.keys)
    /\ \A k \in DOMAIN pam.keys :
         LET p == pam.keys[k]  s == server.keys[k]
         IN  /\ WithoutNumber(p.key) = WithoutNumber(s.key)
             /\ [i \in DOMAIN p.subs |-> WithoutNumber(p.subs[i])]
                  = [i \in DOMAIN s.subs |-> WithoutNumber(s.subs[i])]
             /\ LineNumbers(p.uids) = LineNumbers(s.uids)
             /\ \A i \in DOMAIN p.uids : p.uids[i] = s.uids[i] <=> ~s.uids[i].comment
=============================================================================
