------------------------------- MODULE MCPage -------------------------------
(* Small instances of Page for TLC. *)
EXTENDS Page

CONSTANTS Readers0, Revs   \* readers, and what their cards may say

Card(r, v) == [reader |-> r, rev |-> v]

\* Every order of every set of readers, with every content.
MCCardLists ==
  UNION {{[i \in 1 .. n |-> Card(order[i], rev[i])] :
            order \in {o \in [1 .. n -> Readers0] : \A i, j \in 1 .. n : o[i] = o[j] => i = j},
            rev \in [1 .. n -> Revs]} : n \in 0 .. Cardinality(Readers0)}

NoCardLists == {<<>>}
AllKeys == {Keys}
=============================================================================
