-------------------------------- MODULE Lines --------------------------------
(***************************************************************************)
(* Some of the lines of a text, in their order.  The first of them is the  *)
(* one with one of them up to it, the second the one with two up to it:    *)
(* the order of SetToSortSeq, in a form proofs can use.                    *)
(***************************************************************************)
EXTENDS Naturals, Sequences, FiniteSets, SequencesExt

\* How many of S there are up to i.
Rank(S, i) == Cardinality({j \in S : j <= i})

\* The numbers of S in their order.
InOrder(S) == [k \in 1 .. Cardinality(S) |-> CHOOSE i \in S : Rank(S, i) = k]

\* The last line of S, 0 if there is none.
Latest(S) == IF S = {} THEN 0 ELSE Max(S)
=============================================================================
