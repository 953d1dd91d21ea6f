------------------------------ MODULE MCKeySets ------------------------------
(* Small instances of KeySets for TLC. *)
EXTENDS KeySets, TLC

\* Requests are interchangeable; only safety runs use this.
Symmetry == Permutations(Requests)
=============================================================================
