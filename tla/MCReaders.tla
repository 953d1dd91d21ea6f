------------------------------ MODULE MCReaders ------------------------------
EXTENDS Readers

Symmetry == Permutations(CardIds)
=============================================================================
