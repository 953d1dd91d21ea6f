------------------------------- MODULE MCForms -------------------------------
EXTENDS Forms

Symmetry == Permutations(Names)
=============================================================================
