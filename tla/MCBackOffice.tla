---------------------------- MODULE MCBackOffice ----------------------------
EXTENDS BackOffice, TLC

Symmetry == Permutations(Calls) \cup Permutations(Staff) \cup Permutations(Groups)
=============================================================================
