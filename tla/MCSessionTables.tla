-------------------------- MODULE MCSessionTables --------------------------
EXTENDS SessionTables, TLC

Symmetry == Permutations(Writers) \cup Permutations(Reasons)
=============================================================================
