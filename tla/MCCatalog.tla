----------------------------- MODULE MCCatalog -----------------------------
EXTENDS Catalog, TLC

Symmetry == Permutations(Writers) \cup Permutations(Revisions)
                \cup Permutations(Targets) \cup Permutations(Strings)
=============================================================================
