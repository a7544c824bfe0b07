--------------------------- MODULE MCRunAuthority ---------------------------
EXTENDS RunAuthority, TLC

Symmetry == Permutations(Runs) \cup Permutations(Reviews)
=============================================================================
