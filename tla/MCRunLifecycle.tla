--------------------------- MODULE MCRunLifecycle ---------------------------
EXTENDS RunLifecycle, TLC

Symmetry == Permutations(Tasks) \cup Permutations(Reviews)
=============================================================================
