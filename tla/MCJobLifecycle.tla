--------------------------- MODULE MCJobLifecycle ---------------------------
EXTENDS JobLifecycle, TLC

Symmetry == Permutations(Jobs)
=============================================================================
