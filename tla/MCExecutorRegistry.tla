------------------------- MODULE MCExecutorRegistry -------------------------
EXTENDS ExecutorRegistry, TLC
Symmetry == Permutations(Handlers) \union Permutations(Removers)
=============================================================================
