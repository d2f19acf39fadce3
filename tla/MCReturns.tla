----------------------------- MODULE MCReturns -----------------------------
EXTENDS Returns, TLC

CONSTANTS a1, a2, a3, a4, shirt

One == {shirt}
TwoOfOne == [i \in One |-> 2]
Symmetry == Permutations(Acts)
=============================================================================
