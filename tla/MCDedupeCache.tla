---------------------------- MODULE MCDedupeCache -----------------------------
EXTENDS DedupeCache, TLC

CONSTANTS k1, k2, k3

MCKeys == {k1, k2, k3}
Symmetry == Permutations(MCKeys)
===============================================================================
