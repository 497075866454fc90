------------------------------ MODULE MCWindows -------------------------------
EXTENDS Windows, TLC

CONSTANTS s1, s2, MaxTime

MCServices == {s1, s2}
MCTimes == 0 .. MaxTime
Symmetry == Permutations(MCServices)
===============================================================================
