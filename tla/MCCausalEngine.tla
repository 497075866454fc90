--------------------------- MODULE MCCausalEngine ----------------------------
(* Instances of CausalEngine for TLC. *)
EXTENDS CausalEngine, TLC

CONSTANTS i1, i2

MCInstances == {i1, i2}

Symmetry == Permutations(MCInstances)
===============================================================================
