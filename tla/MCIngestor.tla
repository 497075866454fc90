------------------------------ MODULE MCIngestor ------------------------------
(* Instances of Ingestor for TLC. *)
EXTENDS Ingestor, TLC

CONSTANTS i1, i2, k1, MaxFaults

MCInstances == {i1, i2}
MCKeys == {k1}

\* Which faults a run may see; each strikes at most once.
Once(F) == [f \in Faults |-> IF f \in F THEN 1 ELSE 0]

SafetyBudget == Once(Faults)
LiveBudget == Once({"crash", "outage", "commit", "send", "refusal"})
OutageBudget == Once({"outage"})

\* Bounds the faults of one behaviour to any MaxFaults of them.
FewFaults == MapThenSumSet(Spent, Faults) <= MaxFaults

Symmetry == Permutations(MCInstances)
===============================================================================
