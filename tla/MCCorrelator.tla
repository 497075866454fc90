----------------------------- MODULE MCCorrelator -----------------------------
EXTENDS Correlator

CONSTANT s1

MCServices == {s1}

\* Two events that open windows of their own, and one that is late enough to close both.
MCTimes == {0, 1, 3}
===============================================================================
