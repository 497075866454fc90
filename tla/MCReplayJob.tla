------------------------------ MODULE MCReplayJob -----------------------------
EXTENDS ReplayJob

CONSTANTS w1, w2, db, orders, cascade

MCWorkers == {w1, w2}
MCRoot == [s \in {cascade} |-> db]

\* Two events of a scenario, a diagnosis (which has none) and a line without a date.
MCArchive ==
    <<[time |-> 1, scenario |-> cascade], [time |-> 2, scenario |-> cascade],
      [time |-> 2, scenario |-> Nowhere], [time |-> Nowhere, scenario |-> cascade]>>

MCDiagnoses ==
    <<[services |-> <<orders, db>>, confidence |-> 60],
      [services |-> <<db, orders>>, confidence |-> 99]>>

\* A replay of everything, and two that find no records.
MCRequests ==
    <<[from |-> Nowhere, to |-> Nowhere, scenario |-> Nowhere],
      [from |-> 3, to |-> Nowhere, scenario |-> cascade],
      [from |-> Nowhere, to |-> 0, scenario |-> Nowhere]>>
===============================================================================
