----------------------------- MODULE MCDiagnosis ------------------------------
EXTENDS Diagnosis, TLC

CONSTANTS api, auth, worker, orders, inventory, userdb, ordersdb, inventorydb, Times, Ends

\* config/services.yaml
MCServices == {api, auth, worker, orders, inventory, userdb, ordersdb, inventorydb}
MCDependsOn ==
    [s \in MCServices |->
        CASE s = api -> {auth, orders} [] s = auth -> {userdb} [] s = worker -> {orders}
          [] s = orders -> {ordersdb, inventory} [] s = inventory -> {inventorydb}
          [] OTHER -> {}]

\* A lone critical alert, a burst of errors around an alert, and one without.
Alert(s, f, l) ==
    [service |-> s, first |-> f, last |-> l, keys |-> {"trace"}, score |-> 60, events |-> 1,
     signals |-> 1, critical |-> TRUE]
Burst(s, f, l) == [Alert(s, f, l) EXCEPT !.score = 90, !.events = 6, !.signals = 3]
Errors(s, f, l) == [Burst(s, f, l) EXCEPT !.score = 70, !.critical = FALSE]

MCClusters ==
    {r \in UNION {{Alert(s, f, f), Burst(s, f, l), Errors(s, f, l)} :
                    s \in {api, orders, ordersdb}, f \in Times, l \in Ends} : r.first <= r.last}
        \cup {Errors(worker, 20, 20)}

\* What the theorems on causes and on the first root cause ask of the configuration.
ASSUME ConfigurationBalanced == Balanced
===============================================================================
