-------------------------- MODULE MCCandidateLinker ---------------------------
EXTENDS CandidateLinker, TLC

CONSTANTS api, orders, db, MaxTime

MCServices == {api, orders, db}
MCDependsOn == (api :> {orders}) @@ (orders :> {db}) @@ (db :> {})

\* A cluster around a critical alert, one that shares no key with it,
\* and a lone log line that is noise.
Critical(s, f, l) ==
    [service |-> s, first |-> f, last |-> l, keys |-> {"trace"}, score |-> 60, events |-> 1,
     signals |-> 1, critical |-> TRUE]
Untraced(s, f, l) == [Critical(s, f, l) EXCEPT !.keys = {}]
Noise(s, f, l) == [Critical(s, f, l) EXCEPT !.score = 10, !.critical = FALSE]

Spans(lengths) == {<<f, f + n>> : f \in 0 .. MaxTime, n \in lengths}
Ending == {w \in Spans({0, 3}) : w[2] <= MaxTime}

MCRecords ==
    {Critical(s, w[1], w[2]) : s \in {orders, db}, w \in Ending}
        \cup {Critical(api, t, t) : t \in 0 .. MaxTime}
        \cup {Noise(db, 1, 1), Untraced(orders, 4, 4)}
===============================================================================
