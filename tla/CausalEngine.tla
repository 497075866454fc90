----------------------------- MODULE CausalEngine -----------------------------
(***************************************************************************)
(* The causal engine (apps/causal_engine/main.py) as a consumer group over *)
(* one partition of incidents.candidates, and a reader of its tables: the  *)
(* reporter API (apps/reporter_api/services/incident_service.py).          *)
(*                                                                         *)
(* A candidate is its offset; its incident_id is a hash of its fields, so a *)
(* redelivered candidate writes the same incident.  A diagnosis is stored  *)
(* by three transactions, one per table, then published; whatever raises   *)
(* is logged and the offset is committed in a "finally".  Also the         *)
(* candidate itself may make a transaction raise: the columns for service  *)
(* names and reasons are bounded and the names and the joined reasons are  *)
(* not.  The reader uses three transactions as well.                       *)
(*                                                                         *)
(* The rows of a table for an incident are a set of batches, one per       *)
(* transaction that wrote them.  Postgres runs at READ COMMITTED: a        *)
(* transaction deletes (or updates) the batches it saw when it began and   *)
(* adds its own when it commits.  Row locks only delay one of two          *)
(* transactions on an incident; which one is left open.                    *)
(***************************************************************************)
EXTENDS Integers, FiniteSets

CONSTANTS
    Instances,        \* the processes of the consumer group
    NoOwner,          \* the partition is assigned to no process
    MaxCandidates,    \* bound on the candidates
    Requests,         \* the candidates whose incident someone asks the API for
    MaxFaults         \* bound on the faults, of any kind and repeated or not

Faults == {"crash", "outage", "scale", "expel", "send", "commit", "expiry", "chaos",
           "refusal"}

ASSUME InstancesAssumption == IsFiniteSet(Instances) /\ NoOwner \notin Instances
ASSUME BoundsAssumption ==
    MaxCandidates \in Nat /\ MaxFaults \in Nat /\ Requests \subseteq 1 .. MaxCandidates

VARIABLES
    log,          \* the candidates published so far: offsets 1 .. log
    refuses,      \* refuses[c]: the table that does not take candidate c's rows
    committed,    \* the group's committed offset
    owner,        \* the process the partition is assigned to
    pos,          \* pos[i]: the offset i has polled up to
    pc,           \* pc[i]: what process i does next
    tx,           \* tx[i]: i's open transaction and the batches it saw
    rows,         \* rows[t][c]: the batches of candidate c's incident in table t
    sendq,        \* sendq[i]: diagnoses in i's producer, not acknowledged
    diagnosed,    \* candidates whose diagnosis is in incidents.diagnosed
    dropped,      \* candidates dropped by the chaos switch
    discarded,    \* history: diagnoses a producer gave up on
    dbUp,         \* Postgres answers
    struck,       \* the kinds of fault that have struck
    faults,       \* how many faults have struck
    reader        \* a request for an incident that the reporter API serves

vars == <<log, refuses, committed, owner, pos, pc, tx, rows, sendq, diagnosed, dropped,
          discarded, dbUp, struck, faults, reader>>

group == <<log, refuses, committed, owner, pos>>
strikes == <<struck, faults>>
stream == <<sendq, diagnosed, dropped, discarded>>

Candidates == 1 .. MaxCandidates
Tables == {"incidents", "rankings", "edges"}
Steps == Tables \cup {"down", "poll", "produce", "commit", "flush"}
Handling == Tables \cup {"produce", "commit"}

Strike(f) ==
    /\ faults < MaxFaults /\ faults' = faults + 1
    /\ struck' = struck \cup {f}

NoTx == [open |-> FALSE, saw |-> {}]
NoRequest == [step |-> "idle", c |-> 0, announced |-> FALSE, ranked |-> FALSE, edged |-> FALSE]

Init ==
    /\ log = 0 /\ refuses = [c \in Candidates |-> "none"]
    /\ committed = 0 /\ owner = NoOwner
    /\ pos = [i \in Instances |-> 0]
    /\ pc = [i \in Instances |-> "poll"]
    /\ tx = [i \in Instances |-> NoTx]
    /\ rows = [t \in Tables |-> [c \in Candidates |-> {}]]
    /\ sendq = [i \in Instances |-> {}]
    /\ diagnosed = {} /\ dropped = {} /\ discarded = {}
    /\ dbUp = TRUE /\ struck = {} /\ faults = 0 /\ reader = NoRequest

-------------------------------------------------------------------------------
(* The environment: the correlator, Postgres, the group protocol.          *)

\* The correlator publishes a candidate.  Table t is the first that does not take what
\* the engine makes of it ("none": all three do); the ones behind it are never reached.
Publish(t) ==
    /\ log < MaxCandidates /\ log' = log + 1
    /\ refuses' = [refuses EXCEPT ![log + 1] = t]
    /\ \/ t = "none" /\ UNCHANGED strikes
       \/ t \in Tables /\ Strike("refusal")
    /\ UNCHANGED <<committed, owner, pos, pc, tx, rows, stream, dbUp, reader>>

DbDown ==
    /\ dbUp /\ Strike("outage") /\ dbUp' = FALSE
    /\ UNCHANGED <<group, pc, tx, rows, stream, reader>>

DbRecover ==
    /\ ~dbUp /\ dbUp' = TRUE
    /\ UNCHANGED <<group, pc, tx, rows, stream, strikes, reader>>

\* Mutant of Assign: a process goes on where it was when it last had the partition.
AssignMutKeep(i) ==
    /\ owner = NoOwner /\ pc[i] = "poll" /\ owner' = i
    /\ UNCHANGED <<log, refuses, committed, pos, pc, tx, rows, stream, dbUp, strikes, reader>>

Assign(i) ==
    /\ owner = NoOwner /\ pc[i] = "poll"
    /\ owner' = i /\ pos' = [pos EXCEPT ![i] = committed]
    /\ UNCHANGED <<log, refuses, committed, pc, tx, rows, stream, dbUp, strikes, reader>>

Revoke(i) ==
    /\ owner = i /\ pc[i] = "poll" /\ Strike("scale") /\ owner' = NoOwner
    /\ UNCHANGED <<log, refuses, committed, pos, pc, tx, rows, stream, dbUp, reader>>

\* The owner stalls while it handles a candidate; the group goes on without it.
Expel(i) ==
    /\ owner = i /\ pc[i] \in Handling
    /\ Strike("expel") /\ owner' = NoOwner
    /\ UNCHANGED <<log, refuses, committed, pos, pc, tx, rows, stream, dbUp, reader>>

Deliver(i, c) ==
    /\ c \in sendq[i]
    /\ sendq' = [sendq EXCEPT ![i] = @ \ {c}]
    /\ diagnosed' = diagnosed \cup {c}
    /\ UNCHANGED <<group, pc, tx, rows, dropped, discarded, dbUp, strikes, reader>>

Expire(i, c) ==
    /\ c \in sendq[i] /\ Strike("expiry")
    /\ sendq' = [sendq EXCEPT ![i] = @ \ {c}]
    /\ discarded' = discarded \cup {c}
    /\ UNCHANGED <<group, pc, tx, rows, diagnosed, dropped, dbUp, reader>>

\* A process ends: its transaction is rolled back, its producer queue is lost.
Exit(i) ==
    /\ pc' = [pc EXCEPT ![i] = "down"]
    /\ owner' = IF owner = i THEN NoOwner ELSE owner
    /\ tx' = [tx EXCEPT ![i] = NoTx]
    /\ sendq' = [sendq EXCEPT ![i] = {}]
    /\ discarded' = discarded \cup sendq[i]
    /\ UNCHANGED <<log, refuses, committed, pos, rows, diagnosed, dropped, dbUp, reader>>

Crash(i) == pc[i] # "down" /\ Strike("crash") /\ Exit(i)

Stop(i) ==
    /\ pc[i] = "poll" /\ Strike("scale") /\ pc' = [pc EXCEPT ![i] = "flush"]
    /\ UNCHANGED <<group, tx, rows, stream, dbUp, reader>>

\* producer.flush(10): the queue is empty, or the time is up.
Close(i) ==
    /\ pc[i] = "flush" /\ Exit(i)
    /\ \/ sendq[i] = {} /\ UNCHANGED strikes
       \/ sendq[i] # {} /\ Strike("expiry")

Restart(i) ==
    /\ pc[i] = "down" /\ dbUp /\ pc' = [pc EXCEPT ![i] = "poll"]
    /\ UNCHANGED <<group, tx, rows, stream, dbUp, strikes, reader>>

-------------------------------------------------------------------------------
(* CausalEngine.run and _process_candidate.                                *)

Goto(i, step) == pc' = [pc EXCEPT ![i] = step]
Current(i) == pos[i]

\* poll() returns the next candidate, which is handled or dropped by the chaos switch.
Poll(i) ==
    /\ pc[i] = "poll" /\ owner = i /\ pos[i] < log
    /\ pos' = [pos EXCEPT ![i] = @ + 1]
    /\ \/ Goto(i, "incidents") /\ UNCHANGED <<dropped, strikes>>
       \/ Strike("chaos") /\ Goto(i, "commit") /\ dropped' = dropped \cup {pos[i] + 1}
    /\ UNCHANGED <<log, refuses, committed, owner, tx, rows, sendq, diagnosed, discarded, dbUp,
                   reader>>

\* Mutant of Begin: the old rows are deleted in a transaction of their own.
BeginMutDeleteFirst(i) ==
    /\ pc[i] \in Tables /\ ~tx[i].open
    /\ \/ /\ dbUp /\ UNCHANGED pc
          /\ tx' = [tx EXCEPT ![i] = [open |-> TRUE, saw |-> rows[pc[i]][Current(i)]]]
          /\ rows' = IF pc[i] = "incidents" THEN rows
                     ELSE [rows EXCEPT ![pc[i]][Current(i)] = {}]
       \/ ~dbUp /\ Goto(i, "commit") /\ UNCHANGED <<tx, rows>>
    /\ UNCHANGED <<group, stream, dbUp, strikes, reader>>

\* A transaction of a repository starts: it reads or deletes the incident's rows.  What
\* prepares the rows may raise in front of it.
Begin(i) ==
    /\ pc[i] \in Tables /\ ~tx[i].open
    /\ \/ /\ dbUp /\ UNCHANGED pc
          /\ tx' = [tx EXCEPT ![i] = [open |-> TRUE, saw |-> rows[pc[i]][Current(i)]]]
       \/ /\ ~dbUp \/ refuses[Current(i)] = pc[i]
          /\ Goto(i, "commit") /\ UNCHANGED tx
    /\ UNCHANGED <<group, rows, stream, dbUp, strikes, reader>>

\* A name for the batch that i's transaction on table t adds.
NewBatch(t, c) ==
    LET used == rows[t][c] \cup UNION {tx[j].saw : j \in Instances}
    IN  CHOOSE b \in 1 .. Cardinality(used) + 1 : b \notin used

\* Mutant of Rejected: upsert_incident always inserts.
RejectedMutInsert(i, t, c) ==
    \/ t = "incidents" /\ rows[t][c] # {}
    \/ t = "rankings" /\ rows[t][c] \ tx[i].saw # {}

\* incidents.incident_id and rankings.(incident_id, rank) are unique, so a row that a
\* concurrent transaction added is in the way; an incident that was seen is updated.
Rejected(i, t, c) ==
    \/ t = "incidents" /\ tx[i].saw = {} /\ rows[t][c] # {}
    \/ t = "rankings" /\ rows[t][c] \ tx[i].saw # {}

\* Mutant of Written: the replace functions no longer delete what was there.
WrittenMutAppend(i, t, c) ==
    IF t = "incidents" /\ tx[i].saw # {} THEN rows[t][c]
    ELSE rows[t][c] \cup {NewBatch(t, c)}

Written(i, t, c) ==
    IF t = "incidents" /\ tx[i].saw # {} THEN rows[t][c]
    ELSE (rows[t][c] \ tx[i].saw) \cup {NewBatch(t, c)}

\* Mutant of NextStep: the diagnosis is published before its edges are stored.
NextStepMutEarly(t) == IF t = "incidents" THEN "rankings" ELSE "produce"

NextStep(t) ==
    CASE t = "incidents" -> "rankings" [] t = "rankings" -> "edges" [] t = "edges" -> "produce"

\* The transaction cannot commit: Postgres is gone, another transaction is in the way, or
\* a value does not fit its column.
Raises(i, t, c) == ~dbUp \/ Rejected(i, t, c) \/ refuses[c] = t

\* The transaction inserts and commits, or raises and is rolled back.
End(i) ==
    /\ pc[i] \in Tables /\ tx[i].open
    /\ LET t == pc[i]  c == Current(i) IN
         \/ /\ ~ Raises(i, t, c) /\ Goto(i, NextStep(t))
            /\ rows' = [rows EXCEPT ![t][c] = Written(i, t, c)]
         \/ Raises(i, t, c) /\ Goto(i, "commit") /\ UNCHANGED rows
    /\ tx' = [tx EXCEPT ![i] = NoTx]
    /\ UNCHANGED <<group, stream, dbUp, strikes, reader>>

\* produce_json_with_retry: into the local queue, or the fourth attempt raises.
Produce(i) ==
    /\ pc[i] = "produce" /\ Goto(i, "commit")
    /\ \/ sendq' = [sendq EXCEPT ![i] = @ \cup {Current(i)}] /\ UNCHANGED strikes
       \/ Strike("send") /\ UNCHANGED sendq
    /\ UNCHANGED <<group, tx, rows, diagnosed, dropped, discarded, dbUp, reader>>

CommittedOffset(i) == pos[i]

\* The commit in the "finally" block; a failure is logged, a former owner is refused.
Commit(i) ==
    /\ pc[i] = "commit" /\ Goto(i, "poll")
    /\ \/ owner = i /\ committed' = CommittedOffset(i) /\ UNCHANGED strikes
       \/ owner # i /\ UNCHANGED <<committed, strikes>>
       \/ owner = i /\ Strike("commit") /\ UNCHANGED committed
    /\ UNCHANGED <<log, refuses, owner, pos, tx, rows, stream, dbUp, reader>>

Handle(i) == Poll(i) \/ Begin(i) \/ End(i) \/ Produce(i) \/ Commit(i)

-------------------------------------------------------------------------------
(* IncidentService.get_incident: three reads.  An error is a 500.          *)

Stored(t, c) == rows[t][c] # {}

\* The request arrives; "announced": the diagnosis was in incidents.diagnosed by then.
ReadIncident(c) ==
    /\ reader.step = "idle" /\ dbUp /\ Stored("incidents", c)
    /\ reader' = [NoRequest EXCEPT !.step = "rankings", !.c = c, !.announced = c \in diagnosed]
    /\ UNCHANGED <<group, pc, tx, rows, stream, dbUp, strikes>>

ReadRankings ==
    /\ reader.step = "rankings"
    /\ reader' = IF dbUp
                 THEN [reader EXCEPT !.step = "edges", !.ranked = Stored("rankings", reader.c)]
                 ELSE NoRequest
    /\ UNCHANGED <<group, pc, tx, rows, stream, dbUp, strikes>>

ReadEdges ==
    /\ reader.step = "edges"
    /\ reader' = IF dbUp
                 THEN [reader EXCEPT !.step = "answer", !.edged = Stored("edges", reader.c)]
                 ELSE NoRequest
    /\ UNCHANGED <<group, pc, tx, rows, stream, dbUp, strikes>>

\* get_incident_report answers and emits the report.
Answer ==
    /\ reader.step = "answer" /\ reader' = NoRequest
    /\ UNCHANGED <<group, pc, tx, rows, stream, dbUp, strikes>>

Next ==
    \/ \E t \in Tables \cup {"none"} : Publish(t)
    \/ DbDown \/ DbRecover
    \/ \E i \in Instances :
         \/ Handle(i) \/ Assign(i) \/ Revoke(i) \/ Expel(i)
         \/ Crash(i) \/ Stop(i) \/ Close(i) \/ Restart(i)
         \/ \E c \in Candidates : Deliver(i, c) \/ Expire(i, c)
    \/ \E c \in Requests : ReadIncident(c)
    \/ ReadRankings \/ ReadEdges \/ Answer

Spec == Init /\ [][Next]_vars

\* Every process runs and polls, librdkafka's thread sends, the group assigns free
\* partitions, operators restart Postgres and dead processes.
Fairness ==
    /\ WF_vars(DbRecover)
    /\ \A i \in Instances :
         /\ WF_vars(Handle(i)) /\ WF_vars(Assign(i)) /\ WF_vars(Restart(i))
         /\ WF_vars(Close(i))
         /\ \A c \in Candidates : WF_vars(Deliver(i, c))

FairSpec == Spec /\ Fairness

-------------------------------------------------------------------------------
Complete(c) == \A t \in Tables : Stored(t, c)

TypeOK ==
    /\ log \in 0 .. MaxCandidates /\ committed \in 0 .. log
    /\ owner \in Instances \cup {NoOwner}
    /\ pos \in [Instances -> 0 .. log]
    /\ pc \in [Instances -> Steps]
    /\ tx \in [Instances -> [open : BOOLEAN, saw : SUBSET (Nat \ {0})]]
    /\ rows \in [Tables -> [Candidates -> SUBSET (Nat \ {0})]]
    /\ sendq \in [Instances -> SUBSET Candidates]
    /\ diagnosed \subseteq Candidates /\ dropped \subseteq 1 .. log
    /\ discarded \subseteq Candidates
    /\ dbUp \in BOOLEAN /\ struck \subseteq Faults /\ faults \in 0 .. MaxFaults
    /\ refuses \in [Candidates -> Tables \cup {"none"}]
    /\ reader \in [step : {"idle", "rankings", "edges", "answer"}, c : 0 .. MaxCandidates,
                   announced : BOOLEAN, ranked : BOOLEAN, edged : BOOLEAN]

\* Whoever hears of a diagnosis on incidents.diagnosed and then asks the API gets all
\* of it: rankings and edges are there, and no redelivery, crash, outage or concurrent
\* process takes them away between two of the reader's three transactions.
AnnouncedIsWhole ==
    reader.step = "answer" /\ reader.announced => reader.ranked /\ reader.edged

\* evidence_edges has no unique constraint; still each incident has one list of edges,
\* through crashes, outages and redeliveries, unless the group expelled a process in the
\* middle of a candidate and two processes replaced the edges at once.
OneListOfEdges ==
    "expel" \notin struck => \A c \in Candidates : Cardinality(rows["edges"][c]) <= 1

\* The tables whose transactions come before that of t.
Before(t) ==
    CASE t = "incidents" -> {} [] t = "rankings" -> {"incidents"}
      [] t = "edges" -> {"incidents", "rankings"} [] t = "none" -> Tables

\* Behind the committed offset every candidate was dropped on purpose or has its whole
\* diagnosis stored and published or on its way: crashes and lost commits only repeat
\* work.  A candidate whose rows a table does not take is there half stored: in the
\* tables in front of that one, and never published.  An outage, an expelled process
\* and, for the publication, a failed send are the other exceptions: their error is
\* logged and the offset committed all the same.
CommittedDiagnosed ==
    struck \cap {"outage", "expel"} = {} =>
        \A c \in 1 .. committed :
            \/ c \in dropped
            \/ /\ \A t \in Before(refuses[c]) : Stored(t, c)
               /\ IF refuses[c] # "none" THEN c \notin diagnosed
                  ELSE \/ c \in diagnosed \cup discarded \/ "send" \in struck
                       \/ \E i \in Instances : c \in sendq[i]

\* The candidates that the owner of the partition is done with.
Position ==
    CASE owner = NoOwner -> committed
      [] owner # NoOwner /\ pc[owner] \in Handling -> pos[owner] - 1
      [] OTHER -> pos[owner]

Group == INSTANCE ConsumerGroup WITH published <- log, position <- Position

\* The group consumes its partition at least once: no candidate is passed over and no
\* commit runs ahead of the three transactions and the publication, whichever of them
\* raised and whoever owns the partition by then.
AtLeastOnce == Group!Spec

\* Every candidate is eventually diagnosed and announced, also when processes crash, are
\* expelled, scale or fail to commit; only a table that does not take its rows, an
\* outage, a failed send, a queue lost with its process, the chaos switch, or a crash of
\* an expelled process prevents it.
EventuallyAnnounced ==
    \A c \in Candidates :
        log >= c ~> \/ c \in diagnosed /\ Complete(c)
                    \/ c \in dropped \cup discarded \/ refuses[c] # "none"
                    \/ struck \cap {"outage", "send"} # {} \/ {"expel", "crash"} \subseteq struck
===============================================================================
