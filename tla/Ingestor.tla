------------------------------- MODULE Ingestor -------------------------------
(***************************************************************************)
(* The ingestor (apps/ingestor/main.py) as a Kafka consumer group over one *)
(* partition of the raw topics.  Each message is validated, dropped when   *)
(* its idempotency key is in the in-memory cache or already has a row in   *)
(* Postgres, handed to the local producer queue, stored, and its offset    *)
(* committed in a "finally".  Every producer of raw events keys them by    *)
(* service name and the idempotency key contains the event type and the    *)
(* service, so two copies of one event always meet in one partition: one   *)
(* partition is enough to talk about duplicates.                           *)
(*                                                                         *)
(* Messages are their idempotency keys; event bodies are abstracted, up to *)
(* one thing: Postgres may refuse a row made of a message although it is   *)
(* up.  The columns of ingested_events are bounded and the fields of an    *)
(* event are not (event_id is not part of the key, so copies may differ);  *)
(* JSONB, of both tables, takes no NUL character and no NaN.               *)
(* Everything that may go wrong is a fault with a finite budget.           *)
(***************************************************************************)
EXTENDS Integers, Sequences, FiniteSetsExt

CONSTANTS
    Instances,    \* the processes of the consumer group
    Keys,         \* idempotency keys of the well-formed events
    Invalid,      \* a JSON message for which validation or normalisation raises
    Undecodable,  \* a message whose bytes are not JSON
    NoOwner,      \* the partition is assigned to no process
    MaxRaw,       \* bound on the length of the raw log
    Budget        \* how often each fault may strike

Faults == {"crash", "outage", "scale", "expel", "send", "commit", "expiry", "chaos",
           "refusal"}

ASSUME DistinctAssumption ==
    /\ Invalid \notin Keys /\ Undecodable \notin Keys /\ Invalid # Undecodable
    /\ NoOwner \notin Instances
\* The consumer group has finitely many processes.
ASSUME InstancesAssumption == IsFiniteSet(Instances)
ASSUME BoundsAssumption == MaxRaw \in Nat /\ Budget \in [Faults -> Nat]

VARIABLES
    raw,          \* the log of the partition, oldest message first
    refused,      \* <<o, t>>: table t does not take a row made of message o
    committed,    \* the group's committed offset: messages before it are done
    owner,        \* the process the partition is assigned to
    pos,          \* pos[i]: messages i has polled since its assignment started
    pc,           \* pc[i]: what process i does next
    cache,        \* cache[i]: the keys in i's IdempotencyFilter
    sendq,        \* sendq[i][k]: copies of k in i's producer, not acknowledged
    normalized,   \* normalized[k]: copies of k in events.normalized
    rows,         \* rows[k]: rows of ingested_events with key k
    rejected,     \* history: how often ingested_events did not take a row of key k
    quarantined,  \* offsets that have a row in quarantine_events
    dropped,      \* offsets dropped by the chaos switch
    discarded,    \* history: keys a producer gave up on without delivering them
    dbUp,         \* Postgres answers
    budget        \* faults that may still strike

input == <<raw, refused>>
vars == <<input, committed, owner, pos, pc, cache, sendq, normalized, rows, rejected,
          quarantined, dropped, discarded, dbUp, budget>>

Tables == {"ingested_events", "quarantine_events"}

Messages == Keys \cup {Invalid, Undecodable}
Steps == {"down", "poll", "lookup", "produce", "insert", "quarantine",
          "commit", "dying", "flush"}

\* The steps of _handle_message and of its except and finally blocks.
Handling == {"lookup", "produce", "insert", "quarantine", "commit", "dying"}

Spend(f) == budget[f] > 0 /\ budget' = [budget EXCEPT ![f] = @ - 1]
Spent(f) == Budget[f] - budget[f]

NoCopies == [k \in Keys |-> 0]
Unsent(q) == {k \in Keys : q[k] > 0}

Init ==
    /\ raw = <<>> /\ refused = {} /\ committed = 0 /\ owner = NoOwner
    /\ pos = [i \in Instances |-> 0]
    /\ pc = [i \in Instances |-> "poll"]
    /\ cache = [i \in Instances |-> {}]
    /\ sendq = [i \in Instances |-> NoCopies]
    /\ normalized = NoCopies /\ rows = NoCopies /\ rejected = NoCopies
    /\ quarantined = {} /\ dropped = {} /\ discarded = {}
    /\ dbUp = TRUE /\ budget = Budget

-------------------------------------------------------------------------------
(* The environment: producers of raw events, Postgres, the group protocol. *)

\* The tables in which the ingestor may leave a trace of message m.
Targets(m) ==
    {t \in Tables : \/ m \in Keys
                    \/ m = Invalid /\ t = "quarantine_events"}

\* A feed, the simulator, an alert webhook or a replay appends a message; a
\* replayed or retried event has the key it had before.  The tables in T will not
\* take what the ingestor makes of it.
Publish(m, T) ==
    /\ Len(raw) < MaxRaw
    /\ raw' = Append(raw, m)
    /\ refused' = refused \cup ({Len(raw) + 1} \X T)
    /\ \/ T = {} /\ UNCHANGED budget
       \/ T # {} /\ Spend("refusal")
    /\ UNCHANGED <<committed, owner, pos, pc, cache, sendq, normalized, rows, rejected,
                   quarantined, dropped, discarded, dbUp>>

DbDown ==
    /\ dbUp /\ Spend("outage") /\ dbUp' = FALSE
    /\ UNCHANGED <<input, committed, owner, pos, pc, cache, sendq, normalized,
                   rows, rejected, quarantined, dropped, discarded>>

DbRecover ==
    /\ ~dbUp /\ dbUp' = TRUE
    /\ UNCHANGED <<input, committed, owner, pos, pc, cache, sendq, normalized,
                   rows, rejected, quarantined, dropped, discarded, budget>>

\* Mutant of Assign: consumption starts at "latest".
AssignMutLatest(i) ==
    /\ owner = NoOwner /\ pc[i] = "poll"
    /\ owner' = i /\ pos' = [pos EXCEPT ![i] = Len(raw)]
    /\ UNCHANGED <<input, committed, pc, cache, sendq, normalized, rows, rejected,
                   quarantined, dropped, discarded, dbUp, budget>>

\* The group gives a free partition to a process that polls; it resumes at the
\* committed offset.
Assign(i) ==
    /\ owner = NoOwner /\ pc[i] = "poll"
    /\ owner' = i /\ pos' = [pos EXCEPT ![i] = committed]
    /\ UNCHANGED <<input, committed, pc, cache, sendq, normalized, rows, rejected,
                   quarantined, dropped, discarded, dbUp, budget>>

\* A rebalance takes the partition from a process inside poll() (scaling out).
Revoke(i) ==
    /\ owner = i /\ pc[i] = "poll" /\ Spend("scale")
    /\ owner' = NoOwner
    /\ UNCHANGED <<input, committed, pos, pc, cache, sendq, normalized, rows, rejected,
                   quarantined, dropped, discarded, dbUp>>

\* The owner stalls past session.timeout.ms or max.poll.interval.ms while it
\* handles a message: the group drops it, and it goes on with the message.
Expel(i) ==
    /\ owner = i /\ pc[i] \in Handling /\ Spend("expel")
    /\ owner' = NoOwner
    /\ UNCHANGED <<input, committed, pos, pc, cache, sendq, normalized, rows, rejected,
                   quarantined, dropped, discarded, dbUp>>

\* The producer's background thread: a copy of k is acknowledged, or expires
\* after message.timeout.ms.  No delivery callback hears of either.
Deliver(i, k) ==
    /\ sendq[i][k] > 0
    /\ sendq' = [sendq EXCEPT ![i][k] = @ - 1]
    /\ normalized' = [normalized EXCEPT ![k] = @ + 1]
    /\ UNCHANGED <<input, committed, owner, pos, pc, cache, rows, rejected, quarantined,
                   dropped, discarded, dbUp, budget>>

Expire(i, k) ==
    /\ sendq[i][k] > 0 /\ Spend("expiry")
    /\ sendq' = [sendq EXCEPT ![i][k] = @ - 1]
    /\ discarded' = discarded \cup {k}
    /\ UNCHANGED <<input, committed, owner, pos, pc, cache, normalized, rows, rejected,
                   quarantined, dropped, dbUp>>

-------------------------------------------------------------------------------
(* A process ends: its cache and its producer queue go with it.            *)

Exit(i) ==
    /\ pc' = [pc EXCEPT ![i] = "down"]
    /\ owner' = IF owner = i THEN NoOwner ELSE owner
    /\ cache' = [cache EXCEPT ![i] = {}]
    /\ sendq' = [sendq EXCEPT ![i] = NoCopies]
    /\ discarded' = discarded \cup Unsent(sendq[i])

Crash(i) ==
    /\ pc[i] # "down" /\ Spend("crash") /\ Exit(i)
    /\ UNCHANGED <<input, committed, pos, normalized, rows, rejected, quarantined,
                   dropped, dbUp>>

\* SIGTERM clears "running": the loop ends at the next test, then flush(10).
Stop(i) ==
    /\ pc[i] = "poll" /\ Spend("scale")
    /\ pc' = [pc EXCEPT ![i] = "flush"]
    /\ UNCHANGED <<input, committed, owner, pos, cache, sendq, normalized, rows, rejected,
                   quarantined, dropped, discarded, dbUp>>

\* flush(10) returns when the queue is empty or when its time is up.
Close(i) ==
    /\ pc[i] = "flush" /\ Exit(i)
    /\ \/ Unsent(sendq[i]) = {} /\ UNCHANGED budget
       \/ Unsent(sendq[i]) # {} /\ Spend("expiry")
    /\ UNCHANGED <<input, committed, pos, normalized, rows, rejected, quarantined,
                   dropped, dbUp>>

\* __init__ calls init_db, so a process starts only when Postgres answers.
Restart(i) ==
    /\ pc[i] = "down" /\ dbUp
    /\ pc' = [pc EXCEPT ![i] = "poll"]
    /\ UNCHANGED <<input, committed, owner, pos, cache, sendq, normalized, rows, rejected,
                   quarantined, dropped, discarded, dbUp, budget>>

-------------------------------------------------------------------------------
(* Ingestor.run and _handle_message.                                       *)

Current(i) == raw[pos[i]]
Goto(i, step) == pc' = [pc EXCEPT ![i] = step]

\* poll() returns the next message of the partition to its owner.
Fetch(i) ==
    /\ pc[i] = "poll" /\ owner = i /\ pos[i] < Len(raw)
    /\ pos' = [pos EXCEPT ![i] = @ + 1]

\* Bytes that are not JSON: deserialize_json raises before the "try", so the
\* process ends without a commit and without a quarantine row.
PollUndecodable(i) ==
    /\ Fetch(i) /\ raw[pos[i] + 1] = Undecodable /\ Exit(i)
    /\ UNCHANGED <<input, committed, normalized, rows, rejected, quarantined, dropped,
                   dbUp, budget>>

\* CHAOS_INGESTOR_DROP_RATE drops a decoded message before it is handled.
PollChaosDrop(i) ==
    /\ Fetch(i) /\ raw[pos[i] + 1] # Undecodable /\ Spend("chaos")
    /\ dropped' = dropped \cup {pos[i] + 1}
    /\ Goto(i, "commit")
    /\ UNCHANGED <<input, committed, owner, cache, sendq, normalized, rows, rejected,
                   quarantined, discarded, dbUp>>

\* Mutant of PollInvalid: validation moved in front of the "try".
PollInvalidMutOutsideTry(i) ==
    /\ Fetch(i) /\ raw[pos[i] + 1] = Invalid /\ Exit(i)
    /\ UNCHANGED <<input, committed, normalized, rows, rejected, quarantined, dropped,
                   dbUp, budget>>

PollInvalid(i) ==
    /\ Fetch(i) /\ raw[pos[i] + 1] = Invalid
    /\ Goto(i, "quarantine")
    /\ UNCHANGED <<input, committed, owner, cache, sendq, normalized, rows, rejected,
                   quarantined, dropped, discarded, dbUp, budget>>

\* A valid event: seen_recently answers and remembers the key in one call,
\* before anything is known about the fate of the event.
PollEvent(i) ==
    /\ Fetch(i) /\ raw[pos[i] + 1] \in Keys
    /\ LET k == raw[pos[i] + 1] IN
         /\ Goto(i, IF k \in cache[i] THEN "commit" ELSE "lookup")
         /\ cache' = [cache EXCEPT ![i] = @ \cup {k}]
    /\ UNCHANGED <<input, committed, owner, sendq, normalized, rows, rejected,
                   quarantined, dropped, discarded, dbUp, budget>>

\* The cache forgets a key: TTL, or more than max_size keys (module DedupeCache).
Forget(i, k) ==
    /\ pc[i] = "poll" /\ k \in cache[i]
    /\ cache' = [cache EXCEPT ![i] = @ \ {k}]
    /\ UNCHANGED <<input, committed, owner, pos, pc, sendq, normalized, rows, rejected,
                   quarantined, dropped, discarded, dbUp, budget>>

\* Mutant of Lookup: the persistent lookup is skipped.
LookupMutSkip(i) ==
    /\ pc[i] = "lookup"
    /\ Goto(i, IF dbUp THEN "produce" ELSE "quarantine")
    /\ UNCHANGED <<input, committed, owner, pos, cache, sendq, normalized, rows, rejected,
                   quarantined, dropped, discarded, dbUp, budget>>

\* exists_by_idempotency_key in a transaction of its own.
Lookup(i) ==
    /\ pc[i] = "lookup"
    /\ Goto(i, CASE ~dbUp -> "quarantine"
                 [] dbUp /\ rows[Current(i)] > 0 -> "commit"
                 [] OTHER -> "produce")
    /\ UNCHANGED <<input, committed, owner, pos, cache, sendq, normalized, rows, rejected,
                   quarantined, dropped, discarded, dbUp, budget>>

\* Mutant of Produce: a full producer queue is swallowed, not raised.
ProduceMutSwallow(i) ==
    /\ pc[i] = "produce"
    /\ Goto(i, "insert")
    /\ \/ sendq' = [sendq EXCEPT ![i][Current(i)] = @ + 1] /\ UNCHANGED budget
       \/ Spend("send") /\ UNCHANGED sendq
    /\ UNCHANGED <<input, committed, owner, pos, cache, normalized, rows, rejected,
                   quarantined, dropped, discarded, dbUp>>

\* produce_json_with_retry: the event enters the local queue, or the fourth
\* attempt raises.
Produce(i) ==
    /\ pc[i] = "produce"
    /\ \/ /\ sendq' = [sendq EXCEPT ![i][Current(i)] = @ + 1]
          /\ Goto(i, "insert") /\ UNCHANGED budget
       \/ Spend("send") /\ Goto(i, "quarantine") /\ UNCHANGED sendq
    /\ UNCHANGED <<input, committed, owner, pos, cache, normalized, rows, rejected,
                   quarantined, dropped, discarded, dbUp>>

Refused(o, t) == <<o, t>> \in refused

\* insert_event.  When it raises, the event is in the producer queue already.
Insert(i) ==
    /\ pc[i] = "insert"
    /\ \/ /\ dbUp /\ ~Refused(pos[i], "ingested_events") /\ Goto(i, "commit")
          /\ rows' = [rows EXCEPT ![Current(i)] = @ + 1] /\ UNCHANGED rejected
       \/ /\ dbUp /\ Refused(pos[i], "ingested_events") /\ Goto(i, "quarantine")
          /\ rejected' = [rejected EXCEPT ![Current(i)] = @ + 1] /\ UNCHANGED rows
       \/ ~dbUp /\ Goto(i, "quarantine") /\ UNCHANGED <<rows, rejected>>
    /\ UNCHANGED <<input, committed, owner, pos, cache, sendq, normalized,
                   quarantined, dropped, discarded, dbUp, budget>>

\* Mutant of Quarantine: the handler only logs the failure and moves on.
QuarantineMutLogOnly(i) ==
    /\ pc[i] = "quarantine" /\ Goto(i, "commit")
    /\ UNCHANGED <<input, committed, owner, pos, cache, sendq, normalized, rows, rejected,
                   quarantined, dropped, discarded, dbUp, budget>>

\* The except block: save_quarantine_event in a transaction of its own.  When
\* it fails, its exception leaves run() through the "finally" block.
Quarantine(i) ==
    /\ pc[i] = "quarantine"
    /\ \/ /\ dbUp /\ ~Refused(pos[i], "quarantine_events") /\ Goto(i, "commit")
          /\ quarantined' = quarantined \cup {pos[i]}
       \/ /\ ~dbUp \/ Refused(pos[i], "quarantine_events")
          /\ Goto(i, "dying") /\ UNCHANGED quarantined
    /\ UNCHANGED <<input, committed, owner, pos, cache, sendq, normalized, rows, rejected,
                   dropped, discarded, dbUp, budget>>

\* commit_with_retry of the message: the broker accepts it from the owner;
\* otherwise, or when the broker fails four times, the error is only logged.
TryCommit(i) ==
    \/ owner = i /\ committed' = pos[i] /\ UNCHANGED budget
    \/ owner # i /\ UNCHANGED <<committed, budget>>
    \/ owner = i /\ Spend("commit") /\ UNCHANGED committed

Commit(i) ==
    /\ pc[i] = "commit" /\ TryCommit(i) /\ Goto(i, "poll")
    /\ UNCHANGED <<input, owner, pos, cache, sendq, normalized, rows, rejected,
                   quarantined, dropped, discarded, dbUp>>

\* The same commit while the quarantine error is propagating: the process ends.
CommitAndDie(i) ==
    /\ pc[i] = "dying" /\ TryCommit(i) /\ Exit(i)
    /\ UNCHANGED <<input, pos, normalized, rows, rejected, quarantined, dropped, dbUp>>

-------------------------------------------------------------------------------
Handle(i) ==
    \/ PollUndecodable(i) \/ PollInvalid(i) \/ PollEvent(i)
    \/ Lookup(i) \/ Produce(i) \/ Insert(i) \/ Quarantine(i)
    \/ Commit(i) \/ CommitAndDie(i)

Next ==
    \/ \E m \in Messages : \E T \in SUBSET Targets(m) : Publish(m, T)
    \/ DbDown \/ DbRecover
    \/ \E i \in Instances :
         \/ Handle(i) \/ PollChaosDrop(i)
         \/ Assign(i) \/ Revoke(i) \/ Expel(i)
         \/ Crash(i) \/ Stop(i) \/ Close(i) \/ Restart(i)
         \/ \E k \in Keys : Deliver(i, k) \/ Expire(i, k) \/ Forget(i, k)

Spec == Init /\ [][Next]_vars

\* Each process is a running thread that polls, librdkafka's thread sends, the
\* group assigns free partitions, operators restart Postgres and dead processes.
Fairness ==
    /\ WF_vars(DbRecover)
    /\ \A i \in Instances :
         /\ WF_vars(Handle(i)) /\ WF_vars(Assign(i)) /\ WF_vars(Restart(i))
         /\ WF_vars(Close(i))
         /\ \A k \in Keys : WF_vars(Deliver(i, k))

FairSpec == Spec /\ Fairness

-------------------------------------------------------------------------------
TypeOK ==
    /\ raw \in Seq(Messages) /\ refused \subseteq (1 .. Len(raw)) \X Tables
    /\ committed \in 0 .. Len(raw)
    /\ owner \in Instances \cup {NoOwner}
    /\ pos \in [Instances -> 0 .. Len(raw)]
    /\ pc \in [Instances -> Steps]
    /\ cache \in [Instances -> SUBSET Keys]
    /\ sendq \in [Instances -> [Keys -> Nat]]
    /\ normalized \in [Keys -> Nat] /\ rows \in [Keys -> Nat] /\ rejected \in [Keys -> Nat]
    /\ quarantined \subseteq 1 .. Len(raw) /\ dropped \subseteq 1 .. Len(raw)
    /\ discarded \subseteq Keys
    /\ dbUp \in BOOLEAN
    /\ budget \in [Faults -> Nat]
    /\ \A f \in Faults : budget[f] <= Budget[f]

\* Key k left a durable trace: a row, or a quarantined message that carried it.
Recorded(k) ==
    \/ k \in Keys /\ rows[k] > 0
    \/ \E o \in quarantined : raw[o] = k

\* Offset o is accounted for: recorded, or dropped on purpose.
Accounted(o) == o \in dropped \/ Recorded(raw[o])

\* Neither table can take a trace of message o: quarantine_events refuses it, and it is
\* no event, ingested_events refuses it too, or sending failed.
Untraceable(o) ==
    /\ Refused(o, "quarantine_events")
    /\ raw[o] = Invalid \/ Refused(o, "ingested_events") \/ Spent("send") > 0

\* No event vanishes: behind the committed offset every message has a row, a
\* quarantine row for itself or for another copy of the same event, or was
\* dropped by the chaos switch; the only other ones are those of which no table takes a
\* trace.  It survives crashes, failed sends, failed commits, rejected rows, rebalances
\* and expelled processes, as long as Postgres never failed:
\* the cache remembers a key before the event is stored, and the commit in the
\* "finally" block runs whatever happened before it.
CommittedAccounted ==
    Spent("outage") = 0 => \A o \in 1 .. committed : Accounted(o) \/ Untraceable(o)

\* The documentation's promise for outages (docs/troubleshooting.md:25): the same,
\* with no exception for them.
OutageLosesNothing == \A o \in 1 .. committed : Accounted(o) \/ Untraceable(o)

\* ingested_events has no unique index on idempotency_key; the lookup before the
\* insert keeps one row per event through crashes, outages, redeliveries and
\* rebalances, unless the group expelled a process in the middle of a message.
OneRowPerEvent ==
    Spent("expel") = 0 => \A k \in Keys : rows[k] <= 1

\* The messages that the owner of the partition is done with.
Position ==
    CASE owner = NoOwner -> committed
      [] owner # NoOwner /\ pc[owner] \in Handling -> pos[owner] - 1
      [] OTHER -> pos[owner]

Group == INSTANCE ConsumerGroup WITH published <- Len(raw), position <- Position

\* The group consumes its partition at least once: processes that crash, are expelled in
\* the middle of a message, fail to commit or die with the commit half done pass over no
\* message, and what an expelled process still commits never covers a message that the
\* new owner has not handled.
AtLeastOnce == Group!Spec

\* Copies of k on their way to, or in, events.normalized.
Copies(k) == normalized[k] + MapThenSumSet(LAMBDA i : sendq[i][k], Instances)

\* Downstream sees an event twice only when something separates produce from insert:
\* each extra copy costs one crash, one expelled process, one outage or one row that
\* Postgres rejected after its event was sent.  A replayed event, a forgotten cache
\* entry or a lost commit alone never publishes a second copy.
DuplicatesCostAFault ==
    \A k \in Keys :
        Copies(k) <= 1 + Spent("crash") + Spent("expel") + Spent("outage") + rejected[k]

\* Every message is eventually handled, across crashes, outages and failed commits,
\* up to the first one that is not JSON: that one ends every process that polls
\* it, before any commit.  (Handled, not committed: when the commit of the last
\* message fails, nothing repeats it until another message arrives.)
EventuallyHandled ==
    \A n \in 1 .. MaxRaw :
        (Len(raw) >= n /\ \A o \in 1 .. n : raw[o] # Undecodable)
            ~> \/ committed >= n
               \/ owner # NoOwner /\ pos[owner] >= n /\ pc[owner] = "poll"

\* A stored event reaches events.normalized unless a producer gave up on a copy of
\* it (the row is written before the delivery is known, and makes every later
\* copy a duplicate).
StoredReachesStream ==
    \A k \in Keys : rows[k] > 0 ~> (normalized[k] > 0 \/ k \in discarded)
===============================================================================
