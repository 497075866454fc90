------------------------------- MODULE ReplayJob ------------------------------
(***************************************************************************)
(* What a replay worker does between "running" and the end of a job        *)
(* (_process_job of apps/replay_worker/main.py): the archive is read and   *)
(* filtered (reader.py), published to the topics its records came from     *)
(* (replayer.py), diagnoses are collected from the topic                   *)
(* incidents.diagnosed, and a report is made of them (evaluator.py).       *)
(*                                                                         *)
(* The step Replay of module ReplayQueue becomes a sequence of steps: the  *)
(* last one is that step, the others leave the variables of the queue as   *)
(* they are.  Of the topics only incidents.diagnosed is followed, as one   *)
(* partition, and whoever publishes to it: the causal engine, for this     *)
(* replay or for anything else, or a replay of archived diagnoses.         *)
(***************************************************************************)
EXTENDS ReplayQueue, SequencesExt

CONSTANTS
    Archive,      \* the lines of the archive: [time, scenario]
    Requests,     \* Requests[j]: the payload of job j, [from, to, scenario]
    Root,         \* scenario -> the service at its root (config/scenarios.yaml)
    Diagnoses,    \* what is published to incidents.diagnosed: [services, confidence]
    Nowhere       \* None: no time, no scenario, no worker

ASSUME ArchiveAssumption == \A n \in DOMAIN Archive : DOMAIN Archive[n] = {"time", "scenario"}
ASSUME NowhereAssumption == Nowhere \notin Workers
\* Rankings are lists, and a confidence, of a softmax, is a share of one.
ASSUME DiagnosesAssumption ==
    /\ Len(Diagnoses) \in Nat /\ DOMAIN Diagnoses = 1 .. Len(Diagnoses)
    /\ \A n \in DOMAIN Diagnoses : /\ DOMAIN Diagnoses[n].services \subseteq Nat \ {0}
                                  /\ Diagnoses[n].confidence \in 0 .. 100
ASSUME RequestsAssumption == \A j \in Jobs : DOMAIN Requests[j] = {"from", "to", "scenario"}

VARIABLES
    step,         \* step[w]: how far the replay of w is
    published,    \* how many of Diagnoses are in the topic
    since,        \* since[w]: how many were there when w had replayed the archive
    holder,       \* holder[j]: who has the partition in group ops-replay-diagnosis-<j>
    position,     \* position[j]: how far the holder has read
    collected,    \* collected[w]: what w has collected, as positions in the topic
    counted       \* counted[j][w]: what the report of w for j is made of

consumers == <<holder, position, collected>>
detail == <<step, published, since, consumers, counted>>
jobVars == <<vars, detail>>

JobInit ==
    /\ Init
    /\ step = [w \in Workers |-> "publish"]
    /\ published = 0 /\ since = [w \in Workers |-> 0]
    /\ holder = [j \in Jobs |-> Nowhere] /\ position = [j \in Jobs |-> 0]
    /\ collected = [w \in Workers |-> <<>>]
    /\ counted = [j \in Jobs |-> [w \in Workers |-> <<>>]]

-------------------------------------------------------------------------------
(* ArchiveReader                                                           *)

\* read_records: the dated lines in the range, of the scenario if one is asked for.
Picked(r) ==
    {n \in DOMAIN Archive :
        /\ Archive[n].time # Nowhere
        /\ r.from # Nowhere => Archive[n].time >= r.from
        /\ r.to # Nowhere => Archive[n].time <= r.to
        /\ r.scenario # Nowhere => Archive[n].scenario = r.scenario}

\* _infer_scenario, when none is asked for: the one most records are of.
ScenarioOf(r) ==
    LET among(s) == Cardinality({n \in Picked(r) : Archive[n].scenario = s})
        known == {Archive[n].scenario : n \in Picked(r)} \ {Nowhere}
    IN  IF r.scenario # Nowhere THEN r.scenario
        ELSE IF known = {} THEN Nowhere
        ELSE CHOOSE s \in known : \A t \in known : among(s) >= among(t)

ExpectedRoot(r) ==
    IF ScenarioOf(r) \in DOMAIN Root THEN Root[ScenarioOf(r)] ELSE Nowhere

-------------------------------------------------------------------------------
(* ReplayEvaluator: accuracies are counts of hits here, reciprocal ranks   *)
(* are in sixtieths and confidences in hundredths.                         *)

\* Where the expected root stands in a diagnosis, 0 if nowhere.
RankOf(d, root) ==
    LET at == {n \in DOMAIN d.services : d.services[n] = root}
    IN  IF at = {} THEN 0 ELSE CHOOSE n \in at : \A k \in at : n <= k

\* Mutant of Bins: a confidence on the lower edge of a bin is not in it.
BinsMutOpen(points) ==
    LET edge == <<0, 20, 40, 60, 80, 101>>
        bin(k) == {n \in DOMAIN points : edge[k] < points[n].sure /\ points[n].sure < edge[k + 1]}
    IN  [k \in 1 .. 5 |->
            [count |-> Cardinality(bin(k)),
             hits |-> Cardinality({n \in bin(k) : points[n].hit})]]

\* _calibration
Bins(points) ==
    LET edge == <<0, 20, 40, 60, 80, 101>>
        bin(k) == {n \in DOMAIN points : edge[k] <= points[n].sure /\ points[n].sure < edge[k + 1]}
    IN  [k \in 1 .. 5 |->
            [count |-> Cardinality(bin(k)),
             hits |-> Cardinality({n \in bin(k) : points[n].hit})]]

\* The summary of these diagnoses.
Evaluate(diagnoses, root) ==
    LET rank == [n \in DOMAIN diagnoses |-> RankOf(diagnoses[n], root)]
        hit(S) == Cardinality({n \in DOMAIN rank : rank[n] \in S})
        points == [n \in DOMAIN rank |->
                      [sure |-> diagnoses[n].confidence, hit |-> rank[n] = 1]]
    IN  [count |-> Len(diagnoses), top1 |-> hit({1}), top3 |-> hit(1 .. 3),
         reciprocals |-> SumFunction([n \in DOMAIN rank |->
                                   IF rank[n] = 0 THEN 0 ELSE 60 \div rank[n]]),
         bins |-> IF diagnoses = <<>> THEN <<>> ELSE Bins(points)]

-------------------------------------------------------------------------------
(* The replay.                                                             *)

At(w, s) == pc[w] = "replay" /\ step[w] = s

\* The job's local variables go: the consumer leaves its group.
Leave(w) ==
    /\ holder' = [j \in Jobs |-> IF holder[j] = w THEN Nowhere ELSE holder[j]]
    /\ position' = [j \in Jobs |-> IF holder'[j] = Nowhere THEN 0 ELSE position[j]]
    /\ step' = [step EXCEPT ![w] = "publish"]
    /\ since' = [since EXCEPT ![w] = 0]
    /\ collected' = [collected EXCEPT ![w] = <<>>]
    /\ UNCHANGED published

CrashInReplay(w) == Crash(w) /\ Leave(w) /\ UNCHANGED counted

\* The consumer is built, but not polled; the records are produced, paced by their times,
\* and flushed for ten seconds.
Republish(w) ==
    /\ At(w, "publish")
    /\ Picked(Requests[Current(w)]) # {}
    /\ step' = [step EXCEPT ![w] = "collect"]
    /\ since' = [since EXCEPT ![w] = published]
    /\ UNCHANGED <<vars, published, consumers, counted>>

\* A message arrives in incidents.diagnosed.
Diagnose ==
    /\ published < Len(Diagnoses)
    /\ published' = published + 1
    /\ UNCHANGED <<vars, step, since, consumers, counted>>

\* Mutant of Assign: the consumer starts at the oldest message.
AssignMutEarliest(w) ==
    LET j == Current(w)
    IN  /\ At(w, "collect")
        /\ holder[j] # w \/ \E v \in Workers \ {w} : At(v, "collect") /\ Current(v) = j
        /\ holder' = [holder EXCEPT ![j] = w]
        /\ position' = [position EXCEPT ![j] = 0]
        /\ UNCHANGED <<vars, step, published, since, collected, counted>>

\* Mutant of Assign: the consumer joins its group as soon as it is built.
AssignMutBuilt(w) ==
    LET j == Current(w)
    IN  /\ pc[w] = "replay" /\ holder[j] # w
        /\ holder' = [holder EXCEPT ![j] = w]
        /\ position' = [position EXCEPT ![j] = published]
        /\ UNCHANGED <<vars, step, published, since, collected, counted>>

\* The first polls join the group of the job, in which another worker may be; every
\* rebalance resets to the end of the topic, for nothing is ever committed.
Assign(w) ==
    LET j == Current(w)
    IN  /\ At(w, "collect")
        /\ holder[j] # w \/ \E v \in Workers \ {w} : At(v, "collect") /\ Current(v) = j
        /\ holder' = [holder EXCEPT ![j] = w]
        /\ position' = [position EXCEPT ![j] = published]
        /\ UNCHANGED <<vars, step, published, since, collected, counted>>

\* A poll of _collect_diagnosed returns a diagnosis.
Collect(w) ==
    LET j == Current(w)
    IN  /\ At(w, "collect") /\ holder[j] = w /\ position[j] < published
        /\ position' = [position EXCEPT ![j] = @ + 1]
        /\ collected' = [collected EXCEPT ![w] = Append(@, position[j] + 1)]
        /\ UNCHANGED <<vars, step, published, since, holder, counted>>

\* The linger time is over, the consumer is closed and the report written.
WriteReport(w) ==
    /\ At(w, "collect")
    /\ Replay(w) /\ pc'[w] = "complete"
    /\ counted' = [counted EXCEPT ![Current(w)][w] = collected[w]]
    /\ Leave(w)

\* Something raises: no records for the request, a bad line or date, a record that was
\* tried four times, a bad message, the disk.
Raise(w) ==
    /\ Replay(w) /\ pc'[w] = "fail"
    /\ (replays' = replays) <=> At(w, "publish")
    /\ Leave(w) /\ UNCHANGED counted

NoRecords(w) == At(w, "publish") /\ Picked(Requests[Current(w)]) = {} /\ Raise(w)

\* What the worker does in its own time, whatever the broker answers.
Proceed(w) ==
    \/ (Read(w) \/ Start(w) \/ Complete(w) \/ Fail(w)) /\ UNCHANGED detail
    \/ Republish(w) \/ NoRecords(w) \/ WriteReport(w)

JobNext ==
    \/ (CreateReplayJob \/ DbDown \/ DbRecover) /\ UNCHANGED detail
    \/ Diagnose
    \/ \E w \in Workers :
          \/ Proceed(w) \/ Raise(w) \/ CrashInReplay(w)
          \/ Assign(w) \/ Collect(w)
          \/ Restart(w) /\ UNCHANGED detail

\* Operators restart Postgres and dead workers; each worker is a running loop, a replay
\* waits for the broker ten seconds at most, and collects for the linger time.
JobFairness ==
    /\ WF_jobVars(DbRecover /\ UNCHANGED detail)
    /\ \A w \in Workers :
          WF_jobVars(Proceed(w)) /\ WF_jobVars(Restart(w) /\ UNCHANGED detail)

JobSpec == JobInit /\ [][JobNext]_jobVars /\ JobFairness

-------------------------------------------------------------------------------
\* A diagnosis is evidence in the reports of one job at most once, although workers
\* that replay the same job share a consumer group, whose partition changes hands, and
\* commit nothing.
CountedOncePerJob ==
    \A j \in Jobs : \A v, w \in Workers :
        \A m \in DOMAIN counted[j][v], n \in DOMAIN counted[j][w] :
            counted[j][v][m] = counted[j][w][n] => v = w /\ m = n

\* A report never counts a diagnosis from before the end of its replay, neither one of
\* the incidents that were replayed nor an archived one that the replay put into the
\* topic itself: the consumer, built before the replay, joins at its first poll.
CountsOnlyLater ==
    \A w \in Workers : \A n \in DOMAIN collected[w] : collected[w][n] > since[w]

\* Every counted diagnosis is in one calibration bin, also at the edges, the hits there
\* are those of the accuracies, and the reciprocal ranks lie between them.
EvaluationAddsUp ==
    \A j \in Jobs : \A w \in Workers : counted[j][w] # <<>> =>
        LET diagnoses == [n \in DOMAIN counted[j][w] |-> Diagnoses[counted[j][w][n]]]
            e == Evaluate(diagnoses, ExpectedRoot(Requests[j]))
        IN  /\ e.count = SumFunction([k \in DOMAIN e.bins |-> e.bins[k].count])
            /\ e.top1 = SumFunction([k \in DOMAIN e.bins |-> e.bins[k].hits])
            /\ e.reciprocals >= 60 * e.top1 + 20 * (e.top3 - e.top1)
            /\ e.reciprocals <= 60 * e.top1 + 30 * (e.count - e.top1)
===============================================================================
