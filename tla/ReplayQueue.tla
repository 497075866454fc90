------------------------------ MODULE ReplayQueue -----------------------------
(***************************************************************************)
(* The queue of replay jobs: the reporter API inserts them in Postgres     *)
(* (apps/reporter_api/services/incident_service.py), the replay workers    *)
(* (apps/replay_worker/main.py) read the oldest queued ones, then run each *)
(* of the list they read: status "running", the replay, the report, and    *)
(* "completed" or "failed".  Nothing locks a job between the read and the  *)
(* run, and no transaction looks at the status it overwrites.              *)
(*                                                                         *)
(* Jobs are numbered in the order of created_at.  What a replay does to    *)
(* the raw topics is counted, not modelled.                                *)
(***************************************************************************)
EXTENDS Integers, Sequences, FiniteSets

CONSTANTS
    Workers,      \* the worker processes
    MaxJobs,      \* bound on the jobs created
    Limit,        \* get_queued_jobs(limit)
    MaxFaults     \* bound on crashes, stops and outages together

ASSUME BoundsAssumption ==
    /\ MaxJobs \in Nat /\ MaxFaults \in Nat
    /\ Limit \in Nat \ {0}

VARIABLES
    created,      \* jobs created so far
    status,       \* status[j]: the column of replay_jobs
    list,         \* list[w]: the jobs of the last read that w has not finished
    pc,           \* pc[w]: what worker w does next
    replays,      \* replays[w][j]: how often w, restarts included, replayed the archive for j
    reports,      \* jobs with an evaluation report on disk
    abandoned,    \* history: jobs whose worker ended between "running" and their end
    dbUp,         \* Postgres answers
    faults        \* faults so far

vars == <<created, status, list, pc, replays, reports, abandoned, dbUp, faults>>

Jobs == 1 .. MaxJobs
Finished == {"completed", "failed"}
Statuses == Finished \cup {"none", "queued", "running"}
Steps == {"read", "start", "replay", "complete", "fail", "down"}
Running == {"replay", "complete", "fail"}

Init ==
    /\ created = 0 /\ faults = 0 /\ dbUp = TRUE /\ reports = {} /\ abandoned = {}
    /\ status = [j \in Jobs |-> "none"]
    /\ replays = [w \in Workers |-> [j \in Jobs |-> 0]]
    /\ list = [w \in Workers |-> <<>>]
    /\ pc = [w \in Workers |-> "read"]

Strike == faults < MaxFaults /\ faults' = faults + 1

-------------------------------------------------------------------------------
(* The API, Postgres and the operators.                                    *)

CreateReplayJob ==
    /\ created < MaxJobs /\ dbUp
    /\ created' = created + 1
    /\ status' = [status EXCEPT ![created + 1] = "queued"]
    /\ UNCHANGED <<list, pc, replays, reports, abandoned, dbUp, faults>>

DbDown ==
    /\ dbUp /\ Strike /\ dbUp' = FALSE
    /\ UNCHANGED <<created, status, list, pc, replays, reports, abandoned>>

DbRecover ==
    /\ ~dbUp /\ dbUp' = TRUE
    /\ UNCHANGED <<created, status, list, pc, replays, reports, abandoned, faults>>

Current(w) == Head(list[w])

\* The process ends; what it read is forgotten.
Exit(w) ==
    /\ pc' = [pc EXCEPT ![w] = "down"]
    /\ list' = [list EXCEPT ![w] = <<>>]
    /\ abandoned' = abandoned \cup (IF pc[w] \in Running THEN {Current(w)} ELSE {})

\* A crash at any point, or SIGTERM: the loops look at "running" between two jobs.
Crash(w) ==
    /\ pc[w] # "down" /\ Strike /\ Exit(w)
    /\ UNCHANGED <<created, status, replays, reports, dbUp>>

\* __init__ calls init_db.
Restart(w) ==
    /\ pc[w] = "down" /\ dbUp /\ pc' = [pc EXCEPT ![w] = "read"]
    /\ UNCHANGED <<created, status, list, replays, reports, abandoned, dbUp, faults>>

-------------------------------------------------------------------------------
(* ReplayWorker.run and _process_job.                                      *)

Queued == {j \in Jobs : status[j] = "queued"}

\* The first Limit jobs of S in the order of created_at (there is one such list).
Oldest(S) ==
    {s \in [1 .. (IF Cardinality(S) < Limit THEN Cardinality(S) ELSE Limit) -> S] :
        /\ \A m, n \in DOMAIN s : m < n => s[m] < s[n]
        /\ \A j \in S : (\E n \in DOMAIN s : s[n] = j) \/ \A n \in DOMAIN s : s[n] < j}

\* get_queued_jobs; an error here is outside every "try" and ends the process.
Read(w) ==
    /\ pc[w] = "read"
    /\ \/ /\ dbUp /\ Queued # {}
          /\ \E jobs \in Oldest(Queued) : list' = [list EXCEPT ![w] = jobs]
          /\ pc' = [pc EXCEPT ![w] = "start"] /\ UNCHANGED abandoned
       \/ ~dbUp /\ Exit(w)
    /\ UNCHANGED <<created, status, replays, reports, dbUp, faults>>

\* Mutant of Start: the status is not updated before the replay.
StartMutSilent(w) ==
    /\ pc[w] = "start"
    /\ \/ dbUp /\ pc' = [pc EXCEPT ![w] = "replay"] /\ UNCHANGED <<list, abandoned>>
       \/ ~dbUp /\ Exit(w)
    /\ UNCHANGED <<created, status, replays, reports, dbUp, faults>>

\* update_status(job_id, "running"), in front of the "try", whatever the status is now.
Start(w) ==
    /\ pc[w] = "start"
    /\ \/ /\ dbUp /\ pc' = [pc EXCEPT ![w] = "replay"] /\ UNCHANGED <<list, abandoned>>
          /\ status' = [status EXCEPT ![Current(w)] = "running"]
       \/ ~dbUp /\ Exit(w) /\ UNCHANGED status
    /\ UNCHANGED <<created, replays, reports, dbUp, faults>>

\* The archive is replayed, diagnoses collected and the report written, or a step of
\* this raises: no records, a bad date, Kafka, the disk.
Replay(w) ==
    /\ pc[w] = "replay"
    /\ \/ /\ pc' = [pc EXCEPT ![w] = "complete"]
          /\ reports' = reports \cup {Current(w)}
          /\ replays' = [replays EXCEPT ![w][Current(w)] = @ + 1]
       \/ /\ pc' = [pc EXCEPT ![w] = "fail"] /\ UNCHANGED reports
          /\ \/ replays' = [replays EXCEPT ![w][Current(w)] = @ + 1]
             \/ UNCHANGED replays
    /\ UNCHANGED <<created, status, list, abandoned, dbUp, faults>>

\* Mutant of Done: the end of the list is not seen.
DoneMutNoEnd(w) ==
    /\ list' = [list EXCEPT ![w] = Tail(@)]
    /\ pc' = [pc EXCEPT ![w] = "start"]

\* The next job of the list, or a new read.
Done(w) ==
    /\ list' = [list EXCEPT ![w] = Tail(@)]
    /\ pc' = [pc EXCEPT ![w] = IF Len(list[w]) = 1 THEN "read" ELSE "start"]

\* update_payload_and_status(..., "completed"); an error, of Postgres or because it does
\* not take the payload, is handled as a failed job.
Complete(w) ==
    /\ pc[w] = "complete"
    /\ \/ /\ dbUp /\ Done(w)
          /\ status' = [status EXCEPT ![Current(w)] = "completed"]
       \/ pc' = [pc EXCEPT ![w] = "fail"] /\ UNCHANGED <<list, status>>
    /\ UNCHANGED <<created, replays, reports, abandoned, dbUp, faults>>

\* Mutant of Fail: the handler only logs.
FailMutLogOnly(w) ==
    /\ pc[w] = "fail" /\ Done(w)
    /\ UNCHANGED <<created, status, replays, reports, abandoned, dbUp, faults>>

\* Mutant of Fail: a failed job is queued again.
FailMutRequeue(w) ==
    /\ pc[w] = "fail"
    /\ \/ /\ dbUp /\ Done(w)
          /\ status' = [status EXCEPT ![Current(w)] = "queued"] /\ UNCHANGED abandoned
       \/ ~dbUp /\ Exit(w) /\ UNCHANGED status
    /\ UNCHANGED <<created, replays, reports, dbUp, faults>>

\* The except block: update_payload_and_status(..., "failed"); its error ends the process.
Fail(w) ==
    /\ pc[w] = "fail"
    /\ \/ /\ dbUp /\ Done(w)
          /\ status' = [status EXCEPT ![Current(w)] = "failed"] /\ UNCHANGED abandoned
       \/ ~dbUp /\ Exit(w) /\ UNCHANGED status
    /\ UNCHANGED <<created, replays, reports, dbUp, faults>>

Work(w) == Read(w) \/ Start(w) \/ Replay(w) \/ Complete(w) \/ Fail(w)

Next ==
    \/ CreateReplayJob \/ DbDown \/ DbRecover
    \/ \E w \in Workers : Work(w) \/ Crash(w) \/ Restart(w)

Spec == Init /\ [][Next]_vars

-------------------------------------------------------------------------------
TypeOK ==
    /\ created \in 0 .. MaxJobs
    /\ status \in [Jobs -> Statuses]
    /\ list \in [Workers -> Seq(Jobs)]
    /\ pc \in [Workers -> Steps]
    /\ \A w \in Workers : (list[w] = <<>>) = (pc[w] \in {"read", "down"})
    /\ replays \in [Workers -> [Jobs -> Nat]]
    /\ reports \subseteq Jobs /\ abandoned \subseteq Jobs
    /\ dbUp \in BOOLEAN /\ faults \in 0 .. MaxFaults

\* Several workers may replay one job, as each may have read it while it was queued;
\* none does so twice, also after a crash and a restart: once a worker has started a job,
\* no later read returns it.
OncePerWorker == \A w \in Workers : \A j \in Jobs : replays[w][j] <= 1

\* Whatever workers and Postgres do, a "running" job has a worker that runs it, although
\* a second one may have started it and ended it meanwhile, or its worker ended in the
\* middle of it (such a job may stay "running" for ever: only queued jobs are read); and
\* no worker ends so before the first crash, stop or outage.
RunningHasWorker ==
    /\ \A j \in Jobs : status[j] = "running" =>
          j \in abandoned \/ \E w \in Workers : pc[w] \in Running /\ Current(w) = j
    /\ faults = 0 => abandoned = {}

\* Every job is started, whatever fails: created_at orders the reads, and jobs that a
\* dead worker had read but not started are still queued.
EventuallyStarted == \A j \in Jobs : status[j] = "queued" ~> status[j] # "queued"
===============================================================================
