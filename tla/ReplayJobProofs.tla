---------------------------- MODULE ReplayJobProofs ---------------------------
(***************************************************************************)
(* Theorems about ReplayJob, for any workers, jobs, requests, archive,     *)
(* diagnoses and faults: it implements ReplayQueue, and what its reports   *)
(* count as evidence.                                                      *)
(***************************************************************************)
EXTENDS ReplayJob, FiniteSetTheorems, WellFoundedInduction, TLAPS

-------------------------------------------------------------------------------
(* The queue.                                                              *)

LEMMA InitType == Init => TypeOK
  BY BoundsAssumption DEF Init, TypeOK, Jobs, Statuses, Steps

\* A read of a non-empty queue returns a non-empty list of its jobs.
LEMMA OldestType ==
    ASSUME NEW S \in SUBSET Jobs, S # {}, NEW s \in Oldest(S)
    PROVE  s \in Seq(Jobs) /\ s # <<>>
<1>1. IsFiniteSet(Jobs)
  BY FS_Interval, BoundsAssumption DEF Jobs
<1>2. IsFiniteSet(S) /\ Cardinality(S) \in Nat \ {0}
  BY <1>1, FS_Subset, FS_CardinalityType, FS_EmptySet
<1>3. PICK n \in Nat \ {0} : s \in [1 .. n -> S]
  BY <1>2, BoundsAssumption DEF Oldest
<1>. QED
  BY <1>3

\* What a worker's step leaves of its list and its step is well typed.
WorkerOK(w) ==
    /\ list' \in [Workers -> Seq(Jobs)]
    /\ pc' \in [Workers -> Steps]
    /\ (list'[w] = <<>>) = (pc'[w] \in {"read", "down"})
    /\ \A v \in Workers \ {w} : list'[v] = list[v] /\ pc'[v] = pc[v]

\* A sequence without elements is the empty sequence.
LEMMA EmptySeq == ASSUME NEW S, NEW s \in Seq(S) PROVE (s = <<>>) = (Len(s) = 0)
  BY SMT

\* A worker moves to step p with list l.
LEMMA MoveOK ==
    ASSUME TypeOK, NEW w \in Workers, NEW l \in Seq(Jobs), NEW p \in Steps,
           list' = [list EXCEPT ![w] = l], pc' = [pc EXCEPT ![w] = p],
           (l = <<>>) = (p \in {"read", "down"})
    PROVE  WorkerOK(w)
  BY DEF TypeOK, WorkerOK

LEMMA WorkerType ==
    ASSUME TypeOK, NEW w \in Workers, Work(w) \/ Crash(w) \/ Restart(w)
    PROVE  WorkerOK(w)
<1>0. /\ list \in [Workers -> Seq(Jobs)] /\ pc \in [Workers -> Steps]
      /\ (list[w] = <<>>) = (pc[w] \in {"read", "down"})
      /\ list[w] \in Seq(Jobs)
      /\ list' = list => list' = [list EXCEPT ![w] = list[w]]
  BY DEF TypeOK
<1>1. CASE Read(w) /\ dbUp
  <2>1. Queued # {} /\ Queued \in SUBSET Jobs
    BY <1>1 DEF Read, Queued
  <2>2. PICK s \in Oldest(Queued) : list' = [list EXCEPT ![w] = s]
    BY <1>1 DEF Read
  <2>3. s \in Seq(Jobs) /\ s # <<>>
    BY <2>1, OldestType
  <2>4. pc' = [pc EXCEPT ![w] = "start"] /\ "start" \in Steps
    BY <1>1 DEF Read, Steps
  <2>5. (s = <<>>) = ("start" \in {"read", "down"})
    BY <2>3
  <2>. QED
    BY <2>2, <2>3, <2>4, <2>5, MoveOK
<1>2. CASE Done(w) /\ pc[w] \in {"complete", "fail"}
  <2>1. list[w] # <<>>
    BY <1>0, <1>2
  <2>2. Len(list[w]) \in Nat \ {0}
    BY <1>0, <2>1
  <2>3. Tail(list[w]) \in Seq(Jobs) /\ Len(Tail(list[w])) = Len(list[w]) - 1
    BY <1>0, <2>1
  <2>4. (Tail(list[w]) = <<>>) = (Len(Tail(list[w])) = 0)
    BY <2>3, EmptySeq
  <2>5. PICK l \in Seq(Jobs), p \in Steps :
           /\ l = Tail(list[w]) /\ p = IF Len(list[w]) = 1 THEN "read" ELSE "start"
    BY <2>3 DEF Steps
  <2>6. list' = [list EXCEPT ![w] = l] /\ pc' = [pc EXCEPT ![w] = p]
    BY <1>2, <2>5 DEF Done
  <2>7. (l = <<>>) = (p \in {"read", "down"})
    BY <2>2, <2>3, <2>4, <2>5
  <2>. QED
    BY <2>6, <2>7, MoveOK
<1>3. CASE Exit(w)
  <2>1. <<>> \in Seq(Jobs)
    OBVIOUS
  <2>. QED
    BY <1>3, <2>1, MoveOK DEF Exit, Steps
<1>4. CASE Start(w) /\ dbUp
  BY <1>0, <1>4, MoveOK DEF Start, Steps
<1>5. CASE Replay(w)
  BY <1>0, <1>5, MoveOK DEF Replay, Steps
<1>6. CASE Complete(w) /\ UNCHANGED list /\ pc' = [pc EXCEPT ![w] = "fail"]
  <2>1. pc[w] = "complete" /\ list' = [list EXCEPT ![w] = list[w]]
    BY <1>0, <1>6 DEF Complete
  <2>2. "fail" \in Steps /\ (list[w] = <<>>) = ("fail" \in {"read", "down"})
    BY <1>0, <2>1 DEF Steps
  <2>. QED
    BY <1>0, <1>6, <2>1, <2>2, MoveOK
<1>7. CASE Restart(w)
  BY <1>0, <1>7, MoveOK DEF Restart, Steps
<1>. QED
  BY <1>1, <1>2, <1>3, <1>4, <1>5, <1>6, <1>7
  DEF Work, Read, Start, Complete, Fail, Crash

\* The job a worker is at.
LEMMA CurrentType ==
    ASSUME TypeOK, NEW w \in Workers, pc[w] \notin {"read", "down"}
    PROVE  Current(w) \in Jobs
<1>1. list[w] \in Seq(Jobs) /\ list[w] # <<>>
  BY DEF TypeOK
<1>. QED
  BY <1>1 DEF Current

LEMMA NextType == TypeOK /\ [Next]_vars => TypeOK'
<1> SUFFICES ASSUME TypeOK, [Next]_vars PROVE TypeOK'
  OBVIOUS
<1>1. CASE UNCHANGED vars
  BY <1>1 DEF vars, TypeOK
<1>2. CASE CreateReplayJob
  BY <1>2, BoundsAssumption DEF CreateReplayJob, TypeOK, Jobs, Statuses
<1>3. CASE DbDown \/ DbRecover
  <2>1. faults' \in 0 .. MaxFaults /\ dbUp' \in BOOLEAN
    <3>1. faults \in 0 .. MaxFaults /\ faults \in Nat /\ MaxFaults \in Nat
      BY BoundsAssumption DEF TypeOK
    <3>2. \/ faults < MaxFaults /\ faults' = faults + 1 /\ dbUp' = FALSE
          \/ faults' = faults /\ dbUp' = TRUE
      BY <1>3 DEF DbDown, DbRecover, Strike
    <3>3. faults' \in 0 .. MaxFaults
      BY <3>1, <3>2
    <3>. QED
      BY <3>2, <3>3
  <2>2. UNCHANGED <<created, status, list, pc, replays, reports, abandoned>>
    BY <1>3 DEF DbDown, DbRecover
  <2>. QED
    BY <2>1, <2>2 DEF TypeOK
<1>4. ASSUME NEW w \in Workers, Work(w) \/ Crash(w) \/ Restart(w) PROVE TypeOK'
  <2>1. /\ list' \in [Workers -> Seq(Jobs)] /\ pc' \in [Workers -> Steps]
        /\ \A v \in Workers : (list'[v] = <<>>) = (pc'[v] \in {"read", "down"})
    BY <1>4, WorkerType DEF TypeOK, WorkerOK
  <2>2. created' = created /\ dbUp' = dbUp /\ faults' \in 0 .. MaxFaults
    BY <1>4, BoundsAssumption DEF Work, Read, Start, Replay, Complete, Fail, Crash, Restart, Strike, TypeOK
  <2>3. pc[w] \in {"start", "replay", "complete", "fail"} => Current(w) \in Jobs
    BY CurrentType
  <2>4. status' \in [Jobs -> Statuses]
    BY <1>4, <2>3 DEF Work, Read, Start, Replay, Complete, Fail, Crash, Restart, TypeOK, Statuses,
                      Finished
  <2>7. abandoned' \subseteq Jobs
    <3>1. UNCHANGED abandoned \/ Exit(w)
      BY <1>4 DEF Work, Read, Start, Replay, Complete, Fail, Crash, Restart
    <3>. QED
      BY <2>3, <3>1 DEF Exit, Running, TypeOK
  <2>5. CASE Replay(w)
    <3>1. PICK j \in Jobs : j = Current(w)
      BY <2>3, <2>5 DEF Replay
    <3>2. [replays EXCEPT ![w][j] = @ + 1] \in [Workers -> [Jobs -> Nat]]
      BY DEF TypeOK
    <3>3. replays' \in [Workers -> [Jobs -> Nat]] /\ reports' \subseteq Jobs
      BY <2>5, <3>1, <3>2 DEF Replay, TypeOK
    <3>. QED
      BY <2>1, <2>2, <2>4, <2>7, <3>3 DEF TypeOK
  <2>6. CASE ~ Replay(w)
    <3>1. UNCHANGED <<replays, reports>>
      BY <1>4, <2>6 DEF Work, Read, Start, Complete, Fail, Crash, Restart
    <3>. QED
      BY <2>1, <2>2, <2>4, <2>7, <3>1 DEF TypeOK
  <2>. QED
    BY <2>5, <2>6
<1>. QED
  BY <1>1, <1>2, <1>3, <1>4 DEF Next

\* The jobs, the workers and their lists stay well typed; a worker has a list exactly
\* while it is working.
THEOREM ReplayTypeCorrect == Spec => []TypeOK
  BY InitType, NextType, PTL DEF Spec

-------------------------------------------------------------------------------
(* A running job has a worker.                                             *)

\* Before the first fault Postgres answers, so no worker ends.
RunningInv == RunningHasWorker /\ (faults = 0 => dbUp)

LEMMA NextRunning == TypeOK /\ RunningInv /\ [Next]_vars => RunningInv'
<1> SUFFICES ASSUME TypeOK, RunningInv, [Next]_vars PROVE RunningInv'
  OBVIOUS
<1>t. /\ faults \in Nat /\ status \in [Jobs -> Statuses]
      /\ list \in [Workers -> Seq(Jobs)] /\ pc \in [Workers -> Steps]
  BY BoundsAssumption DEF TypeOK
<1>1. faults' = 0 => dbUp' /\ abandoned' = {}
  <2> SUFFICES ASSUME faults' = 0 PROVE dbUp' /\ abandoned' = {}
    OBVIOUS
  <2>1. faults' = faults \/ faults' = faults + 1
    BY DEF Next, vars, CreateReplayJob, DbDown, DbRecover, Strike, Work, Read, Start, Replay,
           Complete, Fail, Crash, Restart
  <2>2. faults = 0 /\ dbUp /\ abandoned = {}
    BY <1>t, <2>1 DEF RunningInv, RunningHasWorker
  <2>3. ~ DbDown /\ \A w \in Workers : ~ Crash(w)
    BY <2>2 DEF DbDown, Crash, Strike
  <2>. QED
    BY <2>2, <2>3 DEF Next, vars, CreateReplayJob, DbRecover, Work, Read, Start, Replay,
                      Complete, Fail, Restart
<1>h. \A j \in Jobs : status[j] = "running" =>
         j \in abandoned \/ \E w \in Workers : pc[w] \in Running /\ Current(w) = j
  BY DEF RunningInv, RunningHasWorker
<1>g. ASSUME \A j \in Jobs : status'[j] = "running" =>
                 j \in abandoned' \/ \E w \in Workers : pc'[w] \in Running /\ Head(list'[w]) = j
      PROVE  RunningInv'
  BY <1>1, <1>g DEF RunningInv, RunningHasWorker, Running, Current
<1>2. CASE UNCHANGED vars \/ CreateReplayJob \/ DbDown \/ DbRecover
  <2>1. /\ UNCHANGED <<pc, list, abandoned>>
        /\ \A j \in Jobs : status'[j] = "running" => status[j] = "running"
    BY <1>2, <1>t DEF vars, CreateReplayJob, DbDown, DbRecover
  <2>. QED
    BY <1>h, <1>g, <2>1 DEF Current
<1>3. ASSUME NEW w \in Workers, Work(w) \/ Crash(w) \/ Restart(w) PROVE RunningInv'
  <2>1. /\ \A v \in Workers \ {w} : list'[v] = list[v] /\ pc'[v] = pc[v]
        /\ abandoned \subseteq abandoned'
    BY <1>3, <1>t
    DEF Work, Read, Start, Replay, Complete, Fail, Crash, Restart, Exit, Done
  <2>2. ASSUME NEW j \in Jobs, status'[j] = "running", status[j] # "running"
        PROVE  pc'[w] \in Running /\ Head(list'[w]) = j
    BY <1>3, <1>t, <2>2
    DEF Work, Read, Start, Replay, Complete, Fail, Crash, Restart, Running, Current
  <2>3. ASSUME NEW j \in Jobs, status'[j] = "running", pc[w] \in Running, Current(w) = j
        PROVE  j \in abandoned' \/ (pc'[w] \in Running /\ Head(list'[w]) = j)
    <3>1. CASE Exit(w)
      BY <2>3, <3>1 DEF Exit
    <3>2. CASE ~ Exit(w)
      BY <1>3, <1>t, <2>3, <3>2
      DEF Work, Read, Start, Replay, Complete, Fail, Crash, Restart, Running, Current
    <3>. QED
      BY <3>1, <3>2
  <2>4. ASSUME NEW j \in Jobs, status'[j] = "running"
        PROVE  j \in abandoned' \/ \E v \in Workers : pc'[v] \in Running /\ Head(list'[v]) = j
    <3>1. CASE status[j] # "running"
      BY <2>2, <2>4, <3>1
    <3>2. CASE j \in abandoned
      BY <2>1, <3>2
    <3>3. CASE status[j] = "running" /\ j \notin abandoned
      <4>1. PICK u \in Workers : pc[u] \in Running /\ Current(u) = j
        BY <1>h, <3>3
      <4>2. CASE u = w
        BY <2>3, <2>4, <4>1, <4>2
      <4>3. CASE u # w
        BY <2>1, <4>1, <4>3 DEF Current
      <4>. QED
        BY <4>2, <4>3
    <3>. QED
      BY <3>1, <3>2, <3>3
  <2>. QED
    BY <1>g, <2>4
<1>. QED
  BY <1>2, <1>3 DEF Next

\* Whatever fails and however many workers have read a job, while it is marked running
\* a worker runs it or the worker that did ended in the middle of it; before the first
\* crash, stop or outage none does.
THEOREM RunningJobs == Spec => []RunningHasWorker
<1>1. Init => RunningInv
  BY DEF Init, RunningInv, RunningHasWorker
<1>2. RunningInv => RunningHasWorker
  BY DEF RunningInv
<1>. QED
  BY <1>1, <1>2, InitType, NextType, NextRunning, PTL DEF Spec
-------------------------------------------------------------------------------
(* A worker replays a job at most once.                                    *)

\* Worker w has job j in its list and has not replayed it.
Untried(w, j) ==
    \E n \in DOMAIN list[w] : list[w][n] = j /\ (n = 1 => pc[w] \in {"start", "replay"})

ListsRise == \A w \in Workers : \A m, n \in DOMAIN list[w] : m < n => list[w][m] < list[w][n]

\* A job that was never started has not been replayed and is not being replayed.
Fresh ==
    \A j \in Jobs : status[j] \in {"none", "queued"} =>
        \A w \in Workers : replays[w][j] = 0 /\ (pc[w] \in Running => Current(w) # j)

\* A worker with a job to try has not replayed it, also not before a restart, as only
\* queued jobs are read.
OnceInv ==
    /\ \A j \in Jobs : status[j] = "none" <=> j > created
    /\ \A w \in Workers : \A n \in DOMAIN list[w] : list[w][n] <= created
    /\ ListsRise /\ Fresh
    /\ \A w \in Workers : \A j \in Jobs :
          replays[w][j] <= 1 /\ (Untried(w, j) => replays[w][j] = 0)

LEMMA ListType ==
    ASSUME TypeOK, NEW w \in Workers
    PROVE  /\ list[w] \in Seq(Jobs) /\ \A j \in Jobs : j \in Nat
           /\ \A n \in DOMAIN list[w] : n \in Nat /\ list[w][n] \in Jobs
           /\ list[w] # <<>> => 1 \in DOMAIN list[w] /\ Current(w) = list[w][1]
<1>1. list[w] \in Seq(Jobs) /\ \A j \in Jobs : j \in Nat
  BY BoundsAssumption DEF TypeOK, Jobs
<1>2. Len(list[w]) \in Nat /\ DOMAIN list[w] = 1 .. Len(list[w])
  BY <1>1
<1>3. \A n \in DOMAIN list[w] : n \in Nat /\ list[w][n] \in Jobs
  BY <1>1, <1>2
<1>4. list[w] # <<>> => Len(list[w]) # 0
  BY <1>1, EmptySeq
<1>5. list[w] # <<>> => 1 \in DOMAIN list[w]
  BY <1>2, <1>4
<1>6. Head(list[w]) = list[w][1]
  BY <1>1
<1>. QED
  BY <1>1, <1>3, <1>5, <1>6 DEF Current

\* The list of a worker after its step, and what it still has to try.
LEMMA ListStep ==
    ASSUME TypeOK, ListsRise, NEW w \in Workers, Work(w) \/ Crash(w) \/ Restart(w)
    PROVE  /\ \A m, n \in DOMAIN list'[w] : m < n => list'[w][m] < list'[w][n]
           /\ \A j \in Jobs : Untried(w, j)' =>
                  Untried(w, j) \/ (Read(w) /\ status[j] = "queued")
           /\ \A n \in DOMAIN list'[w] :
                  \/ \E m \in DOMAIN list[w] : list'[w][n] = list[w][m]
                  \/ list'[w][n] \in Queued
<1>0. /\ list \in [Workers -> Seq(Jobs)] /\ pc \in [Workers -> Steps] /\ list[w] \in Seq(Jobs)
      /\ \A m, n \in DOMAIN list[w] : m < n => list[w][m] < list[w][n]
  BY DEF TypeOK, ListsRise
<1>1. CASE Read(w) /\ dbUp
  <2>1. PICK s \in Oldest(Queued) : list' = [list EXCEPT ![w] = s]
    BY <1>1 DEF Read
  <2>2. list'[w] = s /\ \A n \in DOMAIN s : s[n] \in Queued
    BY <1>0, <2>1 DEF Oldest
  <2>. QED
    BY <1>1, <2>1, <2>2 DEF Oldest, Untried, Queued
<1>2. CASE Done(w) /\ pc[w] \in {"complete", "fail"}
  <2>1. list'[w] = Tail(list[w]) /\ list[w] # <<>>
    BY <1>0, <1>2 DEF Done, TypeOK
  <2>2. \A n \in DOMAIN list'[w] : n + 1 \in DOMAIN list[w] /\ n \in Nat \ {0}
                                      /\ list'[w][n] = list[w][n + 1]
    BY <1>0, <2>1
  <2>3. \A n \in DOMAIN list'[w] : n + 1 # 1 /\ n + 1 \in Nat
    BY <2>2
  <2>4. \A m, n \in DOMAIN list'[w] : m < n => m + 1 < n + 1
    BY <2>2
  <2>5. \A m, n \in DOMAIN list'[w] : m < n => list'[w][m] < list'[w][n]
    BY <1>0, <2>2, <2>4
  <2>6. ASSUME NEW j \in Jobs, Untried(w, j)' PROVE Untried(w, j)
    BY <2>2, <2>3, <2>6 DEF Untried
  <2>. QED
    BY <2>2, <2>5, <2>6
<1>3. CASE Exit(w)
  <2>1. list'[w] = <<>>
    BY <1>0, <1>3 DEF Exit
  <2>. QED
    BY <2>1 DEF Untried
<1>4. CASE UNCHANGED list /\ (pc'[w] \in {"start", "replay"} => pc[w] \in {"start", "replay"})
  BY <1>0, <1>4 DEF Untried
<1>5. CASE Restart(w)
  <2>1. list'[w] = list[w] /\ list[w] = <<>>
    BY <1>0, <1>5 DEF Restart, TypeOK
  <2>. QED
    BY <2>1 DEF Untried
<1>. QED
  BY <1>0, <1>1, <1>2, <1>3, <1>4, <1>5
  DEF Work, Read, Start, Replay, Complete, Fail, Crash

\* A replay takes the job from what its worker has to try.
LEMMA ReplayTries ==
    ASSUME TypeOK, ListsRise, NEW w \in Workers, Replay(w)
    PROVE  Untried(w, Current(w)) /\ ~ Untried(w, Current(w))'
<1>0. /\ list[w] \in Seq(Jobs) /\ list[w] # <<>> /\ pc[w] = "replay"
      /\ list' = list /\ pc'[w] \in {"complete", "fail"}
      /\ \A m, n \in DOMAIN list[w] : m < n => list[w][m] < list[w][n]
  BY DEF TypeOK, ListsRise, Replay
<1>1. 1 \in DOMAIN list[w] /\ Current(w) = list[w][1] /\ list[w][1] \in Nat
  BY <1>0, ListType
<1>l. \A n \in DOMAIN list[w] : n \in 1 .. Len(list[w]) /\ list[w][n] \in Nat
  BY <1>0, ListType
<1>2. \A n \in DOMAIN list[w] : n # 1 => list[w][1] < list[w][n] /\ list[w][n] \in Nat
  BY <1>0, <1>1, <1>l
<1>3. \A n \in DOMAIN list[w] : list[w][n] = Current(w) => n = 1
  BY <1>1, <1>2
<1>4. Current(w)' = Current(w)
  BY <1>0 DEF Current
<1>5. \A n \in DOMAIN list'[w] : list'[w][n] = Current(w) => n = 1 /\ pc'[w] \notin {"start", "replay"}
  BY <1>0, <1>3
<1>. QED
  BY <1>0, <1>1, <1>4, <1>5 DEF Untried

LEMMA InitOnce == Init => OnceInv
<1> SUFFICES ASSUME Init PROVE OnceInv
  OBVIOUS
<1>1. \A j \in Jobs : status[j] = "none" <=> j > created
  BY DEF Init, Jobs
<1>. QED
  BY <1>1 DEF Init, OnceInv, ListsRise, Fresh, Running

LEMMA NextOnce == TypeOK /\ OnceInv /\ [Next]_vars => OnceInv'
<1> SUFFICES ASSUME TypeOK, OnceInv, [Next]_vars PROVE OnceInv'
  OBVIOUS
<1>t. /\ created \in Nat /\ status \in [Jobs -> Statuses] /\ replays \in [Workers -> [Jobs -> Nat]]
      /\ list \in [Workers -> Seq(Jobs)] /\ pc \in [Workers -> Steps]
  BY DEF TypeOK
<1>1. CASE UNCHANGED vars \/ DbDown \/ DbRecover
  <2>1. UNCHANGED <<created, status, list, pc, replays>>
    BY <1>1 DEF vars, DbDown, DbRecover
  <2>. QED
    BY <2>1 DEF OnceInv, ListsRise, Fresh, Untried, Current
<1>2. CASE CreateReplayJob
  <2>1. /\ created' = created + 1 /\ UNCHANGED <<list, pc, replays>>
        /\ \A j \in Jobs : status'[j] = IF j = created + 1 THEN "queued" ELSE status[j]
    BY <1>2, <1>t DEF CreateReplayJob
  <2>2. \A j \in Jobs : j = created + 1 => status[j] = "none"
    BY <1>t DEF OnceInv, Jobs
  <2>3. \A j \in Jobs : status'[j] = "none" <=> j > created'
    BY <1>t, <2>1, <2>2 DEF OnceInv, Jobs
  <2>4. \A w \in Workers : \A n \in DOMAIN list'[w] : list'[w][n] <= created'
    <3>1. \A w \in Workers : \A n \in DOMAIN list[w] : list[w][n] \in Nat
      BY ListType
    <3>. QED
      BY <1>t, <2>1, <3>1 DEF OnceInv
  <2>5. Fresh'
    BY <2>1, <2>2 DEF OnceInv, Fresh, Current
  <2>. QED
    BY <2>1, <2>3, <2>4, <2>5 DEF OnceInv, ListsRise, Untried
<1>3. ASSUME NEW w \in Workers, Work(w) \/ Crash(w) \/ Restart(w) PROVE OnceInv'
  <2>1. /\ \A v \in Workers \ {w} : list'[v] = list[v] /\ pc'[v] = pc[v]
        /\ created' = created
    BY <1>3, WorkerType DEF WorkerOK, Work, Read, Start, Replay, Complete, Fail, Crash, Restart
  <2>2. pc[w] \notin {"read", "down"} => Current(w) \in Jobs
    BY CurrentType
  <2>3. /\ \A j \in Jobs : status'[j] # status[j] =>
              j = Current(w) /\ status'[j] \notin {"none", "queued"}
                             /\ pc[w] \in {"start", "complete", "fail"}
        /\ \A v \in Workers : \A j \in Jobs : replays'[v][j] # replays[v][j] =>
              Replay(w) /\ v = w /\ j = Current(w) /\ replays'[v][j] = replays[v][j] + 1
    BY <1>3, <1>t, <2>2
    DEF Work, Read, Start, Replay, Complete, Fail, Crash, Restart, Statuses, Finished
  <2>4. pc'[w] \in Running =>
            /\ list'[w] = list[w]
            /\ pc[w] \in Running \/ (pc[w] = "start" /\ status'[Current(w)] = "running")
    BY <1>3, <1>t, <2>2 DEF Work, Read, Start, Replay, Complete, Fail, Crash, Restart, Exit, Done, Running
  <2>5. /\ \A m, n \in DOMAIN list'[w] : m < n => list'[w][m] < list'[w][n]
        /\ \A j \in Jobs : Untried(w, j)' =>
              Untried(w, j) \/ (Read(w) /\ status[j] = "queued")
        /\ \A n \in DOMAIN list'[w] :
              \/ \E m \in DOMAIN list[w] : list'[w][n] = list[w][m]
              \/ list'[w][n] \in Queued
    BY <1>3, ListStep DEF OnceInv
  <2>6. pc[w] \notin {"read", "down"} => Current(w) <= created
    <3>1. pc[w] \notin {"read", "down"} => 1 \in DOMAIN list[w] /\ Current(w) = list[w][1]
      BY <1>t DEF TypeOK, Current
    <3>2. \A n \in DOMAIN list[w] : list[w][n] <= created
      BY DEF OnceInv
    <3>. QED
      BY <3>1, <3>2
  <2>7. \A j \in Jobs : status'[j] = "none" <=> j > created'
    <3>1. \A j \in Jobs : status[j] = "none" <=> j > created
      BY DEF OnceInv
    <3>2. \A j \in Jobs : j \in Nat
      BY DEF Jobs
    <3>3. ASSUME NEW j \in Jobs, status'[j] # status[j]
          PROVE  j <= created /\ status'[j] # "none"
      BY <2>3, <2>6, <3>3
    <3>4. \A j \in Jobs : status[j] # status'[j] => ~ (j > created)
      BY <1>t, <3>2, <3>3
    <3>. QED
      BY <2>1, <3>1, <3>3, <3>4
  <2>8. \A v \in Workers : \A n \in DOMAIN list'[v] : list'[v][n] <= created'
    <3>1. \A j \in Queued : j <= created
      BY <1>t DEF OnceInv, Queued, Jobs
    <3>2. \A n \in DOMAIN list'[w] : list'[w][n] <= created
      BY <2>5, <3>1 DEF OnceInv
    <3>. QED
      BY <2>1, <3>2 DEF OnceInv
  <2>9. ListsRise'
    BY <2>1, <2>5 DEF OnceInv, ListsRise
  <2>10. Fresh'
    <3>1. SUFFICES ASSUME NEW j \in Jobs, status'[j] \in {"none", "queued"}
                   PROVE  \A v \in Workers :
                             replays'[v][j] = 0 /\ (pc'[v] \in Running => Head(list'[v]) # j)
      BY DEF Fresh, Current
    <3>2. status[j] = status'[j]
      BY <2>3, <3>1
    <3>3. \A v \in Workers : replays[v][j] = 0 /\ (pc[v] \in Running => Head(list[v]) # j)
      BY <3>1, <3>2 DEF OnceInv, Fresh, Current
    <3>4. \A v \in Workers : replays'[v][j] = 0
      BY <2>3, <3>3 DEF Replay, Running, Current
    <3>5. pc'[w] \in Running => Head(list'[w]) # j
      BY <2>4, <3>1, <3>3 DEF Current
    <3>. QED
      BY <2>1, <3>3, <3>4, <3>5
  <2>11. ASSUME NEW v \in Workers, NEW j \in Jobs
         PROVE  replays'[v][j] <= 1 /\ (Untried(v, j)' => replays'[v][j] = 0)
    <3>1. replays[v][j] \in Nat /\ replays[v][j] <= 1 /\ (Untried(v, j) => replays[v][j] = 0)
      BY <1>t DEF OnceInv
    <3>2. CASE v # w
      <4>1. Untried(v, j)' => Untried(v, j)
        BY <2>1, <3>2 DEF Untried
      <4>2. replays'[v][j] = replays[v][j]
        BY <2>3, <3>2
      <4>. QED
        BY <3>1, <4>1, <4>2
    <3>3. CASE v = w /\ Read(w) /\ status[j] = "queued"
      <4>1. replays[w][j] = 0
        BY <3>3 DEF OnceInv, Fresh
      <4>2. ~ Replay(w)
        BY <3>3 DEF Read, Replay
      <4>3. replays'[w][j] = replays[w][j]
        BY <2>3, <4>2
      <4>. QED
        BY <3>3, <4>1, <4>3
    <3>4. CASE v = w /\ Replay(w) /\ j = Current(w)
      <4>1. Untried(w, Current(w)) /\ ~ Untried(w, Current(w))'
        BY <3>4, ReplayTries DEF OnceInv
      <4>2. Current(w)' = Current(w)
        BY <3>4 DEF Replay, Current
      <4>3. Untried(w, j) /\ ~ Untried(w, j)'
        BY <3>4, <4>1, <4>2
      <4>4. replays'[w][j] = replays[w][j] \/ replays'[w][j] = replays[w][j] + 1
        BY <2>3
      <4>. QED
        BY <3>1, <3>4, <4>3, <4>4
    <3>5. CASE v = w /\ ~ (Read(w) /\ status[j] = "queued") /\ ~ (Replay(w) /\ j = Current(w))
      <4>1. replays'[v][j] = replays[v][j]
        BY <2>3, <3>5
      <4>2. Untried(v, j)' => Untried(v, j)
        BY <2>5, <3>5
      <4>. QED
        BY <3>1, <4>1, <4>2
    <3>. QED
      BY <3>2, <3>3, <3>4, <3>5
  <2>. QED
    BY <2>7, <2>8, <2>9, <2>10, <2>11 DEF OnceInv
<1>. QED
  BY <1>1, <1>2, <1>3 DEF Next

\* No worker replays the archive twice for one job, whatever crashes, restarts and
\* outages there are and whatever the other workers do.
THEOREM OncePerWorkerHolds == Spec => []OncePerWorker
<1>1. OnceInv => OncePerWorker
  BY DEF OnceInv, OncePerWorker
<1>. QED
  BY <1>1, InitType, NextType, InitOnce, NextOnce, PTL DEF Spec

-------------------------------------------------------------------------------
(* The replays.                                                            *)

\* Which step of the queue a step of a job is.
LEMMA JobStep == [JobNext]_jobVars => [Next]_vars
  BY DEF JobNext, jobVars, Proceed, Republish, NoRecords, WriteReport, Raise, CrashInReplay,
         Assign, Collect, Diagnose, Next, Work

\* The steps of a replay are steps of the queue or leave it alone: what is true of every
\* queue whose replays take one step is true of the detailed replays.
THEOREM JobImplementsQueue == JobSpec => Spec
<1>1. JobInit => Init
  BY DEF JobInit
<1>. QED
  BY <1>1, JobStep, PTL DEF JobSpec, Spec

\* No worker publishes the archive twice for one job, step by step as its replays go on.
THEOREM JobsOncePerWorker == JobSpec => []OncePerWorker
  BY JobImplementsQueue, OncePerWorkerHolds

-------------------------------------------------------------------------------
(* What the reports count.                                                 *)

Collecting(w, j) == At(w, "collect") /\ Current(w) = j

DetailType ==
    /\ step \in [Workers -> {"publish", "collect"}]
    /\ published \in Nat /\ since \in [Workers -> Nat]
    /\ holder \in [Jobs -> Workers \cup {Nowhere}] /\ position \in [Jobs -> Nat]
    /\ collected \in [Workers -> Seq(Nat)]
    /\ counted \in [Jobs -> [Workers -> Seq(Nat)]]

\* Only a worker that collects has joined the group of its job, at the end of the topic;
\* outside of a replay nothing is collected.
HolderInv ==
    /\ \A w \in Workers : since[w] <= published /\ (pc[w] # "replay" => step[w] = "publish")
    /\ \A w \in Workers : ~ At(w, "collect") => collected[w] = <<>>
    /\ \A j \in Jobs : \A w \in Workers : holder[j] = w =>
          Collecting(w, j) /\ since[w] <= position[j] /\ position[j] <= published

\* What was collected for a job lies behind the holder's position.
BehindInv ==
    /\ \A w \in Workers : \A n \in DOMAIN collected[w] :
          /\ collected[w][n] > since[w] /\ collected[w][n] <= published
          /\ holder[Current(w)] # Nowhere => collected[w][n] <= position[Current(w)]
    /\ \A j \in Jobs : \A w \in Workers : \A n \in DOMAIN counted[j][w] :
          /\ counted[j][w][n] <= published
          /\ holder[j] # Nowhere => counted[j][w][n] <= position[j]

Once(s) == \A m, n \in DOMAIN s : s[m] = s[n] => m = n
Apart(s, t) == \A m \in DOMAIN s, n \in DOMAIN t : s[m] # t[n]

\* The evidence for a job, reported or still in a worker, is without repetition.
ApartInv ==
    /\ \A w \in Workers : Once(collected[w])
    /\ \A j \in Jobs : \A w \in Workers : Once(counted[j][w])
    /\ \A j \in Jobs : \A v, w \in Workers : v # w => Apart(counted[j][v], counted[j][w])
    /\ \A v, w \in Workers : \A j \in Jobs :
          Collecting(w, j) => Apart(collected[w], counted[j][v])
    /\ \A v, w \in Workers : \A j \in Jobs :
          v # w /\ Collecting(v, j) /\ Collecting(w, j) => Apart(collected[v], collected[w])

DetailInv == DetailType /\ HolderInv /\ BehindInv /\ ApartInv

LEMMA EmptyApart == Once(<<>>) /\ \A s : Apart(<<>>, s) /\ Apart(s, <<>>)
  BY DEF Once, Apart

\* The elements of a sequence of numbers, and one more.
LEMMA SeqNat ==
    ASSUME NEW s \in Seq(Nat), NEW e \in Nat
    PROVE  /\ \A n \in DOMAIN s : s[n] \in Nat
           /\ \A n \in DOMAIN Append(s, e) :
                \/ n \in DOMAIN s /\ Append(s, e)[n] = s[n]
                \/ n = Len(s) + 1 /\ n \notin DOMAIN s /\ Append(s, e)[n] = e
<1>1. Len(s) \in Nat /\ DOMAIN s = 1 .. Len(s)
  OBVIOUS
<1>2. DOMAIN Append(s, e) = 1 .. Len(s) + 1
  OBVIOUS
<1>. QED
  BY <1>1, <1>2

LEMMA InitDetail == JobInit => DetailInv
  BY NowhereAssumption, EmptyApart
  DEF JobInit, Init, DetailInv, DetailType, HolderInv, BehindInv, ApartInv, Collecting, At, Once, Apart

\* A step of the queue that is no replay and leaves the details alone.
LEMMA OtherStepKeeps ==
    ASSUME TypeOK, DetailInv, UNCHANGED detail, NEW w \in Workers,
           Read(w) \/ Start(w) \/ Complete(w) \/ Fail(w) \/ Restart(w)
    PROVE  DetailInv'
<1>1. /\ pc[w] # "replay" /\ step[w] = "publish" /\ collected[w] = <<>>
      /\ UNCHANGED <<step, published, since, holder, position, collected, counted>>
  BY DEF Read, Start, Complete, Fail, Restart, DetailInv, HolderInv, At, detail, consumers
<1>2. \A v \in Workers \ {w} : list'[v] = list[v] /\ pc'[v] = pc[v]
  BY WorkerType DEF WorkerOK, Work
<1>3. \A v \in Workers : At(v, "collect")' = At(v, "collect")
  BY <1>1, <1>2 DEF At
<1>4. \A v \in Workers \ {w} : Current(v)' = Current(v)
  BY <1>2 DEF Current
<1>5. ~ At(w, "collect")
  BY <1>1 DEF At
<1>6. \A v \in Workers : \A j \in Jobs : Collecting(v, j)' = Collecting(v, j)
  BY <1>3, <1>4, <1>5 DEF Collecting
<1>7. HolderInv'
  BY <1>1, <1>2, <1>3, <1>6 DEF DetailInv, HolderInv
<1>8. BehindInv'
  BY <1>1, <1>4 DEF DetailInv, BehindInv
<1>. QED
  BY <1>1, <1>6, <1>7, <1>8 DEF DetailInv, DetailType, ApartInv

\* A worker leaves its replay; what it reports is what it collected, or as before.
LEMMA LeaveKeeps ==
    ASSUME TypeOK, DetailInv, NEW w \in Workers, Leave(w),
           Work(w) \/ Crash(w), pc'[w] # "replay",
           \/ UNCHANGED counted
           \/ /\ At(w, "collect") /\ Current(w) \in Jobs
              /\ counted' = [counted EXCEPT ![Current(w)][w] = collected[w]]
    PROVE  DetailInv'
<1>1. /\ \A v \in Workers \ {w} : list'[v] = list[v] /\ pc'[v] = pc[v]
  BY WorkerType DEF WorkerOK
<1>2. /\ \A v \in Workers \ {w} : step'[v] = step[v] /\ since'[v] = since[v]
                                   /\ collected'[v] = collected[v]
      /\ step'[w] = "publish" /\ since'[w] = 0 /\ collected'[w] = <<>>
      /\ published' = published
  BY DEF Leave, DetailInv, DetailType
<1>3. \A v \in Workers : At(v, "collect")' = (v # w /\ At(v, "collect"))
  BY <1>1, <1>2 DEF At
<1>4. \A v \in Workers \ {w} : Current(v)' = Current(v)
  BY <1>1 DEF Current
<1>5. \A v \in Workers : \A j \in Jobs : Collecting(v, j)' <=> v # w /\ Collecting(v, j)
  BY <1>3, <1>4 DEF Collecting
<1>6. \A j \in Jobs :
         /\ holder'[j] = IF holder[j] = w THEN Nowhere ELSE holder[j]
         /\ holder'[j] # Nowhere => position'[j] = position[j] /\ holder[j] = holder'[j]
  BY DEF Leave, DetailInv, DetailType
<1>7. /\ step' \in [Workers -> {"publish", "collect"}] /\ since' \in [Workers -> Nat]
      /\ holder' \in [Jobs -> Workers \cup {Nowhere}] /\ position' \in [Jobs -> Nat]
      /\ collected' \in [Workers -> Seq(Nat)]
  <2>1. /\ step \in [Workers -> {"publish", "collect"}] /\ since \in [Workers -> Nat]
        /\ collected \in [Workers -> Seq(Nat)] /\ position \in [Jobs -> Nat] /\ <<>> \in Seq(Nat)
        /\ holder \in [Jobs -> Workers \cup {Nowhere}]
    BY DEF DetailInv, DetailType
  <2>2. \A j \in Jobs : (IF holder'[j] = Nowhere THEN 0 ELSE position[j]) \in Nat
    BY <2>1
  <2>3. position' \in [Jobs -> Nat]
    BY <2>2 DEF Leave
  <2>4. collected' \in [Workers -> Seq(Nat)] /\ since' \in [Workers -> Nat]
    BY <2>1 DEF Leave
  <2>5. holder' \in [Jobs -> Workers \cup {Nowhere}]
    BY <2>1 DEF Leave
  <2>6. step' \in [Workers -> {"publish", "collect"}]
    BY <2>1 DEF Leave
  <2>. QED
    BY <2>3, <2>4, <2>5, <2>6
<1>8. \A j \in Jobs, v \in Workers :
         \/ counted'[j][v] = counted[j][v]
         \/ v = w /\ Collecting(w, j) /\ counted'[j][v] = collected[w]
  <2>1. counted \in [Jobs -> [Workers -> Seq(Nat)]]
    BY DEF DetailInv, DetailType
  <2>2. CASE UNCHANGED counted
    BY <2>2
  <2>3. CASE ~ UNCHANGED counted
    <3>1. PICK k \in Jobs : k = Current(w) /\ counted' = [counted EXCEPT ![k][w] = collected[w]]
      BY <2>3
    <3>2. Collecting(w, k)
      BY <2>3, <3>1 DEF Collecting
    <3>3. \A j \in Jobs, v \in Workers :
             counted'[j][v] = IF j = k /\ v = w THEN collected[w] ELSE counted[j][v]
      BY <2>1, <3>1
    <3>. QED
      BY <3>2, <3>3
  <2>. QED
    BY <2>2, <2>3
<1>9. counted' \in [Jobs -> [Workers -> Seq(Nat)]]
  <2>1. counted \in [Jobs -> [Workers -> Seq(Nat)]] /\ collected[w] \in Seq(Nat)
    BY DEF DetailInv, DetailType
  <2>2. \A k \in Jobs : [counted EXCEPT ![k][w] = collected[w]] \in [Jobs -> [Workers -> Seq(Nat)]]
    BY <2>1
  <2>. QED
    BY <2>1, <2>2
<1>10. HolderInv'
  <2>1. \A v \in Workers : since'[v] <= published' /\ (pc'[v] # "replay" => step'[v] = "publish")
    <3>1. ASSUME NEW v \in Workers, v # w
          PROVE  since'[v] <= published' /\ (pc'[v] # "replay" => step'[v] = "publish")
      BY <1>1, <1>2, <3>1 DEF DetailInv, HolderInv
    <3>2. 0 <= published
      BY DEF DetailInv, DetailType
    <3>. QED
      BY <1>2, <3>1, <3>2
  <2>2. \A v \in Workers : ~ At(v, "collect")' => collected'[v] = <<>>
    BY <1>2, <1>3 DEF DetailInv, HolderInv
  <2>3. ASSUME NEW j \in Jobs, NEW v \in Workers, holder'[j] = v
        PROVE  Collecting(v, j)' /\ since'[v] <= position'[j] /\ position'[j] <= published'
    <3>1. holder[j] = v /\ v # w /\ position'[j] = position[j]
      BY <1>6, <2>3, NowhereAssumption
    <3>. QED
      BY <1>2, <1>5, <3>1 DEF DetailInv, HolderInv
  <2>. QED
    BY <2>1, <2>2, <2>3 DEF HolderInv
<1>11. BehindInv'
  <2>1. ASSUME NEW v \in Workers, NEW n \in DOMAIN collected'[v]
        PROVE  /\ collected'[v][n] > since'[v] /\ collected'[v][n] <= published'
               /\ holder'[Current(v)'] # Nowhere => collected'[v][n] <= position'[Current(v)']
    <3>1. v # w /\ At(v, "collect")
      BY <1>2, <2>1 DEF DetailInv, HolderInv
    <3>2. Current(v) \in Jobs
      BY <3>1, CurrentType DEF At
    <3>. QED
      BY <1>2, <1>4, <1>6, <2>1, <3>1, <3>2 DEF DetailInv, BehindInv
  <2>2. ASSUME NEW j \in Jobs, NEW v \in Workers, NEW n \in DOMAIN counted'[j][v]
        PROVE  /\ counted'[j][v][n] <= published'
               /\ holder'[j] # Nowhere => counted'[j][v][n] <= position'[j]
    BY <1>2, <1>6, <1>8, <2>2 DEF DetailInv, BehindInv, Collecting
  <2>. QED
    BY <2>1, <2>2 DEF BehindInv
<1>12. ApartInv'
  <2>1. \A v \in Workers : Once(collected'[v])
    BY <1>2, EmptyApart DEF DetailInv, ApartInv
  <2>2. \A j \in Jobs : \A v \in Workers : Once(counted'[j][v])
    BY <1>8 DEF DetailInv, ApartInv
  <2>3. \A j \in Jobs : \A u, v \in Workers : u # v => Apart(counted'[j][u], counted'[j][v])
    BY <1>8 DEF DetailInv, ApartInv, Apart
  <2>4. \A u, v \in Workers : \A j \in Jobs :
           Collecting(v, j)' => Apart(collected'[v], counted'[j][u])
    BY <1>2, <1>5, <1>8 DEF DetailInv, ApartInv
  <2>5. \A u, v \in Workers : \A j \in Jobs :
           u # v /\ Collecting(u, j)' /\ Collecting(v, j)' => Apart(collected'[u], collected'[v])
    BY <1>2, <1>5 DEF DetailInv, ApartInv
  <2>. QED
    BY <2>1, <2>2, <2>3, <2>4, <2>5 DEF ApartInv, Once, Apart
<1>. QED
  BY <1>2, <1>7, <1>9, <1>10, <1>11, <1>12 DEF DetailInv, DetailType

\* The worker turns to its diagnosis consumer, which has collected nothing so far.
LEMMA RepublishKeeps ==
    ASSUME TypeOK, DetailInv, NEW w \in Workers, Republish(w)
    PROVE  DetailInv'
<1>1. /\ UNCHANGED <<pc, list, published, holder, position, collected, counted>>
      /\ pc[w] = "replay" /\ collected[w] = <<>>
      /\ \A v \in Workers : step'[v] = (IF v = w THEN "collect" ELSE step[v])
      /\ \A v \in Workers : since'[v] = (IF v = w THEN published ELSE since[v])
      /\ step' \in [Workers -> {"publish", "collect"}] /\ since' \in [Workers -> Nat]
  BY DEF Republish, At, vars, consumers, DetailInv, DetailType, HolderInv
<1>2. \A v \in Workers : Current(v)' = Current(v)
  BY <1>1 DEF Current
<1>3. \A v \in Workers : At(v, "collect")' <=> v = w \/ At(v, "collect")
  BY <1>1 DEF At
<1>4. ~ At(w, "collect")
  BY DEF Republish, At
<1>5. \A v \in Workers \ {w} : \A j \in Jobs : Collecting(v, j)' <=> Collecting(v, j)
  BY <1>2, <1>3 DEF Collecting
<1>6. HolderInv'
  <2>1. \A v \in Workers : since'[v] <= published' /\ (pc'[v] # "replay" => step'[v] = "publish")
    <3>1. ASSUME NEW v \in Workers, v # w
          PROVE  since'[v] <= published' /\ (pc'[v] # "replay" => step'[v] = "publish")
      BY <1>1, <3>1 DEF DetailInv, HolderInv
    <3>2. published <= published
      BY DEF DetailInv, DetailType
    <3>. QED
      BY <1>1, <3>1, <3>2
  <2>2. \A v \in Workers : ~ At(v, "collect")' => collected'[v] = <<>>
    BY <1>1, <1>3 DEF DetailInv, HolderInv
  <2>3. \A j \in Jobs : holder[j] # w
    BY <1>4 DEF DetailInv, HolderInv, Collecting
  <2>. QED
    BY <1>1, <1>5, <2>1, <2>2, <2>3 DEF DetailInv, HolderInv
<1>7. BehindInv'
  BY <1>1, <1>2 DEF DetailInv, BehindInv
<1>8. ApartInv'
  BY <1>1, <1>5, EmptyApart DEF DetailInv, ApartInv
<1>. QED
  BY <1>1, <1>6, <1>7, <1>8 DEF DetailInv, DetailType

\* A diagnosis arrives: nobody has it yet.
LEMMA DiagnoseKeeps ==
    ASSUME TypeOK, DetailInv, Diagnose
    PROVE  DetailInv'
<1>1. /\ UNCHANGED <<pc, list, step, since, holder, position, collected, counted>>
      /\ published' = published + 1 /\ published \in Nat /\ published' \in Nat
  BY DEF Diagnose, vars, consumers, DetailInv, DetailType
<1>2. \A n \in Nat : n <= published => n <= published'
  BY <1>1
<1>3. HolderInv'
  BY <1>1, <1>2 DEF DetailInv, DetailType, HolderInv, Collecting, At, Current
<1>4. BehindInv'
  <2>1. /\ \A w \in Workers : \A n \in DOMAIN collected[w] : collected[w][n] \in Nat
        /\ \A j \in Jobs : \A w \in Workers : \A n \in DOMAIN counted[j][w] : counted[j][w][n] \in Nat
    BY DEF DetailInv, DetailType
  <2>. QED
    BY <1>1, <1>2, <2>1 DEF DetailInv, BehindInv, Current
<1>. QED
  BY <1>1, <1>3, <1>4 DEF DetailInv, DetailType, ApartInv, Collecting, At, Current

\* The consumer gets the partition at its end, behind everything collected before.
LEMMA AssignKeeps ==
    ASSUME TypeOK, DetailInv, NEW w \in Workers, Assign(w)
    PROVE  DetailInv'
<1>1. PICK k \in Jobs : k = Current(w)
  BY CurrentType DEF Assign, At
<1>2. /\ UNCHANGED <<pc, list, step, published, since, collected, counted>>
      /\ Collecting(w, k)
      /\ \A j \in Jobs : holder'[j] = (IF j = k THEN w ELSE holder[j])
      /\ \A j \in Jobs : position'[j] = (IF j = k THEN published ELSE position[j])
      /\ holder' \in [Jobs -> Workers \cup {Nowhere}] /\ position' \in [Jobs -> Nat]
  BY <1>1 DEF Assign, vars, Collecting, DetailInv, DetailType
<1>3. \A v \in Workers : \A j \in Jobs : Collecting(v, j)' <=> Collecting(v, j)
  BY <1>2 DEF Collecting, At, Current
<1>4. HolderInv'
  <2>1. ASSUME NEW j \in Jobs, NEW v \in Workers, holder'[j] = v
        PROVE  Collecting(v, j)' /\ since'[v] <= position'[j] /\ position'[j] <= published'
    <3>1. CASE j = k
      <4>1. v = w /\ Collecting(v, j)
        BY <1>2, <2>1, <3>1
      <4>2. published <= published /\ since[w] <= published
        BY DEF DetailInv, DetailType, HolderInv
      <4>. QED
        BY <1>2, <1>3, <3>1, <4>1, <4>2
    <3>2. CASE j # k
      BY <1>2, <1>3, <2>1, <3>2 DEF DetailInv, HolderInv
    <3>. QED
      BY <3>1, <3>2
  <2>2. \A v \in Workers : ~ At(v, "collect")' => collected'[v] = <<>>
    BY <1>2 DEF DetailInv, HolderInv, At
  <2>. QED
    BY <1>2, <2>1, <2>2 DEF DetailInv, HolderInv
<1>5. BehindInv'
  <2>1. \A v \in Workers : \A n \in DOMAIN collected[v] : Current(v)' = Current(v) /\ Current(v) \in Jobs
    BY <1>2, CurrentType DEF DetailInv, HolderInv, At, Current
  <2>. QED
    BY <1>2, <2>1 DEF DetailInv, BehindInv
<1>. QED
  BY <1>2, <1>3, <1>4, <1>5 DEF DetailInv, DetailType, ApartInv

\* The holder takes the next diagnosis, which lies behind all that was collected for the job.
LEMMA CollectKeeps ==
    ASSUME TypeOK, DetailInv, NEW w \in Workers, Collect(w)
    PROVE  DetailInv'
<1>1. PICK k \in Jobs : k = Current(w)
  BY CurrentType DEF Collect, At
<1>2. /\ UNCHANGED <<pc, list, step, published, since, holder, counted>>
      /\ Collecting(w, k) /\ holder[k] = w /\ position[k] < published
      /\ position' = [position EXCEPT ![k] = @ + 1]
      /\ collected' = [collected EXCEPT ![w] = Append(@, position[k] + 1)]
  BY <1>1 DEF Collect, vars, Collecting
<1>3. /\ position \in [Jobs -> Nat] /\ published \in Nat /\ since \in [Workers -> Nat]
      /\ collected \in [Workers -> Seq(Nat)] /\ counted \in [Jobs -> [Workers -> Seq(Nat)]]
      /\ position[k] + 1 \in Nat /\ collected[w] \in Seq(Nat)
  BY DEF DetailInv, DetailType
<1>4. \A v \in Workers : collected'[v] = (IF v = w THEN Append(collected[w], position[k] + 1) ELSE collected[v])
  BY <1>2, <1>3
<1>5. \A j \in Jobs : position'[j] = (IF j = k THEN position[k] + 1 ELSE position[j])
  BY <1>2, <1>3
<1>6. /\ position' \in [Jobs -> Nat] /\ collected' \in [Workers -> Seq(Nat)]
  BY <1>2, <1>3
<1>7. \A n \in DOMAIN collected'[w] :
         \/ n \in DOMAIN collected[w] /\ collected'[w][n] = collected[w][n]
         \/ n = Len(collected[w]) + 1 /\ n \notin DOMAIN collected[w] /\ collected'[w][n] = position[k] + 1
  <2>1. PICK s \in Seq(Nat) : s = collected[w]
    BY <1>3
  <2>2. PICK e \in Nat : e = position[k] + 1
    BY <1>3
  <2>3. collected'[w] = Append(s, e)
    BY <1>4, <2>1, <2>2
  <2>. QED
    BY <2>1, <2>2, <2>3, SeqNat
<1>8. \A v \in Workers : Current(v)' = Current(v) /\ (At(v, "collect")' <=> At(v, "collect"))
  BY <1>2 DEF Current, At
<1>9. \A v \in Workers : \A j \in Jobs : Collecting(v, j)' <=> Collecting(v, j)
  BY <1>8 DEF Collecting
<1>10. HolderInv'
  <2>1. \A j \in Jobs, v \in Workers : holder'[j] = v =>
           Collecting(v, j)' /\ since'[v] <= position'[j] /\ position'[j] <= published'
    <3> SUFFICES ASSUME NEW j \in Jobs, NEW v \in Workers, holder[j] = v
                 PROVE  /\ Collecting(v, j)
                        /\ since[v] <= position'[j] /\ position'[j] <= published
      BY <1>2, <1>9
    <3>1. Collecting(v, j) /\ since[v] <= position[j] /\ position[j] <= published
      BY DEF DetailInv, HolderInv
    <3>2. since[v] \in Nat /\ position[j] \in Nat /\ position[k] \in Nat /\ published \in Nat
      BY <1>3
    <3>. QED
      BY <1>2, <1>5, <3>1, <3>2
  <2>2. \A v \in Workers : ~ At(v, "collect")' => collected'[v] = <<>>
    BY <1>2, <1>4, <1>8 DEF DetailInv, HolderInv, Collecting
  <2>. QED
    BY <1>2, <2>1, <2>2 DEF DetailInv, HolderInv
<1>11. \A v \in Workers : \A n \in DOMAIN collected[v] : collected[v][n] \in Nat /\ Current(v) \in Jobs
  <2>1. \A v \in Workers : collected[v] # <<>> => Current(v) \in Jobs
    BY CurrentType DEF DetailInv, HolderInv, At
  <2>2. \A v \in Workers : \A n \in DOMAIN collected[v] : collected[v] # <<>>
    BY <1>3
  <2>3. \A v \in Workers : \A n \in DOMAIN collected[v] : collected[v][n] \in Nat
    BY <1>3, SeqNat
  <2>. QED
    BY <2>1, <2>2, <2>3
<1>12. \A j \in Jobs, v \in Workers : \A n \in DOMAIN counted[j][v] : counted[j][v][n] \in Nat
  BY <1>3
<1>13. since[w] <= position[k] /\ position[k] \in Nat /\ since[w] \in Nat
  BY <1>2, <1>3 DEF DetailInv, HolderInv
<1>14. BehindInv'
  <2>1. ASSUME NEW v \in Workers, NEW n \in DOMAIN collected'[v]
        PROVE  /\ collected'[v][n] > since'[v] /\ collected'[v][n] <= published'
               /\ holder'[Current(v)'] # Nowhere => collected'[v][n] <= position'[Current(v)']
    <3>1. CASE n \in DOMAIN collected[v] /\ collected'[v][n] = collected[v][n]
      <4>1. PICK j \in Jobs : j = Current(v)
        BY <1>11, <3>1
      <4>2. PICK e \in Nat : e = collected[v][n]
        BY <1>11, <3>1
      <4>3. e > since[v] /\ e <= published /\ (holder[j] # Nowhere => e <= position[j])
        BY <3>1, <4>1, <4>2 DEF DetailInv, BehindInv
      <4>4. position[j] \in Nat /\ position[j] <= position'[j]
        <5>1. position[j] \in Nat /\ position[j] <= position[j] /\ position[j] <= position[j] + 1
          BY <1>3
        <5>. QED
          BY <1>5, <5>1
      <4>5. e <= position[j] => e <= position'[j]
        BY <1>6, <4>4
      <4>. QED
        BY <1>2, <1>8, <3>1, <4>1, <4>2, <4>3, <4>5
    <3>2. CASE v = w /\ collected'[v][n] = position[k] + 1
      BY <1>1, <1>2, <1>3, <1>5, <1>8, <1>13, <3>2
    <3>. QED
      BY <1>4, <1>7, <2>1, <3>1, <3>2
  <2>2. ASSUME NEW j \in Jobs, NEW v \in Workers, NEW n \in DOMAIN counted'[j][v]
        PROVE  /\ counted'[j][v][n] <= published'
               /\ holder'[j] # Nowhere => counted'[j][v][n] <= position'[j]
    <3>1. counted' = counted /\ holder' = holder /\ published' = published
      BY <1>2
    <3>2. PICK e \in Nat : e = counted[j][v][n]
      BY <1>12, <2>2, <3>1
    <3>3. e <= published /\ (holder[j] # Nowhere => e <= position[j])
      BY <2>2, <3>1, <3>2 DEF DetailInv, BehindInv
    <3>4. position[j] \in Nat /\ position[k] \in Nat
      BY <1>3
    <3>5. position'[j] \in Nat /\ position[j] <= position'[j]
      BY <1>5, <3>4
    <3>6. e <= position[j] => e <= position'[j]
      BY <3>4, <3>5
    <3>. QED
      BY <3>1, <3>2, <3>3, <3>6
  <2>. QED
    BY <2>1, <2>2 DEF BehindInv
<1>15. holder[k] # Nowhere
  BY <1>2, NowhereAssumption
<1>16. \A v \in Workers : Collecting(v, k) => \A n \in DOMAIN collected[v] : collected[v][n] # position[k] + 1
  <2>1. ASSUME NEW v \in Workers, Collecting(v, k), NEW n \in DOMAIN collected[v]
        PROVE  collected[v][n] # position[k] + 1
    <3>1. Current(v) = k /\ collected[v][n] \in Nat /\ position[k] \in Nat
      BY <1>3, <1>11, <2>1 DEF Collecting
    <3>2. collected[v][n] <= position[k]
      BY <1>15, <2>1, <3>1 DEF DetailInv, BehindInv
    <3>. QED
      BY <3>1, <3>2
  <2>. QED
    BY <2>1
<1>17. \A v \in Workers : \A n \in DOMAIN counted[k][v] : counted[k][v][n] # position[k] + 1
  BY <1>3, <1>12, <1>15 DEF DetailInv, BehindInv
<1>18. ApartInv'
  <2>1. \A v \in Workers : Once(collected'[v])
    BY <1>2, <1>4, <1>7, <1>16 DEF DetailInv, ApartInv, Once
  <2>2. \A u, v \in Workers : \A j \in Jobs :
           Collecting(v, j)' => Apart(collected'[v], counted'[j][u])
    <3>1. ASSUME NEW u \in Workers, NEW v \in Workers, NEW j \in Jobs, Collecting(v, j)
          PROVE  Apart(collected'[v], counted[j][u])
      <4>1. Apart(collected[v], counted[j][u]) /\ (v = w => j = k)
        BY <1>1, <3>1 DEF DetailInv, ApartInv, Collecting
      <4>. QED
        BY <1>4, <1>7, <1>17, <4>1 DEF Apart
    <3>. QED
      BY <1>2, <1>9, <3>1
  <2>3. \A u, v \in Workers : \A j \in Jobs :
           u # v /\ Collecting(u, j)' /\ Collecting(v, j)' => Apart(collected'[u], collected'[v])
    <3>1. ASSUME NEW u \in Workers, NEW v \in Workers, NEW j \in Jobs,
                 u # v, Collecting(u, j), Collecting(v, j)
          PROVE  Apart(collected'[u], collected'[v])
      <4>1. Apart(collected[u], collected[v]) /\ (u = w \/ v = w => j = k)
        BY <1>1, <3>1 DEF DetailInv, ApartInv, Collecting
      <4>2. CASE u = w
        BY <1>4, <1>7, <1>16, <3>1, <4>1, <4>2 DEF Apart
      <4>3. CASE v = w
        BY <1>4, <1>7, <1>16, <3>1, <4>1, <4>3 DEF Apart
      <4>4. CASE u # w /\ v # w
        BY <1>4, <4>1, <4>4
      <4>. QED
        BY <4>2, <4>3, <4>4
    <3>. QED
      BY <1>9, <3>1
  <2>. QED
    BY <1>2, <2>1, <2>2, <2>3 DEF DetailInv, ApartInv, Once, Apart
<1>. QED
  BY <1>2, <1>6, <1>10, <1>14, <1>18 DEF DetailInv, DetailType

LEMMA NextDetail == TypeOK /\ DetailInv /\ [JobNext]_jobVars => DetailInv'
<1> SUFFICES ASSUME TypeOK, DetailInv, [JobNext]_jobVars PROVE DetailInv'
  OBVIOUS
<1>1. CASE UNCHANGED <<pc, list, detail>>
  BY <1>1 DEF detail, consumers, DetailInv, DetailType, HolderInv, BehindInv, ApartInv,
              Collecting, At, Current
<1>2. UNCHANGED jobVars \/ ((CreateReplayJob \/ DbDown \/ DbRecover) /\ UNCHANGED detail)
         => UNCHANGED <<pc, list, detail>>
  BY DEF jobVars, vars, CreateReplayJob, DbDown, DbRecover
<1>3. ASSUME NEW w \in Workers, WriteReport(w) PROVE DetailInv'
  <2>1. /\ Leave(w) /\ Work(w) /\ pc'[w] # "replay" /\ At(w, "collect")
        /\ counted' = [counted EXCEPT ![Current(w)][w] = collected[w]]
    BY <1>3 DEF WriteReport, Work
  <2>2. Current(w) \in Jobs
    BY <2>1, CurrentType DEF At
  <2>. QED
    BY <2>1, <2>2, LeaveKeeps
<1>4. ASSUME NEW w \in Workers, Raise(w) \/ CrashInReplay(w) PROVE DetailInv'
  <2>1. pc'[w] # "replay"
    BY <1>4 DEF Raise, CrashInReplay, Crash, Exit, TypeOK
  <2>. QED
    BY <1>4, <2>1, LeaveKeeps DEF Raise, CrashInReplay, Work
<1>. QED
  BY <1>1, <1>2, <1>3, <1>4, OtherStepKeeps, RepublishKeeps, DiagnoseKeeps, AssignKeeps,
     CollectKeeps
  DEF JobNext, Proceed, NoRecords

LEMMA JobType == JobSpec => [](TypeOK /\ DetailInv)
<1>1. JobInit => TypeOK /\ DetailInv
  BY InitType, InitDetail DEF JobInit
<1>2. TypeOK /\ DetailInv /\ [JobNext]_jobVars => (TypeOK /\ DetailInv)'
  BY JobStep, NextType, NextDetail
<1>. QED
  BY <1>1, <1>2, PTL DEF JobSpec

\* A diagnosis counts at most once in all the reports of a job, however often its
\* consumer group changes hands between workers that replay the same job.
THEOREM EvidenceOnce == JobSpec => []CountedOncePerJob
<1>1. DetailInv => CountedOncePerJob
  BY DEF DetailInv, ApartInv, Once, Apart, CountedOncePerJob
<1>. QED
  BY <1>1, JobType, PTL

\* No report counts a diagnosis that was published before the end of its replay.
THEOREM EvidenceLater == JobSpec => []CountsOnlyLater
<1>1. DetailInv => CountsOnlyLater
  BY DEF DetailInv, BehindInv, CountsOnlyLater
<1>. QED
  BY <1>1, JobType, PTL
-------------------------------------------------------------------------------
(* Sums over finite sets, by the smallest counterexample.                  *)

\* A set of numbers has a least one.
LEMMA LeastNumber ==
    ASSUME NEW B, B \subseteq Nat, B # {}
    PROVE  \E n \in B : \A m \in B : n <= m
<1>1. PICK n \in B : \A m \in B : ~ (<<m, n>> \in OpToRel(<, Nat))
  BY NatLessThanWellFounded, WFMin
<1>2. \A m \in B : ~ (m < n)
  BY <1>1 DEF OpToRel
<1>. QED
  BY <1>2

\* A family of subsets of a finite set has a member that contains no other.
LEMMA SmallestSet ==
    ASSUME NEW S, IsFiniteSet(S), NEW U \in SUBSET (SUBSET S), U # {}
    PROVE  \E T \in U : \A V \in U : V \subseteq T => V = T
<1>0. IsWellFoundedOn(StrictSubsetOrdering(S), SUBSET S)
  BY FS_StrictSubsetOrderingWellFounded, FS_FiniteSubsetsOfFinite, Zenon
<1>1. PICK T \in U : \A V \in U : ~ (<<V, T>> \in StrictSubsetOrdering(S))
  BY <1>0, WFMin, Zenon
<1>2. \A V \in U : V \subseteq T /\ V # T => <<V, T>> \in StrictSubsetOrdering(S)
  BY Zenon DEF StrictSubsetOrdering
<1>3. \A V \in U : V \subseteq T => V = T
  BY <1>1, <1>2, Zenon
<1>. QED
  BY <1>3, Zenon

\* The recursion that adds up the values of v over the members of a set.
IsSum(f, v, S) ==
    f = [T \in SUBSET S |-> IF T = {} THEN 0
                           ELSE v[CHOOSE x \in T : TRUE] + f[T \ {CHOOSE x \in T : TRUE}]]

\* The members of D that b takes into T.
Fibre(D, b, T) == {d \in D : b[d] \in T}

\* When v[x] counts the members of D that b takes to x, the sum counts those that b
\* takes into the set.
LEMMA FibreSum ==
    ASSUME NEW D, IsFiniteSet(D), NEW S, NEW b,
           NEW v, \A x \in S : v[x] = Cardinality(Fibre(D, b, {x}))
    PROVE  IsSum([T \in SUBSET S |-> Cardinality(Fibre(D, b, T))], v, S)
<1> DEFINE h == [T \in SUBSET S |-> Cardinality(Fibre(D, b, T))]
<1>1. h[{}] = 0
  <2>1. Fibre(D, b, {}) = {}
    BY DEF Fibre
  <2>. QED
    BY <2>1, FS_EmptySet
<1>2. ASSUME NEW T \in SUBSET S, T # {}
      PROVE  h[T] = v[CHOOSE x \in T : TRUE] + h[T \ {CHOOSE x \in T : TRUE}]
  <2>1. PICK x \in T : x = CHOOSE y \in T : TRUE
    BY <1>2
  <2>2. PICK A, B : A = Fibre(D, b, {x}) /\ B = Fibre(D, b, T \ {x})
    OBVIOUS
  <2>3. /\ A \cup B = Fibre(D, b, T) /\ A \cap B = {}
        /\ A \subseteq D /\ B \subseteq D
    BY <2>2 DEF Fibre
  <2>4. IsFiniteSet(A) /\ IsFiniteSet(B)
    BY <2>3, FS_Subset
  <2>5. Cardinality(A \cup B) = Cardinality(A) + Cardinality(B) - Cardinality(A \cap B)
    BY <2>4, FS_Union
  <2>6. Cardinality(A \cap B) = 0 /\ Cardinality(A) \in Nat /\ Cardinality(B) \in Nat
    BY <2>3, <2>4, FS_EmptySet, FS_CardinalityType
  <2>7. Cardinality(A \cup B) = Cardinality(A) + Cardinality(B)
    BY <2>5, <2>6
  <2>8. v[x] = Cardinality(A)
    BY <2>2
  <2>9. h[T] = Cardinality(A \cup B) /\ h[T \ {x}] = Cardinality(B)
    BY <2>2, <2>3
  <2>. QED
    BY <2>1, <2>7, <2>8, <2>9, Zenon
<1>3. h = [T \in SUBSET S |->
              IF T = {} THEN 0
              ELSE v[CHOOSE x \in T : TRUE] + h[T \ {CHOOSE x \in T : TRUE}]]
  BY <1>1, <1>2
<1>. HIDE DEF h
<1>4. IsSum(h, v, S)
  BY <1>3, Zenon DEF IsSum
<1>. QED
  BY <1>4, Zenon DEF h

\* There is only one sum.
LEMMA SumUnique ==
    ASSUME NEW S, IsFiniteSet(S), NEW v, NEW f, NEW g, IsSum(f, v, S), IsSum(g, v, S)
    PROVE  f[S] = g[S]
<1>1. /\ f = [T \in SUBSET S |-> IF T = {} THEN 0
                                ELSE v[CHOOSE x \in T : TRUE] + f[T \ {CHOOSE x \in T : TRUE}]]
      /\ g = [T \in SUBSET S |-> IF T = {} THEN 0
                                ELSE v[CHOOSE x \in T : TRUE] + g[T \ {CHOOSE x \in T : TRUE}]]
  BY Zenon DEF IsSum
<1> DEFINE Bad == {T \in SUBSET S : f[T] # g[T]}
<1>2. ASSUME Bad # {} PROVE FALSE
  <2>1. PICK T \in Bad : \A V \in Bad : V \subseteq T => V = T
    <3>1. PICK U : U = Bad
      OBVIOUS
    <3>2. U \in SUBSET (SUBSET S) /\ U # {}
      BY <1>2, <3>1
    <3>3. \E V \in U : \A W \in U : W \subseteq V => W = V
      BY <3>2, SmallestSet
    <3>. QED
      BY <3>1, <3>3, Zenon
  <2>2. CASE T = {}
    BY <1>1, <2>1, <2>2
  <2>3. CASE T # {}
    <3>1. PICK x \in T : x = CHOOSE y \in T : TRUE
      BY <2>3
    <3>2. T \ {x} \in SUBSET S /\ T \in SUBSET S
      BY <2>1
    <3>3. f[T] = v[x] + f[T \ {x}] /\ g[T] = v[x] + g[T \ {x}]
      BY <1>1, <2>3, <3>1, <3>2
    <3>4. f[T \ {x}] = g[T \ {x}]
      BY <2>1, <3>2
    <3>. QED
      BY <2>1, <3>3, <3>4
  <2>. QED
    BY <2>2, <2>3
<1>. QED
  BY <1>2

\* How many members of A are in T, and without one member of T.
LEMMA OneLess ==
    ASSUME NEW T, IsFiniteSet(T), NEW x \in T, NEW A
    PROVE  /\ Cardinality(A \cap T) \in Nat /\ Cardinality(A \cap (T \ {x})) \in Nat
           /\ Cardinality(A \cap T) =
                Cardinality(A \cap (T \ {x})) + (IF x \in A THEN 1 ELSE 0)
<1>1. PICK B : B = A \cap T
  OBVIOUS
<1>2. IsFiniteSet(B)
  BY <1>1, FS_Subset
<1>3. CASE x \in A
  <2>1. x \in B /\ A \cap (T \ {x}) = B \ {x}
    BY <1>1, <1>3
  <2>2. Cardinality(B \ {x}) = Cardinality(B) - 1 /\ IsFiniteSet(B \ {x})
    BY <1>2, <2>1, FS_RemoveElement
  <2>3. Cardinality(B) \in Nat /\ Cardinality(B \ {x}) \in Nat
    BY <1>2, <2>2, FS_CardinalityType
  <2>4. PICK m, n \in Nat : m = Cardinality(B) /\ n = Cardinality(B \ {x})
    BY <2>3
  <2>5. m = n + 1
    BY <2>2, <2>4
  <2>6. Cardinality(A \cap T) = m /\ Cardinality(A \cap (T \ {x})) = n
    BY <1>1, <2>1, <2>4
  <2>. QED
    BY <1>3, <2>5, <2>6
<1>4. CASE x \notin A
  <2>1. A \cap (T \ {x}) = B
    BY <1>1, <1>4
  <2>2. Cardinality(B) \in Nat
    BY <1>2, FS_CardinalityType
  <2>. QED
    BY <1>1, <1>4, <2>1, <2>2
<1>. QED
  BY <1>3, <1>4

\* SumFunction is that sum.
LEMMA SumIs ==
    ASSUME NEW v, NEW h, IsSum(h, v, DOMAIN v), IsFiniteSet(DOMAIN v)
    PROVE  SumFunction(v) = h[DOMAIN v]
<1> DEFINE D == DOMAIN v
<1>1. h = [T \in SUBSET D |-> IF T = {} THEN 0
             ELSE v[CHOOSE x \in T : TRUE] + h[T \ {CHOOSE x \in T : TRUE}]]
  BY Zenon DEF IsSum
<1>2. \E g : g = [T \in SUBSET D |-> IF T = {} THEN 0
             ELSE v[CHOOSE x \in T : TRUE] + g[T \ {CHOOSE x \in T : TRUE}]]
  BY <1>1, Zenon
<1>3. PICK f : f = CHOOSE g : g = [T \in SUBSET D |-> IF T = {} THEN 0
             ELSE v[CHOOSE x \in T : TRUE] + g[T \ {CHOOSE x \in T : TRUE}]]
  OBVIOUS
<1>4. f = [T \in SUBSET D |-> IF T = {} THEN 0
             ELSE v[CHOOSE x \in T : TRUE] + f[T \ {CHOOSE x \in T : TRUE}]]
  BY <1>2, <1>3, Zenon
<1>5. IsSum(f, v, D)
  BY <1>4, Zenon DEF IsSum
<1>6. f[D] = h[D]
  BY <1>5, SumUnique
<1>7. SumFunction(v) = f[D]
  BY <1>3, Zenon DEF SumFunction, SumFunctionOnSet, FoldFunctionOnSet, MapThenFoldSet
<1>. QED
  BY <1>6, <1>7

\* Every member of D is counted once, under the key that b gives it.
LEMMA CountedOnceByKey ==
    ASSUME NEW D, IsFiniteSet(D), NEW v, IsFiniteSet(DOMAIN v), NEW b,
           \A d \in D : b[d] \in DOMAIN v,
           \A x \in DOMAIN v : v[x] = Cardinality(Fibre(D, b, {x}))
    PROVE  SumFunction(v) = Cardinality(D)
<1>1. PICK S : S = DOMAIN v
  OBVIOUS
<1>2. PICK h : h = [T \in SUBSET S |-> Cardinality(Fibre(D, b, T))]
  OBVIOUS
<1>3. IsSum(h, v, S)
  <2>1. \A x \in S : v[x] = Cardinality(Fibre(D, b, {x}))
    BY <1>1
  <2>. QED
    <3>1. IsSum([T \in SUBSET S |-> Cardinality(Fibre(D, b, T))], v, S)
      BY <2>1, FibreSum
    <3>. QED
      BY <1>2, <3>1, Zenon
<1>4. SumFunction(v) = h[S]
  BY <1>1, <1>3, SumIs
<1>5. Fibre(D, b, S) = D
  BY <1>1 DEF Fibre
<1>. QED
  BY <1>2, <1>4, <1>5

\* A sum of numbers, one member at a time.
LEMMA SumByOne ==
    ASSUME NEW v, IsFiniteSet(DOMAIN v), \A x \in DOMAIN v : v[x] \in 0 .. 60
    PROVE  \E h : /\ IsSum(h, v, DOMAIN v) /\ SumFunction(v) = h[DOMAIN v]
                  /\ \A T \in SUBSET DOMAIN v : h[T] \in Nat
<1>1. PICK S : S = DOMAIN v
  OBVIOUS
<1>2. PICK D : D = {t \in S \X (0 .. 60) : t[2] \in 1 .. v[t[1]]}
  OBVIOUS
<1>3. PICK b : b = [t \in D |-> t[1]]
  OBVIOUS
<1>4. IsFiniteSet(D)
  <2>1. IsFiniteSet(0 .. 60)
    <3>1. PICK k, m \in Int : k = 0 /\ m = 60
      OBVIOUS
    <3>2. IsFiniteSet(k .. m)
      BY FS_Interval
    <3>. QED
      BY <3>1, <3>2
  <2>2. IsFiniteSet(S \X (0 .. 60))
    BY <1>1, <2>1, FS_Product
  <2>3. D \subseteq S \X (0 .. 60)
    BY <1>2
  <2>. QED
    BY <2>2, <2>3, FS_Subset
<1>5. ASSUME NEW x \in S PROVE v[x] = Cardinality(Fibre(D, b, {x}))
  <2>1. PICK n \in Nat : n = v[x] /\ n <= 60
    BY <1>1
  <2>2. IsFiniteSet(1 .. n) /\ Cardinality(1 .. n) = n
    BY FS_Interval
  <2>3. PICK X, B : X = {x} /\ B = 1 .. n
    OBVIOUS
  <2>4. IsFiniteSet(X) /\ Cardinality(X) = 1
    BY <2>3, FS_Singleton
  <2>5. Cardinality(X \X B) = Cardinality(X) * Cardinality(B)
    BY <2>2, <2>3, <2>4, FS_Product
  <2>6. Cardinality(X \X B) = n
    BY <2>1, <2>2, <2>3, <2>4, <2>5
  <2>7. \A t : t \in D /\ b[t] = x <=> t \in X \X B
    <3>1. \A t : t \in D /\ b[t] = x => t \in X \X B
      BY <1>2, <1>3, <2>1, <2>3
    <3>2. ASSUME NEW t \in X \X B PROVE t \in D /\ b[t] = x
      <4>1. t[1] = x /\ t[2] \in 1 .. n /\ t = <<t[1], t[2]>>
        BY <2>3
      <4>2. t \in D
        BY <1>2, <2>1, <4>1
      <4>. QED
        BY <1>3, <4>1, <4>2
    <3>. QED
      BY <3>1, <3>2
  <2>8. Fibre(D, b, {x}) = X \X B
    BY <2>7 DEF Fibre
  <2>. QED
    BY <2>1, <2>6, <2>8
<1>6. PICK h : h = [T \in SUBSET S |-> Cardinality(Fibre(D, b, T))]
  OBVIOUS
<1>7. IsSum(h, v, S)
  <2>1. \A x \in S : v[x] = Cardinality(Fibre(D, b, {x}))
    BY <1>5
  <2>. QED
    <3>1. IsSum([T \in SUBSET S |-> Cardinality(Fibre(D, b, T))], v, S)
      BY <1>4, <2>1, FibreSum
    <3>. QED
      BY <1>6, <3>1, Zenon
<1>8. \A T \in SUBSET S : h[T] \in Nat
  <2> SUFFICES ASSUME NEW T \in SUBSET S PROVE h[T] \in Nat
    OBVIOUS
  <2>1. PICK C : C = Fibre(D, b, T)
    OBVIOUS
  <2>2. C \subseteq D
    BY <2>1 DEF Fibre
  <2>3. Cardinality(C) \in Nat
    BY <1>4, <2>2, FS_Subset, FS_CardinalityType
  <2>. QED
    BY <1>6, <2>1, <2>3
<1>9. SumFunction(v) = h[S]
  BY <1>1, <1>7, SumIs
<1>. QED
  BY <1>1, <1>7, <1>8, <1>9

-------------------------------------------------------------------------------
(* The evaluator.                                                          *)

\* Each point is in one of the bins, and so is each hit.
LEMMA BinsCountAll ==
    ASSUME NEW N \in Nat, NEW points, DOMAIN points = 1 .. N,
           \A n \in 1 .. N : points[n].sure \in 0 .. 100
    PROVE  /\ DOMAIN Bins(points) = 1 .. 5
           /\ SumFunction([k \in 1 .. 5 |-> Bins(points)[k].count]) = N
           /\ SumFunction([k \in 1 .. 5 |-> Bins(points)[k].hits])
                = Cardinality({n \in 1 .. N : points[n].hit})
<1> DEFINE index(c) == IF c < 20 THEN 1 ELSE IF c < 40 THEN 2 ELSE IF c < 60 THEN 3
                       ELSE IF c < 80 THEN 4 ELSE 5
           edge == <<0, 20, 40, 60, 80, 101>>
           bin(k) == {n \in DOMAIN points :
                        edge[k] <= points[n].sure /\ points[n].sure < edge[k + 1]}
<1>1. PICK b : b = [n \in 1 .. N |-> index(points[n].sure)]
  OBVIOUS
<1>2. PICK D : D = 1 .. N
  OBVIOUS
<1>3. PICK H : H = {n \in D : points[n].hit}
  OBVIOUS
<1>4. IsFiniteSet(D) /\ Cardinality(D) = N /\ IsFiniteSet(H)
  <2>1. IsFiniteSet(1 .. N) /\ Cardinality(1 .. N) = N
    BY FS_Interval
  <2>2. H \subseteq D
    BY <1>3
  <2>. QED
    BY <1>2, <2>1, <2>2, FS_Subset
<1>5. \A c \in 0 .. 100 : index(c) \in 1 .. 5
  OBVIOUS
<1>6. \A n \in D : b[n] \in 1 .. 5
  BY <1>1, <1>2, <1>5
<1>7. \A c \in 0 .. 100 : \A k \in 1 .. 5 : edge[k] <= c /\ c < edge[k + 1] <=> index(c) = k
  <2> SUFFICES ASSUME NEW c \in 0 .. 100, NEW k \in 1 .. 5
               PROVE  edge[k] <= c /\ c < edge[k + 1] <=> index(c) = k
    OBVIOUS
  <2>1. CASE k = 1
    BY <2>1
  <2>2. CASE k = 2
    BY <2>2
  <2>3. CASE k = 3
    BY <2>3
  <2>4. CASE k = 4
    BY <2>4
  <2>5. CASE k = 5
    BY <2>5
  <2>. QED
    BY <2>1, <2>2, <2>3, <2>4, <2>5
<1>. HIDE DEF index, edge
<1>8. ASSUME NEW k \in 1 .. 5
      PROVE  bin(k) = Fibre(D, b, {k}) /\ {n \in bin(k) : points[n].hit} = Fibre(H, b, {k})
  <2>1. \A n \in 1 .. N : n \in bin(k) <=> index(points[n].sure) = k
    BY <1>7
  <2>2. bin(k) = Fibre(D, b, {k})
    BY <1>1, <1>2, <2>1 DEF Fibre
  <2>. QED
    BY <1>3, <2>2 DEF Fibre
<1>9. PICK B : B = Bins(points)
  OBVIOUS
<1>10. B = [k \in 1 .. 5 |-> [count |-> Cardinality(bin(k)),
                              hits |-> Cardinality({n \in bin(k) : points[n].hit})]]
  BY <1>9, Zenon DEF Bins, edge
<1>. HIDE DEF bin
<1>11. PICK u, v : u = [k \in 1 .. 5 |-> B[k].count] /\ v = [k \in 1 .. 5 |-> B[k].hits]
  OBVIOUS
<1>12. IsFiniteSet(1 .. 5) /\ DOMAIN u = 1 .. 5 /\ DOMAIN v = 1 .. 5 /\ DOMAIN B = 1 .. 5
  <2>1. \A n \in Nat : IsFiniteSet(1 .. n)
    BY FS_Interval
  <2>. QED
    BY <1>10, <1>11, <2>1
<1>13. \A k \in DOMAIN u : u[k] = Cardinality(Fibre(D, b, {k}))
  BY <1>8, <1>10, <1>11, <1>12
<1>14. \A k \in DOMAIN v : v[k] = Cardinality(Fibre(H, b, {k}))
  BY <1>8, <1>10, <1>11, <1>12
<1>15. SumFunction(u) = Cardinality(D)
  BY <1>4, <1>6, <1>12, <1>13, CountedOnceByKey
<1>16. SumFunction(v) = Cardinality(H)
  <2>1. \A n \in H : b[n] \in DOMAIN v
    BY <1>3, <1>6, <1>12
  <2>. QED
    BY <1>4, <1>12, <1>14, <2>1, CountedOnceByKey
<1>17. H = {n \in 1 .. N : points[n].hit}
  BY <1>2, <1>3
<1>. QED
  BY <1>4, <1>9, <1>11, <1>12, <1>15, <1>16, <1>17, Zenon

\* The reciprocal ranks of a set of diagnoses, one at a time.
LEMMA ReciprocalBounds ==
    ASSUME NEW rank, IsFiniteSet(DOMAIN rank), \A n \in DOMAIN rank : rank[n] \in Nat,
           NEW v, v = [n \in DOMAIN rank |-> IF rank[n] = 0 THEN 0 ELSE 60 \div rank[n]],
           NEW first, first = {n \in DOMAIN rank : rank[n] = 1},
           NEW three, three = {n \in DOMAIN rank : rank[n] \in 1 .. 3}
    PROVE  /\ SumFunction(v) \in Nat
           /\ SumFunction(v) >= 60 * Cardinality(first)
                                  + 20 * (Cardinality(three) - Cardinality(first))
           /\ SumFunction(v) <= 60 * Cardinality(first)
                                  + 30 * (Cardinality(DOMAIN rank) - Cardinality(first))
<1>1. PICK S : S = DOMAIN rank
  OBVIOUS
<1>2. \A r \in Nat \ {0} : /\ 60 \div r \in 0 .. 60 /\ (r = 1 => 60 \div r = 60)
                           /\ (r \in 2 .. 3 => 60 \div r \in 20 .. 30)
                           /\ (r # 1 => 60 \div r <= 30)
  <2> SUFFICES ASSUME NEW r \in Nat \ {0}
               PROVE  /\ 60 \div r \in 0 .. 60 /\ (r = 1 => 60 \div r = 60)
                      /\ (r \in 2 .. 3 => 60 \div r \in 20 .. 30)
                      /\ (r # 1 => 60 \div r <= 30)
    OBVIOUS
  <2>1. CASE r = 1
    BY <2>1
  <2>2. CASE r = 2
    BY <2>2
  <2>3. CASE r = 3
    BY <2>3
  <2>4. CASE r > 3
    <3>1. 60 \div r \in Nat /\ r * (60 \div r) <= 60
      BY <2>4
    <3>2. PICK q \in Nat : q = 60 \div r
      BY <3>1
    <3>3. ~ (q > 30)
      <4>1. ASSUME q > 30 PROVE FALSE
        <5>1. r * q >= 2 * q
          BY <2>4, <3>2
        <5>. QED
          BY <3>1, <3>2, <4>1, <5>1
      <4>. QED
        BY <4>1
    <3>. QED
      BY <2>4, <3>2, <3>3
  <2>. QED
    BY <2>1, <2>2, <2>3, <2>4
<1>3. \A n \in S : /\ v[n] \in 0 .. 60 /\ (n \in first => v[n] = 60)
                   /\ (n \in three /\ n \notin first => v[n] >= 20)
                   /\ (n \notin first => v[n] <= 30)
  BY <1>1, <1>2
<1>4. DOMAIN v = S /\ first \subseteq three /\ three \subseteq S
  BY <1>1
<1>5. PICK h : /\ IsSum(h, v, DOMAIN v) /\ SumFunction(v) = h[DOMAIN v]
               /\ \A T \in SUBSET DOMAIN v : h[T] \in Nat
  BY <1>1, <1>3, <1>4, SumByOne
<1>6. h = [T \in SUBSET S |-> IF T = {} THEN 0
                  ELSE v[CHOOSE x \in T : TRUE] + h[T \ {CHOOSE x \in T : TRUE}]]
  BY <1>4, <1>5, Zenon DEF IsSum
<1> DEFINE one(T) == Cardinality(first \cap T)
           some(T) == Cardinality(three \cap T)
           all(T) == Cardinality(S \cap T)
           Good(T) == /\ h[T] >= 60 * one(T) + 20 * (some(T) - one(T))
                      /\ h[T] <= 60 * one(T) + 30 * (all(T) - one(T))
           Bad == {T \in SUBSET S : ~ Good(T)}
<1>7. Good({})
  <2>1. one({}) = 0 /\ some({}) = 0 /\ all({}) = 0
    BY FS_EmptySet
  <2>2. h[{}] = 0
    BY <1>6
  <2>. QED
    BY <2>1, <2>2
<1>8. ASSUME NEW T \in SUBSET S, NEW x \in T, Good(T \ {x}), h[T] = v[x] + h[T \ {x}]
      PROVE  Good(T)
  <2>1. IsFiniteSet(T) /\ T \ {x} \in SUBSET S /\ x \in S
    BY <1>1, FS_Subset
  <2>2. \A A : /\ Cardinality(A \cap (T \ {x})) \in Nat
               /\ Cardinality(A \cap T) =
                    Cardinality(A \cap (T \ {x})) + (IF x \in A THEN 1 ELSE 0)
    BY <2>1, OneLess
  <2>3. PICK a \in Nat : a = one(T \ {x}) /\ one(T) = a + (IF x \in first THEN 1 ELSE 0)
    BY <2>2, Zenon
  <2>4. PICK b \in Nat : b = some(T \ {x}) /\ some(T) = b + (IF x \in three THEN 1 ELSE 0)
    BY <2>2, Zenon
  <2>5. PICK c \in Nat : c = all(T \ {x}) /\ all(T) = c + (IF x \in S THEN 1 ELSE 0)
    BY <2>2, Zenon
  <2>6. PICK y \in Nat : y = h[T \ {x}]
    BY <1>4, <1>5, <2>1
  <2>7. PICK w \in 0 .. 60 : w = v[x]
    BY <1>3, <2>1
  <2>8. y >= 60 * a + 20 * (b - a) /\ y <= 60 * a + 30 * (c - a)
    BY <1>8, <2>3, <2>4, <2>5, <2>6
  <2>9. h[T] = w + y
    BY <1>8, <2>6, <2>7
  <2>. HIDE DEF one, some, all
  <2>10. CASE x \in first
    <3>1. one(T) = a + 1 /\ some(T) = b + 1 /\ all(T) = c + 1 /\ w = 60
      BY <1>3, <1>4, <2>1, <2>3, <2>4, <2>5, <2>7, <2>10
    <3>. QED
      BY <2>8, <2>9, <3>1
  <2>11. CASE x \in three /\ x \notin first
    <3>1. one(T) = a /\ some(T) = b + 1 /\ all(T) = c + 1 /\ w >= 20 /\ w <= 30
      BY <1>3, <1>4, <2>1, <2>3, <2>4, <2>5, <2>7, <2>11
    <3>. QED
      BY <2>8, <2>9, <3>1
  <2>12. CASE x \notin three
    <3>1. one(T) = a /\ some(T) = b /\ all(T) = c + 1 /\ w <= 30
      BY <1>3, <1>4, <2>1, <2>3, <2>4, <2>5, <2>7, <2>12
    <3>. QED
      BY <2>8, <2>9, <3>1
  <2>. QED
    BY <2>10, <2>11, <2>12
<1>. HIDE DEF Good
<1>9. ASSUME Bad # {} PROVE FALSE
  <2>1. PICK T \in Bad : \A V \in Bad : V \subseteq T => V = T
    <3>1. PICK U : U = Bad
      OBVIOUS
    <3>2. U \in SUBSET (SUBSET S) /\ U # {}
      BY <1>9, <3>1
    <3>3. \E V \in U : \A W \in U : W \subseteq V => W = V
      BY <1>1, <3>2, SmallestSet
    <3>. QED
      BY <3>1, <3>3, Zenon
  <2>2. T # {}
    BY <1>7, <2>1
  <2>3. PICK x \in T : x = CHOOSE y \in T : TRUE
    BY <2>2
  <2>4. T \ {x} \in SUBSET S /\ T \in SUBSET S
    BY <2>1
  <2>5. h[T] = v[x] + h[T \ {x}]
    BY <1>6, <2>2, <2>3, <2>4
  <2>6. Good(T \ {x})
    BY <2>1, <2>4
  <2>. QED
    BY <1>8, <2>1, <2>4, <2>5, <2>6
<1>10. Good(S)
  BY <1>9
<1>11. one(S) = Cardinality(first) /\ some(S) = Cardinality(three) /\ all(S) = Cardinality(DOMAIN rank)
  <2>1. first \cap S = first /\ three \cap S = three /\ S \cap S = S
    BY <1>4
  <2>. QED
    BY <1>1, <2>1
<1>12. SumFunction(v) = h[S] /\ h[S] \in Nat
  BY <1>4, <1>5
<1>. QED
  <2>1. /\ h[S] >= 60 * one(S) + 20 * (some(S) - one(S))
        /\ h[S] <= 60 * one(S) + 30 * (all(S) - one(S))
    BY <1>10, Zenon DEF Good
  <2>. QED
    BY <1>11, <1>12, <2>1, Zenon

\* A rank is a place in the list, or 0.
LEMMA RankType ==
    ASSUME NEW d, DOMAIN d.services \subseteq Nat \ {0}, NEW root
    PROVE  RankOf(d, root) \in Nat
<1>1. PICK at : at = {n \in DOMAIN d.services : d.services[n] = root}
  OBVIOUS
<1>2. at \subseteq Nat
  BY <1>1
<1>3. CASE at = {}
  BY <1>1, <1>3 DEF RankOf
<1>4. CASE at # {}
  <2>1. \E n \in at : \A k \in at : n <= k
    BY <1>2, <1>4, LeastNumber
  <2>2. (CHOOSE n \in at : \A k \in at : n <= k) \in at
    BY <2>1
  <2>3. RankOf(d, root) = CHOOSE n \in at : \A k \in at : n <= k
    BY <1>1, <1>4 DEF RankOf
  <2>. QED
    BY <1>2, <2>2, <2>3
<1>. QED
  BY <1>3, <1>4

\* The numbers of one evaluation.
LEMMA EvaluationFacts ==
    ASSUME NEW N \in Nat \ {0}, NEW ds, DOMAIN ds = 1 .. N, Len(ds) = N, ds # <<>>,
           \A n \in 1 .. N : /\ DOMAIN ds[n].services \subseteq Nat \ {0}
                             /\ ds[n].confidence \in 0 .. 100,
           NEW root, NEW e, e = Evaluate(ds, root)
    PROVE  /\ e.count = SumFunction([k \in DOMAIN e.bins |-> e.bins[k].count])
           /\ e.top1 = SumFunction([k \in DOMAIN e.bins |-> e.bins[k].hits])
           /\ e.reciprocals >= 60 * e.top1 + 20 * (e.top3 - e.top1)
           /\ e.reciprocals <= 60 * e.top1 + 30 * (e.count - e.top1)
<1>1. PICK rank : rank = [n \in 1 .. N |-> RankOf(ds[n], root)]
  OBVIOUS
<1>2. PICK points : points = [n \in 1 .. N |-> [sure |-> ds[n].confidence, hit |-> rank[n] = 1]]
  OBVIOUS
<1>3. PICK v : v = [n \in 1 .. N |-> IF rank[n] = 0 THEN 0 ELSE 60 \div rank[n]]
  OBVIOUS
<1>4. PICK first, three : /\ first = {n \in 1 .. N : rank[n] = 1}
                          /\ three = {n \in 1 .. N : rank[n] \in 1 .. 3}
  OBVIOUS
<1>5. DOMAIN rank = 1 .. N /\ DOMAIN points = 1 .. N
  BY <1>1, <1>2
<1>6. IsFiniteSet(1 .. N) /\ Cardinality(1 .. N) = N
  BY FS_Interval
<1>7. \A n \in 1 .. N : rank[n] \in Nat
  BY <1>1, RankType
<1>8. /\ e.count = N /\ e.reciprocals = SumFunction(v) /\ e.bins = Bins(points)
      /\ e.top1 = Cardinality(first) /\ e.top3 = Cardinality(three)
  <2>1. e = [count |-> Len(ds),
             top1 |-> Cardinality({n \in DOMAIN rank : rank[n] \in {1}}),
             top3 |-> Cardinality({n \in DOMAIN rank : rank[n] \in 1 .. 3}),
             reciprocals |-> SumFunction([n \in DOMAIN rank |->
                                   IF rank[n] = 0 THEN 0 ELSE 60 \div rank[n]]),
             bins |-> IF ds = <<>> THEN <<>> ELSE Bins(points)]
    <3>1. rank = [n \in DOMAIN ds |-> RankOf(ds[n], root)]
      BY <1>1
    <3>2. points = [n \in DOMAIN rank |-> [sure |-> ds[n].confidence, hit |-> rank[n] = 1]]
      BY <1>2, <1>5
    <3>. QED
      BY <3>1, <3>2, Zenon DEF Evaluate
  <2>2. /\ {n \in DOMAIN rank : rank[n] \in {1}} = first
        /\ {n \in DOMAIN rank : rank[n] \in 1 .. 3} = three
    BY <1>4, <1>5
  <2>3. [n \in DOMAIN rank |-> IF rank[n] = 0 THEN 0 ELSE 60 \div rank[n]] = v
    BY <1>3, <1>5
  <2>4. /\ e.count = Len(ds) /\ e.top1 = Cardinality({n \in DOMAIN rank : rank[n] \in {1}})
        /\ e.top3 = Cardinality({n \in DOMAIN rank : rank[n] \in 1 .. 3})
        /\ e.reciprocals = SumFunction([n \in DOMAIN rank |->
                                   IF rank[n] = 0 THEN 0 ELSE 60 \div rank[n]])
        /\ e.bins = IF ds = <<>> THEN <<>> ELSE Bins(points)
    BY <2>1
  <2>. QED
    BY <2>2, <2>3, <2>4, Zenon
<1>9. \A n \in 1 .. N : points[n].sure \in 0 .. 100 /\ points[n].hit = (rank[n] = 1)
  BY <1>2
<1>10. /\ DOMAIN Bins(points) = 1 .. 5
       /\ SumFunction([k \in 1 .. 5 |-> Bins(points)[k].count]) = N
       /\ SumFunction([k \in 1 .. 5 |-> Bins(points)[k].hits])
            = Cardinality({n \in 1 .. N : points[n].hit})
  <2>1. \A n \in 1 .. N : points[n].sure \in 0 .. 100
    BY <1>9
  <2>. QED
    BY <1>5, <2>1, BinsCountAll
<1>11. {n \in 1 .. N : points[n].hit} = first
  BY <1>4, <1>9
<1>12. /\ SumFunction(v) \in Nat
       /\ SumFunction(v) >= 60 * Cardinality(first)
                              + 20 * (Cardinality(three) - Cardinality(first))
       /\ SumFunction(v) <= 60 * Cardinality(first) + 30 * (N - Cardinality(first))
  <2>1. /\ v = [n \in DOMAIN rank |-> IF rank[n] = 0 THEN 0 ELSE 60 \div rank[n]]
        /\ first = {n \in DOMAIN rank : rank[n] = 1}
        /\ three = {n \in DOMAIN rank : rank[n] \in 1 .. 3}
    BY <1>3, <1>4, <1>5
  <2>2. IsFiniteSet(DOMAIN rank) /\ Cardinality(DOMAIN rank) = N
        /\ \A n \in DOMAIN rank : rank[n] \in Nat
    BY <1>5, <1>6, <1>7
  <2>. QED
    BY <2>1, <2>2, ReciprocalBounds
<1>. QED
  BY <1>8, <1>10, <1>11, <1>12, Zenon

\* Every report is made of diagnoses that were published.
CountedInv ==
    /\ published <= Len(Diagnoses)
    /\ \A j \in Jobs : \A w \in Workers : \A n \in DOMAIN counted[j][w] :
          counted[j][w][n] \in DOMAIN Diagnoses

\* Every step keeps that: a worker has collected nothing that is not in the topic.
LEMMA NextCounted ==
    TypeOK /\ DetailInv /\ CountedInv /\ [JobNext]_jobVars => CountedInv'
<1> SUFFICES ASSUME TypeOK, DetailInv, CountedInv, [JobNext]_jobVars PROVE CountedInv'
  OBVIOUS
<1>1. published \in Nat /\ Len(Diagnoses) \in Nat /\ DOMAIN Diagnoses = 1 .. Len(Diagnoses)
  BY DiagnosesAssumption DEF DetailInv, DetailType
<1>2. ASSUME UNCHANGED <<published, counted>> PROVE CountedInv'
  BY <1>2 DEF CountedInv
<1>3. CASE Diagnose
  <2>1. published' = published + 1 /\ published < Len(Diagnoses) /\ counted' = counted
    BY <1>3 DEF Diagnose
  <2>. QED
    BY <1>1, <2>1 DEF CountedInv
<1>4. ASSUME NEW w \in Workers, WriteReport(w) PROVE CountedInv'
  <2>1. PICK k \in Jobs : k = Current(w)
    BY <1>4, CurrentType DEF WriteReport, At
  <2>2. /\ counted' = [counted EXCEPT ![k][w] = collected[w]] /\ published' = published
        /\ counted \in [Jobs -> [Workers -> Seq(Nat)]]
        /\ since[w] \in Nat /\ collected[w] \in Seq(Nat)
    BY <1>4, <2>1 DEF WriteReport, Leave, DetailInv, DetailType
  <2>3. \A n \in DOMAIN collected[w] :
           collected[w][n] \in Nat /\ collected[w][n] > since[w] /\ collected[w][n] <= published
    BY <2>2 DEF DetailInv, BehindInv
  <2>4. \A n \in DOMAIN collected[w] : collected[w][n] \in DOMAIN Diagnoses
    BY <1>1, <2>2, <2>3 DEF CountedInv
  <2>5. \A j \in Jobs, v \in Workers :
           counted'[j][v] = IF j = k /\ v = w THEN collected[w] ELSE counted[j][v]
    BY <2>2
  <2>. QED
    BY <2>2, <2>4, <2>5 DEF CountedInv
<1>5. CASE UNCHANGED jobVars
  BY <1>2, <1>5 DEF jobVars, detail
<1>6. CASE (CreateReplayJob \/ DbDown \/ DbRecover) /\ UNCHANGED detail
  BY <1>2, <1>6 DEF detail
<1>7. ASSUME NEW w \in Workers,
             \/ Proceed(w) /\ ~ WriteReport(w)
             \/ Raise(w) \/ CrashInReplay(w) \/ Assign(w) \/ Collect(w)
             \/ Restart(w) /\ UNCHANGED detail
      PROVE  CountedInv'
  <2>1. UNCHANGED <<published, counted>>
    BY <1>7 DEF Proceed, Republish, NoRecords, Raise, CrashInReplay, Leave, Assign, Collect,
                detail, consumers
  <2>. QED
    BY <1>2, <2>1
<1>. QED
  BY <1>3, <1>4, <1>5, <1>6, <1>7 DEF JobNext, Proceed

\* ReplayEvaluator: in every report each diagnosis is in one calibration bin, the bins' hits
\* are those of the accuracy, and the reciprocal ranks fit the hits, for any number of
\* diagnoses with any rankings and confidences.
THEOREM ReportsAddUp == JobSpec => []EvaluationAddsUp
<1>1. JobInit => CountedInv
  BY DiagnosesAssumption DEF JobInit, CountedInv
<1>2. TypeOK /\ DetailInv /\ CountedInv => EvaluationAddsUp
  <2> SUFFICES ASSUME DetailInv, CountedInv, NEW j \in Jobs, NEW w \in Workers,
                      counted[j][w] # <<>>,
                      NEW ds, ds = [n \in DOMAIN counted[j][w] |-> Diagnoses[counted[j][w][n]]],
                      NEW e, e = Evaluate(ds, ExpectedRoot(Requests[j]))
               PROVE  /\ e.count = SumFunction([k \in DOMAIN e.bins |-> e.bins[k].count])
                      /\ e.top1 = SumFunction([k \in DOMAIN e.bins |-> e.bins[k].hits])
                      /\ e.reciprocals >= 60 * e.top1 + 20 * (e.top3 - e.top1)
                      /\ e.reciprocals <= 60 * e.top1 + 30 * (e.count - e.top1)
    BY ZenonT(30) DEF EvaluationAddsUp
  <2>1. PICK s \in Seq(Nat) : s = counted[j][w]
    BY DEF DetailInv, DetailType
  <2>2. PICK N \in Nat \ {0} : N = Len(s) /\ DOMAIN s = 1 .. N
    BY <2>1
  <2>3. PICK d : d = ds
    OBVIOUS
  <2>6. d = [n \in 1 .. N |-> Diagnoses[s[n]]]
    BY <2>1, <2>2, <2>3, Zenon
  <2>7. DOMAIN d = 1 .. N /\ Len(d) = N /\ d # <<>>
    BY <2>6
  <2>4. \A n \in 1 .. N : s[n] \in DOMAIN Diagnoses
    BY <2>1, <2>2 DEF CountedInv
  <2>5. \A n \in 1 .. N : /\ DOMAIN d[n].services \subseteq Nat \ {0}
                          /\ d[n].confidence \in 0 .. 100
    <3>1. \A n \in 1 .. N : d[n] = Diagnoses[s[n]]
      BY <2>6
    <3>. QED
      BY <2>4, <3>1, DiagnosesAssumption
  <2>8. e = Evaluate(d, ExpectedRoot(Requests[j]))
    BY <2>3, Zenon
  <2>. QED
    BY <2>5, <2>7, <2>8, EvaluationFacts
<1>3. JobSpec => JobInit /\ [][JobNext]_jobVars
  BY DEF JobSpec
<1>. QED
  BY <1>1, <1>2, <1>3, JobType, NextCounted, PTL
===============================================================================
