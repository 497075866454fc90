# A TLA+ model of ops-commander

ops-commander is an incident pipeline on Kafka and Postgres: raw logs, metrics and
alerts are normalised, grouped into candidate incidents, diagnosed, reported, and
replayed from an archive to measure the diagnosis.  This directory holds TLA+
modules translated from the Python code, TLC configurations that check them on small
instances, and TLAPS proofs of the main safety properties for all values of the
constants.

* `X.tla` - a component.  `MCX.tla`, `X*.cfg` - its instance for TLC.  `XProofs.tla` -
  its theorems.  `ConsumerGroup.tla` - the abstract specification that three components
  implement.
* `PROJECT.json` - components, runs, the source lines of every definition (`map`), the
  hazards of the code, what was found, the theorems.

      tlc -workers 2 -config Windows.cfg MCWindows
      tlapm WindowsProofs.tla

1. [The system](#1-the-system)
2. [Modules and code](#2-modules-and-code)
3. [Runs, bounds, fairness](#3-runs-bounds-fairness)
4. [Proofs](#4-proofs)
5. [Where code and documentation disagree](#5-where-code-and-documentation-disagree)
6. [Behaviour worth knowing](#6-behaviour-worth-knowing)
7. [What is not modelled](#7-what-is-not-modelled)
8. [Plan](#8-plan)

## 1. The system

    simulator, feeds, alert webhook, replay worker
          | logs.raw, metrics.raw, alerts.raw   (keyed by service)
          v
      ingestor ----------> Postgres: ingested_events, quarantine_events
          | events.normalized
          v
      correlator           (windows and linker in memory)
          | incidents.candidates
          v
      causal engine -----> Postgres: incidents, rankings, evidence_edges
          | incidents.diagnosed
          v
      reporter API <------ Postgres;  writes replay_jobs;  emits incidents.reports
          ^
      replay worker        reads replay_jobs and the archive, publishes to the raw
                           topics, listens to incidents.diagnosed, evaluates

All stream processes share one scheme (`libs/common/kafka.py`): automatic commits are
off, one message is handled at a time, whatever happens is caught, and a `finally`
block commits the message's offset with four attempts.  A producer only fills a local
queue; no delivery callback is installed.

| component | state | operations | hard behaviour | what makes it correct |
|---|---|---|---|---|
| ingestor (`apps/ingestor/main.py`) | committed offset; key cache; producer queue; `ingested_events`, `quarantine_events` | poll, validate, look up, produce, insert, quarantine, commit | a crash, an outage or a lost partition between any two steps; the cache remembers a key before its event is stored; the commit runs after failures too | no message behind the committed offset vanishes; one row per event; duplicates downstream only for a reason; progress |
| dedupe cache (`apps/ingestor/dedupe.py`) | ordered map of keys to times | `seen_recently` | the order is that of the last question, the times are those of acceptance, eviction looks at the front only | a "duplicate" was asked about within the TTL; a key is forgotten only for age or room |
| windows (`apps/correlator/windows.py`, `watermark.py`) | watermark, open windows, recently closed windows | ingest, late correction, drain | events out of order, late, in the future; windows shared with the linker after they close; silence | an episode is not split, what was handed over does not change, windows close in order |
| linker (`apps/correlator/linker.py`, `clustering.py`) | retained clusters, emitted signatures | `ingest_finalized` | links are directed, groups depend on seeds; pruning while newer clusters may link | candidates are disjoint, linked clusters stay together, pruning drops nothing that matters |
| correlator process (`apps/correlator/main.py`) | the two above, in memory only; producer queue; offset | poll, drain, hand over, emit, commit | commits per message although the windows are lost with the process; a partition that comes back to old windows; errors that leave the loop before the commit | a restart loses open windows, recent ones, and nothing else; no event is counted twice; a stop loses no candidate |
| causal engine (`apps/causal_engine/main.py`) | `incidents`, `rankings`, `evidence_edges`; producer queue; offset | three transactions, produce, commit | redelivery, two processes on one candidate, failure between the transactions | what is announced can be read as a whole; one list of edges; committed means diagnosed |
| causal graph, ranker, explainer, severity (`apps/causal_engine`) | none between candidates | `build`, `rank`, `build_diagnosis`, `_derive_incident_severity` | edges from two sources; evidence of a service overwritten; five weighted scores | causes are dependencies; plain evidence names the root; severity follows reach |
| reporter API (`apps/reporter_api`) | none of its own; reads Postgres | list, get, report, create replay job, ingest alerts | three reads against three writes | an answer is not a mixture |
| replay queue (`replay_jobs`, `apps/replay_worker/main.py`) | job status; each worker's list | read, start, replay, complete, fail | nothing claims a job; stale lists; a worker dies with a job running | no worker repeats a job; running has a cause; every job is started |
| replay reader, replayer, evaluator (`apps/replay_worker`) | archive, consumer group per job, collected diagnoses | read, publish, collect, evaluate | the listener starts at "latest" and joins late; two workers in one group; bin edges | a report counts a diagnosis once, and only later ones; its numbers add up |
| storage (`libs/storage`) | the tables | one transaction per repository call | unique constraints, or their absence | part of the models of its callers |
| kafka helpers (`libs/common/kafka.py`) | none | build, produce, commit with retry | errors after the last attempt | part of the models of its callers |
| simulator, fault injector, alert feeds, dashboards, configuration | - | - | - | sources of raw messages; only their keys matter |

The hazards of the code, each at its line with the properties that would notice it going
wrong, are listed in `PROJECT.json`.

## 2. Modules and code

| module | uses | relation |
|---|---|---|
| ConsumerGroup | | abstract specification of a stage's input |
| Ingestor, CausalEngine | ConsumerGroup | implement it (refinement mapping `Position`) |
| Correlator | Windows, ConsumerGroup | composes the windows with the process; implements the group |
| Diagnosis | CandidateLinker | its candidates are groups that the linker allows, with the linker's edges |
| ReplayJob | ReplayQueue | replaces the one step `Replay` by a sequence; implements ReplayQueue |
| DedupeCache, Windows, CandidateLinker, ReplayQueue | | on their own |

### ConsumerGroup

What a stage promises of its input: `published` messages, the `committed` offset, and the
`position` up to which the present owner of the partition is done.  `Finish` moves the
position by exactly one and commits that position or nothing; `Resume` takes the position
back to the committed offset.  Each stage maps to it with `Position`, which is one less
than what it has polled while it is inside a message.  The mapping says that rebalances,
crashes, swallowed commits and errors that leave the loop neither pass over a message nor
commit one that was not finished.

### Ingestor

The consumer group over one partition.  The idempotency key contains the service name and
all producers of raw topics key their messages by service, so copies of one event meet in
one partition; one partition is enough.  A message is its idempotency key, or `Invalid`
(JSON that validation rejects), or `Undecodable`.

`pc[i]` walks through `_handle_message` and its `except` and `finally` blocks:
`poll -> lookup -> produce -> insert -> commit`, `quarantine` from any failure, `dying`
when the quarantine write itself fails (its exception leaves `run` through the `finally`).
A write fails in an outage, and also when Postgres answers and refuses the row: the columns of
`ingested_events` are bounded and the fields of an event are not (`event_id` 64,
`service_name` 128 characters), and JSONB, in both tables, takes no NUL character and no
NaN.  `refused` names the tables that refuse a row of a message; it belongs to the message, not
to its key, as copies may differ in `event_id`.  `rejected` counts such inserts (history).
`PollEvent` asks the cache and enters the key at once, as `seen_recently` does.
`sendq[i]` is librdkafka's queue: `Deliver` and `Expire` are its thread, `Exit` loses it.
`owner` and `pos` are the partition's assignment: `Expel` takes the partition from a
process that stalls in the middle of a message, which then goes on with the message;
`TryCommit` from a former owner is refused and swallowed.  `Forget` is the cache's
eviction; module DedupeCache has its detail, and Ingestor allows it for any key at any
poll, which is more than the cache does.

### DedupeCache

`IdempotencyFilter` with its clock.  `entries` is the `OrderedDict`; `asked`, `accepted`
and `since` are history.  `Evict`, `MoveToEnd` and `Trim` are the three operations of
`seen_recently`.

### Windows

`WatermarkTracker`, `EventTimeWindowManager` and the handling of a message up to the list
of finalised clusters.  A cluster is its service, first and last time and event count.
`Handle` is one message with the drain of the `finally` block; `IdleDrain` a poll without
a message (a rejected or dropped message does the same).  Ties between equally good
windows are broken by list order in the code and left open in the model.

### Correlator

`Correlator.run` on one partition.  The memory of tracker and manager is module Windows,
instantiated: `PollEvent` is `W!Handle`, every other poll `W!IdleDrain`, so the drain of
the `finally` block is part of each message.  `members[c]` are the offsets that cluster
`c` took.  `HandOver` is the call of the linker: it gets what closed in this step and
may return any disjoint groups it has not returned before (`Answers`), which covers what
CandidateLinker returns.  `Emit` sends one candidate or ends the process, as
`_emit_candidates` runs in a `finally` outside any `try`; `PollUndecodable` ends it in
front of the `try`.  `Exit` forgets windows, linker and producer queue.  `Leave`, `Join`
and `Elsewhere` are a rebalance: the memory stays while another process handles messages.
`handedOver`, `excused`, `forgotten` and `discarded` are history.  The partitions of
`events.normalized` are keyed by service, so a window's events come from one of them; the
others add to the watermark only, which here any service of the log does.

### CandidateLinker

`CandidateLinker.ingest_finalized` on batches that arrive as `Windows` hands them over
(later ends later: `HandedOverInOrder`; unchanged: `FinalizedNeverChanges`).  `Linked`,
`Reach`, `Groups`, `Allowed`, `Kept` are its helpers.  A group is a set of indices, which
is what the signature stands for.  `Edges` is `_build_edges` of an emitted group.  The
correlation keys of a cluster are an uninterpreted set.

### CausalEngine

The consumer group over one partition of `incidents.candidates`, and one reader of the
tables.  A candidate is its offset; `incident_id` is a hash of the candidate, so a
redelivered candidate writes the same incident.  A repository call is a transaction of
two steps: `Begin` (the rows it deletes or updates, at READ COMMITTED) and `End` (it
commits, or raises: a unique constraint rejects it, Postgres is gone, or the table does not take
the rows).  `refuses[c]` is the first table that does not take the rows of candidate `c`: the
`reason` of an edge (256 characters) joins the names of all shared keys, and names of
services are bounded in the tables (128) and nowhere before; what raises in front of or inside a
transaction for the candidate itself ends in the same handler.  `rows[t][c]` is
the set of batches of rows that candidate's incident has in table `t`: two batches are
what a missing unique constraint lets through.  `ReadIncident`, `ReadRankings`,
`ReadEdges`, `Answer` are the three transactions of `IncidentService.get_incident`.

### Diagnosis

One candidate from the poll to the incident: `Build`, `Rank`, `Explain`, `Publish` are
`CausalGraphBuilder.build`, `RootCauseRanker.rank`, `build_diagnosis` with the severity,
and the storage (CausalEngine has its transactions).  `Take` admits every sequence of
clusters that is one allowed group of CandidateLinker, in sort order (that a candidate is one
group also without the other clusters of its call is `CandidatesStandAlone` there); `ProvidedEdges` are
the linker's edges, `Inferred` those of the search through the dependencies.  Numbers are
integers: times in seconds, cluster scores in tenths, ranking scores in ten-thousandths
(each quotient rounded down, where the code has floats rounded to six digits; an error of
a few ten-thousandths).  `Depth` is the breadth-first distance up to `MaxDepth`.  The
softmax of `_attach_confidence` needs exponentials: the confidence is any of the three
ranges that the severity tells apart, except that a lone hypothesis has at least 0.65.

### ReplayQueue

`replay_jobs`, the API call that creates a job, and the workers' loop.  `list[w]` is what
the last `get_queued_jobs` returned to worker `w`; `Start` overwrites the status without a
look at it, as the code does.  `replays[w][j]` counts how often worker `w` replayed job `j`, over
its restarts.  `Complete` may raise although Postgres answers (JSONB refuses the report, for
example for a NUL in the name of a scenario) and then goes on to `Fail`.  `abandoned` are the
jobs whose worker ended between `Start` and the final status (history).

### ReplayJob

`_process_job` in detail.  `Republish` reads the archive and publishes what `Picked`
selects; `Assign`, `Collect` and `WriteReport` are the consumer of
`incidents.diagnosed`: built before the replay, it joins its group at its first poll after
it, at the end of the topic.  Its group is named after the job, so workers that replay the
same job share one partition, and `Assign` is also the rebalance between them.  `Evaluate`,
`RankOf` and `Bins` are the evaluator.  `WriteReport` and `Raise` are the two outcomes of
ReplayQueue's `Replay`, all other steps leave its variables alone.

## 3. Runs, bounds, fairness

| run | question | bounds |
|---|---|---|
| `ingestor_safety` | does anything vanish, is anything stored or published twice, does the group consume at least once | 2 processes, 1 key, 3 messages, any 2 of 9 kinds of fault, each at most once |
| `ingestor_live` | is every message handled, does every stored event reach the stream | 2 processes, 1 key, 2 messages, one each of crash, outage, failed commit, failed send, refused message |
| `ingestor_outage` | is nothing lost in an outage (a message is) | as above, one outage |
| `dedupe` | is a duplicate one, is a key forgotten for a cause | 3 keys, room for 2, TTL 2, clock to 6 |
| `windows` | are windows apart, in order, unchanged once handed over | 2 services, 5 events in 9 s, lateness 2, gap 1, grace 3, close after 4 |
| `correlator` | what does a restart lose, is anything counted twice, does a stop lose a candidate, at least once | 1 service, 4 messages of 5 kinds, times 0, 1, 3 with lateness and close-after 1, any 2 faults, the same kind twice included |
| `linker` | are candidates disjoint, each whole by itself, links kept together, pruning harmless | 4 clusters, a chain of 3 services, times to 6 |
| `linker_precedence` | does an upstream service begin first (it need not) | 2 clusters |
| `diagnosis` | do causes agree with dependencies, is the root of up to three services first, does severity follow reach | the 8 services of `config/services.yaml`, the shipped weights and settings, candidates of up to 3 clusters with 4 beginnings, 3 ends and 3 kinds of evidence |
| `causal_safety` | is an announced diagnosis whole, stored once, never skipped | 2 processes, 2 candidates, a reader of the first, any 2 faults, the same kind twice included, and a table that refuses a candidate |
| `causal_live` | is every candidate diagnosed in the end | as above, without the reader (it changes nothing) |
| `replay` | is a job repeated, left running, never started; is a diagnosis counted twice or too early; do the numbers add up | 2 workers, 3 jobs (one with records, two without), reads of 2, 2 diagnoses, any 1 fault |

**Why these are enough.**  The hazards are between two processes of a group and between two
copies or two offsets; a third process adds no new pair.  Two processes, two copies of a key and
a third message (another copy, an invalid or an undecodable message) show every pair of
steps.  Faults are budgeted because each of the interesting histories needs one or two of them:
one to break the order and one to hit the repair.  `Budget` counts each
kind of fault of the ingestor by itself, `MaxFaults` counts all faults of the other modules
together.  The windows' times are the shipped settings
scaled down with their order kept (gap < lateness < grace < close-after); nine seconds let a
window close while another is open and late events arrive for both. The correlator's three times
open two windows and close both; four messages are an event in each, the one that closes them
and a repetition or a bad message. Cluster instances cover each side of each threshold of the
linker.  Three clusters are a chain caller-middle-root of the shipped graph, or two clusters of
one service and a third; the kinds of evidence are those the scores tell apart.  Two diagnoses,
one on either side of a rebalance between two workers, lie in the bin of an edge (0.60) and in
the last one.  `MaxFaults`, `MaxRaw`, `Budget`, `MaxTime`, `MaxEvents`, `MaxLog`, `MaxClusters`,
`MaxSize`, `MaxCandidates`, `Diagnoses` and `MaxJobs` are bounds of the models, not of the
program; the proofs hold for all their values.

**Symmetry** is used over processes, keys and services in runs without liveness; none of
those modules distinguishes them (`NoOwner` is not part of a symmetry set).

**Deadlock** is not checked where everything may be done and the last process idle or
dead with its budget of faults used up; Windows (an idle poll is always possible),
DedupeCache and Diagnosis are checked.

**Type invariants.**  Every component has one, and each is proved for all constants
(section 4).  The runs of Ingestor, Windows, Correlator and CausalEngine spend their
time on other properties; the other runs check it too.

**Fairness.**  Weak fairness of: each process's own steps (a thread in a loop with bounded
retries), `Deliver` (librdkafka's thread retries while the broker answers), `Assign` (the group
protocol gives a free partition to a member that polls), `Close` (flush has a timeout), a
replay's own steps (`Proceed`: the broker is waited for ten seconds at most and diagnoses are
collected for a fixed time), `DbRecover` and `Restart` (docker compose or an operator brings
Postgres and dead processes back).  No fairness is assumed of faults, of raw messages, candidates
or jobs, nor that a poll finds anything.

## 4. Proofs

| module | theorem | statement |
|---|---|---|
| IngestorProofs | `TypeCorrect` | `TypeOK` is invariant |
| | `NothingVanishes` | `CommittedAccounted` is invariant |
| | `OneRow` | `OneRowPerEvent` is invariant |
| | `DuplicatesArePaid` | `DuplicatesCostAFault` is invariant |
| | `IngestorConsumesAtLeastOnce` | `AtLeastOnce`: implements ConsumerGroup |
| | `IngestorCommitsFollowWork` | so commits never run ahead and never go back |
| DedupeCacheProofs | `CacheTypeCorrect` | `TypeOK` is invariant |
| | `DuplicatesAreRecent` | `DuplicateMeansAskedWithinTtl` |
| | `ForgetsForCause` | `ForgottenForCause` |
| WindowsProofs | `WindowsTypeCorrect` | `TypeOK` is invariant |
| | `FinalizedStays` | `FinalizedNeverChanges` |
| | `InOrder` | `HandedOverInOrder` |
| | `IdleIsIdle` | `IdleDrainFindsNothing` |
| | `NothingClosesEarly` | `NoPrematureClose` |
| | `OpenWindowsApart` | `WindowsApart` is invariant |
| CorrelatorProofs | `CorrelatorTypeCorrect` | `TypeOK` is invariant |
| | `CorrelatorConsumesAtLeastOnce` | `AtLeastOnce`: implements ConsumerGroup |
| | `CorrelatorCommitsFollowWork` | so commits never run ahead and never go back |
| | `StopIsSafe` | `StopLosesNoCandidate` is invariant |
| | `ForgottenIsRecent` | `ForgetsOnlyRecent` is invariant |
| | `NothingElseIsLost` | `OnlyOpenWindowsLost` is invariant |
| | `EvidenceOnceOnly` | `HandedOverOnce` is invariant |
| CandidateLinkerProofs | `LinkerTypeCorrect` | `TypeOK` is invariant |
| | `NoClusterTwice` | `CandidatesDisjoint` is invariant |
| | `MutualLinksKept` | `MutualLinksTogether` is invariant |
| | `CandidatesAreWhole` | `CandidatesStandAlone` |
| | `PruningIsSafe` | `PrunedTooOldToMatter` |
| | `PrecedenceNeverDecides` | the gap guard implies the precedence guard |
| CausalEngineProofs | `CausalTypeCorrect` | `TypeOK` is invariant |
| | `AnnouncedWhole` | `AnnouncedIsWhole` is invariant |
| | `OneEdgeList` | `OneListOfEdges` is invariant |
| | `CommittedAreDiagnosed` | `CommittedDiagnosed` is invariant |
| | `CausalConsumesAtLeastOnce` | `AtLeastOnce`: implements ConsumerGroup |
| | `CausalCommitsFollowWork` | so commits never run ahead and never go back |
| DiagnosisProofs | `DiagnosisTypeCorrect` | `TypeOK` is invariant: weights, scores and the order of the root causes |
| | `LoneAlertIsMinor` | `LoneServiceAtMostMedium` is invariant |
| | `CausesAreCalled` | if `Acyclic`, `CausesAreDependencies` is invariant |
| | `PlainRootIsFirst` | if `Balanced`, `RootRankedFirst` is invariant |
| ReplayJobProofs (the queue) | `ReplayTypeCorrect` | `TypeOK` is invariant |
| | `RunningJobs` | `RunningHasWorker` is invariant |
| | `OncePerWorkerHolds` | `OncePerWorker` is invariant |
| ReplayJobProofs (a replay) | `JobImplementsQueue` | `JobSpec` implements ReplayQueue's `Spec` |
| | `JobsOncePerWorker` | so `OncePerWorker` holds of it |
| | `EvidenceOnce` | `CountedOncePerJob` is invariant |
| | `EvidenceLater` | `CountsOnlyLater` is invariant |
| | `ReportsAddUp` | `EvaluationAddsUp` is invariant |

Assumptions are the named `ASSUME`s of the modules: sizes are naturals, special values are
not members of the sets they are added to, and the relations between settings that the
shipped values satisfy (`Grace < CloseAfter`, `MaxSpan < Horizon`).  The processes of a group
are finitely many (`InstancesAssumption`), and so are the services of the
configuration (`ServicesAssumption`).  What a report is made of is a list of rankings with
confidences between 0 and 1 (`DiagnosesAssumption`; they are a softmax).  Two theorems have
hypotheses about the configuration that are not assumptions of their module, as linker, builder
and ranker run without them.  `CausesAreCalled` asks that no service calls itself over a
chain of calls (`Acyclic`).  `PlainRootIsFirst` asks for `Balanced`: that, no chain of calls
longer than the search through the dependencies looks, no caller whose centrality exceeds
that of what it depends on by more than three quarters of the unit, and no candidate longer than
the lag of an edge.  Both hold of `config/services.yaml` and the shipped settings, where TLC
evaluates them (`ConfigurationBalanced` in MCDiagnosis).

**Induction.**  Recursive functions and folds are reached through well-foundedness: of the
subsets of a finite set for which a claim fails there is a smallest one (`SmallestSet`), of
the numbers a least one (`LeastNumber`), and it has no room for one step of the recursion.
That a recursive definition has a solution at all is proved the same way (`SumExists`,
`SeenExists`, `ChainsExist`).  Sums are handled as numbers of tokens: one for each unit that
is added (`Units`), or one for each thing that is counted (`Fibre`).

**ConsumerGroup.**  The three refinements need only the type invariants, with the fact that
a process inside a message has polled at least one and is not ahead of the log.  Every step
of a stage maps to `Publish`, `Finish`, `Resume` or a stutter: a commit of the owner is
`Finish`; a step that gives up a partition, or ends its owner, is `Resume`; what a former
owner does changes nothing that the mapping sees.  The `...CommitsFollowWork` theorems
draw the conclusion for each stage: `NeverAhead` and a committed offset that only grows hold of
the abstract specification, and the mapping carries them over.

**Ingestor.**  `CommittedAccounted` is not inductive: a commit makes `pos[i]` the committed
offset, so every offset up to `pos[i]` must be known to be accounted for before.  It is
strengthened by: while Postgres never failed, everything the owner polled before its
current message is accounted for or untraceable (`OwnerAccounted`), and everything in a cache
except the current message's key is recorded (`CacheRecorded`); in step `commit` the
current one is as well.  The cache part is what makes a duplicate's commit sound although the
cache is filled before the event is stored: a step that fails goes to `quarantine`, which
records it, or ends the process and its cache (`dying`, whose commit covers a message that is
`Untraceable`: `QuarantineReason` says that it came there because no row of it could be
written).  `OneRowPerEvent` needs
that only the owner is past `poll` while nobody was expelled, and that a process in
`produce` or `insert` has seen no row.

`DuplicatesCostAFault` is about numbers over all processes (copies in the producer queues,
copies in the stream).  For `PaidInv` every copy in a queue has a token (`Tokens`), and so
has every process that may still produce one: it is past its lookup, or before it without
being the owner.  Copies in the stream and tokens together are at most the crashes,
expulsions and outages that happened and the inserts of the event that Postgres rejected, and
one more where Postgres answers and the event has
a row or an owner about to write it (`Room`).  A step moves, adds or takes the tokens of one
process, so the proof of each action is about that process although the claim is about a sum.

**DedupeCache.**  The properties rest on `CacheInv`.  The entries stand in the order in which
their keys were last asked about, each with the time at which its key was accepted, and the
key of an entry behind another was asked about after it (`InOrder`); the times need not be
sorted, as a repeated key moves to the end and keeps its old time.  Every key that is not
held was never asked about, is expired, or has had `MaxSize` other keys asked about since
(`Gone`): the entry that the size limit drops stands first, so all the others were asked
about after it.

**Windows.**  The invariant says that no open window is overdue and no closed one could be
kept for corrections: an open window ends after `Watermark - CloseAfter`, a closed one at or
before it, and `closedRecent` is empty because `Grace < CloseAfter`.  From it follow that no
late event can reach a closed window, that whatever closes later ends later, and that an
idle drain finds nothing.  `NothingClosesEarly` splits a new cluster from the open ones
(`_pick_cluster` refused them) and from the closed ones (they end at least `CloseAfter`
before a watermark that the new event is not behind, and `MergeGap < CloseAfter`).  For
`OpenWindowsApart` an on-time event only ever moves the end of the window it joins forward,
and the nearest window within the gap is the one it joins.

**Correlator.**  The windows' invariant carries over through an instance of WindowsProofs
(`WP`): every step of the process is a step of Windows, a stutter, or a fresh start
(`NextWindowsHere`); `ForgetsOnlyRecent` is a conjunct of it.  `OnlyOpenWindowsLost` is not
inductive, as the commit covers the message just handled: its strengthening `SettledInv` says
the same of every offset that the process has polled while it has the
partition.  `HandedOverOnce` is proved from `OnceInv`, which while no commit failed and no
process was expelled (`Quiet`) says that position and committed offset agree between messages
(`InStep`), that no event is a member of two clusters (`MembersApart`), and that only committed
events were handed over, once, and none that is in an open cluster
(`CountedOnce`).  `StopLosesNoCandidate` needs that the producer queue is empty when a process
closes without an expiry.

**CandidateLinker.**  The groups of one call are what a loop over seeds finds, which removes from
the remaining clusters what it reached.  They form a `Partition`: non-empty, disjoint parts of the
clusters, with no link both ways from one of them to the outside.  `GroupsPartition`
takes a smallest set of remaining clusters for which this fails; the search from its seed is
closed under links (`ReachFacts`), and what is left is smaller (`PartitionStep`).
The search also takes no more than it must (`ReachLeast`).  So within its own group it cannot stop
earlier: what it reached there would be closed among all the clusters it could choose
from, which makes each candidate a group of its own (`GroupStandsAlone`).  The links
are not symmetric, so a group depends on which seed came first; the claim about links both
ways does not.  A dropped cluster lies more than `Horizon` before the newest end, and ends
are handed over in order, so everything later is more than `MaxSpan < Horizon` after it.
`PrecedenceNeverDecides` is a fact about single links and needs no invariant.

**CausalEngine.**  `AnnouncedIsWhole` rests on three facts.  Rows are replaced and never just
deleted (`RowsStay`), as delete and insert are one transaction.  A process that comes to a
step has stored what comes before it (`EarlierStored`), so what is in a producer queue or
in the topic is complete.  The reader keeps what it learned, as complete diagnoses stay
complete.  This needs no assumption on faults.  `OneListOfEdges` needs that the only process
with an open transaction is the owner, so that it replaces exactly what is there;
`CommittedDiagnosed` adds that behind the owner's position only its current candidate is
unsettled, and that nothing takes a settled candidate back.  A candidate that a table refuses is
settled when the tables in front of that one have its rows; `FitsInv` says that no process gets
past that table with it, so it is never announced.  `NewBatch` is a CHOOSE, so the
type invariant has to know that the batches in use are finite in number.

**Diagnosis.**  `DiagnosisInv` says what each phase holds: the evidence is a sequence of clusters,
the last cluster of a service is its evidence, edges join clusters of the candidate with weights in
`1 .. Unit`.  From it each part of a score is bounded (`PrecedenceFacts` to `PenaltyFacts`), so a
score lies between 0 and `MaxScore`; causal support and centrality are not bounded by the unit in
themselves, the code caps them.  `RankOrder` is a function of places (how many services stand
before this one); `PlacesTaken` shows that in a strict total order of finitely many members each
place is taken once, which is what a sort returns.  `LoneInv`: one service has one cluster, as the
linker admits single clusters only for critical alerts, so there is no edge, and high severity
needs an edge or a second service.  `BlameInv`: the effect of every edge is a direct or
transitive caller of its cause, from the linker's orientation and from the search (`SeenAreCalled`).
For chains of edges the same follows as `Callees` is transitive; that `Chains` is already
closed after as many rounds as there are services is a pigeonhole argument on the sets of
services that a caller reaches (`ChainsClosed`).

For `RootRankedFirst` let the evidence be plain for `r`: all others call it, `r` began a
quarter of the incident before them, and nothing of their evidence is stronger.  `RootInv` keeps
what the proof needs of the linker: a candidate is no longer than `MaxSpan` and its first
cluster is linked to another (`Grouped`, from `WholeGroup` of CandidateLinkerProofs).  Then the
edges form a `Star`: one leads from `r` to every other service, at least one of them, the linker's,
has full weight, and none leads to `r`, as that would be a circle (`PlainIsStar`).  With up to
three services the components are bounded, in ten-thousandths:

| component (weight) | of `r` | of another |
|---|---|---|
| precedence (30) | 10000 | at most 7500 |
| centrality and support (20) | - | at most 6188 more than `r` |
| anomaly (25), penalty (-10) | - | no more, no less than `r` |
| blast radius (15) | 10000 | at most 6636 |

The middle row is seven tenths of the 7500 that `Balanced` allows and three tenths of the
difference in causal support, which is at least 6875 for `r` (`StarCausalSupport`).  Precedence and
blast radius put `r` ahead by at least 75000 + 50460, the middle row takes back at most 123760,
and the 1700 that remain are more than the 100 that rounding can cost.  The sums of edge weights
are compared by counting (`UnitsAtLeast`, `UnitsAtMost`).

**ReplayQueue.**  `RunningHasWorker` is inductive with "Postgres answers before the first
fault": a job becomes `running` by a worker that then runs it, and whoever ends this worker
records the job in `abandoned`, or another one changed its status meanwhile.  `OncePerWorker` is
about each worker and job.  Its invariant (`OnceInv`) says that a worker has not yet replayed the jobs
it still has to try (`Untried`): a started job is never queued again, so a later read, also
after a restart, does not return it, and lists are strictly rising, so one never holds a
job twice.

**ReplayJob.**  `JobImplementsQueue` is step by step; the last step of a replay is ReplayQueue's
`Replay`.  For `CountedOncePerJob` the invariant `DetailInv` says that only a worker that collects
holds its job's partition (`HolderInv`), that everything collected for the job lies at or
before its position (`BehindInv`), and that the lists of different workers are apart
(`ApartInv`): a rebalance moves the position to the end of the topic and never back.
`EvaluationAddsUp` is about one evaluation, once `CountedInv` says that reports hold only
diagnoses of the topic: the index of its bin is a function of a confidence between 0 and 1, so
the bins' counts and hits are the numbers of its fibres, and the reciprocal ranks are bounded by
adding one diagnosis at a time.

**Only model-checked.**  Liveness under fairness (`EventuallyHandled`, `StoredReachesStream`,
`EventuallyAnnounced`, `EventuallyStarted`): the prover has no rules for fairness and ENABLED.
All other properties of the passing runs are proved.  The two properties of section 5 are false.

## 5. Where code and documentation disagree

* **An outage of Postgres loses events** (`ingestor_outage`).  `docs/troubleshooting.md:23-25`
  says of an outage with ingestion and diagnosis write failures that "services auto-recover
  via retry paths".  `save_quarantine_event` (`apps/ingestor/main.py:123`) is the repair
  for a failed insert and needs Postgres too; its exception leaves the `except` block, the
  `finally` block commits the offset, the process ends and the message is in no table.
  No database call has a retry.
* **Upstream need not begin first** (`linker_precedence`).  The comment at
  `apps/correlator/linker.py:186` says that an upstream cluster "should begin no later than"
  its dependant.  The guard compares its beginning with the dependant's end plus the
  gap, and what the preceding gap guard accepts it never rejects
  (`PrecedenceNeverDecides`).

The properties that hold name their exceptions:

* `CommittedAccounted` fails with an outage and leaves out messages of which no table takes a trace
  (`Untraceable`);
* `DuplicatesCostAFault` counts the inserts that Postgres rejected among the faults;
* `CommittedDiagnosed` fails with an outage or an expulsion and asks of a candidate that a table refuses
  only what the tables in front of that one hold;
* `OneRowPerEvent` and `OneListOfEdges` fail when the group expels a process that goes on
  working, `HandedOverOnce` in that case and when a commit fails;
* `StopLosesNoCandidate` speaks of a process that neither crashes nor fails to send four times.

## 6. Behaviour worth knowing

* A message that is not JSON ends every ingestor that polls it, before any commit
  (`EventuallyHandled` stops there).
* A message whose payload JSONB does not take (a NUL character, NaN) is in no table, with
  Postgres up: the insert fails, the quarantine fails for the same payload, the `finally` commits
  and the process dies (`CommittedAccounted` names this exception).  The event, when it was
  valid, is in the producer queue by then.
* An event whose `event_id` or `service_name` is longer than its column is published and
  quarantined without a row in `ingested_events`.  Once the cache has forgotten its key, a replayed
  copy is published again (`DuplicatesCostAFault` counts it).
* An event whose row is stored but whose copy expires in the producer queue never reaches the
  correlator: each later copy is a duplicate (`StoredReachesStream` names this exception).
* The last incident before the stream falls silent is never emitted: only messages move the
  watermark (`IdleIsIdle`).  With the shipped settings no closed window can take a late
  event, so `_closed_recent` is always empty after a drain.
* A group of clusters that grows, or loses a pruned member, has a new signature and is
  emitted again; the signatures are never pruned.
* The offset of a message is committed while its window is open and only in memory, so each
  restart of the correlator loses the events of its open windows; they ended less than
  45 seconds before the watermark (`ForgottenIsRecent`).  `docs/troubleshooting.md:34-36` has
  a drill that restarts the correlator.
* A candidate that could not be sent is lost, and its clusters with it: the linker has
  marked them as emitted before the first send, and the error ends the process.
* A correlator that loses its partition and gets it back goes on with its old windows, without
  the messages that were handled elsewhere.
* A candidate with an edge whose `reason` or with a service whose name is longer than its column
  is committed half stored and never announced: the error is logged and the offset
  committed (`CommittedDiagnosed`, `EventuallyAnnounced`).
* A late correction can bring two windows of a service closer together than the gap: they stay
  two clusters.  `WindowsApart` speaks of windows that took none.
* A service's evidence in a diagnosis is its last cluster.  Two clusters of one service that are
  linked make an edge from the service to itself, which counts as its blast radius.
* When the symptoms of root and callers begin close together, a caller in the middle of the
  graph can outrank its dependency: degree weighs against precedence.  `RootRankedFirst`
  holds from a lead of a quarter of the incident.
* With four services even such a lead is not enough.  In the shipped graph, if `ordersdb` begins
  at 0, `orders`, `api` and `worker` at 10 and all end at 40, with equal evidence, `orders` scores
  7849 and `ordersdb` 7514: an edge between the callers adds to the support of the
  caller it leaves.  The property is therefore stated for up to three services.
* A single cluster around a critical alert is never more than a medium incident, as severity
  asks for reach (`LoneServiceAtMostMedium`).
* Of two workers that replay one job each gets a part of the diagnoses, and each overwrites the
  other's result; no diagnosis is in both reports.  Diagnoses published while the replay is
  still going on are missed by its report, and those that other incidents cause afterwards are
  counted.
* The alert intake flushes for five seconds and ignores what is left
  (`apps/reporter_api/services/ingest_service.py:45`): such alerts are reported as published.
* A job whose worker dies stays `running` for ever, as only `queued` jobs are read.

## 7. What is not modelled

* The alert intake: it keeps no state between requests, so a lost alert looks like one that
  never arrived; what it publishes enters Ingestor as `Publish`.
* Confidence (a softmax) beyond its bounds, and the texts of the explainer.
* Evidence texts, report layout, logging, metrics and the HTTP layer: formatting
  and numbers without control.
* Kafka inside: a partition is a log with a committed offset; leader changes show up as
  failed sends and commits.  Retries inside librdkafka that duplicate a message are not
  modelled (the ingestor downstream treats them as it treats any duplicate).
* Postgres inside: a transaction is atomic; which of two waiting transactions goes first is
  left open.
* `libs/common/resilience.py` has no caller.  The simulator's scenarios, the chaos drills,
  dashboards and shell scripts drive the system from outside.

## 8. Plan

| step | module | content |
|---|---|---|
| done | Ingestor, DedupeCache, Windows, Correlator, CandidateLinker, CausalEngine, Diagnosis, ReplayQueue, ReplayJob | the stages of the pipeline (section 3) |
| done | ConsumerGroup | the abstract stage and its three refinements, checked and proved |
| done | the eight proof modules | safety for all constants (section 4) |
| open | CandidateLinker in Correlator | the linker's groups in place of `Answers`, for one process with three clusters: is an incident emitted in parts |
| open | AlertIntake | the request-scoped producer whose flush may time out, in front of Ingestor |
| open | Diagnosis | for which lead the root is first among four and more services |
