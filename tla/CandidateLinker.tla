---------------------------- MODULE CandidateLinker ---------------------------
(***************************************************************************)
(* The candidate linker of the correlator (apps/correlator/linker.py and   *)
(* clustering.py): finalised clusters are kept for a while, noise is left  *)
(* out, the rest is partitioned by a directed search over "linked", and    *)
(* each group that passes the thresholds and was not emitted before        *)
(* becomes an incident candidate.                                          *)
(*                                                                         *)
(* Clusters come in batches from the windows, in the order of their ends   *)
(* (HandedOverInOrder of module Windows) and never change afterwards       *)
(* (FinalizedNeverChanges there).  A cluster's data is its service, its    *)
(* window, its linkable correlation keys and its signal strength; scores   *)
(* are in tenths.                                                          *)
(***************************************************************************)
EXTENDS Integers, Sequences, FiniteSets

CONSTANTS
    Services,
    DependsOn,     \* dependencies: DependsOn[s] is what service s calls
    MaxGap,        \* max_temporal_gap_seconds
    MaxSpan,       \* max_candidate_span_seconds
    Horizon,       \* the ten minutes a closed cluster is kept
    Records,       \* the clusters that occur
    MaxClusters    \* bound on their number

MinScore == 55     \* min_cluster_score
MinEvents == 3     \* min_events_per_cluster
MinSignals == 2    \* min_signal_types_per_cluster
MinServices == 2   \* min_services_per_candidate

ClusterType ==
    [service : Services, first : Nat, last : Nat, keys : SUBSET STRING,
     score : Nat, events : Nat, signals : Nat, critical : BOOLEAN]

ASSUME GraphAssumption == DependsOn \in [Services -> SUBSET Services]
ASSUME SettingsAssumption ==
    /\ MaxGap \in Nat /\ MaxSpan \in Nat /\ Horizon \in Nat /\ MaxClusters \in Nat
    /\ MaxSpan < Horizon
ASSUME RecordsAssumption ==
    \A r \in Records : r \in ClusterType /\ r.first <= r.last

VARIABLES
    clusters,      \* every cluster finalised so far, in order
    retained,      \* _closed_clusters, as indices of clusters
    signatures,    \* _emitted_signatures: the groups emitted so far
    candidates     \* the groups the last call returned

vars == <<clusters, retained, signatures, candidates>>

Init == clusters = <<>> /\ retained = {} /\ signatures = {} /\ candidates = {}

-------------------------------------------------------------------------------
(* Predicates on clusters (records).                                       *)

IsNoise(r) ==
    /\ ~ r.critical
    /\ ~ (r.score >= MinScore /\ r.events >= MinEvents /\ r.signals >= MinSignals)
    /\ ~ (10 * r.score >= 14 * MinScore /\ r.events >= 2 * MinEvents)

\* has_topology_proximity; reverse_dependencies holds the same pairs again.
Proximity(s, u) == s = u \/ u \in DependsOn[s] \/ s \in DependsOn[u]

Dist(x, y) == IF x >= y THEN x - y ELSE y - x

\* The first guard of _linked, which is not symmetric.
GapOK(a, b) == Dist(a.last, b.first) <= MaxGap

\* _temporal_precedence_ok
PrecedenceOK(a, b) ==
    CASE b.service \in DependsOn[a.service] -> b.first <= a.last + MaxGap
      [] b.service \notin DependsOn[a.service] /\ a.service \in DependsOn[b.service]
            -> a.first <= b.last + MaxGap
      [] OTHER -> TRUE

Linked(a, b) ==
    /\ GapOK(a, b)
    /\ Proximity(a.service, b.service)
    /\ PrecedenceOK(a, b)
    /\ a.keys \cap b.keys # {}

\* _orient_edge: the service that is depended on is the source; within one service
\* the window that ends first.
Oriented(a, b) ==
    IF \/ b.service \in DependsOn[a.service]
       \/ a.service \notin DependsOn[b.service] /\ a.last > b.last
    THEN [source |-> b, target |-> a] ELSE [source |-> a, target |-> b]

-------------------------------------------------------------------------------
(* Groups of clusters (sets of indices), on the clusters of this step.     *)

\* cluster_sort_key
SortsBefore(a, b) == a.first < b.first \/ (a.first = b.first /\ a.score > b.score)

\* The sort is stable: ties keep the order of arrival.
Before(c, d) ==
    \/ SortsBefore(clusters'[c], clusters'[d])
    \/ c < d /\ ~ SortsBefore(clusters'[d], clusters'[c])

LinkedIds(c, d) == c # d /\ Linked(clusters'[c], clusters'[d])

\* Mutant of Reach: only what the seed itself is linked to.
ReachMutDirect(seed, S) == {seed} \cup {d \in S : LinkedIds(seed, d)}

\* What the depth-first search from a seed visits among S.
Reach(seed, S) ==
    LET grow[R \in SUBSET S] ==
          LET more == R \cup {d \in S : \E c \in R : LinkedIds(c, d)}
          IN  IF more = R THEN R ELSE grow[more]
    IN  grow[{seed}]

\* Mutant of Groups: "visited" is forgotten between the seeds.
GroupsMutNoVisited(S) == {Reach(c, S) : c \in S}

\* _build_groups: seeds in order, each search leaves out what was visited before.
Groups(S) ==
    LET part[T \in SUBSET S] ==
          IF T = {} THEN {}
          ELSE LET seed == CHOOSE c \in T : \A d \in T \ {c} : Before(c, d)
                   group == Reach(seed, T)
               IN  {group} \cup part[T \ group]
    IN  part[S]

\* _candidate_allowed
Allowed(g) ==
    /\ \A c, d \in g : clusters'[c].last - clusters'[d].first <= MaxSpan
    /\ \/ Cardinality({clusters'[c].service : c \in g}) >= MinServices
       \/ \E c \in g : g = {c} /\ clusters'[c].critical /\ clusters'[c].score >= MinScore

\* _build_edges of an emitted group: a later cluster is no link's first end (ties, which
\* follow the search, either way).
Edges(g) ==
    {Oriented(clusters[p[1]], clusters[p[2]]) :
        p \in {q \in g \X g : /\ q[1] # q[2]
                             /\ Linked(clusters[q[1]], clusters[q[2]])
                             /\ ~ SortsBefore(clusters[q[2]], clusters[q[1]])}}

\* Mutant of Emitted: what is emitted is not remembered.
EmittedMutForget(groups) == signatures

\* The signatures after a call that returns these groups.
Emitted(groups) == signatures \cup groups

\* Mutant of Kept: clusters are kept only as long as they can be linked directly.
KeptMutGap(S) == {c \in S : \A d \in S : clusters'[d].last - clusters'[c].last <= MaxGap}

\* No older than the horizon before the newest.
Kept(S) == {c \in S : \A d \in S : clusters'[d].last - clusters'[c].last <= Horizon}

\* ingest_finalized(batch): one call of the window manager's drain.
IngestFinalized(batch) ==
    LET new == Len(clusters) + 1 .. Len(clusters) + Len(batch)
        known == retained \cup new
        groups == Groups({c \in known : ~ IsNoise(clusters'[c])})
    IN  /\ Len(clusters) + Len(batch) <= MaxClusters
        /\ clusters' = clusters \o batch
        /\ candidates' = {g \in groups : Allowed(g)} \ signatures
        /\ signatures' = Emitted(candidates')
        /\ retained' = Kept(known)

\* The windows hand over one or two clusters that ended after all earlier ones.
Later == {r \in Records : \A c \in DOMAIN clusters : clusters[c].last < r.last}

Next ==
    \/ \E r \in Later : IngestFinalized(<<r>>)
    \/ \E r1, r2 \in Later : IngestFinalized(<<r1, r2>>)

Spec == Init /\ [][Next]_vars

-------------------------------------------------------------------------------
Ids == DOMAIN clusters

TypeOK ==
    /\ clusters \in Seq(Records)
    /\ retained \subseteq Ids
    /\ candidates \subseteq signatures
    /\ signatures \subseteq (SUBSET Ids) \ {{}}

\* A cluster is evidence in at most one candidate of a call, although the links are
\* not symmetric and a later seed may reach clusters of an earlier group.
CandidatesDisjoint == \A g, h \in candidates : g # h => g \cap h = {}

\* Two clusters that are linked both ways are never split over two incidents: the one
\* left out of a candidate would have been reached from its members.
MutualLinksTogether ==
    \A g \in candidates : \A c \in g : \A d \in retained \ g :
        ~ IsNoise(clusters[d])
            => ~ (Linked(clusters[c], clusters[d]) /\ Linked(clusters[d], clusters[c]))

\* A candidate is self-contained: its own links hold it together, none over a cluster
\* outside, so that it is one group also where it arrives without the others, in the
\* causal engine (module Diagnosis takes such groups only).
CandidatesStandAlone == [][\A g \in candidates' : Groups(g) = {g}]_vars

\* Dropping old clusters loses no incident: a dropped cluster lies further than the
\* allowed span before everything that the windows finalise afterwards.
PrunedTooOldToMatter ==
    [][\A c \in Ids \ retained : \A d \in DOMAIN clusters' \ Ids :
          clusters'[d].last - clusters[c].last > MaxSpan]_vars

\* The comment at linker.py:186: "b is upstream and should begin no later than a".
UpstreamBeginsFirst ==
    \A g \in candidates : \A e \in Edges(g) :
        e.target.service # e.source.service => e.source.first <= e.target.first
===============================================================================
