------------------------------- MODULE Diagnosis ------------------------------
(***************************************************************************)
(* How the causal engine diagnoses one candidate, between the poll and the *)
(* transactions of module CausalEngine: CausalGraphBuilder.build           *)
(* (causal_graph.py, dependency_graph.py), RootCauseRanker.rank            *)
(* (ranker.py), DiagnosisExplainer.build_diagnosis (explainer.py) and      *)
(* _derive_incident_severity (main.py).                                    *)
(*                                                                         *)
(* A candidate is a group that module CandidateLinker allows: its clusters *)
(* in sort order, linked as they are there.  Times are in seconds, cluster *)
(* scores in tenths; shares, weights and scores of the ranking are in      *)
(* units of 1 / Unit, rounded down (the code rounds to six digits).        *)
(***************************************************************************)
EXTENDS Integers, Sequences, FiniteSetsExt

CONSTANTS
    Services,
    DependsOn,     \* config/services.yaml: DependsOn[s] is what service s calls
    MaxGap,        \* the linker's settings, see CandidateLinker
    MaxSpan,
    Overlap,       \* how far an effect may begin before its cause (10 seconds)
    MaxLag,        \* and how far behind it (180 seconds)
    TopK,          \* rank(graph, top_k)
    Clusters,      \* the clusters that occur, of CandidateLinker's ClusterType
    MaxSize        \* bound on the clusters of a candidate

Unit == 10000
MaxDepth == 8      \* max_depth of dependency_depth

\* The file lists finitely many services.
ASSUME ServicesAssumption == IsFiniteSet(Services)
ASSUME GraphAssumption == DependsOn \in [Services -> SUBSET Services]
ASSUME ConfigAssumption ==
    /\ {MaxGap, MaxSpan, Overlap, MaxSize} \subseteq Nat
    /\ {MaxLag, TopK} \subseteq Nat \ {0}

VARIABLES
    pc,
    evidence,    \* the candidate's clusters, in sort order
    latest,      \* graph.service_evidence: service -> position in evidence
    edges,       \* graph.edges: <<source, target>>, positions in evidence -> weight
    rankings,    \* the ranked services with their scores
    severity     \* the incident's severity

vars == <<pc, evidence, latest, edges, rankings, severity>>

L == INSTANCE CandidateLinker WITH
        clusters <- evidence, retained <- {}, signatures <- {}, candidates <- {},
        Records <- Clusters, MaxClusters <- MaxSize, Horizon <- MaxSpan + 1

ASSUME ClustersAssumption ==
    \A c \in Clusters : c \in L!ClusterType /\ c.first <= c.last /\ ~ L!IsNoise(c)

Empty == [x \in {} |-> 0]

Init ==
    /\ pc = "idle"
    /\ evidence = <<>> /\ latest = Empty /\ edges = Empty /\ rankings = <<>>
    /\ severity = "none"

Least(x, y) == IF x <= y THEN x ELSE y
Greatest(x, y) == IF x >= y THEN x ELSE y
Share(x, whole) == (Unit * x) \div whole

-------------------------------------------------------------------------------
(* The candidate.                                                          *)

SortedSeqs ==
    {ev \in UNION {[1 .. n -> Clusters] : n \in 1 .. MaxSize} :
        \A m, n \in DOMAIN ev : m < n => ~ L!SortsBefore(ev[n], ev[m])}

\* A candidate arrives: one group of linked clusters that the linker allows.
Take ==
    /\ pc = "idle"
    /\ evidence' \in SortedSeqs
    /\ L!Groups(DOMAIN evidence') = {DOMAIN evidence'}
    /\ L!Allowed(DOMAIN evidence')
    /\ pc' = "build"
    /\ UNCHANGED <<latest, edges, rankings, severity>>

ServicesOf(ev) == {ev[n].service : n \in DOMAIN ev}

-------------------------------------------------------------------------------
(* CausalGraphBuilder.build                                                *)

\* _extract_service_evidence: a later cluster of a service replaces an earlier one.
EvidenceMap ==
    [s \in ServicesOf(evidence) |-> Max({n \in DOMAIN evidence : evidence[n].service = s})]

\* _extract_candidate_edges: the linker's edges, which carry no weight and count in full.
ProvidedEdges ==
    LET linked == {p \in (DOMAIN evidence) \X (DOMAIN evidence) :
                      p[1] < p[2] /\ L!Linked(evidence[p[1]], evidence[p[2]])}
        oriented(p) ==
            IF L!Oriented(evidence[p[1]], evidence[p[2]]).source = evidence[p[1]]
            THEN p ELSE <<p[2], p[1]>>
    IN  {oriented(p) : p \in linked}

\* What a search from s has seen after n levels; dependency_depth is the number of
\* levels that have not seen its target.
Seen(s, n) ==
    LET seen[k \in 0 .. n] ==
          IF k = 0 THEN {s} ELSE seen[k - 1] \cup UNION {DependsOn[v] : v \in seen[k - 1]}
    IN  seen[n]

HasDepth(s, t) == t \in Seen(s, MaxDepth)

Depth(s, t) == Cardinality({n \in 0 .. MaxDepth : t \notin Seen(s, n)})

\* How far the effect began after its cause.
Lag(s, t) == evidence[EvidenceMap[t]].first - evidence[EvidenceMap[s]].first

\* Mutant of Infers: the arguments of dependency_depth are swapped.
InfersMutSwapped(s, t) ==
    s # t /\ HasDepth(s, t) /\ Lag(s, t) >= - Overlap /\ Lag(s, t) <= MaxLag

\* The guards of _infer_dependency_edges.
Infers(s, t) ==
    /\ s # t
    /\ HasDepth(t, s)
    /\ Lag(s, t) >= - Overlap
    /\ Lag(s, t) <= MaxLag

\* Never more than a half, so an edge of the linker stands in edge_map.
InferredWeight(s, t) ==
    LET proximity == Greatest(Unit \div 5, Unit - Share(Greatest(0, Lag(s, t)), MaxLag))
    IN  proximity \div (Depth(t, s) + 1)

Inferred == {p \in ServicesOf(evidence) \X ServicesOf(evidence) : Infers(p[1], p[2])}

Build ==
    /\ pc = "build"
    /\ latest' = EvidenceMap
    /\ edges' = [e \in ProvidedEdges \cup {<<latest'[p[1]], latest'[p[2]]>> : p \in Inferred} |->
                    IF e \in ProvidedEdges THEN Unit
                    ELSE InferredWeight(evidence[e[1]].service, evidence[e[2]].service)]
    /\ pc' = "rank"
    /\ UNCHANGED <<evidence, rankings, severity>>

-------------------------------------------------------------------------------
(* RootCauseRanker.rank                                                    *)

Evidence(s) == evidence[latest[s]]
Ranked == DOMAIN latest
Source(e) == evidence[e[1]].service
Target(e) == evidence[e[2]].service

Total(f(_), S) == FoldSet(LAMBDA x, sum : f(x) + sum, 0, S)

\* Mutant of Precedence: the latest service is taken for the first.
PrecedenceMutReversed(s) ==
    LET begin == Min({Evidence(u).first : u \in Ranked})
        end == Max({Evidence(u).last : u \in Ranked})
    IN  Share(Evidence(s).first - begin, Greatest(1, end - begin))

Precedence(s) ==
    LET begin == Min({Evidence(u).first : u \in Ranked})
        end == Max({Evidence(u).last : u \in Ranked})
    IN  Unit - Share(Evidence(s).first - begin, Greatest(1, end - begin))

\* _causal_support_map, before it is divided by the largest: a cause counts more.
Support(s) ==
    LET counted(e) == (IF Source(e) = s THEN Greatest(Unit \div 10, edges[e]) ELSE 0)
                      + (IF Target(e) = s THEN Greatest(Unit \div 20, (6 * edges[e]) \div 10)
                         ELSE 0)
    IN  Total(counted, DOMAIN edges)

CausalSupport(s) == Share(Support(s), Max({Unit} \cup {Support(u) : u \in Ranked}))

Callers(s) == {u \in Services : s \in DependsOn[u]}

\* _dependency_centrality: the degree of the service in the configured graph.
Centrality(s) ==
    LET degree == Max({1} \cup {Cardinality(DependsOn[u]) : u \in Services})
    IN  Least(Unit, Share(Cardinality(DependsOn[s]) + Cardinality(Callers(s)), 2 * degree))

\* _blast_radius_map
Outgoing(s) == {e \in DOMAIN edges : Source(e) = s}
WeightedOut(s) == LET w(e) == Greatest(Unit \div 10, edges[e]) IN Total(w, Outgoing(s))

BlastRadius(s) ==
    LET targets == Cardinality({Target(e) : e \in Outgoing(s)})
        reach == Share(targets, Greatest(1, Cardinality(Ranked) - 1))
        weight == Share(WeightedOut(s), Max({Unit} \cup {WeightedOut(u) : u \in Ranked}))
    IN  Least(Unit, (6 * reach + 4 * weight) \div 10)

Diversity(s) == Least(Unit, Share(Evidence(s).signals, 3))

Anomaly(s) ==
    LET largest == Max({10} \cup {Evidence(u).score : u \in Ranked})
    IN  Least(Unit, (65 * Share(Evidence(s).score, largest) + 35 * Diversity(s)) \div 100)

\* _signal_quality_penalty
Penalty(s) ==
    Least(Unit, (IF Evidence(s).events <= 2 THEN 3500 ELSE 0)
              + (IF Evidence(s).score < 30 THEN 3000 ELSE 0)
              + (IF Evidence(s).signals <= 1 THEN 3500 ELSE 0)
              + (IF Evidence(s).critical THEN 0 ELSE 1000))

\* The weights of config/scoring.yaml, in hundredths.
Score(s) ==
    LET central == Least(Unit, (7 * Centrality(s) + 3 * CausalSupport(s)) \div 10)
    IN  Greatest(0, (30 * Precedence(s) + 20 * central + 25 * Anomaly(s)
                     + 15 * BlastRadius(s) - 10 * Penalty(s)) \div 100)

\* Mutant of RankOrder: sorted without reverse.
RankOrderMutAscending ==
    LET all == {[service |-> s, score |-> Score(s)] : s \in Ranked}
    IN  CHOOSE order \in [1 .. Cardinality(all) -> all] :
            \A m, n \in DOMAIN order : m < n => /\ order[m] # order[n]
                                                /\ order[m].score <= order[n].score

\* Highest score first; the sort is stable over the order in which a service first
\* occurs in the evidence.
RankOrder ==
    LET occurs(s) == Min({n \in DOMAIN evidence : evidence[n].service = s})
        all == {[service |-> s, score |-> Score(s)] : s \in Ranked}
        above(x) == {y \in all : \/ y.score > x.score
                                 \/ y.score = x.score /\ occurs(y.service) < occurs(x.service)}
    IN  [n \in 1 .. Cardinality(all) |-> CHOOSE x \in all : Cardinality(above(x)) = n - 1]

Rank ==
    /\ pc = "rank"
    /\ rankings' = SubSeq(RankOrder, 1, Least(TopK, Cardinality(Ranked)))
    /\ pc' = "explain"
    /\ UNCHANGED <<evidence, latest, edges, severity>>

-------------------------------------------------------------------------------
(* DiagnosisExplainer.build_diagnosis and _derive_incident_severity.       *)

\* Mutant of SeverityOf: one service is enough for a high severity.
SeverityOfMutAnyReach(confidence) ==
    LET top == rankings[1]
    IN  IF top.score >= 6500 /\ confidence # "low" THEN "high"
        ELSE IF top.score >= 4500 THEN "medium"
        ELSE "low"

\* The confidence of the first hypothesis against the thresholds 0.55 and 0.75.
SeverityOf(confidence) ==
    LET top == rankings[1]
        critical == Evidence(top.service).critical
        affected == Cardinality(ServicesOf(evidence))
        count == Cardinality(DOMAIN edges)
        widespread == affected >= 3 \/ count >= 2
    IN  IF \/ critical /\ widespread
           \/ top.score >= 8000 /\ confidence = "sure" /\ widespread
        THEN "critical"
        ELSE IF top.score >= 6500 /\ confidence # "low" /\ (affected >= 2 \/ count >= 1)
        THEN "high"
        ELSE IF top.score >= 4500 THEN "medium"
        ELSE "low"

\* _attach_confidence: the confidence of the first hypothesis, a softmax of the scores, is
\* left open; alone, a hypothesis has at least 0.65.
Confidences == IF Len(rankings) = 1 THEN {"fair", "sure"} ELSE {"low", "fair", "sure"}

Explain ==
    /\ pc = "explain"
    /\ \E confidence \in Confidences : severity' = SeverityOf(confidence)
    /\ pc' = "publish"
    /\ UNCHANGED <<evidence, latest, edges, rankings>>

\* The incident is stored and published (module CausalEngine); nothing is kept for the
\* next candidate.
Publish ==
    /\ pc = "publish"
    /\ pc' = "idle"
    /\ evidence' = <<>> /\ latest' = Empty /\ edges' = Empty /\ rankings' = <<>>
    /\ severity' = "none"

Next == Take \/ Build \/ Rank \/ Explain \/ Publish

Spec == Init /\ [][Next]_vars

-------------------------------------------------------------------------------
\* What the weights of precedence, centrality, anomaly and blast radius allow.
MaxScore == (9 * Unit) \div 10

\* Services are chosen from those with evidence, at most TopK, in falling order of a
\* score that no sum, share or penalty drives outside [0, 0.9].
TypeOK ==
    /\ pc \in {"idle", "build", "rank", "explain", "publish"}
    /\ evidence \in Seq(Clusters)
    /\ \A s \in DOMAIN latest : latest[s] \in DOMAIN evidence
    /\ \A e \in DOMAIN edges : edges[e] \in 1 .. Unit
    /\ Len(rankings) <= TopK
    /\ \A m, n \in DOMAIN rankings :
          /\ rankings[n].service \in DOMAIN latest
          /\ rankings[n].score \in 0 .. MaxScore
          /\ m < n => /\ rankings[m].score >= rankings[n].score
                      /\ rankings[m].service # rankings[n].service
    /\ severity \in {"none", "low", "medium", "high", "critical"}

\* The pairs that a chain of one or more pairs of R leads from and to.
Chains(R) ==
    LET chains[n \in 0 .. Cardinality(Services)] ==
          IF n = 0 THEN {}
          ELSE chains[n - 1] \cup R \cup
               {<<x[1][1], x[2][2]>> : x \in {y \in chains[n - 1] \X R : y[1][2] = y[2][1]}}
    IN  chains[Cardinality(Services)]

Calls == {p \in Services \X Services : p[2] \in DependsOn[p[1]]}
Callees == Chains(Calls)

\* No service calls itself over any chain of calls: so in config/services.yaml.
Acyclic == \A p \in Callees : p[1] # p[2]

\* The edges come from two sources, the linker's orientation and the search through
\* the dependencies, which must not contradict each other: an effect is always a
\* (transitive) caller of its cause, and no service is, over any chain of edges, a
\* cause of itself.
CausesAreDependencies ==
    LET blamed == {p \in {<<Source(e), Target(e)>> : e \in DOMAIN edges} : p[1] # p[2]}
    IN  /\ \A p \in blamed : <<p[2], p[1]>> \in Callees
        /\ \A p \in Chains(blamed) : p[1] # p[2]

\* r failed before all others, by at least a quarter of the incident; all others depend
\* on it, and its evidence is no weaker.
Plain(r) ==
    LET span == Max({Evidence(u).last : u \in Ranked}) - Evidence(r).first
    IN  \A u \in Ranked \ {r} :
            /\ <<u, r>> \in Callees
            /\ Evidence(r).first < Evidence(u).first
            /\ 4 * (Evidence(u).first - Evidence(r).first) >= span
            /\ Evidence(r).score >= Evidence(u).score
            /\ Evidence(r).events >= Evidence(u).events
            /\ Evidence(r).signals >= Evidence(u).signals
            /\ Evidence(u).critical => Evidence(r).critical

\* The five weighted components together name the root cause of up to three services when
\* the evidence is plain.  (With four, or closer together, a busy caller in the middle
\* outranks what it depends on: its degree and the edges that leave it outweigh the
\* precedence.)
RootRankedFirst ==
    rankings # <<>> /\ Cardinality(Ranked) <= 3 =>
        \A r \in Ranked : Plain(r) /\ Len(evidence) = Cardinality(Ranked)
            => rankings[1].service = r

\* What that asks of config/services.yaml and the settings: no circles, no chain of calls
\* longer than the search looks, no caller that is more central by over three quarters of
\* the unit than what it depends on, and no candidate that is longer than an edge may lag.
Balanced ==
    /\ Acyclic
    /\ \A p \in Callees : /\ HasDepth(p[1], p[2])
                          /\ 4 * (Centrality(p[1]) - Centrality(p[2])) <= 3 * Unit
    /\ MaxSpan <= MaxLag

\* What the linker admits on one service alone, a single cluster around a critical
\* alert, is an incident of at most medium severity, however high it scores.
LoneServiceAtMostMedium ==
    Cardinality(ServicesOf(evidence)) = 1 => severity \in {"none", "low", "medium"}
===============================================================================
