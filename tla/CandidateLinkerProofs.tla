------------------------ MODULE CandidateLinkerProofs -------------------------
(***************************************************************************)
(* Proofs about module CandidateLinker.                                    *)
(*                                                                         *)
(* The argument about pruning: a dropped cluster ended more than Horizon   *)
(* before some cluster (PrunedOld), every cluster of a later batch ends    *)
(* after that one, and MaxSpan < Horizon.                                  *)
(*                                                                         *)
(* The argument about the groups: both recursions run over the subsets of  *)
(* a finite set, so each is a function (GrowExists, PartExists), and a     *)
(* smallest set for which it failed (SmallestSet) would have a smaller one *)
(* for which it failed.  A search is closed under links among what is not  *)
(* visited yet (ReachFacts), hence the groups are a partition that no link *)
(* both ways crosses (GroupsPartition), whatever the order of the seeds.   *)
(***************************************************************************)
EXTENDS CandidateLinker, FiniteSetTheorems, WellFoundedInduction, TLAPS

ClustersOK == clusters \in Seq(Records) /\ retained \subseteq Ids

PrunedOld ==
    \A c \in Ids \ retained : \E d \in Ids : clusters[d].last - clusters[c].last > Horizon

PruneInv == ClustersOK /\ PrunedOld

\* Every step is a call with a non-empty batch of clusters that end after all before.
LEMMA Batches ==
    ASSUME Next
    PROVE  \E batch \in Seq(Records) :
              /\ IngestFinalized(batch)
              /\ \A i \in DOMAIN batch : batch[i] \in Later
<1>1. CASE \E r \in Later : IngestFinalized(<<r>>)
  <2>1. PICK r \in Later : IngestFinalized(<<r>>)
    BY <1>1
  <2>2. r \in Records
    BY <2>1 DEF Later
  <2>3. <<r>> \in Seq(Records)
    BY <2>2
  <2>4. \A i \in DOMAIN <<r>> : <<r>>[i] \in Later
    BY <2>1
  <2> QED BY <2>1, <2>3, <2>4
<1>2. CASE \E r1, r2 \in Later : IngestFinalized(<<r1, r2>>)
  <2>1. PICK r1 \in Later, r2 \in Later : IngestFinalized(<<r1, r2>>)
    BY <1>2
  <2>2. r1 \in Records /\ r2 \in Records
    BY <2>1 DEF Later
  <2>3. <<r1, r2>> \in Seq(Records)
    BY <2>2
  <2>4. \A i \in DOMAIN <<r1, r2>> : <<r1, r2>>[i] \in Later
    BY <2>1
  <2> QED BY <2>1, <2>3, <2>4
<1> QED BY <1>1, <1>2 DEF Next

\* What a step does to the clusters: the old ones stay, each new one ends after them.
LEMMA Appended ==
    ASSUME ClustersOK, Next
    PROVE  /\ clusters' \in Seq(Records)
           /\ Ids \subseteq DOMAIN clusters'
           /\ \A c \in Ids : clusters'[c] = clusters[c]
           /\ \A d \in DOMAIN clusters' \ Ids : \A c \in Ids : clusters[c].last < clusters'[d].last
           /\ retained' = Kept(retained \cup (DOMAIN clusters' \ Ids))
<1>1. PICK batch \in Seq(Records) : /\ IngestFinalized(batch)
                                   /\ \A i \in DOMAIN batch : batch[i] \in Later
  BY Batches
<1>2. clusters \in Seq(Records)
  BY DEF ClustersOK
<1>3. clusters' = clusters \o batch
  BY <1>1 DEF IngestFinalized
<1>4. /\ clusters' \in Seq(Records)
      /\ Ids \subseteq DOMAIN clusters'
      /\ \A c \in Ids : clusters'[c] = clusters[c]
  BY <1>2, <1>3 DEF Ids
<1>5. DOMAIN clusters' \ Ids = Len(clusters) + 1 .. Len(clusters) + Len(batch)
  BY <1>2, <1>3 DEF Ids
<1>6. ASSUME NEW d \in DOMAIN clusters' \ Ids, NEW c \in Ids
      PROVE  clusters[c].last < clusters'[d].last
  <2>1. d - Len(clusters) \in DOMAIN batch /\ clusters'[d] = batch[d - Len(clusters)]
    BY <1>2, <1>3, <1>5, <1>6
  <2>2. clusters'[d] \in Later
    BY <1>1, <2>1
  <2> QED BY <2>2, <1>6 DEF Later, Ids
<1>7. retained' = Kept(retained \cup (Len(clusters) + 1 .. Len(clusters) + Len(batch)))
  BY <1>1 DEF IngestFinalized
<1> QED BY <1>4, <1>5, <1>6, <1>7

LEMMA LastsAreNumbers ==
    ASSUME NEW cs \in Seq(Records), NEW c \in DOMAIN cs
    PROVE  cs[c].last \in Nat
<1>1. cs[c] \in Records
  OBVIOUS
<1> QED BY <1>1, RecordsAssumption DEF ClusterType

LEMMA PruneInvInductive == (Init => PruneInv) /\ (PruneInv /\ [Next]_vars => PruneInv')
<1>1. ASSUME Init PROVE PruneInv
  BY <1>1 DEF Init, PruneInv, ClustersOK, PrunedOld, Ids
<1>2. ASSUME PruneInv, UNCHANGED vars PROVE PruneInv'
  BY <1>2 DEF vars, PruneInv, ClustersOK, PrunedOld, Ids
<1>3. ASSUME PruneInv, Next PROVE PruneInv'
  <2> DEFINE known == retained \cup (DOMAIN clusters' \ Ids)
  <2>1. ClustersOK
    BY <1>3 DEF PruneInv
  <2>2. /\ clusters' \in Seq(Records)
        /\ Ids \subseteq DOMAIN clusters'
        /\ \A c \in Ids : clusters'[c] = clusters[c]
        /\ retained' = Kept(known)
    BY <1>3, <2>1, Appended
  <2>3. ClustersOK'
    BY <2>1, <2>2 DEF ClustersOK, Kept, Ids
  <2>4. ASSUME NEW c \in (Ids \ retained)'
        PROVE  \E d \in Ids' : clusters'[d].last - clusters'[c].last > Horizon
    <3>1. CASE c \in known
      <4>1. PICK d \in known : ~ (clusters'[d].last - clusters'[c].last <= Horizon)
        BY <2>2, <2>4, <3>1 DEF Kept, Ids
      <4>2. d \in DOMAIN clusters' /\ c \in DOMAIN clusters'
        BY <2>1, <2>2, <2>4, <4>1 DEF ClustersOK, Ids
      <4>3. clusters'[d].last \in Nat /\ clusters'[c].last \in Nat
        BY <2>2, <4>2, LastsAreNumbers
      <4> QED BY <4>1, <4>2, <4>3, SettingsAssumption DEF Ids
    <3>2. CASE c \notin known
      <4>1. c \in Ids \ retained
        BY <2>4, <3>2 DEF Ids
      <4>2. PICK d \in Ids : clusters[d].last - clusters[c].last > Horizon
        BY <1>3, <4>1 DEF PruneInv, PrunedOld
      <4>3. clusters'[d] = clusters[d] /\ clusters'[c] = clusters[c] /\ d \in Ids'
        BY <2>2, <4>1, <4>2 DEF Ids
      <4> QED BY <4>2, <4>3
    <3> QED BY <3>1, <3>2
  <2> QED BY <2>3, <2>4 DEF PruneInv, PrunedOld
<1> QED BY <1>1, <1>2, <1>3

\* A cluster that the linker drops (linker.py:98-101) ended further before everything
\* that is finalised afterwards than one candidate may span: dropping it loses nothing.
THEOREM PruningIsSafe == Spec => PrunedTooOldToMatter
<1>1. Init => PruneInv
  BY PruneInvInductive
<1>2. PruneInv /\ [Next]_vars => PruneInv'
  BY PruneInvInductive
<1>3. ASSUME PruneInv, Next,
             NEW c \in Ids \ retained, NEW d \in DOMAIN clusters' \ Ids
      PROVE  clusters'[d].last - clusters[c].last > MaxSpan
  <2>1. PICK e \in Ids : clusters[e].last - clusters[c].last > Horizon
    BY <1>3 DEF PruneInv, PrunedOld
  <2>2. clusters[e].last < clusters'[d].last
    BY <1>3, <2>1, Appended DEF PruneInv
  <2>3. clusters[e].last \in Nat /\ clusters[c].last \in Nat
    BY <1>3, <2>1, LastsAreNumbers DEF PruneInv, ClustersOK, Ids
  <2>4. clusters'[d].last \in Nat
    BY <1>3, Appended, LastsAreNumbers DEF PruneInv
  <2> QED BY <2>1, <2>2, <2>3, <2>4, SettingsAssumption
<1>4. PruneInv /\ [Next]_vars =>
        [\A c \in Ids \ retained : \A d \in DOMAIN clusters' \ Ids :
            clusters'[d].last - clusters[c].last > MaxSpan]_vars
  BY <1>3
<1> QED BY <1>1, <1>2, <1>4, PTL DEF Spec, PrunedTooOldToMatter

\* The guard _temporal_precedence_ok of _linked (linker.py:139) never decides anything:
\* whatever passes the gap guard before it passes it, so an upstream service that shows
\* symptoms later than its dependant is linked all the same.
THEOREM PrecedenceNeverDecides ==
    \A a, b \in Records : GapOK(a, b) => PrecedenceOK(a, b)
<1> SUFFICES ASSUME NEW a \in Records, NEW b \in Records, GapOK(a, b)
             PROVE  PrecedenceOK(a, b)
  OBVIOUS
<1>1. /\ a.first \in Nat /\ a.last \in Nat /\ a.first <= a.last
      /\ b.first \in Nat /\ b.last \in Nat /\ b.first <= b.last
  BY RecordsAssumption DEF ClusterType
<1>2. b.first <= a.last + MaxGap
  BY <1>1, SettingsAssumption DEF GapOK, Dist
<1>3. a.first <= b.last + MaxGap
  BY <1>1, SettingsAssumption DEF GapOK, Dist
<1> QED BY <1>2, <1>3 DEF PrecedenceOK

-------------------------------------------------------------------------------
(* The search.                                                             *)

\* A minimal set among sets of a finite set: what the two recursions are proved with.
LEMMA SmallestSet ==
    ASSUME NEW S, IsFiniteSet(S), NEW U \in SUBSET (SUBSET S), U # {}
    PROVE  \E T \in U : \A V \in U : V \subseteq T => V = T
<1>0. IsWellFoundedOn(StrictSubsetOrdering(S), SUBSET S)
  BY FS_StrictSubsetOrderingWellFounded, FS_FiniteSubsetsOfFinite, Zenon
<1>1. PICK T \in U : \A V \in U : ~ (<<V, T>> \in StrictSubsetOrdering(S))
  BY <1>0, WFMin, Zenon
<1>2. \A V \in U : V \subseteq T /\ V # T => <<V, T>> \in StrictSubsetOrdering(S)
  BY Zenon DEF StrictSubsetOrdering
<1>3. \A V \in U : V \subseteq T => V = T
  BY <1>1, <1>2, Zenon
<1>. QED
  BY <1>3, Zenon

\* One round of a search that has reached R.
More(R, S) == R \cup {d \in S : \E c \in R : LinkedIds(c, d)}

LEMMA GrowExists ==
    ASSUME NEW S
    PROVE  \E g : g = [R \in SUBSET S |-> IF More(R, S) = R THEN R ELSE g[More(R, S)]]
<1> DEFINE All(R) == {c \in S : \A Q \in SUBSET S : R \subseteq Q /\ More(Q, S) = Q => c \in Q}
           h == [R \in SUBSET S |-> All(R)]
<1>1. ASSUME NEW R \in SUBSET S PROVE More(R, S) \in SUBSET S
  BY DEF More
<1>2. ASSUME NEW R \in SUBSET S, More(R, S) = R PROVE All(R) = R
  BY <1>2
<1>3. ASSUME NEW R \in SUBSET S PROVE All(R) = All(More(R, S))
  <2>1. ASSUME NEW Q \in SUBSET S, More(Q, S) = Q
        PROVE  R \subseteq Q <=> More(R, S) \subseteq Q
    BY <2>1 DEF More
  <2>. QED
    BY <2>1
<1>4. ASSUME NEW R \in SUBSET S
      PROVE  h[R] = IF More(R, S) = R THEN R ELSE h[More(R, S)]
  BY <1>1, <1>2, <1>3
<1>5. h = [R \in SUBSET S |-> IF More(R, S) = R THEN R ELSE h[More(R, S)]]
  BY <1>4
<1>. HIDE DEF h
<1>. QED
  BY <1>5

LEMMA ReachIs ==
    ASSUME NEW S, NEW seed
    PROVE  \E grow : /\ grow = [R \in SUBSET S |-> IF More(R, S) = R THEN R ELSE grow[More(R, S)]]
                     /\ Reach(seed, S) = grow[{seed}]
<1>1. PICK grow : grow = CHOOSE g : g = [R \in SUBSET S |->
                     IF More(R, S) = R THEN R ELSE g[More(R, S)]]
  OBVIOUS
<1>2. Reach(seed, S) = grow[{seed}]
  BY <1>1, Zenon DEF Reach, More
<1>3. grow = [R \in SUBSET S |-> IF More(R, S) = R THEN R ELSE grow[More(R, S)]]
  BY <1>1, GrowExists, Zenon
<1>. QED
  BY <1>2, <1>3, Zenon

\* A search over finitely many clusters ends with a set that holds its seed and all
\* that is linked to what it holds.
LEMMA ReachFacts ==
    ASSUME NEW S, IsFiniteSet(S), NEW seed \in S
    PROVE  /\ seed \in Reach(seed, S) /\ Reach(seed, S) \subseteq S
           /\ \A c \in Reach(seed, S) : \A d \in S : LinkedIds(c, d) => d \in Reach(seed, S)
<1>1. PICK grow : /\ grow = [R \in SUBSET S |->
                              IF More(R, S) = R THEN R ELSE grow[More(R, S)]]
                  /\ Reach(seed, S) = grow[{seed}]
  BY ReachIs, Zenon
<1> DEFINE Good(R) == R \subseteq grow[R] /\ grow[R] \in SUBSET S /\ More(grow[R], S) = grow[R]
           Bad == {V \in SUBSET S : ~ Good(S \ V)}
<1>2. \A R \in SUBSET S : grow[R] = IF More(R, S) = R THEN R ELSE grow[More(R, S)]
  BY <1>1, Zenon
<1>3. \A R \in SUBSET S : R \subseteq More(R, S) /\ More(R, S) \in SUBSET S
  BY DEF More
<1>4. ASSUME Bad # {} PROVE FALSE
  <2>1. PICK V \in Bad : \A W \in Bad : W \subseteq V => W = V
    <3>1. PICK U : U = Bad
      OBVIOUS
    <3>2. U \in SUBSET (SUBSET S) /\ U # {}
      BY <1>4, <3>1
    <3>3. \E V \in U : \A W \in U : W \subseteq V => W = V
      BY <3>2, SmallestSet
    <3>. QED
      BY <3>1, <3>3, Zenon
  <2>2. PICK R : R = S \ V
    OBVIOUS
  <2>3. R \in SUBSET S /\ ~ Good(R)
    BY <2>1, <2>2
  <2>4. CASE More(R, S) = R
    <3>1. grow[R] = R
      BY <1>2, <2>3, <2>4
    <3>. QED
      BY <2>3, <2>4, <3>1
  <2>5. CASE More(R, S) # R
    <3>1. PICK Q \in SUBSET S : Q = More(R, S) /\ R \subseteq Q /\ Q # R
      BY <1>3, <2>3, <2>5
    <3>2. grow[R] = grow[Q]
      BY <1>2, <2>3, <2>5, <3>1
    <3>3. S \ Q \in SUBSET S /\ S \ Q \subseteq V /\ S \ Q # V /\ S \ (S \ Q) = Q
      BY <2>1, <2>2, <3>1
    <3>4. S \ Q \notin Bad
      BY <2>1, <3>3, Zenon
    <3>5. Good(Q)
      BY <3>3, <3>4
    <3>. QED
      BY <2>3, <3>1, <3>2, <3>5
  <2>. QED
    BY <2>4, <2>5
<1>5. Good({seed})
  <2>1. S \ {seed} \in SUBSET S /\ S \ (S \ {seed}) = {seed}
    OBVIOUS
  <2>2. S \ {seed} \notin Bad
    BY <1>4
  <2>. QED
    BY <2>1, <2>2
<1>6. ASSUME NEW c \in grow[{seed}], NEW d \in S, LinkedIds(c, d) PROVE d \in grow[{seed}]
  BY <1>5, <1>6 DEF More
<1>. QED
  BY <1>1, <1>5, <1>6

\* and with nothing else: it stays in every set that holds the seed and is closed.
LEMMA ReachLeast ==
    ASSUME NEW S, IsFiniteSet(S), NEW seed \in S, NEW T \in SUBSET S, seed \in T,
           \A c \in T : \A d \in S : LinkedIds(c, d) => d \in T
    PROVE  Reach(seed, S) \subseteq T
<1>1. PICK grow : /\ grow = [R \in SUBSET S |->
                              IF More(R, S) = R THEN R ELSE grow[More(R, S)]]
                  /\ Reach(seed, S) = grow[{seed}]
  BY ReachIs, Zenon
<1>2. \A R \in SUBSET S : grow[R] = IF More(R, S) = R THEN R ELSE grow[More(R, S)]
  BY <1>1, Zenon
<1>3. \A R \in SUBSET T : R \subseteq More(R, S) /\ More(R, S) \in SUBSET T
  BY DEF More
<1> DEFINE Bad == {V \in SUBSET T : ~ (grow[T \ V] \subseteq T)}
<1>4. ASSUME Bad # {} PROVE FALSE
  <2>1. PICK V \in Bad : \A W \in Bad : W \subseteq V => W = V
    <3>1. PICK U : U = Bad
      OBVIOUS
    <3>2. U \in SUBSET (SUBSET T) /\ U # {} /\ IsFiniteSet(T)
      BY <1>4, <3>1, FS_Subset
    <3>3. \E V \in U : \A W \in U : W \subseteq V => W = V
      BY <3>2, SmallestSet
    <3>. QED
      BY <3>1, <3>3, Zenon
  <2>2. PICK R \in SUBSET T : R = T \ V /\ ~ (grow[R] \subseteq T)
    BY <2>1
  <2>3. PICK Q \in SUBSET T : Q = More(R, S) /\ R \subseteq Q
    BY <1>3, <2>2
  <2>4. Q # R
    BY <1>2, <2>2, <2>3
  <2>5. grow[R] = grow[Q]
    BY <1>2, <2>2, <2>3, <2>4
  <2>6. T \ Q \in SUBSET T /\ T \ Q \subseteq V /\ T \ Q # V /\ T \ (T \ Q) = Q
    BY <2>1, <2>2, <2>3, <2>4
  <2>7. T \ Q \notin Bad
    BY <2>1, <2>6, Zenon
  <2>. QED
    BY <2>2, <2>5, <2>6, <2>7
<1>5. T \ {seed} \in SUBSET T /\ T \ (T \ {seed}) = {seed}
  OBVIOUS
<1>6. T \ {seed} \notin Bad
  BY <1>4
<1>. QED
  BY <1>1, <1>5, <1>6

-------------------------------------------------------------------------------
(* The groups.                                                             *)

\* The order of the seeds is total and has no cycles, so a group has a first cluster.
LEMMA BeforeOrders ==
    ASSUME clusters' \in Seq(Records)
    PROVE  /\ \A c, d \in DOMAIN clusters' : c # d => Before(c, d) \/ Before(d, c)
           /\ \A c, d \in DOMAIN clusters' : c # d => ~ (Before(c, d) /\ Before(d, c))
           /\ \A b, c, d \in DOMAIN clusters' : Before(b, c) /\ Before(c, d) => Before(b, d)
<1>1. ASSUME NEW c \in DOMAIN clusters'
      PROVE  c \in Int /\ clusters'[c].first \in Int /\ clusters'[c].score \in Int
  <2>1. c \in Nat /\ clusters'[c] \in Records
    OBVIOUS
  <2>2. clusters'[c] \in ClusterType
    BY <2>1, RecordsAssumption, Zenon
  <2>. QED
    BY <2>1, <2>2 DEF ClusterType
<1>2. \A c, d \in DOMAIN clusters' : c # d => Before(c, d) \/ Before(d, c)
  BY <1>1 DEF Before, SortsBefore
<1>3. \A c, d \in DOMAIN clusters' : c # d => ~ (Before(c, d) /\ Before(d, c))
  BY <1>1 DEF Before, SortsBefore
<1>4. ASSUME NEW b \in DOMAIN clusters', NEW c \in DOMAIN clusters',
             NEW d \in DOMAIN clusters', Before(b, c), Before(c, d)
      PROVE  Before(b, d)
  <2>1. PICK i, j, k \in Int : /\ i = clusters'[b].first /\ j = clusters'[c].first
                              /\ k = clusters'[d].first
    BY <1>1
  <2>2. PICK l, m, n \in Int : /\ l = clusters'[b].score /\ m = clusters'[c].score
                              /\ n = clusters'[d].score
    BY <1>1
  <2>3. PICK x, y, z \in Int : x = b /\ y = c /\ z = d
    BY <1>1
  <2>4. i < j \/ (i = j /\ l > m) \/ (i = j /\ l = m /\ x < y)
    BY <1>4, <2>1, <2>2, <2>3 DEF Before, SortsBefore
  <2>5. j < k \/ (j = k /\ m > n) \/ (j = k /\ m = n /\ y < z)
    BY <1>4, <2>1, <2>2, <2>3 DEF Before, SortsBefore
  <2>6. i < k \/ (i = k /\ l > n) \/ (i = k /\ l = n /\ x < z)
    BY <2>4, <2>5
  <2>. QED
    BY <2>1, <2>2, <2>3, <2>6 DEF Before, SortsBefore
<1>. QED
  BY <1>2, <1>3, <1>4

IsFirst(c, T) == c \in T /\ \A d \in T \ {c} : Before(c, d)

LEMMA FirstExists ==
    ASSUME clusters' \in Seq(Records), NEW S \in SUBSET DOMAIN clusters', IsFiniteSet(S), S # {}
    PROVE  \E c \in S : \A d \in S \ {c} : Before(c, d)
<1> SUFFICES \E c : IsFirst(c, S)
  BY DEF IsFirst
<1> DEFINE Bad == {T \in SUBSET S : T # {} /\ ~ \E c : IsFirst(c, T)}
<1>1. ASSUME Bad # {} PROVE FALSE
  <2>1. PICK T \in Bad : \A V \in Bad : V \subseteq T => V = T
    <3>1. PICK U : U = Bad
      OBVIOUS
    <3>2. U \in SUBSET (SUBSET S) /\ U # {}
      BY <1>1, <3>1
    <3>3. \E V \in U : \A W \in U : W \subseteq V => W = V
      BY <3>2, SmallestSet
    <3>. QED
      BY <3>1, <3>3, Zenon
  <2>2. PICK c \in T : c \in DOMAIN clusters'
    BY <2>1
  <2>3. CASE T \ {c} = {}
    <3>1. IsFirst(c, T)
      BY <2>3 DEF IsFirst
    <3>. QED
      BY <2>1, <3>1
  <2>4. CASE T \ {c} # {}
    <3>1. T \ {c} \notin Bad
      BY <2>1
    <3>2. PICK m : IsFirst(m, T \ {c})
      BY <2>1, <2>4, <3>1
    <3>3. /\ m \in T /\ m # c /\ m \in DOMAIN clusters'
          /\ \A d \in T : d # c /\ d # m => Before(m, d) /\ d \in DOMAIN clusters'
      BY <2>1, <3>2 DEF IsFirst
    <3>4. CASE Before(c, m)
      <4>1. \A d \in T : d # c => Before(c, d)
        BY <2>2, <3>3, <3>4, BeforeOrders
      <4>2. IsFirst(c, T)
        BY <4>1 DEF IsFirst
      <4>. QED
        BY <2>1, <4>2
    <3>5. CASE Before(m, c)
      <4>1. IsFirst(m, T)
        BY <3>3, <3>5 DEF IsFirst
      <4>. QED
        BY <2>1, <4>1
    <3>. QED
      BY <2>2, <3>3, <3>4, <3>5, BeforeOrders
  <2>. QED
    BY <2>3, <2>4
<1>. QED
  BY <1>1

\* The group of the first seed of T.
GroupOf(T) == Reach(CHOOSE c \in T : \A d \in T \ {c} : Before(c, d), T)

LEMMA PartExists ==
    ASSUME NEW S
    PROVE  \E p : p = [T \in SUBSET S |->
              IF T = {} THEN {} ELSE {GroupOf(T)} \cup p[T \ GroupOf(T)]]
<1> DEFINE Closed(F) == \A V \in F : V # {} => V \ GroupOf(V) \in F
           Rests(T) == {V \in SUBSET S :
              \A F \in SUBSET (SUBSET S) : T \in F /\ Closed(F) => V \in F}
           h == [T \in SUBSET S |-> {GroupOf(V) : V \in Rests(T) \ {{}}}]
<1>1. ASSUME NEW T \in SUBSET S PROVE T \in Rests(T)
  OBVIOUS
<1>2. Rests({}) = {{}}
  <2>1. {{}} \in SUBSET (SUBSET S) /\ {} \in {{}} /\ Closed({{}})
    OBVIOUS
  <2>. QED
    BY <2>1, <1>1
<1>3. ASSUME NEW T \in SUBSET S, T # {} PROVE Rests(T) = {T} \cup Rests(T \ GroupOf(T))
  <2>1. PICK V \in SUBSET S : V = T \ GroupOf(T)
    OBVIOUS
  <2>2. ASSUME NEW W \in Rests(V) PROVE W \in Rests(T)
    <3> SUFFICES ASSUME NEW F \in SUBSET (SUBSET S), T \in F, Closed(F) PROVE W \in F
      OBVIOUS
    <3>1. V \in F
      BY <1>3, <2>1
    <3>. QED
      BY <2>2, <3>1
  <2>3. ASSUME NEW W \in Rests(T), W # T PROVE W \in Rests(V)
    <3> SUFFICES ASSUME NEW F \in SUBSET (SUBSET S), V \in F, Closed(F) PROVE W \in F
      OBVIOUS
    <3>1. PICK G : G = F \cup {T}
      OBVIOUS
    <3>2. G \in SUBSET (SUBSET S) /\ T \in G /\ Closed(G)
      BY <1>3, <2>1, <3>1
    <3>3. W \in G
      BY <2>3, <3>2
    <3>. QED
      BY <2>3, <3>1, <3>3
  <2>. QED
    BY <1>1, <2>1, <2>2, <2>3
<1>. HIDE DEF Rests
<1>4. h[{}] = {}
  BY <1>2
<1>5. ASSUME NEW T \in SUBSET S, T # {} PROVE h[T] = {GroupOf(T)} \cup h[T \ GroupOf(T)]
  <2>1. T \ GroupOf(T) \in SUBSET S
    OBVIOUS
  <2>. QED
    BY <1>3, <1>5, <2>1
<1>6. h = [T \in SUBSET S |-> IF T = {} THEN {} ELSE {GroupOf(T)} \cup h[T \ GroupOf(T)]]
  BY <1>4, <1>5
<1>. HIDE DEF h
<1>. QED
  BY <1>6

LEMMA GroupsIs ==
    ASSUME NEW S
    PROVE  \E p : /\ p = [T \in SUBSET S |->
                            IF T = {} THEN {} ELSE {GroupOf(T)} \cup p[T \ GroupOf(T)]]
                  /\ Groups(S) = p[S]
<1>1. PICK part : part = CHOOSE p : p = [T \in SUBSET S |->
                     IF T = {} THEN {} ELSE {GroupOf(T)} \cup p[T \ GroupOf(T)]]
  OBVIOUS
<1>2. Groups(S) = part[S]
  BY <1>1, Zenon DEF Groups, GroupOf
<1>3. part = [T \in SUBSET S |->
                IF T = {} THEN {} ELSE {GroupOf(T)} \cup part[T \ GroupOf(T)]]
  <2>1. \E p : p = [T \in SUBSET S |->
                  IF T = {} THEN {} ELSE {GroupOf(T)} \cup p[T \ GroupOf(T)]]
    BY PartExists
  <2>. QED
    BY <1>1, <2>1, Zenon
<1>. QED
  BY <1>2, <1>3, Zenon

\* What the groups P of the clusters T are: non-empty parts of T, no cluster in two of
\* them and no link both ways from one of them to the outside.
Partition(P, T) ==
    /\ \A g \in P : g # {} /\ g \subseteq T
    /\ \A g, h \in P : g # h => g \cap h = {}
    /\ \A g \in P : \A c \in g : \A d \in T \ g : ~ (LinkedIds(c, d) /\ LinkedIds(d, c))

LEMMA PartitionStep ==
    ASSUME NEW T, NEW g, g # {}, g \subseteq T,
           \A c \in g : \A d \in T : LinkedIds(c, d) => d \in g,
           NEW P, Partition(P, T \ g)
    PROVE  Partition({g} \cup P, T)
<1>1. \A h \in P : h # {} /\ h \subseteq T \ g
  BY DEF Partition
<1>2. \A h, i \in P : h # i => h \cap i = {}
  BY DEF Partition
<1>3. \A h \in P : \A c \in h : \A d \in (T \ g) \ h : ~ (LinkedIds(c, d) /\ LinkedIds(d, c))
  BY DEF Partition
<1>4. ASSUME NEW h \in {g} \cup P, NEW c \in h, NEW d \in T \ h
      PROVE  ~ (LinkedIds(c, d) /\ LinkedIds(d, c))
  <2>1. CASE h = g
    BY <2>1
  <2>2. CASE h \in P /\ d \in g
    BY <1>1, <2>2
  <2>3. CASE h \in P /\ d \notin g
    BY <1>3, <2>3
  <2>. QED
    BY <2>1, <2>2, <2>3
<1>. QED
  BY <1>1, <1>2, <1>4 DEF Partition

LEMMA GroupsPartition ==
    ASSUME clusters' \in Seq(Records), NEW S \in SUBSET DOMAIN clusters', IsFiniteSet(S)
    PROVE  Partition(Groups(S), S)
<1>1. PICK p : /\ p = [T \in SUBSET S |->
                         IF T = {} THEN {} ELSE {GroupOf(T)} \cup p[T \ GroupOf(T)]]
               /\ Groups(S) = p[S]
  BY GroupsIs, Zenon
<1>2. \A T \in SUBSET S : p[T] = IF T = {} THEN {} ELSE {GroupOf(T)} \cup p[T \ GroupOf(T)]
  BY <1>1, Zenon
<1>3. ASSUME NEW T \in SUBSET S, T # {}
      PROVE  /\ GroupOf(T) # {} /\ GroupOf(T) \subseteq T
             /\ \A c \in GroupOf(T) : \A d \in T : LinkedIds(c, d) => d \in GroupOf(T)
  <2>1. IsFiniteSet(T)
    BY FS_Subset
  <2>2. \E c \in T : \A d \in T \ {c} : Before(c, d)
    BY <1>3, <2>1, FirstExists
  <2>3. PICK seed \in T : seed = CHOOSE c \in T : \A d \in T \ {c} : Before(c, d)
    BY <2>2
  <2>4. GroupOf(T) = Reach(seed, T)
    BY <2>3 DEF GroupOf
  <2>. QED
    BY <2>1, <2>4, ReachFacts
<1> DEFINE Bad == {T \in SUBSET S : ~ Partition(p[T], T)}
<1>4. ASSUME Bad # {} PROVE FALSE
  <2>1. PICK T \in Bad : \A V \in Bad : V \subseteq T => V = T
    <3>1. PICK U : U = Bad
      OBVIOUS
    <3>2. U \in SUBSET (SUBSET S) /\ U # {}
      BY <1>4, <3>1
    <3>3. \E V \in U : \A W \in U : W \subseteq V => W = V
      BY <3>2, SmallestSet
    <3>. QED
      BY <3>1, <3>3, Zenon
  <2>2. CASE T = {}
    <3>1. p[T] = {}
      BY <1>2, <2>1, <2>2
    <3>2. Partition({}, {})
      BY DEF Partition
    <3>. QED
      BY <2>1, <2>2, <3>1, <3>2
  <2>3. CASE T # {}
    <3>1. PICK g : g = GroupOf(T)
      OBVIOUS
    <3>2. /\ g # {} /\ g \subseteq T
          /\ \A c \in g : \A d \in T : LinkedIds(c, d) => d \in g
      BY <1>3, <2>1, <2>3, <3>1
    <3>3. p[T] = {g} \cup p[T \ g]
      BY <1>2, <2>1, <2>3, <3>1
    <3>4. T \ g \notin Bad /\ T \ g \in SUBSET S
      BY <2>1, <3>2
    <3>5. Partition(p[T \ g], T \ g)
      BY <3>4
    <3>6. Partition(p[T], T)
      BY <3>2, <3>3, <3>5, PartitionStep
    <3>. QED
      BY <2>1, <3>6
  <2>. QED
    BY <2>2, <2>3
<1>5. S \in SUBSET S /\ S \notin Bad
  BY <1>4
<1>6. Partition(p[S], S)
  BY <1>5
<1>. QED
  BY <1>1, <1>6, Zenon

\* Clusters that are one group are all reached from the first of them.
LEMMA WholeGroup ==
    ASSUME clusters' \in Seq(Records), NEW S \in SUBSET DOMAIN clusters', IsFiniteSet(S),
           S # {}, Groups(S) = {S}, NEW seed, IsFirst(seed, S)
    PROVE  Reach(seed, S) = S
<1>1. PICK p : /\ p = [T \in SUBSET S |->
                         IF T = {} THEN {} ELSE {GroupOf(T)} \cup p[T \ GroupOf(T)]]
               /\ Groups(S) = p[S]
  BY GroupsIs, Zenon
<1>2. p[S] = {GroupOf(S)} \cup p[S \ GroupOf(S)]
  BY <1>1
<1>3. GroupOf(S) = S
  BY <1>1, <1>2
<1>4. \A c \in S : (\A d \in S \ {c} : Before(c, d)) => c = seed
  <2> SUFFICES ASSUME NEW c \in S, \A d \in S \ {c} : Before(c, d), c # seed PROVE FALSE
    OBVIOUS
  <2>1. Before(c, seed) /\ Before(seed, c)
    BY DEF IsFirst
  <2>2. c \in DOMAIN clusters' /\ seed \in DOMAIN clusters'
    BY DEF IsFirst
  <2>. QED
    BY <2>1, <2>2, BeforeOrders
<1>5. seed \in S /\ \A d \in S \ {seed} : Before(seed, d)
  BY DEF IsFirst
<1>6. seed = CHOOSE c \in S : \A d \in S \ {c} : Before(c, d)
  BY <1>4, <1>5, Zenon
<1>. QED
  BY <1>3, <1>6, Zenon DEF GroupOf

\* What the search from the first seed of T reaches is a group of its own: the search
\* within it, from the same seed, cannot stop at less.
LEMMA GroupStandsAlone ==
    ASSUME clusters' \in Seq(Records), NEW T \in SUBSET DOMAIN clusters', IsFiniteSet(T),
           T # {}
    PROVE  Groups(GroupOf(T)) = {GroupOf(T)}
<1>1. PICK seed \in T : IsFirst(seed, T)
  BY FirstExists DEF IsFirst
<1>2. ASSUME NEW V \in SUBSET DOMAIN clusters', IsFirst(seed, V)
      PROVE  GroupOf(V) = Reach(seed, V)
  <2>1. \A c \in V : (\A d \in V \ {c} : Before(c, d)) => c = seed
    BY <1>2, BeforeOrders DEF IsFirst
  <2>2. seed \in V /\ \A d \in V \ {seed} : Before(seed, d)
    BY <1>2 DEF IsFirst
  <2>3. seed = CHOOSE c \in V : \A d \in V \ {c} : Before(c, d)
    BY <2>1, <2>2, Zenon
  <2>. QED
    BY <2>3, Zenon DEF GroupOf
<1>3. PICK g : g = GroupOf(T)
  OBVIOUS
<1>4. g = Reach(seed, T)
  BY <1>1, <1>2, <1>3
<1>5. /\ seed \in g /\ g \subseteq T
      /\ \A c \in g : \A d \in T : LinkedIds(c, d) => d \in g
  BY <1>1, <1>4, ReachFacts
<1>6. IsFiniteSet(g) /\ g \in SUBSET DOMAIN clusters' /\ IsFirst(seed, g)
  BY <1>1, <1>5, FS_Subset DEF IsFirst
<1>7. GroupOf(g) = Reach(seed, g)
  BY <1>2, <1>6
<1>8. Reach(seed, g) = g
  <2>1. PICK R : R = Reach(seed, g)
    OBVIOUS
  <2>2. /\ seed \in R /\ R \subseteq g
        /\ \A c \in R : \A d \in g : LinkedIds(c, d) => d \in R
    BY <1>5, <1>6, <2>1, ReachFacts
  <2>3. R \in SUBSET T /\ \A c \in R : \A d \in T : LinkedIds(c, d) => d \in R
    BY <1>5, <2>2
  <2>4. g \subseteq R
    BY <1>1, <1>4, <2>2, <2>3, ReachLeast
  <2>. QED
    BY <2>1, <2>2, <2>4
<1>9. PICK p : /\ p = [V \in SUBSET g |->
                         IF V = {} THEN {} ELSE {GroupOf(V)} \cup p[V \ GroupOf(V)]]
               /\ Groups(g) = p[g]
  BY GroupsIs, Zenon
<1>10. p[{}] = {} /\ p[g] = {GroupOf(g)} \cup p[g \ GroupOf(g)]
  BY <1>5, <1>9
<1>11. g \ GroupOf(g) = {}
  BY <1>7, <1>8
<1>12. Groups(g) = {g}
  BY <1>7, <1>8, <1>9, <1>10, <1>11
<1>. QED
  BY <1>3, <1>12, Zenon

LEMMA GroupsStandAlone ==
    ASSUME clusters' \in Seq(Records), NEW S \in SUBSET DOMAIN clusters', IsFiniteSet(S)
    PROVE  \A g \in Groups(S) : Groups(g) = {g}
<1>1. PICK p : /\ p = [T \in SUBSET S |->
                         IF T = {} THEN {} ELSE {GroupOf(T)} \cup p[T \ GroupOf(T)]]
               /\ Groups(S) = p[S]
  BY GroupsIs, Zenon
<1>2. \A T \in SUBSET S : p[T] = IF T = {} THEN {} ELSE {GroupOf(T)} \cup p[T \ GroupOf(T)]
  BY <1>1, Zenon
<1> DEFINE Bad == {T \in SUBSET S : \E g \in p[T] : Groups(g) # {g}}
<1>3. ASSUME Bad # {} PROVE FALSE
  <2>1. PICK T \in Bad : \A V \in Bad : V \subseteq T => V = T
    <3>1. PICK U : U = Bad
      OBVIOUS
    <3>2. U \in SUBSET (SUBSET S) /\ U # {}
      BY <1>3, <3>1
    <3>3. \E V \in U : \A W \in U : W \subseteq V => W = V
      BY <3>2, SmallestSet
    <3>. QED
      BY <3>1, <3>3, Zenon
  <2>2. PICK g \in p[T] : Groups(g) # {g}
    BY <2>1
  <2>3. T # {}
    BY <1>2, <2>1, <2>2
  <2>4. g = GroupOf(T) \/ g \in p[T \ GroupOf(T)]
    BY <1>2, <2>1, <2>2, <2>3
  <2>5. T \in SUBSET DOMAIN clusters' /\ IsFiniteSet(T)
    BY <2>1, FS_Subset
  <2>6. Groups(GroupOf(T)) = {GroupOf(T)}
    BY <2>3, <2>5, GroupStandsAlone
  <2>7. GroupOf(T) # {} /\ GroupOf(T) \subseteq T
    <3>1. \E c \in T : \A d \in T \ {c} : Before(c, d)
      BY <2>3, <2>5, FirstExists
    <3>2. PICK seed \in T : seed = CHOOSE c \in T : \A d \in T \ {c} : Before(c, d)
      BY <3>1
    <3>3. GroupOf(T) = Reach(seed, T)
      BY <3>2 DEF GroupOf
    <3>. QED
      BY <2>5, <3>3, ReachFacts
  <2>8. T \ GroupOf(T) \in SUBSET S /\ T \ GroupOf(T) \subseteq T /\ T \ GroupOf(T) # T
    BY <2>1, <2>7
  <2>9. T \ GroupOf(T) \notin Bad
    BY <2>1, <2>8
  <2>. QED
    BY <2>2, <2>4, <2>6, <2>8, <2>9
<1>4. S \notin Bad
  BY <1>3
<1>. QED
  BY <1>1, <1>4

-------------------------------------------------------------------------------
(* The candidates.                                                         *)

SignaturesOK == signatures \subseteq (SUBSET Ids) \ {{}} /\ candidates \subseteq signatures

LinkerInv == ClustersOK /\ SignaturesOK /\ CandidatesDisjoint /\ MutualLinksTogether

\* What a call does to the candidates: they are groups of the clusters known by then.
LEMMA Called ==
    ASSUME ClustersOK, Next
    PROVE  \E S \in SUBSET DOMAIN clusters' :
              /\ Partition(Groups(S), S)
              /\ \A d \in retained' : IsNoise(clusters'[d]) \/ d \in S
              /\ candidates' \subseteq Groups(S)
              /\ signatures' = signatures \cup candidates'
              /\ \A g \in candidates' : Groups(g) = {g}
<1>1. PICK batch \in Seq(Records) : IngestFinalized(batch)
  BY Batches
<1> DEFINE new == Len(clusters) + 1 .. Len(clusters) + Len(batch)
           known == retained \cup new
           S == {c \in known : ~ IsNoise(clusters'[c])}
<1>2. /\ clusters' = clusters \o batch
      /\ candidates' = {g \in Groups(S) : Allowed(g)} \ signatures
      /\ signatures' = Emitted(candidates') /\ retained' = Kept(known)
  BY <1>1 DEF IngestFinalized
<1>3. /\ clusters' \in Seq(Records) /\ known \subseteq DOMAIN clusters'
      /\ DOMAIN clusters' = 1 .. Len(clusters') /\ Len(clusters') \in Nat
  BY <1>2 DEF ClustersOK, Ids
<1>4. S \in SUBSET DOMAIN clusters' /\ IsFiniteSet(S)
  <2>1. S \subseteq 1 .. Len(clusters')
    BY <1>3
  <2>2. IsFiniteSet(1 .. Len(clusters'))
    BY <1>3, FS_Interval
  <2>. QED
    BY <1>3, <2>1, <2>2, FS_Subset
<1>5. \A d \in retained' : IsNoise(clusters'[d]) \/ d \in S
  BY <1>2 DEF Kept
<1>. HIDE DEF S
<1>6. Partition(Groups(S), S)
  BY <1>3, <1>4, GroupsPartition
<1>7. candidates' \subseteq Groups(S) /\ signatures' = signatures \cup candidates'
  BY <1>2 DEF Emitted
<1>8. \A g \in candidates' : Groups(g) = {g}
  BY <1>3, <1>4, <1>7, GroupsStandAlone
<1>. QED
  BY <1>4, <1>5, <1>6, <1>7, <1>8

LEMMA LinkerInvInductive == (Init => LinkerInv) /\ (LinkerInv /\ [Next]_vars => LinkerInv')
<1>1. ASSUME Init PROVE LinkerInv
  BY <1>1 DEF Init, LinkerInv, ClustersOK, SignaturesOK, CandidatesDisjoint, MutualLinksTogether
<1>2. ASSUME LinkerInv, UNCHANGED vars PROVE LinkerInv'
  BY <1>2
  DEF vars, LinkerInv, ClustersOK, SignaturesOK, CandidatesDisjoint, MutualLinksTogether, Ids
<1>3. ASSUME LinkerInv, Next PROVE LinkerInv'
  <2>1. PICK S \in SUBSET DOMAIN clusters' :
              /\ Partition(Groups(S), S)
              /\ \A d \in retained' : IsNoise(clusters'[d]) \/ d \in S
              /\ candidates' \subseteq Groups(S)
              /\ signatures' = signatures \cup candidates'
    BY <1>3, Called DEF LinkerInv
  <2>2. PICK P : P = Groups(S)
    OBVIOUS
  <2>3. /\ \A g \in candidates' : g # {} /\ g \subseteq S
        /\ \A g, h \in candidates' : g # h => g \cap h = {}
        /\ \A g \in candidates' : \A c \in g : \A d \in S \ g :
              ~ (LinkedIds(c, d) /\ LinkedIds(d, c))
    BY <2>1 DEF Partition
  <2>4. /\ clusters' \in Seq(Records) /\ Ids \subseteq DOMAIN clusters'
        /\ retained' = Kept(retained \cup (DOMAIN clusters' \ Ids))
    BY <1>3, Appended DEF LinkerInv
  <2>5. ClustersOK'
    BY <1>3, <2>4 DEF LinkerInv, ClustersOK, Kept, Ids
  <2>6. SignaturesOK'
    BY <1>3, <2>1, <2>3, <2>4 DEF LinkerInv, SignaturesOK, Ids
  <2>7. CandidatesDisjoint'
    BY <2>3 DEF CandidatesDisjoint
  <2>8. MutualLinksTogether'
    BY <2>1, <2>3 DEF MutualLinksTogether, LinkedIds
  <2>. QED
    BY <2>5, <2>6, <2>7, <2>8 DEF LinkerInv
<1>. QED
  BY <1>1, <1>2, <1>3

LEMMA AlwaysLinkerInv == Spec => []LinkerInv
<1>. QED
  BY LinkerInvInductive, PTL DEF Spec

\* The clusters kept, the groups remembered and the groups returned by ingest_finalized
\* are what they are taken for: no group is empty, each was remembered when returned.
THEOREM LinkerTypeCorrect == Spec => []TypeOK
<1>1. LinkerInv => TypeOK
  BY DEF LinkerInv, ClustersOK, SignaturesOK, TypeOK
<1>. QED
  BY <1>1, AlwaysLinkerInv, PTL

\* _build_groups puts no cluster in two candidates, although _linked is not symmetric
\* and a later search starts from what the earlier ones did not reach.
THEOREM NoClusterTwice == Spec => []CandidatesDisjoint
<1>1. LinkerInv => CandidatesDisjoint
  BY DEF LinkerInv
<1>. QED
  BY <1>1, AlwaysLinkerInv, PTL

\* Two clusters linked both ways come out of _build_groups in one group, whatever the
\* other clusters are and in whatever order the search takes them.
THEOREM MutualLinksKept == Spec => []MutualLinksTogether
<1>1. LinkerInv => MutualLinksTogether
  BY DEF LinkerInv
<1>. QED
  BY <1>1, AlwaysLinkerInv, PTL

\* What _build_groups returns from among all the clusters of a call is one group also by
\* itself: the causal engine, which is handed a candidate without the other clusters,
\* does not find it falling apart.
THEOREM CandidatesAreWhole == Spec => CandidatesStandAlone
<1>1. LinkerInv /\ [Next]_vars => [\A g \in candidates' : Groups(g) = {g}]_vars
  <2> SUFFICES ASSUME LinkerInv, Next PROVE \A g \in candidates' : Groups(g) = {g}
    OBVIOUS
  <2>. QED
    BY Called DEF LinkerInv
<1>. QED
  BY <1>1, AlwaysLinkerInv, PTL DEF Spec, CandidatesStandAlone
===============================================================================
