----------------------------- MODULE WindowsProofs ----------------------------
(***************************************************************************)
(* Theorems about Windows, for any services, any event times, any number   *)
(* of events and any settings with MergeGap and Grace below CloseAfter.    *)
(***************************************************************************)
EXTENDS Windows, TLAPS

\* The watermark separates the open windows from the closed ones, and no closed window
\* is recent enough for a late correction.
WindowsInv ==
    /\ TypeOK
    /\ closedRecent = {}
    /\ \A c \in active : clusters[c].last + CloseAfter > Watermark(maxTime)
    /\ \A c \in finalized : clusters[c].last + CloseAfter <= Watermark(maxTime)

\* What a step does to the clusters before it drains: windows only widen, only the
\* open ones change, and a new window starts at or above the watermark.
ClustersGrow ==
    /\ clusters' \in Seq(Clusters) /\ Len(clusters') >= Len(clusters)
    /\ \A c \in Ids : /\ clusters'[c].service = clusters[c].service
                      /\ clusters'[c].last >= clusters[c].last
    /\ \A c \in Ids \ active : clusters'[c] = clusters[c]
    /\ \A n \in Len(clusters) + 1 .. Len(clusters') :
          /\ clusters'[n].last = clusters'[n].first
          /\ clusters'[n].last >= Watermark(maxTime')
    /\ maxTime' >= maxTime /\ maxTime' \in {NoTime} \cup Nat
    /\ corrected' \subseteq 1 .. Len(clusters') /\ handled' \in Nat /\ lateDropped' \in Nat

LEMMA ClusterAt ==
    ASSUME NEW q \in Seq(Clusters), NEW c \in 1 .. Len(q)
    PROVE  q[c] \in Clusters /\ q[c].last \in Nat
<1>1. q[c] \in Clusters
  OBVIOUS
<1>. QED
  BY <1>1 DEF Clusters

LEMMA WatermarkInt ==
    /\ \A m \in {NoTime} \cup Nat : Watermark(m) \in Int
    /\ \A m, n \in {NoTime} \cup Nat : m <= n => Watermark(m) <= Watermark(n)
  BY SettingsAssumption DEF Watermark, NoTime

LEMMA ExtendedRecord ==
    ASSUME NEW r \in Clusters, NEW t \in Nat
    PROVE  /\ Extended(r, t) \in Clusters /\ Extended(r, t).service = r.service
           /\ Extended(r, t).last >= r.last
           /\ Extended(r, t).last \in {r.last, t}
  BY DEF Extended, Clusters

LEMMA AddEventGrows ==
    ASSUME clusters \in Seq(Clusters), NEW c \in Ids, NEW t \in Nat, AddEvent(c, t)
    PROVE  /\ clusters' \in Seq(Clusters) /\ Len(clusters') = Len(clusters)
           /\ \A d \in Ids \ {c} : clusters'[d] = clusters[d]
           /\ clusters'[c] = Extended(clusters[c], t)
<1>1. clusters[c] \in Clusters
  BY DEF Ids
<1>2. Extended(clusters[c], t) \in Clusters
  BY <1>1, ExtendedRecord
<1>. QED
  BY <1>2 DEF AddEvent, Ids

LEMMA NotLate ==
    ASSUME NEW m \in Int, NEW t \in Nat, ~ (t < Watermark(m))
    PROVE  t >= Watermark(m)
  BY SettingsAssumption DEF Watermark

LEMMA HandleGrows ==
    ASSUME WindowsInv, NEW s \in Services, NEW t \in Times, Handle(s, t)
    PROVE  ClustersGrow
<1>0. /\ t \in Nat /\ Lateness \in Nat /\ clusters \in Seq(Clusters) /\ Len(clusters) \in Nat
      /\ \A c \in Ids : clusters[c] \in Clusters
      /\ active \subseteq Ids /\ closedRecent = {}
  BY SettingsAssumption, BoundsAssumption DEF WindowsInv, TypeOK, Ids
<1>1. /\ maxTime' >= maxTime /\ maxTime' \in {NoTime} \cup Nat /\ maxTime' >= t
  BY <1>0 DEF Handle, Observed, WindowsInv, TypeOK, NoTime
<1>2. ASSUME NEW c \in active, AddEvent(c, t),
             corrected' \subseteq Ids, handled' \in Nat, lateDropped' \in Nat
      PROVE  ClustersGrow
  <2>1. /\ clusters' \in Seq(Clusters) /\ Len(clusters') = Len(clusters)
        /\ \A d \in Ids \ {c} : clusters'[d] = clusters[d]
        /\ clusters'[c] = Extended(clusters[c], t)
    BY <1>0, <1>2, AddEventGrows
  <2>2. \A d \in Ids : /\ clusters'[d].service = clusters[d].service
                       /\ clusters'[d].last >= clusters[d].last
    <3>1. /\ clusters'[c].service = clusters[c].service
          /\ clusters'[c].last >= clusters[c].last
      BY <1>0, <2>1, ExtendedRecord
    <3>2. \A d \in Ids : clusters[d].last \in Nat
      BY <1>0 DEF Clusters
    <3>. QED
      BY <2>1, <3>1, <3>2
  <2>3. Len(clusters) + 1 .. Len(clusters') = {}
    BY <1>0, <2>1
  <2>4. corrected' \subseteq 1 .. Len(clusters')
    BY <1>2, <2>1 DEF Ids
  <2>5. \A d \in Ids \ active : clusters'[d] = clusters[d]
    BY <1>2, <2>1
  <2>6. Len(clusters') >= Len(clusters)
    BY <1>0, <2>1
  <2>. QED
    BY <1>1, <1>2, <2>1, <2>2, <2>3, <2>4, <2>5, <2>6 DEF ClustersGrow
<1>3. handled' \in Nat /\ handled' = handled + 1
  BY DEF Handle, WindowsInv, TypeOK
<1>4. CASE t < Watermark(maxTime')
  <2>1. IngestLate(s, t)
    BY <1>4 DEF Handle
  <2>2. ASSUME NEW c \in Nearest(s, t), AddEvent(c, t),
               corrected' = corrected \cup {c}, UNCHANGED lateDropped
        PROVE  ClustersGrow
    <3>1. c \in active
      BY <1>0 DEF Nearest
    <3>2. corrected' \subseteq Ids /\ lateDropped' \in Nat
      BY <1>0, <2>2, <3>1 DEF WindowsInv, TypeOK
    <3>. QED
      BY <1>2, <1>3, <2>2, <3>1, <3>2
  <2>3. CASE lateDropped' = lateDropped + 1 /\ UNCHANGED <<clusters, corrected>>
    <3>1. corrected' \subseteq Ids /\ lateDropped' \in Nat
      BY <2>3 DEF WindowsInv, TypeOK
    <3>2. \A c \in Ids : clusters[c].last \in Nat
      BY <1>0 DEF Clusters
    <3>. QED
      BY <1>0, <1>1, <1>3, <2>3, <3>1, <3>2 DEF ClustersGrow, Ids
  <2>. QED
    BY <2>1, <2>2, <2>3 DEF IngestLate
<1>5. CASE ~ (t < Watermark(maxTime'))
  <2>1. Ingest(s, t)
    BY <1>5 DEF Handle
  <2>2. corrected' = corrected /\ lateDropped' = lateDropped
        /\ corrected' \subseteq Ids /\ lateDropped' \in Nat
    BY <2>1 DEF Ingest, WindowsInv, TypeOK
  <2>3. ASSUME NEW c \in Picked(s, t), AddEvent(c, t) PROVE ClustersGrow
    <3>1. c \in active
      BY DEF Picked, Near
    <3>. QED
      BY <1>2, <1>3, <2>2, <2>3, <3>1
  <2>4. CASE NewCluster(s, t)
    <3>1. [service |-> s, first |-> t, last |-> t, count |-> 1] \in Clusters
      BY <1>0 DEF Clusters
    <3>2. /\ clusters' \in Seq(Clusters) /\ Len(clusters') = Len(clusters) + 1
          /\ \A d \in Ids : clusters'[d] = clusters[d]
          /\ clusters'[Len(clusters) + 1].last = t
          /\ clusters'[Len(clusters) + 1].first = t
      BY <1>0, <2>4, <3>1 DEF NewCluster, Ids
    <3>3. t >= Watermark(maxTime')
      BY <1>0, <1>1, <1>5, NotLate DEF NoTime
    <3>4. \A c \in Ids : clusters[c].last \in Nat
      BY <1>0 DEF Clusters
    <3>5. \A n \in Len(clusters) + 1 .. Len(clusters') : n = Len(clusters) + 1
      BY <1>0, <3>2
    <3>6. \A n \in Len(clusters) + 1 .. Len(clusters') :
             /\ clusters'[n].last = clusters'[n].first
             /\ clusters'[n].last >= Watermark(maxTime')
      BY <3>2, <3>3, <3>5
    <3>7. \A c \in Ids : /\ clusters'[c].service = clusters[c].service
                         /\ clusters'[c].last >= clusters[c].last
      BY <3>2, <3>4
    <3>8. corrected' \subseteq 1 .. Len(clusters')
      BY <1>0, <2>2, <3>2 DEF Ids
    <3>9. /\ clusters' \in Seq(Clusters) /\ Len(clusters') >= Len(clusters)
          /\ \A c \in Ids \ active : clusters'[c] = clusters[c]
      BY <1>0, <3>2
    <3>10. lateDropped' \in Nat /\ handled' \in Nat
      BY <1>3, <2>2
    <3>. QED
      BY <1>1, <3>6, <3>7, <3>8, <3>9, <3>10 DEF ClustersGrow
  <2>. QED
    BY <2>1, <2>3, <2>4 DEF Ingest
<1>. QED
  BY <1>4, <1>5

LEMMA IdleGrows == WindowsInv /\ IdleDrain => ClustersGrow
<1> SUFFICES ASSUME WindowsInv, IdleDrain PROVE ClustersGrow
  OBVIOUS
<1>1. \A c \in Ids : clusters[c] \in Clusters /\ clusters[c].last \in Nat
  BY ClusterAt DEF WindowsInv, TypeOK, Ids
<1>2. maxTime' >= maxTime /\ maxTime' \in {NoTime} \cup Nat
  BY DEF IdleDrain, WindowsInv, TypeOK, NoTime
<1>3. Len(clusters) \in Nat
  BY DEF WindowsInv, TypeOK
<1>. QED
  BY <1>1, <1>2, <1>3 DEF IdleDrain, ClustersGrow, WindowsInv, TypeOK, Ids

\* The drain re-establishes the invariant at the new watermark.
LEMMA DrainKeeps ==
    ASSUME WindowsInv, ClustersGrow, Drain
    PROVE  /\ WindowsInv'
           /\ \A d \in finalized' \ finalized :
                 clusters'[d].last + CloseAfter > Watermark(maxTime)
<1>1. PICK W \in Int : W = Watermark(maxTime')
  BY WatermarkInt DEF ClustersGrow
<1>2. PICK V \in Int : V = Watermark(maxTime) /\ V <= W
  BY <1>1, WatermarkInt DEF ClustersGrow, WindowsInv, TypeOK
<1>3. Len(clusters) \in Nat /\ Len(clusters') \in Nat /\ Len(clusters') >= Len(clusters)
  BY DEF WindowsInv, TypeOK, ClustersGrow
<1>4. \A c \in 1 .. Len(clusters') : clusters'[c].last \in Nat
  BY ClusterAt DEF ClustersGrow
<1> DEFINE new == Len(clusters) + 1 .. Len(clusters')
           open == active \cup new
           done == {c \in open : clusters'[c].last + CloseAfter <= W}
<1>5. open = (1 .. Len(clusters')) \ finalized
  BY <1>3 DEF WindowsInv, TypeOK, Ids
<1>6. /\ active' = open \ done /\ finalized' = finalized \cup done
      /\ closedRecent' = {c \in done : clusters'[c].last >= W - Grace}
  BY <1>1 DEF Drain, Overdue, WindowsInv
<1>7. closedRecent' = {}
  BY <1>4, <1>5, <1>6, SettingsAssumption
<1>8. \A c \in active' : clusters'[c].last + CloseAfter > W
  BY <1>4, <1>5, <1>6, SettingsAssumption
<1>9. \A c \in finalized : clusters'[c].last + CloseAfter <= W
  <2>1. ASSUME NEW c \in finalized PROVE clusters'[c].last + CloseAfter <= W
    <3>1. clusters'[c] = clusters[c] /\ clusters[c].last + CloseAfter <= V
      BY <1>2 DEF WindowsInv, TypeOK, ClustersGrow
    <3>2. clusters'[c].last \in Nat
      BY <1>3, <1>4 DEF WindowsInv, TypeOK, Ids
    <3>. QED
      BY <1>2, <3>1, <3>2, SettingsAssumption
  <2>. QED
    BY <2>1
<1>10. \A c \in finalized' : clusters'[c].last + CloseAfter <= W
  BY <1>6, <1>9
<1>11. TypeOK'
  <2>1. active' = Ids' \ finalized' /\ finalized' \subseteq Ids'
    <3>1. finalized \subseteq 1 .. Len(clusters')
      BY <1>3 DEF WindowsInv, TypeOK, Ids
    <3>. QED
      BY <1>5, <1>6, <3>1 DEF Ids
  <2>. QED
    BY <1>7, <2>1 DEF ClustersGrow, TypeOK, Ids
<1>12. ASSUME NEW d \in finalized' \ finalized
       PROVE  clusters'[d].last + CloseAfter > V
  <2>1. d \in open /\ d \in 1 .. Len(clusters') /\ clusters'[d].last \in Nat
    BY <1>4, <1>5, <1>6
  <2>2. CASE d \in active
    <3>1. clusters'[d].last >= clusters[d].last /\ clusters[d].last + CloseAfter > V
          /\ clusters[d].last \in Nat
      <4>1. d \in Ids
        BY <2>2 DEF WindowsInv, TypeOK
      <4>2. clusters[d].last \in Nat
        BY <4>1, ClusterAt DEF WindowsInv, TypeOK, Ids
      <4>. QED
        BY <1>2, <2>2, <4>1, <4>2 DEF WindowsInv, ClustersGrow
    <3>. QED
      BY <2>1, <3>1, SettingsAssumption
  <2>3. CASE d \in new
    <3>1. clusters'[d].last >= W
      BY <1>1, <2>3 DEF ClustersGrow
    <3>. QED
      BY <1>2, <2>1, <3>1, SettingsAssumption
  <2>. QED
    BY <2>1, <2>2, <2>3
<1>. QED
  BY <1>1, <1>2, <1>7, <1>8, <1>10, <1>11, <1>12 DEF WindowsInv

LEMMA InitWindows == Init => WindowsInv
  BY DEF Init, WindowsInv, TypeOK, Ids, NoTime

\* Every step but a stutter grows the clusters and drains.
LEMMA StepShape ==
    ASSUME WindowsInv, [Next]_vars
    PROVE  UNCHANGED vars \/ (ClustersGrow /\ Drain)
  BY HandleGrows, IdleGrows DEF Next, Handle, IdleDrain

LEMMA NextWindows == WindowsInv /\ [Next]_vars => WindowsInv'
<1> SUFFICES ASSUME WindowsInv, [Next]_vars PROVE WindowsInv'
  OBVIOUS
<1>1. CASE UNCHANGED vars
  BY <1>1 DEF vars, WindowsInv, TypeOK, Ids
<1>2. CASE ClustersGrow /\ Drain
  BY <1>2, DrainKeeps
<1>. QED
  BY <1>1, <1>2, StepShape

\* The windows stay well formed: each is open or was finalised, never both.
THEOREM WindowsTypeCorrect == Spec => []TypeOK
<1>1. WindowsInv => TypeOK
  BY DEF WindowsInv
<1>. QED
  BY <1>1, InitWindows, NextWindows, PTL DEF Spec

\* With Grace below CloseAfter a finalised window is never touched or reopened.
THEOREM FinalizedStays == Spec => FinalizedNeverChanges
<1>1. ASSUME WindowsInv, [Next]_vars
      PROVE  [\A c \in finalized : clusters'[c] = clusters[c] /\ c \notin active']_vars
  <2>1. CASE ClustersGrow /\ Drain
    <3>1. \A c \in finalized : c \in Ids \ active /\ c \in finalized'
      BY <1>1, <2>1 DEF WindowsInv, TypeOK, Drain
    <3>2. \A c \in finalized' : c \notin active'
      BY <1>1, <2>1, DrainKeeps DEF WindowsInv, TypeOK
    <3>. QED
      BY <2>1, <3>1, <3>2 DEF ClustersGrow
  <2>. QED
    BY <1>1, <2>1, StepShape
<1>. QED
  BY <1>1, InitWindows, NextWindows, PTL DEF Spec, FinalizedNeverChanges

\* Windows reach the linker in the order of their ends.
THEOREM InOrder == Spec => HandedOverInOrder
<1>1. ASSUME WindowsInv, [Next]_vars
      PROVE  [\A c \in finalized, d \in finalized' \ finalized :
                 clusters[c].last < clusters'[d].last]_vars
  <2>1. ASSUME ClustersGrow, Drain, NEW c \in finalized, NEW d \in finalized' \ finalized
        PROVE  clusters[c].last < clusters'[d].last
    <3>1. clusters'[d].last + CloseAfter > Watermark(maxTime)
      BY <1>1, <2>1, DrainKeeps
    <3>2. clusters[c].last + CloseAfter <= Watermark(maxTime)
      BY <1>1 DEF WindowsInv
    <3>3. clusters[c].last \in Nat /\ Watermark(maxTime) \in Int
      BY <1>1, ClusterAt, WatermarkInt DEF WindowsInv, TypeOK, Ids
    <3>4. clusters'[d].last \in Nat
      <4>1. clusters' \in Seq(Clusters) /\ d \in 1 .. Len(clusters')
        BY <1>1, <2>1, DrainKeeps DEF WindowsInv, TypeOK, Ids
      <4>. QED
        BY <4>1, ClusterAt
    <3>. QED
      BY <3>1, <3>2, <3>3, <3>4, SettingsAssumption
  <2>. QED
    BY <1>1, <2>1, StepShape
<1>. QED
  BY <1>1, InitWindows, NextWindows, PTL DEF Spec, HandedOverInOrder

\* A poll without a message closes nothing, whatever is open and however long.
THEOREM IdleIsIdle == Spec => IdleDrainFindsNothing
<1>1. ASSUME WindowsInv, [Next]_vars PROVE [~IdleDrain]_vars
  <2>1. ASSUME IdleDrain PROVE UNCHANGED vars
    <3>1. clusters' = clusters /\ maxTime' = maxTime
      BY <2>1 DEF IdleDrain
    <3>2. Len(clusters) \in Nat
      BY <1>1 DEF WindowsInv, TypeOK
    <3>3. Len(clusters) + 1 .. Len(clusters) = {}
      BY <3>2
    <3>4. \A c \in active : ~ (clusters[c].last + CloseAfter <= Watermark(maxTime))
      <4>1. \A c \in active : clusters[c].last \in Nat
        BY <1>1, ClusterAt DEF WindowsInv, TypeOK, Ids
      <4>2. Watermark(maxTime) \in Int
        BY <1>1, WatermarkInt DEF WindowsInv, TypeOK
      <4>. QED
        BY <1>1, <4>1, <4>2, SettingsAssumption DEF WindowsInv
    <3>5. active' = active /\ finalized' = finalized
      BY <2>1, <3>1, <3>3, <3>4 DEF IdleDrain, Drain, Overdue
    <3>6. closedRecent' = {}
      <4>1. WindowsInv'
        BY <1>1, NextWindows
      <4>. QED
        BY <4>1 DEF WindowsInv
    <3>. QED
      BY <1>1, <2>1, <3>5, <3>6 DEF IdleDrain, vars, WindowsInv
  <2>. QED
    BY <2>1
<1>. QED
  BY <1>1, InitWindows, NextWindows, PTL DEF Spec, IdleDrainFindsNothing

-------------------------------------------------------------------------------
(* How close two windows of one service come.                              *)

LEMMA LateIsOld ==
    ASSUME NEW m \in Int, NEW t \in Nat, t < Watermark(m)
    PROVE  m # t
  BY SettingsAssumption DEF Watermark

\* The four things that an event does to the clusters.
LEMMA HandleShapes ==
    ASSUME WindowsInv, NEW s \in Services, NEW t \in Times, Handle(s, t)
    PROVE  \/ /\ \E c \in Picked(s, t) : AddEvent(c, t)
              /\ corrected' = corrected /\ t >= Watermark(maxTime')
           \/ /\ Near(s, t) = {} /\ NewCluster(s, t)
              /\ corrected' = corrected /\ t >= Watermark(maxTime')
           \/ /\ \E c \in active : AddEvent(c, t) /\ corrected' = corrected \cup {c}
              /\ maxTime' = maxTime
           \/ UNCHANGED <<clusters, corrected>> /\ lateDropped' = lateDropped + 1
<1>0. t \in Nat /\ maxTime \in Int /\ maxTime' \in Int /\ Lateness \in Nat
  BY BoundsAssumption, SettingsAssumption, HandleGrows
  DEF ClustersGrow, WindowsInv, TypeOK, NoTime
<1>1. CASE t < Watermark(maxTime')
  <2>1. IngestLate(s, t)
    BY <1>1 DEF Handle
  <2>2. Nearest(s, t) \subseteq active
    BY DEF Nearest, WindowsInv
  <2>3. maxTime' # t
    BY <1>0, <1>1, LateIsOld
  <2>4. maxTime' = maxTime
    BY <2>3 DEF Handle, Observed
  <2>. QED
    BY <2>1, <2>2, <2>4 DEF IngestLate
<1>2. CASE ~ (t < Watermark(maxTime'))
  <2>1. Ingest(s, t)
    BY <1>2 DEF Handle
  <2>2. t >= Watermark(maxTime')
    BY <1>0, <1>2, NotLate
  <2>. QED
    BY <2>1, <2>2 DEF Ingest
<1>. QED
  BY <1>1, <1>2

LEMMA NewClusterAppends ==
    ASSUME WindowsInv, NEW s \in Services, NEW t \in Nat, NewCluster(s, t)
    PROVE  /\ Len(clusters') = Len(clusters) + 1 /\ Len(clusters) \in Nat
           /\ \A c \in Ids : clusters'[c] = clusters[c]
           /\ clusters'[Len(clusters) + 1] = [service |-> s, first |-> t, last |-> t, count |-> 1]
<1>1. clusters \in Seq(Clusters)
  BY DEF WindowsInv, TypeOK
<1>2. [service |-> s, first |-> t, last |-> t, count |-> 1] \in Clusters
  BY DEF Clusters
<1>. QED
  BY <1>1, <1>2 DEF NewCluster, Ids

\* The cluster that the event of this step widened or opened.
Touched(c) == c \in Len(clusters) + 1 .. Len(clusters') \/ (c \in Ids /\ clusters'[c] # clusters[c])

\* An event is dropped or touches exactly one cluster, which was open or is new.
LEMMA OneTouched ==
    ASSUME WindowsInv, NEW s \in Services, NEW t \in Times, Handle(s, t)
    PROVE  /\ \A c, d \in 1 .. Len(clusters') : Touched(c) /\ Touched(d) => c = d
           /\ \/ lateDropped' # lateDropped
              \/ \E c \in active \cup (Len(clusters) + 1 .. Len(clusters')) : Touched(c)
<1>0. /\ t \in Nat /\ clusters \in Seq(Clusters) /\ active \subseteq Ids /\ Len(clusters) \in Nat
      /\ lateDropped \in Nat
  BY BoundsAssumption DEF WindowsInv, TypeOK
<1>1. ASSUME NEW e \in active, AddEvent(e, t)
      PROVE  Touched(e) /\ \A c \in 1 .. Len(clusters') : Touched(c) => c = e
  <2>1. /\ Len(clusters') = Len(clusters) /\ \A b \in Ids \ {e} : clusters'[b] = clusters[b]
        /\ clusters'[e] = Extended(clusters[e], t) /\ clusters[e] \in Clusters /\ e \in Ids
    BY <1>0, <1>1, AddEventGrows, ClusterAt DEF Ids
  <2>2. clusters'[e].count # clusters[e].count
    BY <2>1 DEF Extended, Clusters
  <2>3. clusters'[e] # clusters[e]
    BY <2>2
  <2>. QED
    BY <1>0, <2>1, <2>3 DEF Touched, Ids
<1>2. ASSUME NewCluster(s, t)
      PROVE  /\ Touched(Len(clusters) + 1)
             /\ Len(clusters) + 1 \in Len(clusters) + 1 .. Len(clusters')
             /\ \A c \in 1 .. Len(clusters') : Touched(c) => c = Len(clusters) + 1
  <2>1. /\ Len(clusters') = Len(clusters) + 1 /\ \A b \in Ids : clusters'[b] = clusters[b]
    BY <1>0, <1>2, NewClusterAppends
  <2>. QED
    BY <1>0, <2>1 DEF Touched, Ids
<1>3. ASSUME UNCHANGED clusters, lateDropped' = lateDropped + 1
      PROVE  lateDropped' # lateDropped /\ \A c \in 1 .. Len(clusters') : ~ Touched(c)
  BY <1>0, <1>3 DEF Touched
<1>4. Picked(s, t) \subseteq active
  BY DEF Picked, Near
<1>. QED
  BY <1>1, <1>2, <1>3, <1>4, HandleShapes

\* A message closes windows, but never the one that takes its own event.
LEMMA TouchedStaysOpen ==
    ASSUME WindowsInv, NEW s \in Services, NEW t \in Times, Handle(s, t),
           NEW c \in finalized' \ finalized
    PROVE  c \in active /\ clusters'[c] = clusters[c]
<1>0. /\ t \in Nat /\ clusters \in Seq(Clusters) /\ active \subseteq Ids /\ Len(clusters) \in Nat
      /\ Watermark(maxTime) \in Int /\ Watermark(maxTime') \in Int /\ CloseAfter \in Nat
      /\ CloseAfter > 0
  BY BoundsAssumption, SettingsAssumption, HandleGrows, WatermarkInt
  DEF WindowsInv, TypeOK, ClustersGrow
<1>1. /\ c \in active \cup (Len(clusters) + 1 .. Len(clusters'))
      /\ clusters'[c].last + CloseAfter <= Watermark(maxTime')
  BY DEF Handle, Drain, Overdue
<1>2. ASSUME NEW e \in active, AddEvent(e, t), c = e PROVE FALSE
  <2>1. clusters'[e] = Extended(clusters[e], t) /\ clusters[e] \in Clusters
    BY <1>0, <1>2, AddEventGrows, ClusterAt DEF Ids
  <2>2. clusters'[e].last \in Nat /\ clusters'[e].last >= t /\ clusters'[e].last >= clusters[e].last
        /\ clusters[e].last \in Nat
    BY <1>0, <2>1 DEF Extended, Clusters
  <2>3. CASE t >= Watermark(maxTime')
    BY <1>0, <1>1, <1>2, <2>2, <2>3
  <2>4. CASE maxTime' = maxTime
    <3>1. clusters[e].last + CloseAfter > Watermark(maxTime)
      BY DEF WindowsInv
    <3>. QED
      BY <1>0, <1>1, <1>2, <2>2, <2>4, <3>1
  <2>5. ~ UNCHANGED clusters
    <3>1. clusters'[e].count # clusters[e].count
      BY <2>1 DEF Extended, Clusters
    <3>. QED
      BY <3>1
  <2>6. ASSUME NewCluster(s, t) PROVE FALSE
    <3>1. Len(clusters') = Len(clusters)
      BY <1>0, <1>2, AddEventGrows
    <3>2. Len(clusters') = Len(clusters) + 1
      BY <1>0, <2>6, NewClusterAppends
    <3>. QED
      BY <1>0, <3>1, <3>2
  <2>. QED
    BY <2>3, <2>4, <2>5, <2>6, HandleShapes
<1>3. ASSUME NEW e \in active, AddEvent(e, t) PROVE c \in active /\ clusters'[c] = clusters[c]
  <2>1. Len(clusters') = Len(clusters) /\ \A b \in Ids \ {e} : clusters'[b] = clusters[b]
    BY <1>0, <1>3, AddEventGrows
  <2>. QED
    BY <1>0, <1>1, <1>2, <1>3, <2>1
<1>4. CASE NewCluster(s, t) /\ t >= Watermark(maxTime')
  <2>1. /\ Len(clusters') = Len(clusters) + 1 /\ \A b \in Ids : clusters'[b] = clusters[b]
        /\ clusters'[Len(clusters) + 1] = [service |-> s, first |-> t, last |-> t, count |-> 1]
    BY <1>0, <1>4, NewClusterAppends
  <2>2. c # Len(clusters) + 1
    <3>1. clusters'[Len(clusters) + 1].last = t
      BY <2>1
    <3>. QED
      BY <1>0, <1>1, <1>4, <3>1
  <2>3. c \in active
    BY <1>0, <1>1, <2>1, <2>2
  <2>. QED
    BY <1>0, <2>1, <2>3
<1>5. CASE UNCHANGED clusters
  BY <1>0, <1>1, <1>5
<1>6. Picked(s, t) \subseteq active
  BY DEF Picked, Near
<1>. QED
  BY <1>3, <1>4, <1>5, <1>6, HandleShapes

\* An event opens a window only further than MergeGap from every window of its service,
\* the closed ones included: for these the watermark keeps CloseAfter of distance.
THEOREM NothingClosesEarly == Spec => NoPrematureClose
<1>1. ASSUME WindowsInv, NEW s \in Services, NEW t \in Times, Handle(s, t),
             NEW c \in Ids, NEW n \in Len(clusters) + 1 .. Len(clusters'),
             clusters[c].service = clusters'[n].service
      PROVE  Dist(clusters[c].last, clusters'[n].first) > MergeGap
  <2>0. /\ t \in Nat /\ clusters[c].last \in Nat /\ MergeGap \in Nat /\ Len(clusters) \in Nat
        /\ c \in active \/ c \in finalized
    BY <1>1, BoundsAssumption, SettingsAssumption, ClusterAt DEF WindowsInv, TypeOK, Ids
  <2>1. Near(s, t) = {} /\ NewCluster(s, t) /\ t >= Watermark(maxTime')
    <3>1. ASSUME NEW d \in active, AddEvent(d, t) PROVE FALSE
      BY <1>1, <2>0, <3>1, AddEventGrows DEF WindowsInv, TypeOK, Ids
    <3>2. Picked(s, t) \subseteq active
      BY DEF Picked, Near
    <3>3. ~ UNCHANGED clusters
      BY <1>1, <2>0
    <3>. QED
      BY <1>1, <3>1, <3>2, <3>3, HandleShapes
  <2>2. clusters'[n].first = t /\ clusters'[n].service = s
    <3>1. /\ Len(clusters') = Len(clusters) + 1
          /\ clusters'[Len(clusters) + 1] = [service |-> s, first |-> t, last |-> t, count |-> 1]
      BY <1>1, <2>0, <2>1, NewClusterAppends
    <3>2. n = Len(clusters) + 1
      BY <2>0, <3>1
    <3>. QED
      BY <3>1, <3>2
  <2>3. CASE c \in active
    <3>1. ~ (Dist(clusters[c].last, t) <= MergeGap)
      BY <1>1, <2>1, <2>2, <2>3 DEF Near
    <3>. QED
      BY <2>0, <2>2, <3>1 DEF Dist
  <2>4. CASE c \in finalized
    <3>1. clusters[c].last + CloseAfter <= Watermark(maxTime)
      BY <1>1, <2>4 DEF WindowsInv
    <3>2. /\ Watermark(maxTime) <= Watermark(maxTime')
          /\ Watermark(maxTime) \in Int /\ Watermark(maxTime') \in Int
      BY <1>1, HandleGrows, WatermarkInt DEF ClustersGrow, WindowsInv, TypeOK
    <3>3. t >= Watermark(maxTime')
      BY <2>1
    <3>4. clusters[c].last + CloseAfter <= t
      BY <2>0, <3>1, <3>2, <3>3, SettingsAssumption
    <3>5. t - clusters[c].last > MergeGap /\ t >= clusters[c].last
      BY <2>0, <3>4, SettingsAssumption
    <3>. QED
      BY <2>0, <2>2, <3>5 DEF Dist
  <2>. QED
    BY <2>0, <2>3, <2>4
<1>2. ASSUME WindowsInv, UNCHANGED clusters PROVE Len(clusters) + 1 .. Len(clusters') = {}
  <2>1. Len(clusters) \in Nat
    BY <1>2 DEF WindowsInv, TypeOK
  <2>. QED
    BY <1>2, <2>1
<1>3. ASSUME WindowsInv, [Next]_vars
      PROVE  [\A c \in Ids : \A n \in Len(clusters) + 1 .. Len(clusters') :
                clusters[c].service = clusters'[n].service
                    => Dist(clusters[c].last, clusters'[n].first) > MergeGap]_vars
  BY <1>1, <1>2, <1>3 DEF Next, IdleDrain
<1>. QED
  BY <1>3, InitWindows, NextWindows, PTL DEF Spec, NoPrematureClose

Apart(x, y) == Dist(x, y) > MergeGap

LEMMA ApartSymmetric ==
    ASSUME NEW x \in Nat, NEW y \in Nat, Apart(x, y) PROVE Apart(y, x)
  BY SettingsAssumption DEF Apart, Dist

\* The window that an event extends stays apart from an open one of its service: of the
\* windows near the event it is the one that ends last.
LEMMA ExtendedStaysApart ==
    ASSUME WindowsInv, WindowsApart, NEW s \in Services, NEW t \in Nat,
           NEW c \in Picked(s, t), AddEvent(c, t), c \notin corrected,
           NEW d \in active \ corrected, d # c, clusters[d].service = clusters[c].service
    PROVE  Apart(clusters'[c].last, clusters'[d].last)
<1>0. /\ c \in active /\ c \in Ids /\ d \in Ids /\ clusters \in Seq(Clusters)
      /\ clusters[c].service = s /\ c \in Near(s, t)
  BY DEF Picked, Near, WindowsInv, TypeOK
<1>1. clusters[c] \in Clusters /\ clusters[c].last \in Nat /\ clusters[d].last \in Nat
  BY <1>0, ClusterAt DEF Ids
<1>2. clusters'[d] = clusters[d] /\ clusters'[c] = Extended(clusters[c], t)
  BY <1>0, AddEventGrows
<1>3. Apart(clusters[c].last, clusters[d].last)
  BY <1>0 DEF WindowsApart, Apart
<1>4. CASE ~ (t > clusters[c].last)
  <2>1. clusters'[c].last = clusters[c].last
    BY <1>2, <1>4 DEF Extended
  <2>. QED
    BY <1>2, <1>3, <2>1
<1>5. CASE t > clusters[c].last
  <2>1. clusters'[c].last = t
    BY <1>2, <1>5 DEF Extended
  <2>2. CASE d \in Near(s, t)
    <3>1. clusters[d].last <= clusters[c].last
      BY <2>2 DEF Picked
    <3>2. Apart(t, clusters[d].last)
      BY <1>1, <1>3, <1>5, <3>1, SettingsAssumption DEF Apart, Dist
    <3>. QED
      BY <1>2, <2>1, <3>2
  <2>3. CASE d \notin Near(s, t)
    <3>1. ~ (Dist(clusters[d].last, t) <= MergeGap)
      BY <1>0, <2>3 DEF Near
    <3>2. Apart(t, clusters[d].last)
      BY <1>1, <3>1, SettingsAssumption DEF Apart, Dist
    <3>. QED
      BY <1>2, <2>1, <3>2
  <2>. QED
    BY <2>2, <2>3
<1>. QED
  BY <1>4, <1>5

LEMMA HandleApart ==
    ASSUME WindowsInv, WindowsApart, NEW s \in Services, NEW t \in Times, Handle(s, t),
           NEW c \in active' \ corrected', NEW d \in active' \ corrected', c # d,
           clusters'[c].service = clusters'[d].service
    PROVE  Apart(clusters'[c].last, clusters'[d].last)
<1>0. /\ t \in Nat /\ clusters \in Seq(Clusters) /\ Len(clusters) \in Nat /\ active \subseteq Ids
      /\ \A e \in Ids : clusters[e].last \in Nat
  BY BoundsAssumption, ClusterAt DEF WindowsInv, TypeOK, Ids
<1>1. active' \subseteq active \cup (Len(clusters) + 1 .. Len(clusters'))
  BY DEF Handle, Drain
<1>2. ClustersGrow
  BY HandleGrows
<1>3. CASE \E e \in Picked(s, t) : AddEvent(e, t) /\ corrected' = corrected
  <2>1. PICK e \in Picked(s, t) : AddEvent(e, t) /\ corrected' = corrected
    BY <1>3
  <2>2. e \in active
    BY DEF Picked, Near
  <2>3. Len(clusters') = Len(clusters) /\ \A b \in Ids \ {e} : clusters'[b] = clusters[b]
    BY <1>0, <2>1, <2>2, AddEventGrows
  <2>4. c \in active \ corrected /\ d \in active \ corrected
    BY <1>0, <1>1, <2>1, <2>3
  <2>5. clusters[c].service = clusters[d].service
    BY <1>0, <1>2, <2>4 DEF ClustersGrow
  <2>6. CASE c = e
    BY <1>0, <2>1, <2>4, <2>5, <2>6, ExtendedStaysApart
  <2>7. CASE d = e
    <3>1. Apart(clusters'[d].last, clusters'[c].last)
      BY <1>0, <2>1, <2>4, <2>5, <2>7, ExtendedStaysApart
    <3>2. clusters'[c].last \in Nat /\ clusters'[d].last \in Nat
      <4>1. c \in 1 .. Len(clusters') /\ d \in 1 .. Len(clusters')
        BY <1>0, <2>3, <2>4 DEF Ids
      <4>. QED
        BY <1>2, <4>1, ClusterAt DEF ClustersGrow
    <3>. QED
      BY <3>1, <3>2, ApartSymmetric
  <2>8. CASE c # e /\ d # e
    BY <1>0, <2>3, <2>4, <2>5, <2>8 DEF WindowsApart, Apart
  <2>. QED
    BY <2>6, <2>7, <2>8
<1>4. CASE Near(s, t) = {} /\ NewCluster(s, t) /\ corrected' = corrected
  <2>1. /\ Len(clusters') = Len(clusters) + 1
        /\ \A b \in Ids : clusters'[b] = clusters[b]
        /\ clusters'[Len(clusters) + 1] = [service |-> s, first |-> t, last |-> t, count |-> 1]
    BY <1>0, <1>4, NewClusterAppends
  <2>2. Len(clusters) + 1 .. Len(clusters') = {Len(clusters) + 1}
    BY <1>0, <2>1
  <2>3. ASSUME NEW b \in active, clusters[b].service = s
        PROVE  Apart(clusters[b].last, t) /\ Apart(t, clusters[b].last)
    <3>1. ~ (Dist(clusters[b].last, t) <= MergeGap)
      BY <1>4, <2>3 DEF Near
    <3>2. clusters[b].last \in Nat
      BY <1>0
    <3>. QED
      BY <1>0, <3>1, <3>2, SettingsAssumption DEF Apart, Dist
  <2>4. CASE c \in active /\ d \in active
    BY <1>0, <1>4, <2>1, <2>4 DEF WindowsApart, Apart
  <2>5. CASE c \in active /\ d = Len(clusters) + 1
    <3>1. clusters'[c] = clusters[c] /\ clusters'[d].last = t /\ clusters[c].service = s
      BY <1>0, <2>1, <2>5
    <3>. QED
      BY <2>3, <2>5, <3>1
  <2>6. CASE d \in active /\ c = Len(clusters) + 1
    <3>1. clusters'[d] = clusters[d] /\ clusters'[c].last = t /\ clusters[d].service = s
      BY <1>0, <2>1, <2>6
    <3>. QED
      BY <2>3, <2>6, <3>1
  <2>. QED
    BY <1>1, <2>2, <2>4, <2>5, <2>6
<1>5. CASE \E e \in active : AddEvent(e, t) /\ corrected' = corrected \cup {e}
  <2>1. PICK e \in active : AddEvent(e, t) /\ corrected' = corrected \cup {e}
    BY <1>5
  <2>2. Len(clusters') = Len(clusters) /\ \A b \in Ids \ {e} : clusters'[b] = clusters[b]
    BY <1>0, <2>1, AddEventGrows
  <2>3. c \in active \ corrected /\ d \in active \ corrected /\ c # e /\ d # e
    BY <1>0, <1>1, <2>1, <2>2
  <2>. QED
    BY <1>0, <2>2, <2>3 DEF WindowsApart, Apart
<1>6. CASE UNCHANGED <<clusters, corrected>>
  <2>1. c \in active \ corrected /\ d \in active \ corrected
    BY <1>0, <1>1, <1>6
  <2>. QED
    BY <1>6, <2>1 DEF WindowsApart, Apart
<1>. QED
  BY <1>3, <1>4, <1>5, <1>6, HandleShapes

\* Two open windows of a service that took no late event end more than MergeGap apart,
\* for all settings and all orders of events.
THEOREM OpenWindowsApart == Spec => []WindowsApart
<1>1. Init => WindowsApart
  BY DEF Init, WindowsApart
<1>2. WindowsInv /\ WindowsApart /\ [Next]_vars => WindowsApart'
  <2> SUFFICES ASSUME WindowsInv, WindowsApart, [Next]_vars PROVE WindowsApart'
    OBVIOUS
  <2>1. ASSUME NEW s \in Services, NEW t \in Times, Handle(s, t) PROVE WindowsApart'
    BY <2>1, HandleApart DEF WindowsApart, Apart
  <2>2. ASSUME UNCHANGED <<clusters, corrected>>, active' \subseteq active PROVE WindowsApart'
    BY <2>2 DEF WindowsApart, Dist
  <2>3. ASSUME IdleDrain PROVE WindowsApart'
    <3>1. UNCHANGED <<clusters, corrected>> /\ Len(clusters) \in Nat
      BY <2>3 DEF IdleDrain, WindowsInv, TypeOK
    <3>2. Len(clusters) + 1 .. Len(clusters') = {}
      BY <3>1
    <3>3. active' \subseteq active
      BY <2>3, <3>2 DEF IdleDrain, Drain
    <3>. QED
      BY <2>2, <3>1, <3>3
  <2>. QED
    BY <2>1, <2>2, <2>3 DEF Next, vars
<1>. QED
  BY <1>1, <1>2, InitWindows, NextWindows, PTL DEF Spec
===============================================================================
