-------------------------------- MODULE Windows -------------------------------
(***************************************************************************)
(* The event-time windows of one correlator process: WatermarkTracker      *)
(* (apps/correlator/watermark.py), EventTimeWindowManager (windows.py) and *)
(* the handling of one message in Correlator.run, whose "finally" drains   *)
(* the finalised clusters.  Time is event time in whole seconds.           *)
(*                                                                         *)
(* _active is in creation order and keeps it, so a set of cluster numbers  *)
(* stands for it; between clusters that are equally good the code takes    *)
(* the first of the list, the model any.                                   *)
(***************************************************************************)
EXTENDS Integers, Sequences, FiniteSets

CONSTANTS
    Services,
    Lateness,     \* CORR_ALLOWED_LATENESS_SECONDS
    MergeGap,     \* CORR_MERGE_GAP_SECONDS
    Grace,        \* CORR_LATE_CORRECTION_GRACE_SECONDS
    CloseAfter,   \* CORR_CLOSE_AFTER_SECONDS
    Times,        \* the event times that occur
    MaxEvents     \* bound on the events handled

\* The relations between the settings that the shipped values satisfy.
ASSUME SettingsAssumption ==
    /\ Lateness \in Nat /\ MergeGap \in Nat /\ Grace \in Nat /\ CloseAfter \in Nat
    /\ MergeGap < CloseAfter /\ Grace < CloseAfter
ASSUME BoundsAssumption == Times \subseteq Nat /\ MaxEvents \in Nat

VARIABLES
    maxTime,       \* max_event_time, NoTime before the first event
    clusters,      \* the clusters in the order of their creation
    active,        \* _active: numbers of the clusters that are open
    closedRecent,  \* _closed_recent: closed, but open to late corrections
    finalized,     \* history: clusters handed to the linker
    corrected,     \* history: clusters that took a late event
    handled,       \* history: events handled
    lateDropped    \* history: late events that no cluster took

vars == <<maxTime, clusters, active, closedRecent, finalized, corrected, handled,
          lateDropped>>

NoTime == -1
Clusters == [service : Services, first : Nat, last : Nat, count : Nat]
Dist(x, y) == IF x >= y THEN x - y ELSE y - x

Init ==
    /\ maxTime = NoTime /\ clusters = <<>>
    /\ active = {} /\ closedRecent = {}
    /\ finalized = {} /\ corrected = {} /\ handled = 0 /\ lateDropped = 0

\* observe: the watermark trails the newest event time ever seen.
Observed(t) == IF t > maxTime THEN t ELSE maxTime
Watermark(m) == m - Lateness

\* add_event
Extended(r, t) ==
    [service |-> r.service,
     first   |-> IF t < r.first THEN t ELSE r.first,
     last    |-> IF t > r.last THEN t ELSE r.last,
     count   |-> r.count + 1]

AddEvent(c, t) == clusters' = [clusters EXCEPT ![c] = Extended(@, t)]

NewCluster(s, t) ==
    clusters' = Append(clusters, [service |-> s, first |-> t, last |-> t, count |-> 1])

\* Mutant of Near: only events after the end of the window extend it.
NearMutForward(s, t) ==
    {c \in active : clusters[c].service = s
                    /\ t >= clusters[c].last /\ t - clusters[c].last <= MergeGap}

Near(s, t) ==
    {c \in active : clusters[c].service = s /\ Dist(clusters[c].last, t) <= MergeGap}

\* _pick_cluster: of the open clusters whose end is near, the one that ends last.
Picked(s, t) ==
    {c \in Near(s, t) : \A d \in Near(s, t) : clusters[d].last <= clusters[c].last}

\* ingest: an event that is not late.
Ingest(s, t) ==
    /\ \/ \E c \in Picked(s, t) : AddEvent(c, t)
       \/ Near(s, t) = {} /\ NewCluster(s, t)
    /\ UNCHANGED <<corrected, lateDropped>>

\* The nearest clusters of a late event, open or recently closed.
Nearest(s, t) ==
    LET own == {c \in active \cup closedRecent : clusters[c].service = s}
    IN  {c \in own : \A d \in own : Dist(clusters[c].last, t) <= Dist(clusters[d].last, t)}

\* ingest_late: the nearest cluster takes it if it is within the grace.
IngestLate(s, t) ==
    LET near == {c \in Nearest(s, t) : Dist(clusters[c].last, t) <= Grace} IN
    \/ \E c \in near : /\ AddEvent(c, t)
                       /\ corrected' = corrected \cup {c} /\ UNCHANGED lateDropped
    \/ /\ near = {} /\ lateDropped' = lateDropped + 1
       /\ UNCHANGED <<clusters, corrected>>

\* Mutant of Overdue: the window is closed by its age, not by its silence.
OverdueMutFirst(c) == c.first + CloseAfter <= Watermark(maxTime')

Overdue(c) == c.last + CloseAfter <= Watermark(maxTime')

\* Mutant of Drain: every closed cluster is kept for late corrections.
DrainMutKeepAll ==
    LET open == active \cup (Len(clusters) + 1 .. Len(clusters'))
        done == {c \in open : Overdue(clusters'[c])}
    IN  /\ active' = open \ done
        /\ finalized' = finalized \cup done
        /\ closedRecent' = closedRecent \cup done

\* pop_finalized, on the clusters as this step leaves them: silent clusters are
\* closed and handed to the linker, recent ones are kept for late corrections.
Drain ==
    LET open == active \cup (Len(clusters) + 1 .. Len(clusters'))
        done == {c \in open : Overdue(clusters'[c])}
    IN  /\ active' = open \ done
        /\ finalized' = finalized \cup done
        /\ closedRecent' = {c \in closedRecent \cup done :
                              clusters'[c].last >= Watermark(maxTime') - Grace}

\* Mutant of Handle: the finalised clusters are drained by idle polls only.
HandleMutNoDrain(s, t) ==
    /\ handled < MaxEvents /\ handled' = handled + 1
    /\ maxTime' = Observed(t)
    /\ IF t < Watermark(maxTime') THEN IngestLate(s, t) ELSE Ingest(s, t)
    /\ active' = active \cup (Len(clusters) + 1 .. Len(clusters'))
    /\ UNCHANGED <<finalized, closedRecent>>

\* One message: _handle_payload, then the drain of the "finally" block.
Handle(s, t) ==
    /\ handled < MaxEvents /\ handled' = handled + 1
    /\ maxTime' = Observed(t)
    /\ IF t < Watermark(maxTime') THEN IngestLate(s, t) ELSE Ingest(s, t)
    /\ Drain

\* poll() returned nothing; a dropped or an invalid message does the same.
IdleDrain ==
    /\ UNCHANGED <<maxTime, clusters, corrected, handled, lateDropped>>
    /\ Drain

Next == IdleDrain \/ \E s \in Services, t \in Times : Handle(s, t)

Spec == Init /\ [][Next]_vars

-------------------------------------------------------------------------------
Ids == 1 .. Len(clusters)

TypeOK ==
    /\ maxTime \in {NoTime} \cup Nat
    /\ clusters \in Seq(Clusters)
    /\ finalized \subseteq Ids /\ closedRecent \subseteq finalized
    /\ active = Ids \ finalized /\ corrected \subseteq Ids
    /\ handled \in Nat /\ lateDropped \in Nat

\* With the shipped settings the window for late corrections of closed clusters is
\* empty: a cluster is closed only when it is already too old to be kept.  So what
\* the linker was given never changes after it was given, although the linker
\* holds the same objects and emits each group once.
FinalizedNeverChanges ==
    [][\A c \in finalized : clusters'[c] = clusters[c] /\ c \notin active']_vars

\* Closing is never premature: an event that opens a window is further than MergeGap
\* from the end of every window of its service, closed ones included.
NoPrematureClose ==
    [][\A c \in Ids : \A n \in Len(clusters) + 1 .. Len(clusters') :
          clusters[c].service = clusters'[n].service
              => Dist(clusters[c].last, clusters'[n].first) > MergeGap]_vars

\* Two open windows of one service end more than MergeGap apart, so events that belong
\* together are not split between them.  A late correction, which takes the nearest
\* window and not the one within MergeGap, is the only way to get closer.
WindowsApart ==
    \A c, d \in active \ corrected :
        c # d /\ clusters[c].service = clusters[d].service
            => Dist(clusters[c].last, clusters[d].last) > MergeGap

\* Windows are handed over in the order in which they ended: whatever is finalised
\* later ended later than everything finalised before (the linker's retention of ten
\* minutes behind the newest end relies on it).
HandedOverInOrder ==
    [][\A c \in finalized, d \in finalized' \ finalized :
          clusters[c].last < clusters'[d].last]_vars

\* A poll without a message never closes anything: every message has already drained
\* up to the watermark it left, and only messages move the watermark.  When the
\* stream falls silent, the open windows stay open for good.
IdleDrainFindsNothing == [][~IdleDrain]_vars
===============================================================================
