------------------------------ MODULE Correlator ------------------------------
(***************************************************************************)
(* The correlator process (apps/correlator/main.py): one process, one      *)
(* partition of events.normalized.  Its windows (module Windows), linker   *)
(* and producer queue live in memory, while the offset of every message is *)
(* committed as soon as it is handled.  The drain and the emission of      *)
(* candidates run in a "finally" and in idle polls, outside every "try".   *)
(*                                                                         *)
(* The linker's choice of groups is left open (module CandidateLinker has  *)
(* it): each call returns disjoint groups of closed clusters that it has   *)
(* not returned before.  A candidate in the stream is its evidence: the    *)
(* offsets of the events in its clusters.                                  *)
(***************************************************************************)
EXTENDS Integers, Sequences, FiniteSets

CONSTANTS
    Services, Lateness, MergeGap, Grace, CloseAfter, Times,  \* as in Windows
    Invalid,       \* a JSON message that is no EventEnvelope
    Undecodable,   \* a message whose bytes are not JSON
    MaxLog,        \* bound on the length of the log
    MaxFaults      \* bound on the faults, of any kind and repeated or not

Faults == {"crash", "stop", "rebalance", "expel", "send", "commit", "expiry", "chaos"}
Events == [service : Services, time : Times]

ASSUME SettingsAssumption ==
    /\ Lateness \in Nat /\ MergeGap \in Nat /\ Grace \in Nat /\ CloseAfter \in Nat
    /\ MergeGap < CloseAfter /\ Grace < CloseAfter
ASSUME MessagesAssumption == Invalid \notin Events /\ Undecodable \notin Events \cup {Invalid}
ASSUME BoundsAssumption == Times \subseteq Nat /\ MaxLog \in Nat /\ MaxFaults \in Nat

VARIABLES
    log,           \* the partition, oldest message first
    committed,     \* the group's committed offset
    joined,        \* the partition is assigned to this process
    pos,           \* messages polled since the assignment
    pc,            \* what the process does next
    maxTime, clusters, active, closedRecent, finalized, corrected, handled,
    lateDropped,   \* the memory of watermark tracker and window manager (Windows)
    members,       \* members[c]: the offsets of the events that cluster c took
    signatures,    \* the groups of clusters that the linker has returned
    toEmit,        \* of these, the ones that _emit_candidates has still to send
    sendq,         \* candidates in the producer, not acknowledged
    stream,        \* candidates in incidents.candidates
    handedOver,    \* history: clusters with event o that a linker was given
    excused,       \* history: offsets dropped late or by chaos, or handled elsewhere
    forgotten,     \* history: offsets in open windows when a process ended
    discarded,     \* history: candidates returned by a linker and given up on
    struck,        \* the kinds of fault that have struck
    faults         \* how many faults have struck

windows == <<maxTime, clusters, active, closedRecent, finalized, corrected, handled,
             lateDropped>>
group == <<log, committed, joined, pos>>
strikes == <<struck, faults>>
emission == <<signatures, toEmit, sendq>>
vars == <<group, pc, windows, members, emission, stream, handedOver, excused, forgotten,
          discarded, strikes>>

W == INSTANCE Windows WITH MaxEvents <- MaxLog

Offsets == 1 .. MaxLog
Steps == {"poll", "emit", "idle_emit", "commit", "flush", "down"}
Handling == {"emit", "commit"}

Strike(f) ==
    /\ faults < MaxFaults /\ faults' = faults + 1
    /\ struck' = struck \cup {f}

Goto(step) == pc' = step

Init ==
    /\ log = <<>> /\ committed = 0 /\ joined = FALSE /\ pos = 0 /\ pc = "poll"
    /\ W!Init /\ members = <<>>
    /\ signatures = {} /\ toEmit = {} /\ sendq = {} /\ stream = {}
    /\ handedOver = [o \in Offsets |-> 0]
    /\ excused = {} /\ forgotten = {} /\ discarded = {}
    /\ struck = {} /\ faults = 0

\* What a candidate that names these clusters carries.
Evidence(g) == UNION {members[c] : c \in g}

-------------------------------------------------------------------------------
(* The environment: the ingestor, the group, the producer's thread.        *)

Publish(m) ==
    /\ Len(log) < MaxLog /\ log' = Append(log, m)
    /\ UNCHANGED <<committed, joined, pos, pc, windows, members, emission, stream,
                   handedOver, excused, forgotten, discarded, strikes>>

\* Mutant of Join: a group without a valid offset starts at "latest".
JoinMutLatest ==
    /\ ~joined /\ pc = "poll"
    /\ joined' = TRUE /\ pos' = Len(log)
    /\ UNCHANGED <<log, committed, pc, windows, members, emission, stream, handedOver,
                   excused, forgotten, discarded, strikes>>

\* The process gets the partition, at the committed offset; its memory is as it was.
Join ==
    /\ ~joined /\ pc = "poll"
    /\ joined' = TRUE /\ pos' = committed
    /\ UNCHANGED <<log, committed, pc, windows, members, emission, stream, handedOver,
                   excused, forgotten, discarded, strikes>>

\* A rebalance inside poll(), or the group expels a process that stalls in a message.
Leave ==
    /\ joined /\ joined' = FALSE
    /\ \/ pc = "poll" /\ Strike("rebalance")
       \/ pc \in Handling /\ Strike("expel")
    /\ UNCHANGED <<log, committed, pos, pc, windows, members, emission, stream, handedOver,
                   excused, forgotten, discarded>>

\* Meanwhile another process of the group handles and commits a message.
Elsewhere ==
    /\ ~joined /\ committed < Len(log)
    /\ committed' = committed + 1
    /\ excused' = excused \cup {committed + 1}
    /\ UNCHANGED <<log, joined, pos, pc, windows, members, emission, stream, handedOver,
                   forgotten, discarded, strikes>>

Deliver(c) ==
    /\ c \in sendq /\ sendq' = sendq \ {c} /\ stream' = stream \cup {c}
    /\ UNCHANGED <<group, pc, windows, members, signatures, toEmit, handedOver, excused,
                   forgotten, discarded, strikes>>

Expire(c) ==
    /\ c \in sendq /\ Strike("expiry")
    /\ sendq' = sendq \ {c} /\ discarded' = discarded \cup {c}
    /\ UNCHANGED <<group, pc, windows, members, signatures, toEmit, stream, handedOver,
                   excused, forgotten>>

-------------------------------------------------------------------------------
(* A process ends, whichever way: its memory goes with it.                 *)

Exit ==
    /\ Goto("down") /\ joined' = FALSE
    /\ maxTime' = W!NoTime /\ clusters' = <<>> /\ active' = {} /\ closedRecent' = {}
    /\ finalized' = {} /\ corrected' = {} /\ handled' = 0 /\ lateDropped' = 0
    /\ members' = <<>> /\ signatures' = {} /\ toEmit' = {} /\ sendq' = {}
    /\ forgotten' = forgotten \cup UNION {members[c] : c \in active}
    /\ discarded' = discarded \cup sendq \cup {Evidence(g) : g \in toEmit}
    /\ UNCHANGED <<log, committed, stream, handedOver, excused>>

Crash == pc # "down" /\ Strike("crash") /\ Exit /\ UNCHANGED pos

\* SIGTERM: the loop ends at its next test.
Stop ==
    /\ pc = "poll" /\ Strike("stop") /\ Goto("flush")
    /\ UNCHANGED <<group, windows, members, emission, stream, handedOver, excused,
                   forgotten, discarded>>

\* Mutant of Close: the process closes its consumer without the flush.
CloseMutNoFlush == pc = "flush" /\ Exit /\ UNCHANGED <<pos, strikes>>

\* flush(10): the queue is empty, or the time is up.
Close ==
    /\ pc = "flush" /\ Exit /\ UNCHANGED pos
    /\ \/ sendq = {} /\ UNCHANGED strikes
       \/ sendq # {} /\ Strike("expiry")

Restart ==
    /\ pc = "down" /\ Goto("poll")
    /\ UNCHANGED <<group, windows, members, emission, stream, handedOver, excused,
                   forgotten, discarded, strikes>>

-------------------------------------------------------------------------------
(* Correlator.run.                                                         *)

\* poll() returns the next message.
Fetch == pc = "poll" /\ joined /\ pos < Len(log) /\ pos' = pos + 1

Current == log[pos + 1]

\* What CandidateLinker.ingest_finalized may return: groups of the closed clusters.
Answers ==
    {A \in SUBSET (SUBSET finalized' \ ({{}} \cup signatures)) :
        \A g, h \in A : g # h => g \cap h = {}}

\* Mutant of HandOver: of the clusters that closed only one reaches the linker.
HandOverMutOne(emit, next) ==
    LET closing == finalized' \ finalized IN
    /\ handedOver' = IF closing = {} THEN handedOver
                     ELSE LET c == CHOOSE d \in closing : \A e \in closing : d <= e
                          IN  [o \in Offsets |->
                                handedOver[o] + (IF o \in members'[c] THEN 1 ELSE 0)]
    /\ toEmit' \in (IF closing = {} THEN {{}} ELSE Answers)
    /\ signatures' = signatures \cup toEmit'
    /\ Goto(IF toEmit' = {} THEN next ELSE emit)

\* _drain_finalized, after pop_finalized: the linker is called if clusters closed, and
\* remembers what it returns before any of it is sent.
HandOver(emit, next) ==
    LET closing == finalized' \ finalized IN
    /\ handedOver' = [o \in Offsets |->
                        handedOver[o] + Cardinality({c \in closing : o \in members'[c]})]
    /\ toEmit' \in (IF closing = {} THEN {{}} ELSE Answers)
    /\ signatures' = signatures \cup toEmit'
    /\ Goto(IF toEmit' = {} THEN next ELSE emit)

\* Where the event at this offset went: the cluster that changed, or a new one.
Took(o) ==
    [c \in 1 .. Len(clusters') |->
        CASE c > Len(clusters) -> {o}
          [] c <= Len(clusters) /\ clusters'[c] # clusters[c] -> members[c] \cup {o}
          [] OTHER -> members[c]]

\* _handle_payload and the drain of the "finally".
PollEvent ==
    /\ Fetch /\ Current \in Events
    /\ W!Handle(Current.service, Current.time)
    /\ members' = Took(pos + 1)
    /\ excused' = IF lateDropped' = lateDropped THEN excused ELSE excused \cup {pos + 1}
    /\ HandOver("emit", "commit")
    /\ UNCHANGED <<log, committed, joined, sendq, stream, forgotten, discarded, strikes>>

\* A ValidationError, or CHAOS_CORRELATOR_DROP_RATE: nothing is handled, and drained.
PollSkipped ==
    /\ Fetch /\ Current # Undecodable
    /\ \/ Current = Invalid /\ UNCHANGED strikes
       \/ Current # Invalid /\ Strike("chaos")
    /\ excused' = excused \cup {pos + 1}
    /\ W!IdleDrain /\ UNCHANGED members
    /\ HandOver("emit", "commit")
    /\ UNCHANGED <<log, committed, joined, sendq, stream, forgotten, discarded>>

\* deserialize_json is in front of the "try": no drain, no commit and no flush.
PollUndecodable == Fetch /\ Current = Undecodable /\ Exit /\ UNCHANGED strikes

\* poll() returns None.
PollNothing ==
    /\ pc = "poll"
    /\ W!IdleDrain /\ UNCHANGED members
    /\ HandOver("idle_emit", "poll")
    /\ UNCHANGED <<group, sendq, stream, excused, forgotten, discarded, strikes>>

\* _emit_candidates: one candidate enters the producer queue, or the fourth attempt
\* raises and nothing catches it: the process ends without commit and flush.
Emit ==
    /\ pc \in {"emit", "idle_emit"}
    /\ \/ \E g \in toEmit :
            /\ toEmit' = toEmit \ {g} /\ sendq' = sendq \cup {Evidence(g)}
            /\ Goto(CASE toEmit' # {} -> pc
                      [] toEmit' = {} /\ pc = "emit" -> "commit"
                      [] toEmit' = {} /\ pc = "idle_emit" -> "poll")
            /\ UNCHANGED <<group, windows, members, signatures, stream, handedOver,
                           excused, forgotten, discarded, strikes>>
       \/ Strike("send") /\ Exit /\ UNCHANGED pos

\* Mutant of Commit: the commit is left to a background thread that may not get to it.
CommitMutAsync ==
    /\ pc = "commit" /\ Goto("poll")
    /\ committed' \in {committed, IF joined THEN pos ELSE committed}
    /\ UNCHANGED <<log, joined, pos, windows, members, emission, stream, handedOver,
                   excused, forgotten, discarded, strikes>>

\* commit_with_retry: accepted from the owner of the partition, or its error is logged.
Commit ==
    /\ pc = "commit" /\ Goto("poll")
    /\ \/ joined /\ committed' = pos /\ UNCHANGED strikes
       \/ ~joined /\ UNCHANGED <<committed, strikes>>
       \/ joined /\ Strike("commit") /\ UNCHANGED committed
    /\ UNCHANGED <<log, joined, pos, windows, members, emission, stream, handedOver,
                   excused, forgotten, discarded>>

Next ==
    \/ \E m \in Events \cup {Invalid, Undecodable} : Publish(m)
    \/ Join \/ Leave \/ Elsewhere
    \/ \E c \in sendq : Deliver(c) \/ Expire(c)
    \/ Crash \/ Stop \/ Close \/ Restart
    \/ PollEvent \/ PollSkipped \/ PollUndecodable \/ PollNothing \/ Emit \/ Commit

Spec == Init /\ [][Next]_vars

-------------------------------------------------------------------------------
Candidates == SUBSET Offsets

TypeOK ==
    /\ log \in Seq(Events \cup {Invalid, Undecodable}) /\ Len(log) <= MaxLog
    /\ committed \in 0 .. Len(log) /\ pos \in 0 .. Len(log)
    /\ joined \in BOOLEAN /\ pc \in Steps
    /\ W!TypeOK
    /\ members \in Seq(SUBSET (1 .. Len(log))) /\ Len(members) = Len(clusters)
    /\ signatures \subseteq SUBSET finalized /\ toEmit \subseteq signatures
    /\ sendq \subseteq Candidates /\ stream \subseteq Candidates
    /\ handedOver \in [Offsets -> Nat]
    /\ excused \subseteq Offsets /\ forgotten \subseteq Offsets
    /\ discarded \subseteq Candidates /\ struck \subseteq Faults /\ faults \in 0 .. MaxFaults

\* The messages that the owner of the partition is done with.
Position == CASE ~joined -> committed [] joined /\ pc \in Handling -> pos - 1 [] OTHER -> pos

Group == INSTANCE ConsumerGroup WITH published <- Len(log), position <- Position

\* The correlator consumes its partition as a consumer group must: no message is passed
\* over and no commit runs ahead, although an error while emitting leaves run() between
\* the drain and the commit and a message that is not JSON leaves it in front of both.
AtLeastOnce == Group!Spec

\* A restart repeats messages, never evidence: an event is in at most one of the clusters
\* that the linkers of all processes were given, as a message closes windows but never
\* the one its own event is in.  Only a failed commit or a process expelled in the middle
\* of a message can have an event counted twice.
HandedOverOnce ==
    struck \cap {"commit", "expel"} = {} => \A o \in Offsets : handedOver[o] <= 1

\* What is lost behind the committed offset is what was in open windows when a process
\* ended: every other event is in an open window or reached a linker, unless it was late,
\* dropped by the chaos switch or handled by another process.
OnlyOpenWindowsLost ==
    \A o \in 1 .. committed : log[o] \in Events =>
        \/ handedOver[o] > 0 \/ o \in excused \cup forgotten
        \/ \E c \in active : o \in members[c]

\* And it is recent: a window that a restart forgets ended less than CloseAfter before the
\* watermark (45 seconds as shipped), however long it had been growing.
ForgetsOnlyRecent ==
    \A c \in active : clusters[c].last > W!Watermark(maxTime) - CloseAfter

\* A candidate that a linker returned is sent or on its way, also when the process is
\* stopped: only a crash, a failed send, an expired message or a message that is not JSON
\* makes it vanish (for good: the linker's memory of it goes with the process).
StopLosesNoCandidate ==
    discarded # {} =>
        struck \cap {"crash", "send", "expiry"} # {} \/ \E o \in 1 .. Len(log) : log[o] = Undecodable
===============================================================================
