---------------------------- MODULE CorrelatorProofs ---------------------------
(***************************************************************************)
(* Theorems about Correlator, for any services, settings, event times, log *)
(* and faults.                                                             *)
(***************************************************************************)
EXTENDS Correlator, FiniteSetTheorems, TLAPS

\* A step lets one fault strike, or leaves both variables about them alone.
LEMMA StepStrikes ==
    ASSUME [Next]_vars
    PROVE  UNCHANGED strikes \/ \E f \in Faults : Strike(f)
BY DEF Next, vars, Publish, Join, Leave, Elsewhere, Deliver, Expire, Crash, Stop, Close,
       Restart, PollEvent, PollSkipped, PollUndecodable, PollNothing, Emit, Commit, Faults

LEMMA StrikeType ==
    ASSUME struck \subseteq Faults, faults \in 0 .. MaxFaults,
           UNCHANGED strikes \/ \E f \in Faults : Strike(f)
    PROVE  struck' \subseteq Faults /\ faults' \in 0 .. MaxFaults
BY BoundsAssumption DEF Strike, strikes

LEMMA StruckGrows == [Next]_vars => struck \subseteq struck'
BY StepStrikes DEF Strike, strikes

\* What the refinement needs to know of the process.
ProcessType ==
    /\ log \in Seq(Events \cup {Invalid, Undecodable})
    /\ committed \in 0 .. Len(log) /\ pos \in 0 .. Len(log)
    /\ joined \in BOOLEAN /\ pc \in Steps
    /\ pc \in Handling => pos >= 1

\* The steps that only the windows, the linker and the producer see.
LEMMA ProcessCases ==
    ASSUME [Next]_vars
    PROVE  \/ UNCHANGED <<group, pc>>
           \/ \E m \in Events \cup {Invalid, Undecodable} : Publish(m)
           \/ Join \/ Leave \/ Elsewhere \/ Restart \/ Commit
           \/ /\ Exit /\ UNCHANGED <<log, committed, pos>> /\ joined' = FALSE /\ pc' = "down"
           \/ UNCHANGED <<group>> /\ pc \notin Handling /\ pc' \in {"flush", "poll", "idle_emit"}
           \/ UNCHANGED <<group>> /\ pc = "emit" /\ pc' \in {"emit", "commit"}
           \/ /\ Fetch /\ UNCHANGED <<log, committed, joined>> /\ pc' \in {"emit", "commit"}
           \/ /\ Fetch /\ Exit /\ UNCHANGED <<log, committed>> /\ joined' = FALSE /\ pc' = "down"
<1>1. CASE UNCHANGED vars \/ \E c \in sendq : Deliver(c) \/ Expire(c)
  BY <1>1 DEF vars, group, Deliver, Expire
<1>2. CASE Crash \/ Close \/ (Emit /\ Strike("send") /\ Exit)
  BY <1>2 DEF Crash, Close, Exit, Goto, Emit
<1>3. CASE Stop \/ PollNothing
  BY <1>3 DEF Stop, PollNothing, HandOver, Goto, Handling
<1>4. CASE Emit /\ ~ Exit
  BY <1>4 DEF Emit, Goto, Handling
<1>5. CASE PollEvent \/ PollSkipped
  BY <1>5 DEF PollEvent, PollSkipped, HandOver, Goto
<1>6. CASE PollUndecodable
  BY <1>6 DEF PollUndecodable, Exit, Goto
<1>7. Emit => (Strike("send") /\ Exit) \/ ~ Exit
  BY DEF Emit, Exit, Goto
<1>. QED
  BY <1>1, <1>2, <1>3, <1>4, <1>5, <1>6, <1>7 DEF Next

LEMMA InitProcess == Init => ProcessType
<1> SUFFICES ASSUME Init PROVE ProcessType
  OBVIOUS
<1>1. log = <<>> /\ committed = 0 /\ joined = FALSE /\ pos = 0 /\ pc = "poll"
  BY DEF Init
<1>2. log \in Seq(Events \cup {Invalid, Undecodable}) /\ Len(log) = 0
  BY <1>1
<1>3. committed \in 0 .. Len(log) /\ pos \in 0 .. Len(log)
  BY <1>1, <1>2
<1>4. joined \in BOOLEAN /\ pc \in Steps /\ pc \notin Handling
  BY <1>1 DEF Steps, Handling
<1>. QED
  BY <1>2, <1>3, <1>4 DEF ProcessType

LEMMA NextProcess == ProcessType /\ [Next]_vars => ProcessType'
<1> SUFFICES ASSUME ProcessType, [Next]_vars PROVE ProcessType'
  OBVIOUS
<1> USE DEF ProcessType, Steps, Handling, group
<1>1. ASSUME NEW m \in Events \cup {Invalid, Undecodable}, Publish(m) PROVE ProcessType'
  BY <1>1 DEF Publish
<1>2. CASE Fetch /\ UNCHANGED <<log, committed>> /\ pc' \in {"emit", "commit", "down"}
           /\ joined' \in BOOLEAN
  BY <1>2 DEF Fetch
<1>3. CASE Join
  BY <1>3 DEF Join
<1>4. CASE Leave
  BY <1>4 DEF Leave
<1>5. CASE Elsewhere
  BY <1>5 DEF Elsewhere
<1>6. CASE Restart
  BY <1>6 DEF Restart, Goto
<1>7. CASE Commit
  BY <1>7 DEF Commit, Goto
<1>. QED
  BY <1>1, <1>2, <1>3, <1>4, <1>5, <1>6, <1>7, ProcessCases

-------------------------------------------------------------------------------
(* The correlator implements ConsumerGroup.                                *)

\* Where the owner of the partition stands, in this state and in the next.
LEMMA PositionCases ==
    ASSUME joined \in BOOLEAN, joined' \in BOOLEAN
    PROVE  /\ Position = IF ~ joined THEN committed
                         ELSE IF pc \in Handling THEN pos - 1 ELSE pos
           /\ Position' = IF ~ joined' THEN committed'
                          ELSE IF pc' \in Handling THEN pos' - 1 ELSE pos'
  BY DEF Position

LEMMA NextRefines == ProcessType /\ [Next]_vars => [Group!Next]_(Group!vars)
<1> SUFFICES ASSUME ProcessType, [Next]_vars PROVE [Group!Next]_(Group!vars)
  OBVIOUS
<1>0. /\ joined \in BOOLEAN /\ joined' \in BOOLEAN /\ Len(log) \in Nat
      /\ committed \in 0 .. Len(log) /\ pos \in 0 .. Len(log) /\ (pc \in Handling => pos >= 1)
      /\ log \in Seq(Events \cup {Invalid, Undecodable})
  BY NextProcess DEF ProcessType
<1>1. CASE UNCHANGED <<log, committed>> /\ Position' \in {Position, committed}
  <2>1. UNCHANGED <<Len(log), committed>>
    BY <1>1
  <2>2. CASE Position' = Position
    BY <2>1, <2>2 DEF Group!vars
  <2>3. CASE Position' = committed
    BY <2>1, <2>3 DEF Group!Next, Group!Resume
  <2>. QED
    BY <1>1, <2>2, <2>3
<1>2. ASSUME NEW m \in Events \cup {Invalid, Undecodable}, Publish(m)
      PROVE  [Group!Next]_(Group!vars)
  <2>1. Len(log') = Len(log) + 1 /\ UNCHANGED <<committed, joined, pos, pc>>
    BY <1>0, <1>2 DEF Publish
  <2>2. Position' = Position
    BY <1>0, <2>1, PositionCases
  <2>. QED
    BY <2>1, <2>2 DEF Group!Next, Group!Publish
<1>3. CASE Elsewhere
  <2>1. /\ ~ joined /\ committed < Len(log) /\ committed' = committed + 1
        /\ UNCHANGED <<log, joined>>
    BY <1>3 DEF Elsewhere
  <2>2. Position = committed /\ Position' = committed + 1
    BY <1>0, <2>1, PositionCases
  <2>. QED
    BY <2>1, <2>2 DEF Group!Next, Group!Finish
<1>4. CASE Commit /\ joined
  <2>1. /\ pc \in Handling /\ pc' \notin Handling /\ UNCHANGED <<log, joined, pos>>
        /\ committed' \in {committed, pos}
    BY <1>4 DEF Commit, Goto, Handling
  <2>2. Position = pos - 1 /\ Position' = pos
    BY <1>0, <1>4, <2>1, PositionCases
  <2>3. /\ Position < Len(log) /\ Position' = Position + 1
        /\ committed' \in {committed, Position + 1}
    BY <1>0, <2>1, <2>2
  <2>. QED
    BY <2>1, <2>3 DEF Group!Next, Group!Finish
<1>5. CASE Commit /\ ~ joined
  <2>1. UNCHANGED <<log, joined, committed>>
    BY <1>5 DEF Commit
  <2>. QED
    BY <1>0, <1>1, <1>5, <2>1, PositionCases
<1>6. CASE Fetch /\ UNCHANGED <<log, committed>>
           /\ \/ UNCHANGED joined /\ pc' \in {"emit", "commit"}
              \/ joined' = FALSE
  <2>1. pc \notin Handling /\ joined /\ pos' = pos + 1
    BY <1>6 DEF Fetch, Handling
  <2>2. CASE UNCHANGED joined /\ pc' \in Handling
    <3>1. Position = pos /\ Position' = pos' - 1
      BY <1>0, <2>1, <2>2, PositionCases
    <3>2. Position' = Position
      BY <1>0, <2>1, <3>1
    <3>. QED
      BY <1>1, <1>6, <3>2
  <2>3. CASE joined' = FALSE
    BY <1>0, <1>1, <1>6, <2>3, PositionCases
  <2>. QED
    BY <1>6, <2>2, <2>3 DEF Handling
<1>7. CASE Join \/ Leave \/ Restart
  BY <1>0, <1>1, <1>7, PositionCases DEF Join, Leave, Restart, Goto, Handling, group
<1>8. CASE UNCHANGED <<log, committed, pos>>
           /\ \/ UNCHANGED joined /\ (pc \in Handling <=> pc' \in Handling)
              \/ joined' = FALSE
  BY <1>0, <1>1, <1>8, PositionCases
<1>. QED
  BY <1>2, <1>3, <1>4, <1>5, <1>6, <1>7, <1>8, ProcessCases DEF group, Handling

\* The correlator consumes the events at least once: every step is a step of
\* ConsumerGroup, or one that the group does not see, whichever way the process ends.
THEOREM CorrelatorConsumesAtLeastOnce == Spec => AtLeastOnce
<1>1. Init => Group!Init
  <2>1. Init => Len(log) = 0 /\ committed = 0 /\ Position = committed
    BY DEF Init, Position
  <2>. QED
    BY <2>1 DEF Group!Init
<1>. QED
  BY <1>1, InitProcess, NextProcess, NextRefines, PTL DEF Spec, AtLeastOnce, Group!Spec

\* A step of the group keeps the committed offset between itself and the position.
LEMMA GroupStep ==
    ASSUME ProcessType, ProcessType', Group!NeverAhead, [Group!Next]_(Group!vars)
    PROVE  Group!NeverAhead' /\ committed <= committed'
<1>1. /\ Len(log) \in Nat /\ committed \in Nat /\ Position \in Int
      /\ Len(log') \in Nat /\ committed' \in Nat /\ Position' \in Int
  BY PositionCases DEF ProcessType
<1>2. committed <= Position /\ Position <= Len(log)
  BY DEF Group!NeverAhead
<1>3. \/ /\ committed' = committed /\ Position' = Position
         /\ Len(log') \in {Len(log), Len(log) + 1}
      \/ /\ Position < Len(log) /\ Position' = Position + 1 /\ Len(log') = Len(log)
         /\ committed' \in {committed, Position + 1}
      \/ committed' = committed /\ Position' = committed /\ Len(log') = Len(log)
  BY DEF Group!Next, Group!Publish, Group!Finish, Group!Resume, Group!vars
<1>. QED
  BY <1>1, <1>2, <1>3 DEF Group!NeverAhead

\* What the correlator commits never runs ahead of the messages that were handled to their
\* end, whichever way the process ends; and no commit is ever taken back.
THEOREM CorrelatorCommitsFollowWork == Spec => []Group!NeverAhead /\ [][committed <= committed']_vars
<1>1. Init => Group!NeverAhead
  <2>1. Init => Len(log) = 0 /\ committed = 0 /\ Position = committed
    BY DEF Init, Position
  <2>. QED
    BY <2>1 DEF Group!NeverAhead
<1>2. ProcessType /\ Group!NeverAhead /\ [Next]_vars =>
          Group!NeverAhead' /\ [committed <= committed']_vars
  BY NextProcess, NextRefines, GroupStep
<1>. QED
  BY <1>1, <1>2, InitProcess, NextProcess, PTL DEF Spec

-------------------------------------------------------------------------------
(* Which ends of a process lose a candidate.                               *)

Blamed ==
    \/ struck \cap {"crash", "send", "expiry"} # {}
    \/ \E o \in 1 .. Len(log) : log[o] = Undecodable

\* Outside of _emit_candidates nothing waits to be sent.
CandidateInv ==
    /\ toEmit # {} => pc \in {"emit", "idle_emit"}
    /\ discarded # {} => Blamed

LEMMA LogGrows ==
    ASSUME ProcessType, [Next]_vars
    PROVE  /\ Len(log') >= Len(log)
           /\ \A o \in 1 .. Len(log) : o \in 1 .. Len(log') /\ log'[o] = log[o]
<1>1. log \in Seq(Events \cup {Invalid, Undecodable}) /\ Len(log) \in Nat
  BY DEF ProcessType
<1>2. log' = log \/ \E m \in Events \cup {Invalid, Undecodable} : log' = Append(log, m)
  BY ProcessCases DEF Publish, Join, Leave, Elsewhere, Restart, Commit, group
<1>. QED
  BY <1>1, <1>2

LEMMA NextCandidate == ProcessType /\ CandidateInv /\ [Next]_vars => CandidateInv'
<1> SUFFICES ASSUME ProcessType, CandidateInv, [Next]_vars PROVE CandidateInv'
  OBVIOUS
<1> USE DEF CandidateInv
<1>0. log \in Seq(Events \cup {Invalid, Undecodable}) /\ Len(log) \in Nat
  BY DEF ProcessType
<1>1. Blamed => Blamed'
  <2>1. struck \subseteq struck'
    BY StruckGrows
  <2>3. Len(log') >= Len(log) /\ \A o \in 1 .. Len(log) : o \in 1 .. Len(log') /\ log'[o] = log[o]
    BY LogGrows
  <2>. QED
    BY <2>1, <2>3 DEF Blamed
<1>2. CASE Crash \/ (Close /\ sendq # {}) \/ (Emit /\ Strike("send"))
           \/ (\E c \in sendq : Expire(c))
  <2>1. Blamed'
    BY <1>2 DEF Crash, Close, Emit, Expire, Strike, Blamed
  <2>2. toEmit' \subseteq toEmit /\ (toEmit' # {} => pc' = pc)
    BY <1>2 DEF Crash, Close, Emit, Expire, Exit, Goto
  <2>. QED
    BY <2>1, <2>2
<1>3. CASE Close /\ sendq = {}
  <2>1. toEmit = {} /\ toEmit' = {} /\ discarded' = discarded
    BY <1>3 DEF Close, Exit
  <2>. QED
    BY <1>1, <2>1
<1>4. CASE PollUndecodable
  <2>1. pos + 1 \in 1 .. Len(log) /\ log[pos + 1] = Undecodable /\ log' = log /\ toEmit' = {}
    BY <1>4 DEF PollUndecodable, Fetch, Current, Exit, ProcessType
  <2>. QED
    BY <2>1 DEF Blamed
<1>5. CASE Emit /\ ~ Strike("send")
  BY <1>1, <1>5 DEF Emit, Goto
<1>6. CASE PollEvent \/ PollSkipped \/ PollNothing
  <2>1. discarded' = discarded /\ (toEmit' # {} => pc' \in {"emit", "idle_emit"})
    BY <1>6 DEF PollEvent, PollSkipped, PollNothing, HandOver, Goto
  <2>. QED
    BY <1>1, <2>1
<1>7. CASE UNCHANGED <<toEmit, discarded>> /\ (UNCHANGED pc \/ pc \notin {"emit", "idle_emit"})
  BY <1>1, <1>7
<1>. QED
  BY <1>2, <1>3, <1>4, <1>5, <1>6, <1>7
  DEF Next, vars, Publish, Join, Leave, Elsewhere, Deliver, Stop, Restart, Commit, emission

\* A candidate that a linker returned vanishes only with a crash, a failed send, an
\* expired message or a message that is not JSON, never when the process is stopped.
THEOREM StopIsSafe == Spec => []StopLosesNoCandidate
<1>1. Init => CandidateInv
  BY DEF Init, CandidateInv
<1>2. CandidateInv => StopLosesNoCandidate
  BY DEF CandidateInv, Blamed, StopLosesNoCandidate
<1>. QED
  BY <1>1, <1>2, InitProcess, NextProcess, NextCandidate, PTL DEF Spec

-------------------------------------------------------------------------------
(* Windows in the process: what module WindowsProofs proves of them holds  *)
(* here for as long as a process lives, and again after each restart.      *)

WP == INSTANCE WindowsProofs WITH MaxEvents <- MaxLog

LEMMA WindowEvent ==
    ASSUME PollEvent
    PROVE  /\ Current.service \in Services /\ Current.time \in Times
           /\ WP!Handle(Current.service, Current.time)
<1>1. Current.service \in Services /\ Current.time \in Times
  BY DEF PollEvent, Events
<1>2. WP!Handle(Current.service, Current.time)
  BY DEF PollEvent, W!Handle, WP!Handle, W!Observed, WP!Observed, W!Watermark,
    WP!Watermark, W!IngestLate, WP!IngestLate, W!Ingest, WP!Ingest, W!Drain, WP!Drain,
    W!Overdue, WP!Overdue, W!Nearest, WP!Nearest, W!Picked, WP!Picked, W!Near, WP!Near,
    W!AddEvent, WP!AddEvent, W!NewCluster, WP!NewCluster, W!Extended, WP!Extended,
    W!Dist, WP!Dist
<1>. QED
  BY <1>1, <1>2

\* Events drain, everything else only drains or leaves the windows alone, an end resets.
LEMMA WindowSteps ==
    ASSUME [Next]_vars
    PROVE  \/ \E s \in Services, t \in Times : WP!Handle(s, t)
           \/ WP!IdleDrain
           \/ UNCHANGED windows
           \/ Exit
<1>1. CASE PollEvent
  BY <1>1, WindowEvent
<1>2. CASE PollSkipped \/ PollNothing
  BY <1>2 DEF PollSkipped, PollNothing, W!IdleDrain, WP!IdleDrain, W!Drain, WP!Drain,
    W!Overdue, WP!Overdue, W!Watermark, WP!Watermark
<1>3. CASE PollUndecodable \/ Crash \/ Close
  BY <1>3 DEF PollUndecodable, Crash, Close
<1>4. CASE Emit
  BY <1>4 DEF Emit
<1>. QED
  BY <1>1, <1>2, <1>3, <1>4
  DEF Next, vars, windows, Publish, Join, Leave, Elsewhere, Deliver, Expire, Stop, Restart,
      Commit

LEMMA FreshWindows == Exit => WP!WindowsInv'
<1> SUFFICES ASSUME Exit PROVE WP!WindowsInv'
  OBVIOUS
<1>1. /\ maxTime' = -1 /\ clusters' = <<>> /\ active' = {} /\ closedRecent' = {}
      /\ finalized' = {} /\ corrected' = {} /\ handled' = 0 /\ lateDropped' = 0
  BY DEF Exit, W!NoTime
<1>. QED
  BY <1>1 DEF WP!WindowsInv, WP!TypeOK, WP!Ids, WP!NoTime

LEMMA NextWindowsHere == WP!WindowsInv /\ [Next]_vars => WP!WindowsInv'
<1> SUFFICES ASSUME WP!WindowsInv, [Next]_vars PROVE WP!WindowsInv'
  OBVIOUS
<1>1. CASE Exit
  BY <1>1, FreshWindows
<1>2. CASE [WP!Next]_(WP!vars)
  BY <1>2, WP!NextWindows, SettingsAssumption, BoundsAssumption
<1>3. UNCHANGED windows => [WP!Next]_(WP!vars)
  BY DEF windows, WP!vars
<1>. QED
  BY <1>1, <1>2, <1>3, WindowSteps DEF WP!Next

LEMMA InitWindowsHere == Init => WP!WindowsInv
<1>1. Init => WP!Init
  BY DEF Init, W!Init, WP!Init, W!NoTime, WP!NoTime
<1>. QED
  BY <1>1, WP!InitWindows, SettingsAssumption, BoundsAssumption

\* A restart forgets only what ended less than CloseAfter before the watermark, for all
\* settings: whatever the order of events, faults and rebalances, each message drains up
\* to the watermark that it leaves.
THEOREM ForgottenIsRecent == Spec => []ForgetsOnlyRecent
<1>2. WP!WindowsInv => ForgetsOnlyRecent
  <2> SUFFICES ASSUME WP!WindowsInv, NEW c \in active
               PROVE  clusters[c].last > W!Watermark(maxTime) - CloseAfter
    BY DEF ForgetsOnlyRecent
  <2>1. maxTime \in Int /\ Lateness \in Int /\ CloseAfter \in Int
    BY SettingsAssumption DEF WP!WindowsInv, WP!TypeOK, WP!NoTime
  <2>2. clusters \in Seq(WP!Clusters) /\ c \in 1 .. Len(clusters)
    BY DEF WP!WindowsInv, WP!TypeOK, WP!Ids
  <2>3. clusters[c] \in WP!Clusters
    BY <2>2
  <2>4. clusters[c].last \in Nat
    BY <2>3 DEF WP!Clusters
  <2>5. clusters[c].last + CloseAfter > maxTime - Lateness
    BY DEF WP!WindowsInv, WP!Watermark
  <2>. QED
    BY <2>1, <2>4, <2>5 DEF W!Watermark
<1>. QED
  BY <1>2, InitWindowsHere, NextWindowsHere, PTL DEF Spec

-------------------------------------------------------------------------------
(* Where the events are.                                                   *)

StreamType == WP!WindowsInv /\ handedOver \in [Offsets -> Nat] /\ Len(log) <= MaxLog

\* The clusters that a step hands to the linker and that took the event at o.
Closing(o) == {c \in finalized' \ finalized : o \in members'[c]}

\* A drain only moves clusters from the open ones to those handed over.
LEMMA DrainMoves ==
    ASSUME WP!WindowsInv, W!Drain
    PROVE  active \cup (Len(clusters) + 1 .. Len(clusters')) = active' \cup (finalized' \ finalized)
<1>1. active = (1 .. Len(clusters)) \ finalized /\ finalized \subseteq 1 .. Len(clusters)
      /\ Len(clusters) \in Nat
  BY DEF WP!WindowsInv, WP!TypeOK, WP!Ids
<1>. QED
  BY <1>1 DEF W!Drain

LEMMA PollsDrain == PollEvent \/ PollSkipped \/ PollNothing => W!Drain
  BY DEF PollEvent, PollSkipped, PollNothing, W!Handle, W!IdleDrain

LEMMA Counted ==
    ASSUME StreamType, WP!WindowsInv', PollEvent \/ PollSkipped \/ PollNothing
    PROVE  /\ handedOver' \in [Offsets -> Nat]
           /\ \A o \in Offsets : /\ IsFiniteSet(Closing(o)) /\ Cardinality(Closing(o)) \in Nat
                               /\ handedOver'[o] = handedOver[o] + Cardinality(Closing(o))
<1>1. ASSUME NEW o \in Offsets
      PROVE  IsFiniteSet(Closing(o)) /\ Cardinality(Closing(o)) \in Nat
  <2>1. finalized' \subseteq 1 .. Len(clusters') /\ Len(clusters') \in Nat
    BY DEF WP!WindowsInv, WP!TypeOK, WP!Ids
  <2>2. IsFiniteSet(1 .. Len(clusters'))
    BY <2>1, FS_Interval
  <2>3. Closing(o) \subseteq 1 .. Len(clusters')
    BY <2>1 DEF Closing
  <2>. QED
    BY <2>2, <2>3, FS_Subset, FS_CardinalityType
<1>2. handedOver' = [o \in Offsets |-> handedOver[o] + Cardinality(Closing(o))]
  BY DEF PollEvent, PollSkipped, PollNothing, HandOver, Closing
<1>3. handedOver \in [Offsets -> Nat]
  BY DEF StreamType
<1>. QED
  BY <1>1, <1>2, <1>3

\* What PollEvent does to the members of the clusters.
LEMMA MembersGrow ==
    ASSUME WP!WindowsInv, PollEvent
    PROVE  /\ \A c \in 1 .. Len(clusters) :
                 /\ c \in 1 .. Len(clusters')
                 /\ members'[c] = IF clusters'[c] = clusters[c] THEN members[c]
                                 ELSE members[c] \cup {pos + 1}
           /\ \A n \in Len(clusters) + 1 .. Len(clusters') : members'[n] = {pos + 1}
<1>1. /\ members' = Took(pos + 1) /\ \E s \in Services, t \in Times : WP!Handle(s, t)
  BY WindowEvent DEF PollEvent
<1>2. Len(clusters) \in Nat /\ Len(clusters') \in Nat /\ Len(clusters') >= Len(clusters)
  BY <1>1, WP!HandleGrows, SettingsAssumption, BoundsAssumption
  DEF WP!ClustersGrow, WP!WindowsInv, WP!TypeOK
<1>3. \A c \in 1 .. Len(clusters) :
        c \in 1 .. Len(clusters') /\ c <= Len(clusters) /\ ~ (c > Len(clusters))
  BY <1>2
<1>4. \A n \in Len(clusters) + 1 .. Len(clusters') : n \in 1 .. Len(clusters') /\ n > Len(clusters)
  BY <1>2
<1>5. ASSUME NEW c \in 1 .. Len(clusters)
      PROVE  members'[c] = IF clusters'[c] = clusters[c] THEN members[c]
                           ELSE members[c] \cup {pos + 1}
  BY <1>1, <1>3, <1>5 DEF Took
<1>6. ASSUME NEW n \in Len(clusters) + 1 .. Len(clusters') PROVE members'[n] = {pos + 1}
  BY <1>1, <1>4, <1>6 DEF Took
<1>. QED
  BY <1>3, <1>5, <1>6

Polls == PollEvent \/ PollSkipped \/ PollNothing

\* Between polls nothing reaches a linker, and clusters only go with their process.
LEMMA BetweenPolls ==
    ASSUME [Next]_vars, ~ Polls
    PROVE  /\ handedOver' = handedOver /\ excused \subseteq excused'
           /\ \/ UNCHANGED <<active, members, clusters, forgotten>>
              \/ Exit
<1>1. CASE Crash \/ Close \/ PollUndecodable
  BY <1>1 DEF Crash, Close, PollUndecodable, Exit
<1>2. CASE Emit
  <2>1. CASE Exit
    BY <2>1 DEF Exit
  <2>2. CASE ~ Exit
    BY <1>2, <2>2 DEF Emit, windows
  <2>. QED
    BY <2>1, <2>2
<1>. QED
  BY <1>1, <1>2
  DEF Polls, Next, vars, windows, Publish, Join, Leave, Elsewhere, Deliver, Expire, Stop,
      Restart, Commit

LEMMA InitStream == Init => StreamType
<1> SUFFICES ASSUME Init PROVE StreamType
  OBVIOUS
<1>1. WP!WindowsInv
  BY InitWindowsHere
<1>2. log = <<>> /\ handedOver = [o \in Offsets |-> 0] /\ MaxLog \in Nat
  BY BoundsAssumption DEF Init
<1>3. Len(log) <= MaxLog
  BY <1>2
<1>. QED
  BY <1>1, <1>2, <1>3 DEF StreamType

LEMMA NextStream == ProcessType /\ StreamType /\ [Next]_vars => StreamType'
<1> SUFFICES ASSUME ProcessType, StreamType, [Next]_vars PROVE StreamType'
  OBVIOUS
<1>1. WP!WindowsInv'
  BY NextWindowsHere DEF StreamType
<1>2. handedOver' \in [Offsets -> Nat]
  BY <1>1, Counted, BetweenPolls DEF Polls, StreamType
<1>3. Len(log') <= MaxLog
  <2>1. CASE \E m \in Events \cup {Invalid, Undecodable} : Publish(m)
    <3>1. Len(log) < MaxLog /\ Len(log) \in Nat /\ Len(log') = Len(log) + 1
      BY <2>1 DEF Publish, ProcessType
    <3>. QED
      BY <3>1, BoundsAssumption
  <2>2. CASE log' = log
    BY <2>2 DEF StreamType
  <2>. QED
    BY <2>1, <2>2, ProcessCases DEF Join, Leave, Elsewhere, Restart, Commit, group
<1>. QED
  BY <1>1, <1>2, <1>3 DEF StreamType

\* The event at o is in an open window, was handed to a linker, or is lost for a reason.
Settled(o) ==
    log[o] \in Events =>
        handedOver[o] > 0 \/ o \in excused \cup forgotten \/ \E c \in active : o \in members[c]

\* What is settled: all that was committed, and all that this process polled.
SettledInv ==
    \A o \in 1 .. Len(log) : o <= committed \/ (joined /\ o <= pos) => Settled(o)

\* An event in a cluster that is open, or that this step opened, is handed over or stays.
LEMMA KeptByDrain ==
    ASSUME StreamType, WP!WindowsInv', Polls, NEW o \in Offsets,
           NEW c \in active \cup (Len(clusters) + 1 .. Len(clusters')), o \in members'[c]
    PROVE  handedOver'[o] > 0 \/ \E d \in active' : o \in members'[d]
<1>1. c \in active' \/ c \in finalized' \ finalized
  BY DrainMoves, PollsDrain DEF Polls, StreamType
<1>2. CASE c \in finalized' \ finalized
  <2>1. c \in Closing(o)
    BY <1>2 DEF Closing
  <2>2. /\ IsFiniteSet(Closing(o)) /\ Cardinality(Closing(o)) \in Nat
        /\ handedOver'[o] = handedOver[o] + Cardinality(Closing(o)) /\ handedOver[o] \in Nat
    BY Counted DEF Polls, StreamType
  <2>3. Cardinality(Closing(o)) # 0
    BY <2>1, <2>2, FS_EmptySet
  <2>. QED
    BY <2>2, <2>3
<1>. QED
  BY <1>1, <1>2

LEMMA SettledStays ==
    ASSUME ProcessType, StreamType, [Next]_vars, NEW o \in 1 .. Len(log), Settled(o)
    PROVE  Settled(o)'
<1>0. /\ o \in Offsets /\ log'[o] = log[o] /\ WP!WindowsInv' /\ WP!WindowsInv
      /\ handedOver \in [Offsets -> Nat]
  BY LogGrows, NextWindowsHere, BoundsAssumption DEF ProcessType, StreamType, Offsets
<1>1. CASE ~ Polls
  <2>1. CASE UNCHANGED <<active, members, forgotten>>
    BY <1>0, <1>1, <2>1, BetweenPolls DEF Settled
  <2>2. CASE Exit
    <3>1. forgotten' = forgotten \cup UNION {members[c] : c \in active} /\ UNCHANGED excused
      BY <2>2 DEF Exit
    <3>. QED
      BY <1>0, <1>1, <3>1, BetweenPolls DEF Settled
  <2>. QED
    BY <1>1, <2>1, <2>2, BetweenPolls
<1>2. CASE Polls
  <2>1. excused \subseteq excused' /\ forgotten' = forgotten
    BY <1>2 DEF Polls, PollEvent, PollSkipped, PollNothing
  <2>2. handedOver[o] > 0 => handedOver'[o] > 0
    <3>1. /\ handedOver'[o] = handedOver[o] + Cardinality(Closing(o))
          /\ handedOver[o] \in Nat /\ Cardinality(Closing(o)) \in Nat
      BY <1>0, <1>2, Counted DEF Polls
    <3>. QED
      BY <3>1
  <2>3. ASSUME NEW c \in active, o \in members[c] PROVE o \in members'[c]
    <3>1. CASE PollEvent
      <4>1. c \in 1 .. Len(clusters)
        BY <1>0 DEF WP!WindowsInv, WP!TypeOK, WP!Ids
      <4>. QED
        BY <1>0, <2>3, <3>1, <4>1, MembersGrow
    <3>2. CASE PollSkipped \/ PollNothing
      BY <2>3, <3>2 DEF PollSkipped, PollNothing
    <3>. QED
      BY <1>2, <3>1, <3>2 DEF Polls
  <2>4. ASSUME NEW c \in active, o \in members[c]
        PROVE  handedOver'[o] > 0 \/ \E d \in active' : o \in members'[d]
    BY <1>0, <1>2, <2>3, <2>4, KeptByDrain
  <2>. QED
    BY <1>0, <2>1, <2>2, <2>4 DEF Settled
<1>. QED
  BY <1>1, <1>2

\* The event that is polled is late, or in the cluster that it touched.
LEMMA PolledIsSettled ==
    ASSUME ProcessType, StreamType, [Next]_vars, PollEvent \/ PollSkipped,
           NEW o \in 1 .. Len(log'), o = pos + 1
    PROVE  Settled(o)'
<1>0. /\ o \in Offsets /\ WP!WindowsInv' /\ WP!WindowsInv
  BY NextWindowsHere, BoundsAssumption
  DEF ProcessType, StreamType, Offsets, PollEvent, PollSkipped, Fetch
<1>1. CASE PollSkipped
  BY <1>1 DEF PollSkipped, Settled
<1>2. CASE PollEvent
  <2>1. /\ Current.service \in Services /\ Current.time \in Times
        /\ WP!Handle(Current.service, Current.time)
    BY <1>2, WindowEvent
  <2>2. CASE lateDropped' # lateDropped
    BY <1>2, <2>2 DEF PollEvent, Settled
  <2>3. CASE \E c \in active \cup (Len(clusters) + 1 .. Len(clusters')) : WP!Touched(c)
    <3>1. PICK c \in active \cup (Len(clusters) + 1 .. Len(clusters')) : WP!Touched(c)
      BY <2>3
    <3>2. o \in members'[c]
      BY <1>0, <1>2, <3>1, MembersGrow DEF WP!Touched, WP!Ids
    <3>3. handedOver'[o] > 0 \/ \E d \in active' : o \in members'[d]
      BY <1>0, <1>2, <3>1, <3>2, KeptByDrain DEF Polls
    <3>. QED
      BY <3>3 DEF Settled
  <2>4. \/ lateDropped' # lateDropped
        \/ \E c \in active \cup (Len(clusters) + 1 .. Len(clusters')) : WP!Touched(c)
    BY <1>0, <2>1, WP!OneTouched, SettingsAssumption, BoundsAssumption
  <2>. QED
    BY <2>2, <2>3, <2>4
<1>. QED
  BY <1>1, <1>2

\* What a step adds to the messages that must be settled.
LEMMA NewlyCovered ==
    ASSUME ProcessType, [Next]_vars, NEW o \in 1 .. Len(log'),
           o <= committed' \/ (joined' /\ o <= pos')
    PROVE  \/ o \in 1 .. Len(log) /\ (o <= committed \/ (joined /\ o <= pos))
           \/ o = pos + 1 /\ (PollEvent \/ PollSkipped)
           \/ o \in excused'
<1>0. /\ log \in Seq(Events \cup {Invalid, Undecodable}) /\ Len(log) \in Nat
      /\ committed \in 0 .. Len(log) /\ pos \in 0 .. Len(log)
  BY DEF ProcessType
<1>1. CASE \E m \in Events \cup {Invalid, Undecodable} : Publish(m)
  BY <1>0, <1>1 DEF Publish
<1>2. CASE Join
  BY <1>0, <1>2 DEF Join
<1>3. CASE Elsewhere
  BY <1>0, <1>3 DEF Elsewhere
<1>4. CASE Commit
  BY <1>0, <1>4 DEF Commit
<1>5. CASE PollEvent \/ PollSkipped
  <2>1. /\ joined /\ pos' = pos + 1 /\ UNCHANGED <<log, committed, joined>>
    BY <1>5 DEF PollEvent, PollSkipped, Fetch
  <2>. QED
    BY <1>0, <1>5, <2>1
<1>6. CASE UNCHANGED <<log, committed>> /\ (joined' = FALSE \/ UNCHANGED <<joined, pos>>)
  BY <1>0, <1>6
<1>7. CASE Emit \/ PollUndecodable \/ Crash \/ Close
  <2>1. Exit => UNCHANGED <<log, committed>> /\ joined' = FALSE
    BY DEF Exit
  <2>2. Exit \/ UNCHANGED group
    BY <1>7 DEF Emit, PollUndecodable, Crash, Close
  <2>. QED
    BY <1>6, <2>1, <2>2 DEF group
<1>8. CASE Leave
  BY <1>6, <1>8 DEF Leave
<1>9. CASE UNCHANGED group
  BY <1>6, <1>9 DEF group
<1>. QED
  BY <1>1, <1>2, <1>3, <1>4, <1>5, <1>7, <1>8, <1>9
  DEF Next, vars, Deliver, Expire, Stop, Restart, PollNothing

\* What is lost behind the committed offset was in an open window when a process ended,
\* for all settings, logs and faults, wherever the process was when it ended.
THEOREM NothingElseIsLost == Spec => []OnlyOpenWindowsLost
<1>1. Init => SettledInv
  BY DEF Init, SettledInv
<1>2. ProcessType /\ StreamType /\ SettledInv /\ [Next]_vars => SettledInv'
  <2> SUFFICES ASSUME ProcessType, StreamType, SettledInv, [Next]_vars,
                      NEW o \in 1 .. Len(log'), o <= committed' \/ (joined' /\ o <= pos')
               PROVE  Settled(o)'
    BY DEF SettledInv
  <2>1. CASE o \in 1 .. Len(log) /\ (o <= committed \/ (joined /\ o <= pos))
    BY <2>1, SettledStays DEF SettledInv
  <2>2. CASE o = pos + 1 /\ (PollEvent \/ PollSkipped)
    BY <2>2, PolledIsSettled
  <2>3. CASE o \in excused'
    BY <2>3 DEF Settled
  <2>. QED
    BY <2>1, <2>2, <2>3, NewlyCovered
<1>3. ProcessType /\ SettledInv => OnlyOpenWindowsLost
  <2> SUFFICES ASSUME ProcessType, SettledInv, NEW o \in 1 .. committed PROVE Settled(o)
    BY DEF OnlyOpenWindowsLost, Settled
  <2>1. o \in 1 .. Len(log) /\ o <= committed
    BY DEF ProcessType
  <2>. QED
    BY <2>1 DEF SettledInv
<1>. QED
  BY <1>1, <1>2, <1>3, InitProcess, NextProcess, InitStream, NextStream, PTL DEF Spec

-------------------------------------------------------------------------------
(* No event is handed over twice.                                          *)

Quiet == struck \cap {"commit", "expel"} = {}

\* The last message that this process or the others took.
Reached == IF pc \in Handling THEN pos ELSE committed

InStep ==
    /\ pc \in Handling => joined /\ pos = committed + 1
    /\ joined /\ pc \notin Handling => pos = committed

MembersApart ==
    /\ \A c \in 1 .. Len(clusters) : members[c] \subseteq 1 .. Reached
    /\ \A c, d \in 1 .. Len(clusters) : c # d => members[c] \cap members[d] = {}

CountedOnce ==
    /\ \A o \in Offsets : handedOver[o] <= 1 /\ (handedOver[o] > 0 => o <= committed)
    /\ \A o \in Offsets : \A c \in active : o \in members[c] => handedOver[o] = 0

OnceInv == Quiet => InStep /\ MembersApart /\ CountedOnce

\* Without a failed commit and an expelled process, offsets move message by message.
LEMMA OffsetsMove ==
    ASSUME ProcessType, InStep, Quiet', [Next]_vars
    PROVE  /\ InStep' /\ committed' >= committed
           /\ Exit \/ (Reached' >= Reached /\ Reached' \in Nat)
<1>0. /\ log \in Seq(Events \cup {Invalid, Undecodable}) /\ Len(log) \in Nat
      /\ committed \in 0 .. Len(log) /\ pos \in 0 .. Len(log) /\ joined \in BOOLEAN
  BY DEF ProcessType
<1>1. CASE \E m \in Events \cup {Invalid, Undecodable} : Publish(m)
  BY <1>0, <1>1 DEF Publish, InStep, Reached
<1>2. CASE Join \/ Restart
  BY <1>0, <1>2 DEF Join, Restart, Goto, group, InStep, Reached, Handling
<1>3. CASE Leave
  <2>1. pc = "poll" /\ joined' = FALSE /\ UNCHANGED <<committed, pos, pc>>
    BY <1>3 DEF Leave, Strike, Quiet
  <2>. QED
    BY <1>0, <2>1 DEF InStep, Reached, Handling
<1>4. CASE Elsewhere
  BY <1>0, <1>4 DEF Elsewhere, InStep, Reached
<1>5. CASE Commit
  <2>1. joined /\ pos = committed + 1
    BY <1>5 DEF Commit, InStep, Handling
  <2>2. committed' = pos /\ pc' = "poll" /\ UNCHANGED <<joined, pos>>
    BY <1>5, <2>1 DEF Commit, Strike, Quiet, Goto
  <2>. QED
    BY <1>0, <2>1, <2>2 DEF InStep, Reached, Handling
<1>6. CASE Fetch /\ UNCHANGED <<log, committed, joined>> /\ pc' \in {"emit", "commit"}
  BY <1>0, <1>6 DEF Fetch, InStep, Reached, Handling
<1>7. CASE Exit /\ UNCHANGED committed /\ joined' = FALSE /\ pc' = "down"
  BY <1>0, <1>7 DEF InStep, Handling
<1>8. CASE UNCHANGED group /\ (pc \in Handling <=> pc' \in Handling)
  BY <1>0, <1>8 DEF group, InStep, Reached
<1>. QED
  BY <1>1, <1>2, <1>3, <1>4, <1>5, <1>6, <1>7, <1>8, ProcessCases DEF group, Handling

\* A step that keeps the members keeps them apart.
LEMMA SameMembers ==
    ASSUME MembersApart, UNCHANGED <<clusters, members>>, Reached \in Nat,
           Reached' >= Reached, Reached' \in Nat
    PROVE  MembersApart'
<1>1. 1 .. Reached \subseteq 1 .. Reached'
  OBVIOUS
<1>. QED
  BY <1>1 DEF MembersApart

LEMMA SameCounts ==
    ASSUME CountedOnce, UNCHANGED handedOver, committed \in Nat, committed' \in Nat,
           committed' >= committed, active' = {} \/ UNCHANGED <<active, members>>
    PROVE  CountedOnce'
<1>1. \A o \in Offsets : o \in Nat
  BY BoundsAssumption DEF Offsets
<1>2. \A o \in Offsets : o <= committed => o <= committed'
  BY <1>1
<1>. QED
  BY <1>2 DEF CountedOnce

\* A poll counts an event again only if a cluster that closes has it.
LEMMA PollCounts ==
    ASSUME ProcessType, StreamType, InStep, MembersApart, CountedOnce, Polls,
           WP!WindowsInv', committed' = committed,
           \A c \in finalized' \ finalized : c \in active /\ members'[c] = members[c],
           \A c \in active' : \A o \in members'[c] :
               (c \in active /\ o \in members[c]) \/ o > committed
    PROVE  CountedOnce'
<1>0. /\ \A c \in active : c \in 1 .. Len(clusters) /\ c \notin finalized
      /\ \A c \in active' : c \notin finalized'
      /\ committed \in Nat /\ pc \notin Handling /\ handedOver \in [Offsets -> Nat]
  BY DEF StreamType, WP!WindowsInv, WP!TypeOK, WP!Ids, ProcessType, Polls, PollEvent,
    PollSkipped, PollNothing, Fetch, Handling
<1>1. \A c \in active : \A o \in members[c] : o <= committed
  BY <1>0 DEF MembersApart, Reached
<1>2. ASSUME NEW o \in Offsets
      PROVE  /\ handedOver'[o] <= 1 /\ (handedOver'[o] > 0 => o <= committed)
             /\ \A c \in active' : o \in members'[c] => handedOver'[o] = 0
  <2>1. /\ handedOver'[o] = handedOver[o] + Cardinality(Closing(o)) /\ handedOver[o] \in Nat
    BY <1>0, Counted DEF Polls
  <2>2. CASE Closing(o) = {}
    <3>1. handedOver'[o] = handedOver[o]
      BY <2>1, <2>2, FS_EmptySet
    <3>2. ASSUME NEW c \in active', o \in members'[c] PROVE handedOver[o] = 0
      <4>1. CASE c \in active /\ o \in members[c]
        BY <4>1 DEF CountedOnce
      <4>2. CASE o > committed
        BY <1>0, <2>1, <4>2 DEF CountedOnce
      <4>. QED
        BY <3>2, <4>1, <4>2
    <3>. QED
      BY <3>1, <3>2 DEF CountedOnce
  <2>3. ASSUME NEW d \in Closing(o)
        PROVE  /\ handedOver'[o] = 1 /\ o <= committed
               /\ \A c \in active' : o \notin members'[c]
    <3>1. d \in active /\ o \in members[d] /\ d \in finalized'
      BY <2>3 DEF Closing
    <3>2. handedOver[o] = 0 /\ o <= committed
      BY <1>1, <3>1 DEF CountedOnce
    <3>3. Closing(o) = {d}
      <4>1. \A e \in Closing(o) : e \in active /\ o \in members[e]
        BY DEF Closing
      <4>. QED
        BY <1>0, <2>3, <3>1, <4>1 DEF MembersApart
    <3>4. Cardinality(Closing(o)) = 1
      BY <3>3, FS_Singleton
    <3>5. ASSUME NEW c \in active', o \in members'[c] PROVE FALSE
      <4>1. c # d
        BY <1>0, <3>1
      <4>2. CASE c \in active /\ o \in members[c]
        BY <1>0, <3>1, <4>1, <4>2 DEF MembersApart
      <4>3. CASE o > committed
        BY <1>0, <3>2, <4>3
      <4>. QED
        BY <3>5, <4>2, <4>3
    <3>. QED
      BY <2>1, <3>2, <3>4, <3>5
  <2>. QED
    BY <2>2, <2>3
<1>. QED
  BY <1>2 DEF CountedOnce

LEMMA EventOnce ==
    ASSUME ProcessType, StreamType, [Next]_vars, PollEvent, InStep, InStep', MembersApart,
           CountedOnce
    PROVE  MembersApart' /\ CountedOnce'
<1>0. /\ WP!WindowsInv' /\ WP!WindowsInv /\ Len(clusters) \in Nat /\ Len(clusters') \in Nat
      /\ committed \in Nat /\ pos = committed /\ pc \notin Handling
      /\ pos' = pos + 1 /\ committed' = committed /\ pc' \in Handling
      /\ active \subseteq 1 .. Len(clusters) /\ active' \subseteq 1 .. Len(clusters')
  <2>1. WP!WindowsInv' /\ WP!WindowsInv
    BY NextWindowsHere DEF StreamType
  <2>2. pc = "poll" /\ joined /\ pos' = pos + 1 /\ committed' = committed /\ pc' \in Handling
    BY DEF PollEvent, HandOver, Goto, Fetch, Handling
  <2>. QED
    BY <2>1, <2>2 DEF InStep, ProcessType, WP!WindowsInv, WP!TypeOK, WP!Ids, Handling
<1>1. PICK s \in Services, t \in Times : WP!Handle(s, t)
  BY WindowEvent
<1>2. \A c, d \in 1 .. Len(clusters') : WP!Touched(c) /\ WP!Touched(d) => c = d
  BY <1>0, <1>1, WP!OneTouched, SettingsAssumption, BoundsAssumption
<1>3. \A c \in finalized' \ finalized : c \in active /\ clusters'[c] = clusters[c]
  BY <1>0, <1>1, WP!TouchedStaysOpen, SettingsAssumption, BoundsAssumption
<1>4. \A c \in 1 .. Len(clusters) : members[c] \subseteq 1 .. committed
  BY <1>0 DEF MembersApart, Reached
\* Only the cluster that was touched has the new event.
<1>5. ASSUME NEW c \in 1 .. Len(clusters')
      PROVE  \/ WP!Touched(c) /\ c \in 1 .. Len(clusters) /\ members'[c] = members[c] \cup {pos + 1}
             \/ WP!Touched(c) /\ c \notin 1 .. Len(clusters) /\ members'[c] = {pos + 1}
             \/ c \in 1 .. Len(clusters) /\ members'[c] = members[c]
  <2>1. CASE c \in 1 .. Len(clusters)
    BY <1>0, <2>1, MembersGrow DEF WP!Touched, WP!Ids
  <2>2. CASE c \notin 1 .. Len(clusters)
    <3>1. c \in Len(clusters) + 1 .. Len(clusters')
      BY <1>0, <2>2
    <3>. QED
      BY <1>0, <2>2, <3>1, MembersGrow DEF WP!Touched
  <2>. QED
    BY <2>1, <2>2
<1>6. MembersApart'
  <2>1. Reached' = committed + 1
    BY <1>0 DEF Reached
  <2>2. 1 .. committed \subseteq 1 .. committed + 1 /\ pos + 1 \in 1 .. committed + 1
    BY <1>0
  <2>3. \A c \in 1 .. Len(clusters') : members'[c] \subseteq 1 .. committed + 1
    BY <1>4, <1>5, <2>2
  <2>4. \A c \in 1 .. Len(clusters) : pos + 1 \notin members[c]
    BY <1>0, <1>4
  <2>5. ASSUME NEW c \in 1 .. Len(clusters'), NEW d \in 1 .. Len(clusters'), c # d
        PROVE  members'[c] \cap members'[d] = {}
    <3>1. ~ (WP!Touched(c) /\ WP!Touched(d))
      BY <1>2, <2>5
    <3>2. c \in 1 .. Len(clusters) /\ d \in 1 .. Len(clusters) => members[c] \cap members[d] = {}
      BY <2>5 DEF MembersApart
    <3>. QED
      BY <1>5, <2>4, <3>1, <3>2
  <2>. QED
    BY <2>1, <2>3, <2>5 DEF MembersApart
<1>7. \A c \in finalized' \ finalized : c \in active /\ members'[c] = members[c]
  BY <1>0, <1>3, MembersGrow
<1>8. ASSUME NEW c \in active', NEW o \in members'[c]
      PROVE  (c \in active /\ o \in members[c]) \/ o > committed
  <2>1. c \in 1 .. Len(clusters) => c \in active
    <3>1. /\ active \cup (Len(clusters) + 1 .. Len(clusters'))
               = active' \cup (finalized' \ finalized)
          /\ Len(clusters) \in Nat
      BY <1>0, DrainMoves, PollsDrain DEF WP!WindowsInv, WP!TypeOK
    <3>2. c \in active \/ c \in Len(clusters) + 1 .. Len(clusters')
      BY <1>8, <3>1, Zenon
    <3>. QED
      BY <3>1, <3>2
  <2>2. pos + 1 > committed
    BY <1>0
  <2>. QED
    BY <1>0, <1>5, <2>1, <2>2
<1>9. CountedOnce'
  BY <1>0, <1>7, <1>8, PollCounts DEF Polls
<1>. QED
  BY <1>6, <1>9

LEMMA SkipOnce ==
    ASSUME ProcessType, StreamType, [Next]_vars, PollSkipped \/ PollNothing, InStep,
           CountedOnce, MembersApart
    PROVE  CountedOnce'
<1>1. WP!WindowsInv' /\ WP!WindowsInv
  BY NextWindowsHere DEF StreamType
<1>2. UNCHANGED <<clusters, members, committed>> /\ W!Drain
  BY DEF PollSkipped, PollNothing, W!IdleDrain, group
<1>3. Len(clusters) + 1 .. Len(clusters') = {}
  <2>1. Len(clusters) \in Nat
    BY <1>1 DEF WP!WindowsInv, WP!TypeOK
  <2>. QED
    BY <1>2, <2>1
<1>4. active = active' \cup (finalized' \ finalized)
  BY <1>1, <1>2, <1>3, DrainMoves
<1>. QED
  BY <1>1, <1>2, <1>4, PollCounts DEF Polls

LEMMA NextOnce == ProcessType /\ StreamType /\ OnceInv /\ [Next]_vars => OnceInv'
<1> SUFFICES ASSUME ProcessType, StreamType, OnceInv, [Next]_vars, Quiet'
             PROVE  (InStep /\ MembersApart /\ CountedOnce)'
  BY DEF OnceInv
<1>0. InStep /\ MembersApart /\ CountedOnce
  BY StruckGrows DEF OnceInv, Quiet
<1>1. InStep' /\ committed' >= committed /\ (Exit \/ (Reached' >= Reached /\ Reached' \in Nat))
  BY <1>0, OffsetsMove
<1>2. /\ Reached \in Nat /\ committed \in Nat /\ committed' \in Nat
      /\ handedOver \in [Offsets -> Nat]
  BY NextProcess DEF ProcessType, Reached, StreamType
<1>3. CASE PollEvent
  BY <1>0, <1>1, <1>3, EventOnce
<1>4. CASE PollSkipped \/ PollNothing
  <2>1. UNCHANGED <<clusters, members>> /\ ~ Exit
    BY <1>4 DEF PollSkipped, PollNothing, W!IdleDrain, HandOver, Goto, Exit
  <2>2. MembersApart'
    BY <1>0, <1>1, <1>2, <2>1, SameMembers
  <2>. QED
    BY <1>0, <1>1, <1>4, <2>2, SkipOnce
<1>5. CASE ~ Polls
  <2>1. handedOver' = handedOver
    BY <1>5, BetweenPolls
  <2>2. CASE Exit
    <3>1. clusters' = <<>> /\ active' = {}
      BY <2>2 DEF Exit
    <3>2. 1 .. Len(clusters') = {}
      BY <3>1
    <3>3. MembersApart'
      BY <3>2 DEF MembersApart
    <3>. QED
      BY <1>0, <1>1, <1>2, <2>1, <3>1, <3>3, SameCounts
  <2>3. CASE UNCHANGED <<active, members, clusters>> /\ ~ Exit
    <3>1. MembersApart'
      BY <1>0, <1>1, <1>2, <2>3, SameMembers
    <3>. QED
      BY <1>0, <1>1, <1>2, <2>1, <2>3, <3>1, SameCounts
  <2>. QED
    BY <1>5, <2>2, <2>3, BetweenPolls
<1>. QED
  BY <1>3, <1>4, <1>5 DEF Polls

\* A restart repeats messages, never evidence, for all settings, logs and faults except a
\* failed commit and a process expelled in the middle of a message.
THEOREM EvidenceOnceOnly == Spec => []HandedOverOnce
<1>1. Init => OnceInv
  <2> SUFFICES ASSUME Init PROVE InStep /\ MembersApart /\ CountedOnce
    BY DEF OnceInv
  <2>1. /\ clusters = <<>> /\ active = {} /\ committed = 0 /\ pc = "poll" /\ joined = FALSE
        /\ handedOver = [o \in Offsets |-> 0]
    BY DEF Init, W!Init
  <2>2. 1 .. Len(clusters) = {}
    BY <2>1
  <2>. QED
    BY <2>1, <2>2 DEF InStep, MembersApart, CountedOnce, Handling
<1>2. OnceInv => HandedOverOnce
  BY DEF OnceInv, Quiet, CountedOnce, HandedOverOnce
<1>. QED
  BY <1>1, <1>2, InitProcess, NextProcess, InitStream, NextStream, NextOnce, PTL DEF Spec

-------------------------------------------------------------------------------
(* Everything keeps its type.                                              *)

MemberType == members \in Seq(SUBSET (1 .. Len(log))) /\ Len(members) = Len(clusters)

LinkerType == signatures \subseteq SUBSET finalized /\ toEmit \subseteq signatures

HistoryType ==
    /\ sendq \subseteq Candidates /\ stream \subseteq Candidates /\ discarded \subseteq Candidates
    /\ excused \subseteq Offsets /\ forgotten \subseteq Offsets
    /\ struck \subseteq Faults /\ faults \in 0 .. MaxFaults

TypeInv == ProcessType /\ StreamType /\ MemberType /\ LinkerType /\ HistoryType

\* The clusters in the windows and in the groups have members in the log.
LEMMA MembersInLog ==
    ASSUME TypeInv
    PROVE  /\ Len(log) \in Nat /\ Len(clusters) \in Nat
           /\ 1 .. Len(log) \subseteq Offsets
           /\ active \subseteq 1 .. Len(clusters) /\ finalized \subseteq 1 .. Len(clusters)
           /\ \A c \in 1 .. Len(clusters) : members[c] \subseteq 1 .. Len(log)
           /\ UNION {members[c] : c \in active} \subseteq Offsets
           /\ \A g \in toEmit : Evidence(g) \in Candidates
<1>1. Len(log) \in Nat /\ Len(log) <= MaxLog /\ MaxLog \in Nat
  BY BoundsAssumption DEF TypeInv, ProcessType, StreamType
<1>2. 1 .. Len(log) \subseteq Offsets
  BY <1>1 DEF Offsets
<1>3. Len(clusters) \in Nat /\ active \subseteq 1 .. Len(clusters)
      /\ finalized \subseteq 1 .. Len(clusters)
  BY DEF TypeInv, StreamType, WP!WindowsInv, WP!TypeOK, WP!Ids
<1>4. \A c \in 1 .. Len(clusters) : members[c] \subseteq 1 .. Len(log)
  BY <1>3 DEF TypeInv, MemberType
<1>5. \A c \in active \cup finalized : members[c] \subseteq Offsets
  BY <1>2, <1>3, <1>4
<1>6. \A g \in toEmit : g \subseteq finalized
  BY DEF TypeInv, LinkerType
<1>7. \A g \in toEmit : Evidence(g) \subseteq Offsets
  BY <1>5, <1>6 DEF Evidence
<1>. QED
  BY <1>1, <1>2, <1>3, <1>4, <1>5, <1>7 DEF Candidates

\* When the process ends its memory is empty, and what it held is counted as lost.
LEMMA ExitType ==
    ASSUME TypeInv, Exit, struck' \subseteq Faults, faults' \in 0 .. MaxFaults
    PROVE  MemberType' /\ LinkerType' /\ HistoryType'
<1>1. /\ clusters' = <<>> /\ members' = <<>> /\ signatures' = {} /\ toEmit' = {} /\ sendq' = {}
      /\ log' = log /\ UNCHANGED <<stream, excused>>
      /\ forgotten' = forgotten \cup UNION {members[c] : c \in active}
      /\ discarded' = discarded \cup sendq \cup {Evidence(g) : g \in toEmit}
  BY DEF Exit
<1>2. MemberType' /\ LinkerType'
  BY <1>1 DEF MemberType, LinkerType
<1>3. {Evidence(g) : g \in toEmit} \subseteq Candidates
  BY MembersInLog
<1>4. forgotten' \subseteq Offsets
  BY <1>1, MembersInLog DEF TypeInv, HistoryType
<1>5. discarded' \subseteq Candidates
  BY <1>1, <1>3 DEF TypeInv, HistoryType
<1>. QED
  BY <1>1, <1>2, <1>4, <1>5 DEF TypeInv, HistoryType, Candidates, Offsets

\* A poll with a drain: the linker only returns groups of what it was given.
LEMMA PollType ==
    ASSUME TypeInv, Polls, WP!WindowsInv', struck' \subseteq Faults,
           faults' \in 0 .. MaxFaults
    PROVE  MemberType' /\ LinkerType' /\ HistoryType'
<1>0. /\ UNCHANGED <<log, sendq, stream, discarded, forgotten>>
      /\ signatures' = signatures \cup toEmit'
      /\ toEmit' \subseteq SUBSET finalized'
  BY DEF Polls, PollEvent, PollSkipped, PollNothing, HandOver, Answers, group
<1>1. finalized \subseteq finalized'
  BY PollsDrain DEF Polls, W!Drain
<1>2. LinkerType'
  BY <1>0, <1>1 DEF TypeInv, LinkerType
<1>3. PollEvent \/ PollSkipped => pos + 1 \in 1 .. Len(log) /\ pos + 1 \in Offsets
  BY MembersInLog DEF PollEvent, PollSkipped, Fetch, TypeInv, ProcessType
<1>5. excused' \subseteq Offsets
  BY <1>3 DEF Polls, PollEvent, PollSkipped, PollNothing, TypeInv, HistoryType
<1>6. HistoryType'
  BY <1>0, <1>5 DEF TypeInv, HistoryType, Candidates, Offsets
<1>7. CASE PollSkipped \/ PollNothing
  <2>1. UNCHANGED <<members, clusters>>
    BY <1>7 DEF PollSkipped, PollNothing, W!IdleDrain
  <2>. QED
    BY <1>0, <1>2, <1>6, <2>1 DEF TypeInv, MemberType
<1>8. CASE PollEvent
  <2>1. members' = Took(pos + 1) /\ Len(clusters') \in Nat
    BY <1>8 DEF PollEvent, WP!WindowsInv, WP!TypeOK
  <2>2. ASSUME NEW c \in 1 .. Len(clusters') PROVE Took(pos + 1)[c] \in SUBSET (1 .. Len(log))
    <3>1. c \in 1 .. Len(clusters) \/ c > Len(clusters)
      BY <2>1, MembersInLog
    <3>2. CASE c \in 1 .. Len(clusters) /\ ~ (c > Len(clusters))
      BY <1>3, <1>8, <3>2, MembersInLog DEF Took
    <3>3. CASE c > Len(clusters)
      BY <1>3, <1>8, <3>3 DEF Took
    <3>. QED
      BY <3>1, <3>2, <3>3
  <2>3. Took(pos + 1) \in Seq(SUBSET (1 .. Len(log))) /\ Len(Took(pos + 1)) = Len(clusters')
    BY <2>1, <2>2 DEF Took
  <2>4. MemberType'
    BY <1>0, <2>1, <2>3 DEF MemberType
  <2>. QED
    BY <1>2, <1>6, <2>4
<1>. QED
  BY <1>7, <1>8 DEF Polls

LEMMA NextTypeInv == TypeInv /\ [Next]_vars => TypeInv'
<1> SUFFICES ASSUME TypeInv, [Next]_vars PROVE TypeInv'
  OBVIOUS
<1>1. ProcessType' /\ StreamType'
  BY NextProcess, NextStream DEF TypeInv
<1>g. ASSUME MemberType' /\ LinkerType' /\ HistoryType' PROVE TypeInv'
  BY <1>1, <1>g DEF TypeInv
<1>2. struck' \subseteq Faults /\ faults' \in 0 .. MaxFaults
  BY StepStrikes, StrikeType DEF TypeInv, HistoryType
<1>3. CASE Polls
  BY <1>1, <1>2, <1>3, <1>g, PollType DEF StreamType
<1>4. CASE Exit
  BY <1>2, <1>4, <1>g, ExitType
<1>5. ASSUME NEW m \in Events \cup {Invalid, Undecodable}, Publish(m) PROVE TypeInv'
  <2>1. Len(log') = Len(log) + 1 /\ UNCHANGED <<members, clusters, finalized>>
    BY <1>5 DEF Publish, windows, TypeInv, ProcessType
  <2>2. SUBSET (1 .. Len(log)) \subseteq SUBSET (1 .. Len(log'))
    BY <2>1, MembersInLog
  <2>3. MemberType'
    BY <2>1, <2>2 DEF TypeInv, MemberType
  <2>4. LinkerType' /\ HistoryType'
    BY <1>2, <1>5, <2>1
    DEF Publish, emission, TypeInv, LinkerType, HistoryType, Candidates, Offsets
  <2>. QED
    BY <1>g, <2>3, <2>4
<1>6. CASE Emit /\ ~ Exit
  <2>1. PICK g \in toEmit :
           /\ toEmit' = toEmit \ {g} /\ sendq' = sendq \cup {Evidence(g)}
           /\ UNCHANGED <<group, windows, members, signatures, stream, excused, forgotten,
                          discarded, strikes>>
    BY <1>6 DEF Emit
  <2>2. Evidence(g) \in Candidates
    BY MembersInLog
  <2>3. MemberType' /\ LinkerType'
    BY <2>1 DEF group, windows, TypeInv, MemberType, LinkerType
  <2>4. HistoryType'
    BY <1>2, <2>1, <2>2 DEF TypeInv, HistoryType, Candidates, Offsets
  <2>. QED
    BY <1>g, <2>3, <2>4
<1>7. CASE /\ UNCHANGED <<log, clusters, finalized, members, signatures, toEmit, forgotten>>
           /\ sendq' \subseteq sendq /\ stream' \subseteq stream \cup sendq
           /\ discarded' \subseteq discarded \cup sendq
           /\ excused' \subseteq Offsets
  BY <1>2, <1>7, <1>g DEF TypeInv, MemberType, LinkerType, HistoryType, Candidates, Offsets
<1>8. CASE Elsewhere
  <2>1. committed + 1 \in Offsets
    BY <1>8, MembersInLog DEF Elsewhere, TypeInv, ProcessType
  <2>2. excused' \subseteq Offsets
    BY <1>8, <2>1 DEF Elsewhere, TypeInv, HistoryType
  <2>. QED
    BY <1>7, <1>8, <2>2 DEF Elsewhere, windows, emission
<1>9. excused \subseteq Offsets /\ (excused' = excused => excused' \subseteq Offsets)
  BY DEF TypeInv, HistoryType, Offsets
<1>10. CASE UNCHANGED vars \/ Join \/ Leave \/ Stop \/ Restart \/ Commit
            \/ \E c \in sendq : Deliver(c) \/ Expire(c)
  BY <1>7, <1>9, <1>10
  DEF vars, group, windows, emission, Join, Leave, Stop, Restart, Commit, Deliver, Expire
<1>. QED
  BY <1>3, <1>4, <1>5, <1>6, <1>8, <1>10
  DEF Next, Polls, Crash, Close, PollUndecodable

\* The process, its memory, what it has sent and the history keep their types, whatever
\* the faults; a cluster has its members for as long as it lives, and a candidate is
\* always evidence that is in the log.
THEOREM CorrelatorTypeCorrect == Spec => []TypeOK
<1>1. Init => TypeInv
  <2> SUFFICES ASSUME Init PROVE TypeInv
    OBVIOUS
  <2>1. clusters = <<>> /\ finalized = {}
    BY DEF Init, W!Init
  <2>2. MemberType /\ LinkerType /\ HistoryType
    BY <2>1, BoundsAssumption DEF Init, MemberType, LinkerType, HistoryType
  <2>. QED
    BY <2>2, InitProcess, InitStream DEF TypeInv
<1>2. TypeInv => TypeOK
  <2> SUFFICES ASSUME TypeInv PROVE TypeOK
    OBVIOUS
  <2>1. W!TypeOK
    BY DEF TypeInv, StreamType, WP!WindowsInv, WP!TypeOK, W!TypeOK, WP!Ids, W!Ids,
       WP!Clusters, W!Clusters, WP!NoTime, W!NoTime
  <2>. QED
    BY <2>1 DEF TypeOK, TypeInv, ProcessType, StreamType, MemberType, LinkerType, HistoryType
<1>. QED
  BY <1>1, <1>2, NextTypeInv, PTL DEF Spec
===============================================================================
