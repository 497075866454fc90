---------------------------- MODULE IngestorProofs ----------------------------
(***************************************************************************)
(* Theorems about Ingestor, for any number of processes and keys, any log  *)
(* length and any budget of faults.                                        *)
(***************************************************************************)
EXTENDS Ingestor, TLAPS, FiniteSetTheorems, WellFoundedInduction

\* A process that handles a message holds a polled message; the steps between the
\* cache and the row handle a well-formed event.
CurrentOK ==
    \A i \in Instances :
        /\ pc[i] \in Handling => pos[i] >= 1
        /\ pc[i] \in {"lookup", "produce", "insert"} => Current(i) \in Keys

TypeInv == TypeOK /\ CurrentOK

\* What the producers and Postgres decide of a message is named wherever a step leaves
\* it alone.
USE DEF input

\* One more row, or one more that was rejected.
LEMMA CountType ==
    ASSUME NEW c \in [Keys -> Nat], NEW k \in Keys
    PROVE  [c EXCEPT ![k] = @ + 1] \in [Keys -> Nat]
OBVIOUS

\* Spending a fault lowers its budget by one, and no other.
LEMMA SpendType ==
    ASSUME budget \in [Faults -> Nat], \A g \in Faults : budget[g] <= Budget[g],
           NEW f \in Faults, Spend(f)
    PROVE  /\ budget' \in [Faults -> Nat]
           /\ \A g \in Faults : budget'[g] <= budget[g] /\ budget'[g] <= Budget[g]
           /\ \A g \in Faults \ {f} : budget'[g] = budget[g]
<1>1. budget' = [budget EXCEPT ![f] = budget[f] - 1] /\ budget[f] > 0
  BY DEF Spend
<1>2. budget[f] - 1 \in Nat /\ budget[f] - 1 <= budget[f]
  BY <1>1
<1>3. budget' \in [Faults -> Nat]
  BY <1>1, <1>2
<1>4. \A g \in Faults : budget'[g] = IF g = f THEN budget[f] - 1 ELSE budget[g]
  BY <1>1
<1>5. Budget \in [Faults -> Nat]
  BY BoundsAssumption
<1>. QED
  BY <1>2, <1>3, <1>4, <1>5

\* One more or one fewer copy in the queue of one process.
LEMMA SendqType ==
    ASSUME sendq \in [Instances -> [Keys -> Nat]], NEW i \in Instances, NEW k \in Keys
    PROVE  /\ [sendq EXCEPT ![i][k] = @ + 1] \in [Instances -> [Keys -> Nat]]
           /\ sendq[i][k] > 0 =>
                [sendq EXCEPT ![i][k] = @ - 1] \in [Instances -> [Keys -> Nat]]
  OBVIOUS

LEMMA CommitType ==
    ASSUME TypeOK, NEW i \in Instances, TryCommit(i)
    PROVE  /\ committed' \in 0 .. Len(raw)
           /\ budget' \in [Faults -> Nat]
           /\ \A f \in Faults : budget'[f] <= Budget[f]
<1>1. CASE Spend("commit")
  <2>1. "commit" \in Faults
    BY DEF Faults
  <2>2. /\ budget' \in [Faults -> Nat]
        /\ \A f \in Faults : budget'[f] <= Budget[f]
    BY <1>1, <2>1, SpendType DEF TypeOK
  <2>3. committed' \in 0 .. Len(raw)
    BY DEF TypeOK, TryCommit
  <2>. QED
    BY <2>2, <2>3
<1>2. CASE ~ Spend("commit")
  BY <1>2 DEF TypeOK, TryCommit
<1>. QED
  BY <1>1, <1>2

LEMMA InitType == Init => TypeInv
  BY DistinctAssumption, BoundsAssumption
  DEF Init, TypeInv, TypeOK, CurrentOK, NoCopies, Steps, Handling, Faults, Messages

LEMMA NextType == TypeInv /\ [Next]_vars => TypeInv'
<1> SUFFICES ASSUME TypeInv, [Next]_vars PROVE TypeInv'
  OBVIOUS
<1> USE DistinctAssumption, BoundsAssumption DEF TypeInv, TypeOK, CurrentOK, Current,
        Goto, Messages, Steps, Handling
<1>1. CASE UNCHANGED vars
  BY <1>1 DEF vars
<1>2. ASSUME NEW m \in Messages, NEW T \in SUBSET Targets(m), Publish(m, T)
      PROVE  TypeInv'
  <2>1. raw' = Append(raw, m) /\ T \subseteq Tables
    BY <1>2 DEF Publish, Targets
  <2>2. /\ raw' \in Seq(Messages) /\ Len(raw') = Len(raw) + 1 /\ Len(raw) \in Nat
        /\ \A o \in 1 .. Len(raw) : raw'[o] = raw[o]
    BY <2>1
  <2>3. refused' \subseteq (1 .. Len(raw')) \X Tables
    <3>1. refused' = refused \cup ({Len(raw) + 1} \X T) /\ refused \subseteq (1 .. Len(raw)) \X Tables
      BY <1>2 DEF Publish
    <3>. QED
      BY <2>1, <2>2, <3>1
  <2>4. /\ budget' \in [Faults -> Nat]
        /\ \A f \in Faults : budget'[f] <= Budget[f]
    BY <1>2, SpendType DEF Publish, Faults
  <2>5. TypeOK'
    BY <1>2, <2>2, <2>3, <2>4 DEF Publish
  <2>6. CurrentOK'
    BY <1>2, <2>2 DEF Publish
  <2>. QED
    BY <2>5, <2>6
<1>3. CASE DbDown
  BY <1>3, SpendType DEF Faults, DbDown
<1>4. CASE DbRecover
  BY <1>4 DEF DbRecover
<1>5. ASSUME NEW i \in Instances, PollUndecodable(i) PROVE TypeInv'
  BY <1>5 DEF PollUndecodable, Fetch, Exit, Unsent, NoCopies
<1>6. ASSUME NEW i \in Instances, PollInvalid(i) PROVE TypeInv'
  <2>1. /\ pos' \in [Instances -> 0 .. Len(raw)] /\ pos'[i] \in 1 .. Len(raw)
        /\ pos'[i] = pos[i] + 1 /\ \A j \in Instances \ {i} : pos'[j] = pos[j]
    BY <1>6 DEF PollInvalid, Fetch
  <2>. QED
    BY <1>6, <2>1 DEF PollInvalid, Fetch
<1>7. ASSUME NEW i \in Instances, PollEvent(i) PROVE TypeInv'
  <2>1. /\ pos' \in [Instances -> 0 .. Len(raw)] /\ pos'[i] \in 1 .. Len(raw)
        /\ pos'[i] = pos[i] + 1 /\ \A j \in Instances \ {i} : pos'[j] = pos[j]
    BY <1>7 DEF PollEvent, Fetch
  <2>2. cache' \in [Instances -> SUBSET Keys]
    BY <1>7 DEF PollEvent
  <2>. QED
    BY <1>7, <2>1, <2>2 DEF PollEvent, Fetch
<1>8. ASSUME NEW i \in Instances, PollChaosDrop(i) PROVE TypeInv'
  <2>1. /\ pos' \in [Instances -> 0 .. Len(raw)] /\ pos'[i] \in 1 .. Len(raw)
        /\ \A j \in Instances \ {i} : pos'[j] = pos[j]
        /\ pos'[i] = pos[i] + 1
    BY <1>8 DEF PollChaosDrop, Fetch
  <2>2. /\ budget' \in [Faults -> Nat]
        /\ \A f \in Faults : budget'[f] <= Budget[f]
    BY <1>8, SpendType DEF PollChaosDrop, Faults
  <2>3. dropped' \subseteq 1 .. Len(raw)
    BY <1>8, <2>1 DEF PollChaosDrop
  <2>4. TypeOK'
    BY <1>8, <2>1, <2>2, <2>3 DEF PollChaosDrop
  <2>5. CurrentOK'
    BY <1>8, <2>1 DEF PollChaosDrop
  <2>. QED
    BY <2>4, <2>5
<1>9. ASSUME NEW i \in Instances, Lookup(i) PROVE TypeInv'
  BY <1>9 DEF Lookup
<1>10. ASSUME NEW i \in Instances, Produce(i) PROVE TypeInv'
  <2>1. Current(i) \in Keys
    BY <1>10 DEF Produce
  <2>2. sendq' \in [Instances -> [Keys -> Nat]]
    <3>1. PICK k \in Keys : k = Current(i)
      BY <2>1
    <3>2. [sendq EXCEPT ![i][k] = @ + 1] \in [Instances -> [Keys -> Nat]]
      BY SendqType
    <3>. QED
      BY <1>10, <3>1, <3>2 DEF Produce
  <2>3. /\ budget' \in [Faults -> Nat]
        /\ \A f \in Faults : budget'[f] <= Budget[f]
    BY <1>10, SpendType DEF Produce, Faults
  <2>. QED
    BY <1>10, <2>2, <2>3 DEF Produce
<1>11. ASSUME NEW i \in Instances, Insert(i) PROVE TypeInv'
  <2>1. Current(i) \in Keys
    BY <1>11 DEF Insert
  <2>2. rows' \in [Keys -> Nat] /\ rejected' \in [Keys -> Nat]
    <3>1. /\ rows' = rows \/ rows' = [rows EXCEPT ![Current(i)] = @ + 1]
          /\ rejected' = rejected \/ rejected' = [rejected EXCEPT ![Current(i)] = @ + 1]
      BY <1>11 DEF Insert
    <3>2. PICK k \in Keys : k = Current(i)
      BY <2>1
    <3>3. /\ [rows EXCEPT ![k] = @ + 1] \in [Keys -> Nat]
          /\ [rejected EXCEPT ![k] = @ + 1] \in [Keys -> Nat]
      BY CountType
    <3>. QED
      BY <3>1, <3>2, <3>3
  <2>. QED
    BY <1>11, <2>2 DEF Insert
<1>12. ASSUME NEW i \in Instances, Quarantine(i) PROVE TypeInv'
  <2>1. pos[i] \in 1 .. Len(raw)
    BY <1>12 DEF Quarantine
  <2>2. quarantined' \subseteq 1 .. Len(raw)
    BY <1>12, <2>1 DEF Quarantine
  <2>. QED
    BY <1>12, <2>2 DEF Quarantine
<1>13. ASSUME NEW i \in Instances, Commit(i) PROVE TypeInv'
  <2>1. /\ committed' \in 0 .. Len(raw)
        /\ budget' \in [Faults -> Nat]
        /\ \A f \in Faults : budget'[f] <= Budget[f]
    BY <1>13, CommitType DEF Commit
  <2>. QED
    BY <1>13, <2>1 DEF Commit
<1>14. ASSUME NEW i \in Instances, CommitAndDie(i) PROVE TypeInv'
  <2>1. /\ committed' \in 0 .. Len(raw)
        /\ budget' \in [Faults -> Nat]
        /\ \A f \in Faults : budget'[f] <= Budget[f]
    BY <1>14, CommitType DEF CommitAndDie
  <2>. QED
    BY <1>14, <2>1 DEF CommitAndDie, Exit, Unsent, NoCopies
<1>15. ASSUME NEW i \in Instances, Assign(i) PROVE TypeInv'
  BY <1>15 DEF Assign
<1>16. ASSUME NEW i \in Instances, Revoke(i) PROVE TypeInv'
  BY <1>16, SpendType DEF Faults, Revoke
<1>17. ASSUME NEW i \in Instances, Expel(i) PROVE TypeInv'
  BY <1>17, SpendType DEF Faults, Expel
<1>18. ASSUME NEW i \in Instances, Crash(i) PROVE TypeInv'
  BY <1>18, SpendType DEF Faults, Crash, Exit, Unsent, NoCopies
<1>19. ASSUME NEW i \in Instances, Stop(i) PROVE TypeInv'
  BY <1>19, SpendType DEF Faults, Stop
<1>20. ASSUME NEW i \in Instances, Close(i) PROVE TypeInv'
  BY <1>20, SpendType DEF Faults, Close, Exit, Unsent, NoCopies
<1>21. ASSUME NEW i \in Instances, Restart(i) PROVE TypeInv'
  BY <1>21 DEF Restart
<1>22. ASSUME NEW i \in Instances, NEW k \in Keys, Deliver(i, k) PROVE TypeInv'
  <2>1. sendq' \in [Instances -> [Keys -> Nat]]
    BY <1>22, SendqType DEF Deliver
  <2>2. normalized' \in [Keys -> Nat]
    BY <1>22 DEF Deliver
  <2>. QED
    BY <1>22, <2>1, <2>2 DEF Deliver
<1>23. ASSUME NEW i \in Instances, NEW k \in Keys, Expire(i, k) PROVE TypeInv'
  <2>1. sendq' \in [Instances -> [Keys -> Nat]]
    BY <1>23, SendqType DEF Expire
  <2>2. /\ budget' \in [Faults -> Nat]
        /\ \A f \in Faults : budget'[f] <= Budget[f]
    BY <1>23, SpendType DEF Expire, Faults
  <2>. QED
    BY <1>23, <2>1, <2>2 DEF Expire
<1>24. ASSUME NEW i \in Instances, NEW k \in Keys, Forget(i, k) PROVE TypeInv'
  BY <1>24 DEF Forget
<1>. QED
  BY <1>1, <1>2, <1>3, <1>4, <1>5, <1>6, <1>7, <1>8, <1>9, <1>10, <1>11, <1>12, <1>13,
     <1>14, <1>15, <1>16, <1>17, <1>18, <1>19, <1>20, <1>21, <1>22, <1>23, <1>24
  DEF Next, Handle

\* The state of the group, its processes and Postgres stays well typed.
THEOREM TypeCorrect == Spec => []TypeOK
<1>1. TypeInv => TypeOK
  BY DEF TypeInv
<1>. QED
  BY <1>1, InitType, NextType, PTL DEF Spec

-------------------------------------------------------------------------------
(* No event vanishes while Postgres stays up.                              *)

\* Steps in which a polled message has no durable trace yet.
Pending == {"lookup", "produce", "insert", "quarantine"}

\* Nothing is left to do for offset o.
Settled(o) == Accounted(o) \/ Untraceable(o)

\* Behind the position of the owner only its current message may be unsettled.
OwnerAccounted ==
    \A i \in Instances : owner = i =>
        \A o \in 1 .. pos[i] : Settled(o) \/ (o = pos[i] /\ pc[i] \in Pending)

\* A cached key is recorded, or is the one its process is working on, or failed to
\* store.
CacheRecorded ==
    \A i \in Instances : \A k \in cache[i] :
        Recorded(k) \/ (pc[i] \in Pending \cup {"dying"} /\ Current(i) = k)

\* While Postgres answers, a message comes to the quarantine only because it is no event,
\* because its row was refused or because it could not be sent.
QuarantineReason ==
    \A i \in Instances : pc[i] = "quarantine" =>
        \/ Current(i) = Invalid \/ Refused(pos[i], "ingested_events") \/ Spent("send") > 0

AccountedInv ==
    /\ dbUp
    /\ \A o \in 1 .. committed : Settled(o)
    /\ OwnerAccounted
    /\ CacheRecorded
    /\ QuarantineReason

IndAccounted == Spent("outage") = 0 => AccountedInv

\* No step gives a fault back.
LEMMA BudgetFalls ==
    ASSUME TypeInv, [Next]_vars
    PROVE  \A f \in Faults : budget'[f] <= budget[f]
<1>1. ASSUME NEW f \in Faults, NEW g \in Faults, Spend(g) PROVE budget'[f] <= budget[f]
  BY <1>1, SpendType DEF TypeInv, TypeOK
<1>2. UNCHANGED budget \/ \E g \in Faults : Spend(g)
  BY DEF Next, vars, Handle, Publish, DbDown, DbRecover, Assign, Revoke, Expel, Deliver,
     Expire, Crash, Stop, Close, Restart, PollUndecodable, PollChaosDrop, PollInvalid,
     PollEvent, Forget, Lookup, Produce, Insert, Quarantine, Commit, CommitAndDie,
     TryCommit, Faults
<1>3. \A f \in Faults : budget[f] \in Nat
  BY DEF TypeInv, TypeOK
<1>. QED
  BY <1>1, <1>2, <1>3

\* The log and the durable traces only grow.
LEMMA TracesGrow ==
    ASSUME TypeInv, [Next]_vars
    PROVE  /\ Len(raw') >= Len(raw) /\ \A o \in 1 .. Len(raw) : raw'[o] = raw[o]
           /\ \A k \in Keys : rows'[k] >= rows[k]
           /\ \A k \in Keys : rejected'[k] >= rejected[k]
           /\ quarantined \subseteq quarantined' /\ dropped \subseteq dropped'
           /\ refused \subseteq refused'
<1>1. raw' = raw \/ \E m \in Messages : raw' = Append(raw, m)
  BY DEF Next, vars, Handle, Publish, DbDown, DbRecover, Assign, Revoke, Expel, Deliver,
     Expire, Crash, Stop, Close, Restart, PollUndecodable, PollChaosDrop, PollInvalid,
     PollEvent, Forget, Lookup, Produce, Insert, Quarantine, Commit, CommitAndDie
<1>2. rows' = rows \/ \E k \in Keys : rows' = [rows EXCEPT ![k] = @ + 1]
  BY DEF Next, vars, Handle, Publish, DbDown, DbRecover, Assign, Revoke, Expel, Deliver,
     Expire, Crash, Stop, Close, Restart, PollUndecodable, PollChaosDrop, PollInvalid,
     PollEvent, Forget, Lookup, Produce, Insert, Quarantine, Commit, CommitAndDie,
     TypeInv, CurrentOK
<1>3. /\ quarantined \subseteq quarantined' /\ dropped \subseteq dropped'
      /\ refused \subseteq refused'
  BY DEF Next, vars, Handle, Publish, DbDown, DbRecover, Assign, Revoke, Expel, Deliver,
     Expire, Crash, Stop, Close, Restart, PollUndecodable, PollChaosDrop, PollInvalid,
     PollEvent, Forget, Lookup, Produce, Insert, Quarantine, Commit, CommitAndDie
<1>7. rejected' = rejected \/ \E k \in Keys : rejected' = [rejected EXCEPT ![k] = @ + 1]
  BY DEF Next, vars, Handle, Publish, DbDown, DbRecover, Assign, Revoke, Expel, Deliver,
     Expire, Crash, Stop, Close, Restart, PollUndecodable, PollChaosDrop, PollInvalid,
     PollEvent, Forget, Lookup, Produce, Insert, Quarantine, Commit, CommitAndDie,
     TypeInv, CurrentOK
<1>4. raw \in Seq(Messages) /\ rows \in [Keys -> Nat] /\ rejected \in [Keys -> Nat]
  BY DEF TypeInv, TypeOK
<1>5. Len(raw') >= Len(raw) /\ \A o \in 1 .. Len(raw) : raw'[o] = raw[o]
  BY <1>1, <1>4
<1>6. \A k \in Keys : rows'[k] >= rows[k]
  BY <1>2, <1>4
<1>8. \A k \in Keys : rejected'[k] >= rejected[k]
  BY <1>4, <1>7
<1>. QED
  BY <1>3, <1>5, <1>6, <1>8

\* What is recorded, accounted for or untraceable stays so.
LEMMA AccountedStable ==
    ASSUME TypeInv, [Next]_vars
    PROVE  /\ \A k \in Keys : Recorded(k) => Recorded(k)'
           /\ \A o \in 1 .. Len(raw) : Settled(o) => Settled(o)'
           /\ \A o \in 1 .. Len(raw), t \in Tables : Refused(o, t) => Refused(o, t)'
           /\ Spent("send") > 0 => Spent("send")' > 0
<1>1. quarantined \subseteq 1 .. Len(raw) /\ rows \in [Keys -> Nat] /\ rows' \in [Keys -> Nat]
  BY NextType DEF TypeInv, TypeOK
<1>2. ASSUME NEW k, Recorded(k) PROVE Recorded(k)'
  BY <1>1, <1>2, TracesGrow DEF Recorded
<1>3. Spent("send") > 0 => Spent("send")' > 0
  <2>1. "send" \in Faults
    BY DEF Faults
  <2>2. /\ budget["send"] \in Nat /\ budget'["send"] \in Nat /\ Budget["send"] \in Nat
        /\ budget'["send"] <= budget["send"]
    BY <2>1, BudgetFalls, BoundsAssumption, NextType DEF TypeInv, TypeOK
  <2>. QED
    BY <2>2 DEF Spent
<1>4. \A o \in 1 .. Len(raw), t \in Tables : Refused(o, t) => Refused(o, t)'
  BY TracesGrow DEF Refused
<1>5. ASSUME NEW o \in 1 .. Len(raw), Accounted(o) PROVE Accounted(o)'
  <2>1. raw'[o] = raw[o]
    BY TracesGrow
  <2>2. CASE o \in dropped
    BY <2>2, TracesGrow DEF Accounted
  <2>3. CASE Recorded(raw[o])
    BY <2>1, <2>3, <1>2 DEF Accounted, Recorded
  <2>. QED
    BY <1>5, <2>2, <2>3 DEF Accounted
<1>6. ASSUME NEW o \in 1 .. Len(raw), Untraceable(o) PROVE Untraceable(o)'
  <2>1. raw'[o] = raw[o]
    BY TracesGrow
  <2>. QED
    BY <1>3, <1>4, <1>6, <2>1 DEF Untraceable, Tables
<1>. QED
  BY <1>2, <1>3, <1>4, <1>5, <1>6 DEF Settled

LEMMA InitAccounted == Init => IndAccounted
  BY DEF Init, IndAccounted, AccountedInv, OwnerAccounted, CacheRecorded, QuarantineReason

\* A step that leaves a process, its message and the offset alone keeps the parts of
\* the invariant about them.
LEMMA NextAccounted == TypeInv /\ IndAccounted /\ [Next]_vars => IndAccounted'
<1> SUFFICES ASSUME TypeInv, IndAccounted, [Next]_vars, Spent("outage")' = 0
             PROVE  AccountedInv'
  BY DEF IndAccounted
<1>a. AccountedInv
  <2>1. "outage" \in Faults
    BY DEF Faults
  <2>2. budget["outage"] \in Nat /\ budget'["outage"] \in Nat /\ Budget["outage"] \in Nat
        /\ budget["outage"] <= Budget["outage"] /\ budget'["outage"] <= budget["outage"]
    BY <2>1, BudgetFalls, BoundsAssumption, NextType DEF TypeInv, TypeOK
  <2>. QED
    BY <2>2 DEF IndAccounted, Spent
<1>b. ~ DbDown
  <2>1. "outage" \in Faults
    BY DEF Faults
  <2>2. ASSUME DbDown PROVE budget'["outage"] < budget["outage"]
    BY <2>1, <2>2 DEF DbDown, Spend, TypeInv, TypeOK
  <2>. QED
    BY <2>1, <2>2, BoundsAssumption, NextType DEF Spent, TypeInv, TypeOK
<1>c. /\ \A k \in Keys : Recorded(k) => Recorded(k)'
      /\ \A o \in 1 .. Len(raw) : Settled(o) => Settled(o)'
      /\ \A o \in 1 .. Len(raw), t \in Tables : Refused(o, t) => Refused(o, t)'
      /\ Spent("send") > 0 => Spent("send")' > 0
      /\ \A o \in 1 .. Len(raw) : raw'[o] = raw[o]
  BY AccountedStable, TracesGrow
<1>d. /\ committed \in 0 .. Len(raw) /\ pos \in [Instances -> 0 .. Len(raw)]
      /\ pc \in [Instances -> Steps] /\ cache \in [Instances -> SUBSET Keys]
      /\ rows \in [Keys -> Nat] /\ owner \in Instances \cup {NoOwner}
      /\ Len(raw) \in Nat /\ CurrentOK /\ NoOwner \notin Instances
  BY DistinctAssumption DEF TypeInv, TypeOK
\* A process at the quarantine that a step leaves there keeps its reason.
<1>e. ASSUME \A j \in Instances : pc'[j] = "quarantine" => pc[j] = "quarantine" /\ pos'[j] = pos[j]
      PROVE  QuarantineReason'
  <2> SUFFICES ASSUME NEW j \in Instances, pc'[j] = "quarantine"
               PROVE  \/ Current(j)' = Invalid \/ Refused(pos[j], "ingested_events")'
                      \/ Spent("send")' > 0
    BY DEF QuarantineReason
  <2>1. pc[j] = "quarantine" /\ pos'[j] = pos[j] /\ pos[j] \in 1 .. Len(raw)
    BY <1>d, <1>e DEF CurrentOK, Handling
  <2>2. Current(j) = Invalid \/ Refused(pos[j], "ingested_events") \/ Spent("send") > 0
    BY <1>a, <2>1 DEF AccountedInv, QuarantineReason
  <2>. QED
    BY <1>c, <2>1, <2>2 DEF Current, Tables, Refused
<1> USE <1>a, <1>c, <1>d DEF AccountedInv, OwnerAccounted, CacheRecorded, Pending, Goto,
        Current
<1>1. CASE UNCHANGED vars
  BY <1>1, <1>e DEF vars
<1>2. ASSUME NEW m \in Messages, NEW T \in SUBSET Targets(m), Publish(m, T)
      PROVE  AccountedInv'
  <2>1. dbUp' /\ QuarantineReason'
    BY <1>2, <1>e DEF Publish
  <2>2. (\A o \in 1 .. committed : Settled(o))'
    <3>1. committed' = committed /\ \A o \in 1 .. committed : o \in 1 .. Len(raw)
      BY <1>2 DEF Publish
    <3>. QED
      BY <3>1
  <2>3. OwnerAccounted'
    BY <1>2 DEF Publish, CurrentOK, Handling
  <2>4. CacheRecorded'
    BY <1>2 DEF Publish, CurrentOK, Handling
  <2>. QED
    BY <2>1, <2>2, <2>3, <2>4
<1>4. CASE DbRecover
  BY <1>4, <1>e DEF DbRecover
<1>5. ASSUME NEW i \in Instances, PollUndecodable(i) PROVE AccountedInv'
  BY <1>5, <1>e DEF PollUndecodable, Fetch, Exit
<1>6. ASSUME NEW i \in Instances, PollInvalid(i) PROVE AccountedInv'
  <2>1. /\ UNCHANGED <<raw, committed, owner, cache, dbUp>>
        /\ pc[i] = "poll" /\ pc'[i] = "quarantine" /\ pos'[i] = pos[i] + 1
        /\ \A j \in Instances \ {i} : pc'[j] = pc[j] /\ pos'[j] = pos[j]
        /\ raw[pos[i] + 1] = Invalid
    BY <1>6 DEF PollInvalid, Fetch
  <2>2. QuarantineReason'
    <3> SUFFICES ASSUME NEW j \in Instances, pc'[j] = "quarantine"
                 PROVE  \/ Current(j)' = Invalid \/ Refused(pos[j], "ingested_events")'
                        \/ Spent("send")' > 0
      BY DEF QuarantineReason
    <3>1. CASE j = i
      BY <2>1, <3>1
    <3>2. CASE j # i
      <4>1. pc[j] = "quarantine" /\ pos'[j] = pos[j] /\ pos[j] \in 1 .. Len(raw)
        BY <2>1, <3>2 DEF CurrentOK, Handling
      <4>2. Current(j) = Invalid \/ Refused(pos[j], "ingested_events") \/ Spent("send") > 0
        BY <4>1 DEF QuarantineReason
      <4>. QED
        BY <4>1, <4>2 DEF Tables, Refused
    <3>. QED
      BY <3>1, <3>2
  <2>3. OwnerAccounted'
    BY <2>1, <1>6 DEF PollInvalid, Fetch
  <2>4. CacheRecorded'
    BY <2>1
  <2>5. (\A o \in 1 .. committed : Settled(o))'
    BY <2>1
  <2>. QED
    BY <2>1, <2>2, <2>3, <2>4, <2>5
<1>7. ASSUME NEW i \in Instances, PollEvent(i) PROVE AccountedInv'
  <2>1. QuarantineReason'
    BY <1>7, <1>e DEF PollEvent, Fetch
  <2>2. (\A o \in 1 .. committed : Settled(o))'
    BY <1>7 DEF PollEvent
  <2>3. OwnerAccounted'
    <3>1. /\ owner = i /\ owner' = i /\ pc[i] = "poll" /\ pos'[i] = pos[i] + 1 /\ raw' = raw
          /\ pos[i] + 1 \in 1 .. Len(raw) /\ \A o \in 1 .. pos[i] : o \in 1 .. Len(raw)
      BY <1>7 DEF PollEvent, Fetch
    <3>2. \A o \in 1 .. pos[i] : Settled(o)'
      BY <3>1
    <3>3. \A o \in {pos[i] + 1} : Settled(o)' \/ pc'[i] \in Pending
      <4>1. raw[pos[i] + 1] \in cache[i] => Recorded(raw[pos[i] + 1])
        BY <3>1
      <4>2. raw[pos[i] + 1] \in cache[i] => Settled(pos[i] + 1)
        BY <4>1 DEF Settled, Accounted
      <4>. QED
        BY <1>7, <3>1, <4>2 DEF PollEvent
    <3>. QED
      BY <3>1, <3>2, <3>3
  <2>4. CacheRecorded'
    BY <1>7 DEF PollEvent, Fetch, Accounted
  <2>. QED
    BY <1>7, <2>1, <2>2, <2>3, <2>4 DEF PollEvent
<1>8. ASSUME NEW i \in Instances, PollChaosDrop(i) PROVE AccountedInv'
  <2>1. QuarantineReason'
    BY <1>8, <1>e DEF PollChaosDrop, Fetch
  <2>2. (\A o \in 1 .. committed : Settled(o))'
    BY <1>8 DEF PollChaosDrop
  <2>3. OwnerAccounted'
    <3>1. /\ owner = i /\ owner' = i /\ pc[i] = "poll" /\ pos'[i] = pos[i] + 1 /\ raw' = raw
          /\ pos[i] + 1 \in 1 .. Len(raw) /\ \A o \in 1 .. pos[i] : o \in 1 .. Len(raw)
      BY <1>8 DEF PollChaosDrop, Fetch
    <3>2. \A o \in 1 .. pos[i] : Settled(o)'
      BY <3>1
    <3>3. \A o \in {pos[i] + 1} : Settled(o)'
      <4>1. \A o \in {pos[i] + 1} : o \in dropped'
        BY <1>8 DEF PollChaosDrop
      <4>. QED
        BY <4>1 DEF Settled, Accounted
    <3>. QED
      BY <3>1, <3>2, <3>3
  <2>4. CacheRecorded'
    BY <1>8 DEF PollChaosDrop, Fetch, Accounted
  <2>. QED
    BY <1>8, <2>1, <2>2, <2>3, <2>4 DEF PollChaosDrop
<1>9. ASSUME NEW i \in Instances, Lookup(i) PROVE AccountedInv'
  <2>1. /\ UNCHANGED <<raw, committed, owner, pos, cache, dbUp>> /\ pc[i] = "lookup"
        /\ pc'[i] \in {"commit", "produce"} /\ (pc'[i] = "commit" => rows[Current(i)] > 0)
        /\ \A j \in Instances \ {i} : pc'[j] = pc[j]
    BY <1>9 DEF Lookup
  <2>2. QuarantineReason'
    BY <2>1, <1>e
  <2>3. pc'[i] = "commit" => Recorded(Current(i)) /\ Current(i) \in Keys
    BY <2>1 DEF Recorded, CurrentOK
  <2>4. pc'[i] = "commit" => Settled(pos[i])
    BY <2>3 DEF Settled, Accounted
  <2>5. (\A o \in 1 .. committed : Settled(o))'
    BY <2>1
  <2>6. OwnerAccounted'
    BY <2>1, <2>4
  <2>7. CacheRecorded'
    BY <2>1, <2>3
  <2>. QED
    BY <2>1, <2>2, <2>5, <2>6, <2>7
<1>10. ASSUME NEW i \in Instances, Produce(i) PROVE AccountedInv'
  <2>0. /\ UNCHANGED <<raw, committed, owner, pos, cache, dbUp>>
        /\ pc[i] \in Pending /\ pc'[i] \in Pending
        /\ \A j \in Instances \ {i} : pc'[j] = pc[j]
    BY <1>10 DEF Produce
  <2>2. (\A o \in 1 .. committed : Settled(o))'
    BY <2>0
  <2>3. OwnerAccounted'
    BY <2>0
  <2>4. CacheRecorded'
    BY <2>0
  <2>5. CASE pc'[i] = "quarantine"
    <3>1. Spend("send") /\ "send" \in Faults
      BY <1>10, <2>0, <2>5 DEF Produce, Faults
    <3>2. /\ budget["send"] \in Nat /\ budget'["send"] = budget["send"] - 1
          /\ Budget["send"] \in Nat /\ budget["send"] <= Budget["send"]
      BY <3>1, BoundsAssumption DEF Spend, TypeInv, TypeOK
    <3>3. Spent("send")' > 0
      BY <3>2 DEF Spent
    <3>4. QuarantineReason'
      BY <3>3 DEF QuarantineReason
    <3>. QED
      BY <2>0, <2>2, <2>3, <2>4, <3>4
  <2>6. CASE pc'[i] # "quarantine"
    <3>1. QuarantineReason'
      BY <2>0, <2>6, <1>e
    <3>. QED
      BY <2>0, <2>2, <2>3, <2>4, <3>1
  <2>. QED
    BY <2>5, <2>6
<1>11. ASSUME NEW i \in Instances, Insert(i) PROVE AccountedInv'
  <2>1. /\ UNCHANGED <<raw, committed, owner, pos, cache, quarantined, dropped, dbUp>>
        /\ pc[i] \in Pending /\ \A j \in Instances \ {i} : pc'[j] = pc[j]
    BY <1>11 DEF Insert
  <2>2. Current(i) \in Keys /\ pos[i] \in 1 .. Len(raw)
    BY <1>11 DEF Insert, CurrentOK, Handling
  <2>3. CASE pc'[i] = "commit"
    <3>1. rows' = [rows EXCEPT ![Current(i)] = @ + 1]
      BY <1>11, <2>3 DEF Insert
    <3>2. rows'[Current(i)] > 0
      BY <2>2, <3>1
    <3>3. Recorded(Current(i))'
      BY <2>1, <2>2, <3>2 DEF Recorded
    <3>4. Settled(pos[i])'
      BY <2>1, <3>3 DEF Settled, Accounted
    <3>5. OwnerAccounted'
      BY <2>1, <2>3, <3>4
    <3>6. CacheRecorded'
      BY <2>1, <2>3, <3>3
    <3>7. QuarantineReason'
      BY <2>1, <2>3, <1>e
    <3>. QED
      BY <2>1, <3>5, <3>6, <3>7
  <2>4. CASE pc'[i] # "commit"
    <3>1. pc'[i] = "quarantine" /\ Refused(pos[i], "ingested_events")
      BY <1>11, <2>4 DEF Insert
    <3>2. OwnerAccounted'
      BY <2>1, <3>1
    <3>4. CacheRecorded'
      BY <2>1, <3>1
    <3>3. QuarantineReason'
      <4> SUFFICES ASSUME NEW j \in Instances, pc'[j] = "quarantine"
                   PROVE  \/ Current(j)' = Invalid \/ Refused(pos[j], "ingested_events")'
                          \/ Spent("send")' > 0
        BY DEF QuarantineReason
      <4>1. CASE j = i
        BY <2>1, <2>2, <3>1, <4>1 DEF Refused, Tables
      <4>2. CASE j # i
        <5>1. pc[j] = "quarantine" /\ pos'[j] = pos[j] /\ pos[j] \in 1 .. Len(raw)
          BY <2>1, <4>2 DEF CurrentOK, Handling
        <5>2. Current(j) = Invalid \/ Refused(pos[j], "ingested_events") \/ Spent("send") > 0
          BY <5>1 DEF QuarantineReason
        <5>. QED
          BY <5>1, <5>2 DEF Tables, Refused
      <4>. QED
        BY <4>1, <4>2
    <3>. QED
      BY <2>1, <3>2, <3>3, <3>4
  <2>. QED
    BY <2>3, <2>4
<1>12. ASSUME NEW i \in Instances, Quarantine(i) PROVE AccountedInv'
  <2>1. /\ UNCHANGED <<raw, committed, owner, pos, cache, rows, dropped, dbUp>>
        /\ pc[i] = "quarantine" /\ pc'[i] \in {"commit", "dying"}
        /\ \A j \in Instances \ {i} : pc'[j] = pc[j]
        /\ pos[i] \in 1 .. Len(raw)
    BY <1>12 DEF Quarantine, CurrentOK, Handling
  <2>2. QuarantineReason'
    BY <2>1, <1>e
  <2>3. CASE pc'[i] = "commit"
    <3>1. pos[i] \in quarantined'
      BY <1>12, <2>3 DEF Quarantine
    <3>2. Recorded(Current(i))'
      BY <2>1, <3>1 DEF Recorded
    <3>3. Settled(pos[i])'
      BY <2>1, <3>2 DEF Settled, Accounted
    <3>4. OwnerAccounted'
      BY <2>1, <2>3, <3>3
    <3>5. CacheRecorded'
      BY <2>1, <2>3, <3>2
    <3>. QED
      BY <2>1, <2>2, <3>4, <3>5
  <2>4. CASE pc'[i] = "dying"
    <3>1. Refused(pos[i], "quarantine_events")
      BY <1>12, <2>4 DEF Quarantine
    <3>2. Current(i) = Invalid \/ Refused(pos[i], "ingested_events") \/ Spent("send") > 0
      BY <2>1 DEF QuarantineReason
    <3>3. Settled(pos[i])
      BY <3>1, <3>2 DEF Settled, Untraceable
    <3>4. OwnerAccounted'
      BY <2>1, <2>4, <3>3
    <3>5. CacheRecorded'
      BY <2>1, <2>4
    <3>. QED
      BY <2>1, <2>2, <3>4, <3>5
  <2>. QED
    BY <2>1, <2>3, <2>4
<1>13. ASSUME NEW i \in Instances, Commit(i) PROVE AccountedInv'
  <2>1. dbUp' /\ QuarantineReason'
    BY <1>13, <1>e DEF Commit
  <2>2. (\A o \in 1 .. committed : Settled(o))'
    BY <1>13 DEF Commit, TryCommit
  <2>3. OwnerAccounted'
    BY <1>13 DEF Commit, TryCommit
  <2>4. CacheRecorded'
    BY <1>13 DEF Commit
  <2>. QED
    BY <2>1, <2>2, <2>3, <2>4
<1>14. ASSUME NEW i \in Instances, CommitAndDie(i) PROVE AccountedInv'
  <2>1. dbUp' /\ QuarantineReason'
    BY <1>14, <1>e DEF CommitAndDie, Exit
  <2>2. (\A o \in 1 .. committed : Settled(o))'
    BY <1>14 DEF CommitAndDie, TryCommit
  <2>3. OwnerAccounted'
    BY <1>14 DEF CommitAndDie, Exit
  <2>4. CacheRecorded'
    BY <1>14 DEF CommitAndDie, Exit
  <2>. QED
    BY <2>1, <2>2, <2>3, <2>4
<1>15. ASSUME NEW i \in Instances, Assign(i) PROVE AccountedInv'
  BY <1>15, <1>e DEF Assign
<1>16. ASSUME NEW i \in Instances, Revoke(i) PROVE AccountedInv'
  BY <1>16, <1>e DEF Revoke
<1>17. ASSUME NEW i \in Instances, Expel(i) PROVE AccountedInv'
  BY <1>17, <1>e DEF Expel
<1>18. ASSUME NEW i \in Instances, Crash(i) PROVE AccountedInv'
  BY <1>18, <1>e DEF Crash, Exit
<1>19. ASSUME NEW i \in Instances, Stop(i) PROVE AccountedInv'
  BY <1>19, <1>e DEF Stop
<1>20. ASSUME NEW i \in Instances, Close(i) PROVE AccountedInv'
  BY <1>20, <1>e DEF Close, Exit
<1>21. ASSUME NEW i \in Instances, Restart(i) PROVE AccountedInv'
  BY <1>21, <1>e DEF Restart
<1>22. ASSUME NEW i \in Instances, NEW k \in Keys, Deliver(i, k) PROVE AccountedInv'
  BY <1>22, <1>e DEF Deliver
<1>23. ASSUME NEW i \in Instances, NEW k \in Keys, Expire(i, k) PROVE AccountedInv'
  BY <1>23, <1>e DEF Expire
<1>24. ASSUME NEW i \in Instances, NEW k \in Keys, Forget(i, k) PROVE AccountedInv'
  BY <1>24, <1>e DEF Forget
<1>. QED
  BY <1>b, <1>1, <1>2, <1>4, <1>5, <1>6, <1>7, <1>8, <1>9, <1>10, <1>11, <1>12, <1>13,
     <1>14, <1>15, <1>16, <1>17, <1>18, <1>19, <1>20, <1>21, <1>22, <1>23, <1>24
  DEF Next, Handle

\* While Postgres has not failed, every committed message has a row, a quarantine row
\* (its own or one of another copy), was dropped by the chaos switch, or is one of which
\* no table takes a trace: crashes, failed sends and commits, rows that Postgres rejects,
\* rebalances and expelled processes lose nothing else.
THEOREM NothingVanishes == Spec => []CommittedAccounted
<1>1. IndAccounted => CommittedAccounted
  BY DEF IndAccounted, AccountedInv, CommittedAccounted, Settled
<1>. QED
  BY <1>1, InitType, NextType, InitAccounted, NextAccounted, PTL DEF Spec

-------------------------------------------------------------------------------
(* One row per event while no process is expelled in the middle of one.    *)

OneRowInv ==
    /\ \A k \in Keys : rows[k] <= 1
    /\ \A i \in Instances :
         /\ pc[i] \in Handling => owner = i
         /\ pc[i] \in {"produce", "insert"} => rows[Current(i)] = 0

IndOneRow == Spent("expel") = 0 => OneRowInv

LEMMA InitOneRow == Init => IndOneRow
  BY DEF Init, IndOneRow, OneRowInv, NoCopies, Handling

LEMMA NextOneRow == TypeInv /\ IndOneRow /\ [Next]_vars => IndOneRow'
<1> SUFFICES ASSUME TypeInv, IndOneRow, [Next]_vars, Spent("expel")' = 0
             PROVE  OneRowInv'
  BY DEF IndOneRow
<1>0. "expel" \in Faults
  BY DEF Faults
<1>a. OneRowInv
  <2>1. budget["expel"] \in Nat /\ budget'["expel"] \in Nat /\ Budget["expel"] \in Nat
        /\ budget["expel"] <= Budget["expel"] /\ budget'["expel"] <= budget["expel"]
    BY <1>0, BudgetFalls, BoundsAssumption, NextType DEF TypeInv, TypeOK
  <2>. QED
    BY <2>1 DEF IndOneRow, Spent
<1>b. ASSUME NEW i \in Instances PROVE ~ Expel(i)
  <2>1. ASSUME Expel(i) PROVE budget'["expel"] < budget["expel"]
    BY <1>0, <2>1 DEF Expel, Spend, TypeInv, TypeOK
  <2>. QED
    BY <1>0, <2>1, BoundsAssumption, NextType DEF Spent, TypeInv, TypeOK
<1>c. \A o \in 1 .. Len(raw) : raw'[o] = raw[o]
  BY TracesGrow
<1>d. /\ pos \in [Instances -> 0 .. Len(raw)] /\ pc \in [Instances -> Steps]
      /\ rows \in [Keys -> Nat] /\ Len(raw) \in Nat /\ CurrentOK
      /\ NoOwner \notin Instances
  BY DistinctAssumption DEF TypeInv, TypeOK
<1> USE <1>a, <1>c, <1>d DEF OneRowInv, Handling, Goto, Current, CurrentOK
<1>1. CASE UNCHANGED vars
  BY <1>1 DEF vars
<1>2. ASSUME NEW m \in Messages, NEW T \in SUBSET Targets(m), Publish(m, T)
      PROVE  OneRowInv'
  BY <1>2 DEF Publish
<1>3. CASE DbDown
  BY <1>3 DEF DbDown
<1>4. CASE DbRecover
  BY <1>4 DEF DbRecover
<1>5. ASSUME NEW i \in Instances, PollUndecodable(i) PROVE OneRowInv'
  BY <1>5 DEF PollUndecodable, Fetch, Exit
<1>6. ASSUME NEW i \in Instances, PollInvalid(i) PROVE OneRowInv'
  BY <1>6 DEF PollInvalid, Fetch
<1>7. ASSUME NEW i \in Instances, PollEvent(i) PROVE OneRowInv'
  BY <1>7 DEF PollEvent, Fetch
<1>8. ASSUME NEW i \in Instances, PollChaosDrop(i) PROVE OneRowInv'
  BY <1>8 DEF PollChaosDrop, Fetch
<1>9. ASSUME NEW i \in Instances, Lookup(i) PROVE OneRowInv'
  BY <1>9 DEF Lookup
<1>10. ASSUME NEW i \in Instances, Produce(i) PROVE OneRowInv'
  BY <1>10 DEF Produce
<1>11. ASSUME NEW i \in Instances, Insert(i) PROVE OneRowInv'
  <2>1. /\ Current(i) \in Keys /\ rows[Current(i)] = 0 /\ owner = i
        /\ \A j \in Instances \ {i} : pc[j] \notin Handling
    BY <1>11 DEF Insert
  <2>2. (\A k \in Keys : rows[k] <= 1)'
    BY <1>11, <2>1 DEF Insert
  <2>3. \A j \in Instances : pc'[j] \in Handling => j = i
    BY <1>11, <2>1 DEF Insert
  <2>4. pc'[i] \in {"commit", "quarantine"} /\ owner' = i
    BY <1>11, <2>1 DEF Insert
  <2>. QED
    BY <2>2, <2>3, <2>4
<1>12. ASSUME NEW i \in Instances, Quarantine(i) PROVE OneRowInv'
  BY <1>12 DEF Quarantine
<1>13. ASSUME NEW i \in Instances, Commit(i) PROVE OneRowInv'
  BY <1>13 DEF Commit
<1>14. ASSUME NEW i \in Instances, CommitAndDie(i) PROVE OneRowInv'
  BY <1>14 DEF CommitAndDie, Exit
<1>15. ASSUME NEW i \in Instances, Assign(i) PROVE OneRowInv'
  BY <1>15 DEF Assign
<1>16. ASSUME NEW i \in Instances, Revoke(i) PROVE OneRowInv'
  BY <1>16 DEF Revoke
<1>18. ASSUME NEW i \in Instances, Crash(i) PROVE OneRowInv'
  BY <1>18 DEF Crash, Exit
<1>19. ASSUME NEW i \in Instances, Stop(i) PROVE OneRowInv'
  BY <1>19 DEF Stop
<1>20. ASSUME NEW i \in Instances, Close(i) PROVE OneRowInv'
  BY <1>20 DEF Close, Exit
<1>21. ASSUME NEW i \in Instances, Restart(i) PROVE OneRowInv'
  BY <1>21 DEF Restart
<1>22. ASSUME NEW i \in Instances, NEW k \in Keys, Deliver(i, k) PROVE OneRowInv'
  BY <1>22 DEF Deliver
<1>23. ASSUME NEW i \in Instances, NEW k \in Keys, Expire(i, k) PROVE OneRowInv'
  BY <1>23 DEF Expire
<1>24. ASSUME NEW i \in Instances, NEW k \in Keys, Forget(i, k) PROVE OneRowInv'
  BY <1>24 DEF Forget
<1>. QED
  BY <1>b, <1>1, <1>2, <1>3, <1>4, <1>5, <1>6, <1>7, <1>8, <1>9, <1>10, <1>11, <1>12,
     <1>13, <1>14, <1>15, <1>16, <1>18, <1>19, <1>20, <1>21, <1>22, <1>23, <1>24
  DEF Next, Handle

\* ingested_events holds at most one row per idempotency key, although no index
\* enforces it, unless the group expelled a process that was handling a message.
THEOREM OneRow == Spec => []OneRowPerEvent
<1>1. IndOneRow => OneRowPerEvent
  BY DEF IndOneRow, OneRowInv, OneRowPerEvent
<1>. QED
  BY <1>1, InitType, NextType, InitOneRow, NextOneRow, PTL DEF Spec
-------------------------------------------------------------------------------
(* The ingestor implements ConsumerGroup.                                  *)

\* Where the owner of the partition stands, in this state and in the next.
LEMMA PositionCases ==
    /\ owner = NoOwner => Position = committed
    /\ owner # NoOwner => Position = IF pc[owner] \in Handling THEN pos[owner] - 1 ELSE pos[owner]
    /\ owner' = NoOwner => Position' = committed'
    /\ owner' # NoOwner =>
          Position' = IF pc'[owner'] \in Handling THEN pos'[owner'] - 1 ELSE pos'[owner']
  BY DEF Position

\* Nothing the group sees changes.
LEMMA GroupStutters ==
    ASSUME UNCHANGED <<raw, committed, owner>>,
           owner # NoOwner => /\ pos'[owner] = pos[owner]
                              /\ (pc'[owner] \in Handling) = (pc[owner] \in Handling)
    PROVE  UNCHANGED Group!vars
  BY PositionCases DEF Group!vars

\* A process that ends gives the partition up; the next owner resumes at the offset.
LEMMA GivenUp ==
    ASSUME UNCHANGED <<raw, committed>>, owner' = NoOwner
    PROVE  [Group!Next]_(Group!vars)
<1>1. Position' = committed
  BY PositionCases
<1>. QED
  BY <1>1 DEF Group!Next, Group!Resume

LEMMA FetchRefines ==
    ASSUME TypeInv, NEW i \in Instances, Fetch(i), UNCHANGED <<raw, committed, owner>>,
           pc'[i] \in Handling
    PROVE  UNCHANGED Group!vars
<1>1. owner = i /\ pos'[i] = pos[i] + 1 /\ pos[i] \in Nat /\ pc[i] \notin Handling
  BY DEF Fetch, TypeInv, TypeOK, Handling
<1>2. Position' = Position
  BY <1>1, PositionCases, DistinctAssumption
<1>. QED
  BY <1>2 DEF Group!vars

LEMMA CommitRefines ==
    ASSUME TypeInv, NEW i \in Instances, Commit(i) \/ CommitAndDie(i)
    PROVE  [Group!Next]_(Group!vars)
<1>0. /\ pos[i] \in 1 .. Len(raw) /\ Len(raw) \in Nat /\ committed \in Nat
      /\ pc \in [Instances -> Steps] /\ pc[i] \in Handling /\ UNCHANGED <<raw, pos>>
  BY DEF Commit, CommitAndDie, Handling, TypeInv, TypeOK, CurrentOK
<1>1. CASE owner = i
  <2>1. Position = pos[i] - 1 /\ committed' \in {committed, pos[i]}
    BY <1>0, <1>1, PositionCases, DistinctAssumption DEF Commit, CommitAndDie, TryCommit
  <2>2. Position' \in {pos[i], committed'}
    <3>1. CASE Commit(i)
      BY <1>0, <1>1, <3>1, PositionCases, DistinctAssumption DEF Commit, Goto, Handling
    <3>2. CASE CommitAndDie(i)
      BY <1>1, <3>2, PositionCases DEF CommitAndDie, Exit
    <3>. QED
      BY <3>1, <3>2
  <2>3. CASE Position' = pos[i]
    <3>1. /\ Position < Len(raw) /\ Position' = Position + 1
          /\ committed' \in {committed, Position + 1}
      BY <1>0, <2>1, <2>3
    <3>. QED
      BY <1>0, <3>1 DEF Group!Next, Group!Finish
  <2>4. CASE Position' # pos[i]
    <3>1. committed' = committed /\ Position' = committed
      BY <2>1, <2>2, <2>4
    <3>. QED
      BY <1>0, <3>1 DEF Group!Next, Group!Resume
  <2>. QED
    BY <2>3, <2>4
<1>2. CASE owner # i
  <2>1. /\ UNCHANGED <<committed, owner>>
        /\ \A j \in Instances \ {i} : pc'[j] = pc[j]
    BY <1>0, <1>2 DEF Commit, CommitAndDie, TryCommit, Exit, Goto
  <2>2. owner \in Instances \cup {NoOwner}
    BY DEF TypeInv, TypeOK
  <2>. QED
    BY <1>0, <1>2, <2>1, <2>2, GroupStutters
<1>. QED
  BY <1>1, <1>2

LEMMA HandleRefines ==
    ASSUME TypeInv, NEW i \in Instances, Handle(i) \/ PollChaosDrop(i)
    PROVE  [Group!Next]_(Group!vars)
<1>0. pc \in [Instances -> Steps] /\ owner \in Instances \cup {NoOwner}
  BY DEF TypeInv, TypeOK
<1>1. CASE PollInvalid(i) \/ PollEvent(i) \/ PollChaosDrop(i)
  <2>1. Fetch(i) /\ UNCHANGED <<raw, committed, owner>> /\ pc'[i] \in Handling
    BY <1>0, <1>1 DEF PollInvalid, PollEvent, PollChaosDrop, Goto, Handling
  <2>. QED
    BY <2>1, FetchRefines
<1>2. CASE PollUndecodable(i)
  <2>1. UNCHANGED <<raw, committed>> /\ owner' = NoOwner
    BY <1>2 DEF PollUndecodable, Fetch, Exit
  <2>. QED
    BY <2>1, GivenUp
<1>3. CASE Lookup(i) \/ Produce(i) \/ Insert(i) \/ Quarantine(i)
  <2>1. /\ UNCHANGED <<raw, committed, owner, pos>>
        /\ pc[i] \in Handling /\ pc'[i] \in Handling
        /\ \A j \in Instances \ {i} : pc'[j] = pc[j]
    BY <1>0, <1>3 DEF Lookup, Produce, Insert, Quarantine, Goto, Handling
  <2>. QED
    BY <1>0, <2>1, GroupStutters
<1>. QED
  BY <1>1, <1>2, <1>3, CommitRefines DEF Handle

LEMMA EnvironmentRefines ==
    ASSUME TypeInv, NEW i \in Instances,
           \/ Assign(i) \/ Revoke(i) \/ Expel(i)
           \/ Crash(i) \/ Stop(i) \/ Close(i) \/ Restart(i)
    PROVE  [Group!Next]_(Group!vars)
<1>0. /\ pos \in [Instances -> 0 .. Len(raw)] /\ pc \in [Instances -> Steps]
      /\ owner \in Instances \cup {NoOwner} /\ UNCHANGED <<raw, committed>>
  BY DEF TypeInv, TypeOK, Assign, Revoke, Expel, Crash, Stop, Close, Restart, Exit
<1>1. CASE Assign(i)
  <2>1. owner = NoOwner /\ owner' = i /\ pos'[i] = committed /\ pc'[i] = "poll"
    BY <1>0, <1>1 DEF Assign
  <2>2. Position' = Position
    BY <2>1, PositionCases, DistinctAssumption DEF Handling
  <2>. QED
    BY <1>0, <2>2 DEF Group!vars
<1>2. CASE owner' = NoOwner
  BY <1>0, <1>2, GivenUp
<1>3. CASE ~ Assign(i) /\ owner' # NoOwner
  <2>1. /\ UNCHANGED <<owner, pos>> /\ \A j \in Instances \ {i} : pc'[j] = pc[j]
        /\ owner = i => (pc'[i] \in Handling) = (pc[i] \in Handling)
    BY <1>0, <1>3 DEF Revoke, Expel, Crash, Stop, Close, Restart, Exit, Handling
  <2>. QED
    BY <1>0, <2>1, GroupStutters
<1>. QED
  BY <1>1, <1>2, <1>3

LEMMA NextRefines == TypeInv /\ [Next]_vars => [Group!Next]_(Group!vars)
<1> SUFFICES ASSUME TypeInv, [Next]_vars PROVE [Group!Next]_(Group!vars)
  OBVIOUS
<1>1. CASE UNCHANGED <<raw, committed, owner, pos, pc>>
  BY <1>1, GroupStutters
<1>2. ASSUME NEW m \in Messages, NEW T \in SUBSET Targets(m), Publish(m, T)
      PROVE  [Group!Next]_(Group!vars)
  <2>1. Len(raw') = Len(raw) + 1 /\ UNCHANGED <<committed, owner, pos, pc>>
    BY <1>2 DEF Publish, TypeInv, TypeOK
  <2>2. Position' = Position
    BY <2>1, PositionCases
  <2>. QED
    BY <2>1, <2>2 DEF Group!Next, Group!Publish
<1>3. UNCHANGED vars \/ DbDown \/ DbRecover => UNCHANGED <<raw, committed, owner, pos, pc>>
  BY DEF vars, DbDown, DbRecover
<1>4. \A i \in Instances, k \in Keys :
          Deliver(i, k) \/ Expire(i, k) \/ Forget(i, k)
              => UNCHANGED <<raw, committed, owner, pos, pc>>
  BY DEF Deliver, Expire, Forget
<1>. QED
  BY <1>1, <1>2, <1>3, <1>4, HandleRefines, EnvironmentRefines DEF Next

\* The ingestor consumes the raw messages at least once: every step is a step of
\* ConsumerGroup, or one that the group does not see.
THEOREM IngestorConsumesAtLeastOnce == Spec => AtLeastOnce
<1>1. Init => Group!Init
  BY PositionCases DEF Init, Group!Init
<1>2. Init => TypeInv
  BY InitType
<1>3. TypeInv /\ [Next]_vars => TypeInv'
  BY NextType
<1>. QED
  BY <1>1, <1>2, <1>3, NextRefines, PTL DEF Spec, AtLeastOnce, Group!Spec

\* A step of the group keeps the committed offset between itself and the position.
LEMMA GroupStep ==
    ASSUME TypeInv, TypeInv', Group!NeverAhead, [Group!Next]_(Group!vars)
    PROVE  Group!NeverAhead' /\ committed <= committed'
<1>1. /\ Len(raw) \in Nat /\ committed \in Nat /\ Position \in Int
      /\ Len(raw') \in Nat /\ committed' \in Nat /\ Position' \in Int
  BY PositionCases DEF TypeInv, TypeOK
<1>2. committed <= Position /\ Position <= Len(raw)
  BY DEF Group!NeverAhead
<1>3. \/ /\ committed' = committed /\ Position' = Position
         /\ Len(raw') \in {Len(raw), Len(raw) + 1}
      \/ /\ Position < Len(raw) /\ Position' = Position + 1 /\ Len(raw') = Len(raw)
         /\ committed' \in {committed, Position + 1}
      \/ committed' = committed /\ Position' = committed /\ Len(raw') = Len(raw)
  BY DEF Group!Next, Group!Publish, Group!Finish, Group!Resume, Group!vars
<1>. QED
  BY <1>1, <1>2, <1>3 DEF Group!NeverAhead

\* What the ingestors commit never runs ahead of the messages that were handled to their
\* end, whichever process commits; and no commit is ever taken back.
THEOREM IngestorCommitsFollowWork == Spec => []Group!NeverAhead /\ [][committed <= committed']_vars
<1>1. Init => Group!NeverAhead
  BY PositionCases DEF Init, Group!NeverAhead
<1>2. TypeInv /\ Group!NeverAhead /\ [Next]_vars =>
          Group!NeverAhead' /\ [committed <= committed']_vars
  BY NextType, NextRefines, GroupStep
<1>. QED
  BY <1>1, <1>2, InitType, NextType, PTL DEF Spec

-------------------------------------------------------------------------------
(* Duplicates. A sum over the processes is the size of a set of units, by   *)
(* the smallest counterexample; the invariant then counts tokens.           *)

\* A family of subsets of a finite set has a member that contains no other.
LEMMA SmallestSet ==
    ASSUME NEW S, IsFiniteSet(S), NEW U \in SUBSET (SUBSET S), U # {}
    PROVE  \E T \in U : \A V \in U : V \subseteq T => V = T
<1>0. IsWellFoundedOn(StrictSubsetOrdering(S), SUBSET S)
  BY FS_StrictSubsetOrderingWellFounded, FS_FiniteSubsetsOfFinite, Zenon
<1>1. PICK T \in U : \A V \in U : ~ (<<V, T>> \in StrictSubsetOrdering(S))
  BY <1>0, WFMin, Zenon
<1>2. \A V \in U : V \subseteq T /\ V # T => <<V, T>> \in StrictSubsetOrdering(S)
  BY Zenon DEF StrictSubsetOrdering
<1>3. \A V \in U : V \subseteq T => V = T
  BY <1>1, <1>2, Zenon
<1>. QED
  BY <1>3, Zenon

\* One token for each unit of v[x][k], x in S: their number is the sum of these.
Units(v, k, S) == {t \in S \X Nat : t[2] \in 1 .. v[t[1]][k]}

\* The units of a finite set are those of one member and those of the others.
LEMMA UnitsSplit ==
    ASSUME NEW T, IsFiniteSet(T), NEW k, NEW v, \A x \in T : v[x][k] \in Nat
    PROVE  /\ IsFiniteSet(Units(v, k, T))
           /\ \A x \in T : Cardinality(Units(v, k, T)) = v[x][k] + Cardinality(Units(v, k, T \ {x}))
<1>1. ASSUME NEW x \in T
      PROVE  IsFiniteSet(Units(v, k, {x})) /\ Cardinality(Units(v, k, {x})) = v[x][k]
  <2>1. v[x][k] \in Nat
    OBVIOUS
  <2>2. IsFiniteSet(1 .. v[x][k]) /\ Cardinality(1 .. v[x][k]) = v[x][k]
    <3>1. PICK n \in Nat : n = v[x][k]
      BY <2>1
    <3>2. IsFiniteSet(1 .. n) /\ Cardinality(1 .. n) = n
      BY FS_Interval
    <3>. QED
      BY <3>1, <3>2
  <2>3. IsFiniteSet({x}) /\ Cardinality({x}) = 1
    BY FS_Singleton
  <2>4. PICK X, B : X = {x} /\ B = 1 .. v[x][k]
    OBVIOUS
  <2>5. IsFiniteSet(X \X B) /\ Cardinality(X \X B) = Cardinality(X) * Cardinality(B)
    BY <2>2, <2>3, <2>4, FS_Product
  <2>6. Units(v, k, {x}) = X \X B
    BY <2>1, <2>4 DEF Units
  <2>7. Cardinality(X \X B) = 1 * v[x][k]
    BY <2>2, <2>3, <2>4, <2>5
  <2>8. 1 * v[x][k] = v[x][k]
    BY <2>1
  <2>. QED
    BY <2>5, <2>6, <2>7, <2>8, Zenon
<1>2. IsFiniteSet(Units(v, k, T))
  <2>1. PICK n : n = [x \in T |-> Units(v, k, {x})]
    OBVIOUS
  <2>2. PICK P : P = {Units(v, k, {x}) : x \in T}
    OBVIOUS
  <2>3. IsFiniteSet(P)
    <3>1. n \in Surjection(T, P)
      BY <2>1, <2>2 DEF Surjection
    <3>. QED
      BY <3>1, FS_Surjection
  <2>4. \A Q \in P : IsFiniteSet(Q)
    BY <1>1, <2>2
  <2>5. Units(v, k, T) = UNION P
    BY <2>2 DEF Units
  <2>. QED
    BY <2>3, <2>4, <2>5, FS_UNION
<1>3. ASSUME NEW x \in T
      PROVE  Cardinality(Units(v, k, T)) = v[x][k] + Cardinality(Units(v, k, T \ {x}))
  <2>1. PICK A : A = Units(v, k, {x})
    OBVIOUS
  <2>2. PICK B : B = Units(v, k, T \ {x})
    OBVIOUS
  <2>3. Units(v, k, T) = A \cup B /\ A \cap B = {} /\ B \subseteq Units(v, k, T)
    BY <2>1, <2>2 DEF Units
  <2>4. IsFiniteSet(A) /\ Cardinality(A) = v[x][k] /\ IsFiniteSet(B)
    BY <1>1, <1>2, <2>1, <2>3, FS_Subset
  <2>5. Cardinality(A \cup B) = Cardinality(A) + Cardinality(B) - Cardinality(A \cap B)
    BY <2>4, FS_Union
  <2>6. Cardinality(A \cap B) = 0 /\ Cardinality(A) \in Nat /\ Cardinality(B) \in Nat
    BY <2>3, <2>4, FS_EmptySet, FS_CardinalityType
  <2>7. Cardinality(A \cup B) = v[x][k] + Cardinality(B)
    <3>1. v[x][k] \in Nat
      OBVIOUS
    <3>. QED
      BY <2>4, <2>5, <2>6, <3>1
  <2>. QED
    BY <2>2, <2>3, <2>7, Zenon
<1>. QED
  BY <1>2, <1>3

\* The recursion that MapThenSumSet stands for.
IsSum(f, v, k, S) ==
    f = [T \in SUBSET S |-> IF T = {} THEN 0
                           ELSE v[CHOOSE x \in T : TRUE][k] + f[T \ {CHOOSE x \in T : TRUE}]]

LEMMA SumExists ==
    ASSUME NEW S, IsFiniteSet(S), NEW k, NEW v, \A x \in S : v[x][k] \in Nat
    PROVE  \E f : IsSum(f, v, k, S)
<1> DEFINE h == [T \in SUBSET S |-> Cardinality(Units(v, k, T))]
<1>1. h[{}] = 0
  <2>1. Units(v, k, {}) = {}
    BY DEF Units
  <2>. QED
    BY <2>1, FS_EmptySet
<1>2. ASSUME NEW T \in SUBSET S, T # {}
      PROVE  h[T] = v[CHOOSE x \in T : TRUE][k] + h[T \ {CHOOSE x \in T : TRUE}]
  <2>1. PICK x \in T : x = CHOOSE y \in T : TRUE
    BY <1>2
  <2>2. IsFiniteSet(T) /\ T \ {x} \in SUBSET S
    BY FS_Subset
  <2>3. \A y \in T : Cardinality(Units(v, k, T)) = v[y][k] + Cardinality(Units(v, k, T \ {y}))
    <3>1. \A y \in T : v[y][k] \in Nat
      OBVIOUS
    <3>. QED
      BY <2>2, <3>1, UnitsSplit
  <2>. QED
    BY <2>1, <2>2, <2>3
<1>3. h = [T \in SUBSET S |->
              IF T = {} THEN 0
              ELSE v[CHOOSE x \in T : TRUE][k] + h[T \ {CHOOSE x \in T : TRUE}]]
  BY <1>1, <1>2
<1>. HIDE DEF h
<1>4. IsSum(h, v, k, S)
  BY <1>3, Zenon DEF IsSum
<1>. QED
  BY <1>4, Zenon

\* The sum of the community modules counts the tokens.
LEMMA SumIsCount ==
    ASSUME NEW S, IsFiniteSet(S), NEW k, NEW v, \A x \in S : v[x][k] \in Nat
    PROVE  MapThenSumSet(LAMBDA i : v[i][k], S) = Cardinality(Units(v, k, S))
<1>1. PICK f : f = CHOOSE g : IsSum(g, v, k, S)
  OBVIOUS
<1>2. f = [T \in SUBSET S |->
              IF T = {} THEN 0
              ELSE v[CHOOSE x \in T : TRUE][k] + f[T \ {CHOOSE x \in T : TRUE}]]
  <2>1. IsSum(f, v, k, S)
    BY <1>1, SumExists, Zenon
  <2>. QED
    BY <2>1, Zenon DEF IsSum
<1>3. MapThenSumSet(LAMBDA i : v[i][k], S) = f[S]
  BY <1>1, Zenon DEF MapThenSumSet, MapThenFoldSet, IsSum
<1> DEFINE Bad == {T \in SUBSET S : f[T] # Cardinality(Units(v, k, T))}
<1>4. ASSUME Bad # {} PROVE FALSE
  <2>1. PICK T \in Bad : \A V \in Bad : V \subseteq T => V = T
    <3>1. PICK U : U = Bad
      OBVIOUS
    <3>2. U \in SUBSET (SUBSET S) /\ U # {}
      BY <1>4, <3>1
    <3>3. \E V \in U : \A W \in U : W \subseteq V => W = V
      BY <3>2, SmallestSet
    <3>. QED
      BY <3>1, <3>3, Zenon
  <2>2. CASE T = {}
    <3>1. Units(v, k, T) = {} /\ f[T] = 0
      BY <1>2, <2>2 DEF Units
    <3>. QED
      BY <2>1, <3>1, FS_EmptySet
  <2>3. CASE T # {}
    <3>1. PICK x \in T : x = CHOOSE y \in T : TRUE
      BY <2>3
    <3>2. IsFiniteSet(T) /\ T \ {x} \in SUBSET S /\ T \in SUBSET S
      BY <2>1, FS_Subset
    <3>3. f[T] = v[x][k] + f[T \ {x}]
      BY <1>2, <2>3, <3>1, <3>2
    <3>4. T \ {x} \notin Bad
      BY <2>1
    <3>5. f[T \ {x}] = Cardinality(Units(v, k, T \ {x}))
      BY <3>2, <3>4
    <3>6. \A y \in T : Cardinality(Units(v, k, T)) = v[y][k] + Cardinality(Units(v, k, T \ {y}))
      <4>1. \A y \in T : v[y][k] \in Nat
        BY <3>2
      <4>. QED
        BY <3>2, <4>1, UnitsSplit
    <3>. QED
      BY <2>1, <3>3, <3>5, <3>6
  <2>. QED
    BY <2>2, <2>3
<1>5. f[S] = Cardinality(Units(v, k, S))
  BY <1>4
<1>. QED
  BY <1>3, <1>5

-------------------------------------------------------------------------------
(* Every copy of an event but one is paid for.                             *)

\* What has been paid for copies of k: faults, and rows that Postgres did not take.
Costly(k) == Spent("crash") + Spent("expel") + Spent("outage") + rejected[k]

\* Process i may still produce a copy of k that its owner's lookup does not prevent.
Waiting(i, k) ==
    /\ pc[i] = "produce" \/ (pc[i] = "lookup" /\ owner # i)
    /\ Current(i) = k

\* The copies on their way, and those that may still set out.
Tokens(k) ==
    {t \in Instances \X Nat : \/ t[2] \in 1 .. sendq[t[1]][k]
                              \/ t[2] = 0 /\ Waiting(t[1], k)}

\* What the one copy that costs nothing is for: the row is there, or the owner is about
\* to write it.
Excused(k) ==
    \/ rows[k] > 0
    \/ \E i \in Instances : owner = i /\ pc[i] \in {"produce", "insert"} /\ Current(i) = k

Room(k) == IF dbUp /\ Excused(k) THEN 1 ELSE 0

Paid(k) == normalized[k] + Cardinality(Tokens(k)) <= Costly(k) + Room(k)

PaidInv == \A k \in Keys : Paid(k)

\* There are finitely many tokens.
LEMMA TokensFinite ==
    ASSUME TypeOK, NEW k \in Keys
    PROVE  IsFiniteSet(Tokens(k)) /\ Cardinality(Tokens(k)) \in Nat
<1>1. sendq \in [Instances -> [Keys -> Nat]]
  BY DEF TypeOK
<1>2. IsFiniteSet(Units(sendq, k, Instances))
  <2>1. \A i \in Instances : sendq[i][k] \in Nat
    BY <1>1
  <2>. QED
    BY <2>1, InstancesAssumption, UnitsSplit
<1>3. IsFiniteSet(Instances \X {0})
  BY InstancesAssumption, FS_Singleton, FS_Product
<1>4. Tokens(k) \subseteq Units(sendq, k, Instances) \cup (Instances \X {0})
  BY DEF Tokens, Units
<1>5. IsFiniteSet(Units(sendq, k, Instances) \cup (Instances \X {0}))
  BY <1>2, <1>3, FS_Union
<1>. QED
  BY <1>4, <1>5, FS_Subset, FS_CardinalityType

\* A copy is published or has a token.
LEMMA CopiesAreTokens ==
    ASSUME TypeOK, NEW k \in Keys
    PROVE  Copies(k) \in Nat /\ Copies(k) <= normalized[k] + Cardinality(Tokens(k))
<1>1. sendq \in [Instances -> [Keys -> Nat]] /\ normalized[k] \in Nat
  BY DEF TypeOK
<1>2. MapThenSumSet(LAMBDA i : sendq[i][k], Instances) = Cardinality(Units(sendq, k, Instances))
  <2>1. \A i \in Instances : sendq[i][k] \in Nat
    BY <1>1
  <2>. QED
    BY <2>1, InstancesAssumption, SumIsCount
<1>3. Units(sendq, k, Instances) \subseteq Tokens(k)
  BY DEF Tokens, Units
<1>4. IsFiniteSet(Tokens(k)) /\ Cardinality(Tokens(k)) \in Nat
  BY TokensFinite
<1>5. Cardinality(Units(sendq, k, Instances)) <= Cardinality(Tokens(k))
      /\ Cardinality(Units(sendq, k, Instances)) \in Nat
  BY <1>3, <1>4, FS_Subset, FS_CardinalityType
<1>. QED
  BY <1>1, <1>2, <1>4, <1>5 DEF Copies

\* How the number of tokens changes with the set.
LEMMA FewerTokens ==
    ASSUME NEW T, NEW u, NEW V, IsFiniteSet(T), V \subseteq T \cup {u}
    PROVE  /\ Cardinality(T) \in Nat /\ Cardinality(V) \in Nat
           /\ Cardinality(V) <= Cardinality(T) + 1
           /\ V \subseteq T => Cardinality(V) <= Cardinality(T)
           /\ \A t \in T : V \subseteq T \ {t} => Cardinality(V) + 1 <= Cardinality(T)
           /\ \A t \in T : V \subseteq (T \ {t}) \cup {u} => Cardinality(V) <= Cardinality(T)
<1>1. ASSUME NEW W, IsFiniteSet(W), V \subseteq W
      PROVE  Cardinality(V) <= Cardinality(W) /\ Cardinality(V) \in Nat /\ Cardinality(W) \in Nat
  BY <1>1, FS_Subset, FS_CardinalityType
<1>2. ASSUME NEW W, IsFiniteSet(W)
      PROVE  IsFiniteSet(W \cup {u}) /\ Cardinality(W \cup {u}) <= Cardinality(W) + 1
             /\ Cardinality(W) \in Nat
  <2>1. IsFiniteSet(W \cup {u}) /\ Cardinality(W \cup {u}) =
          IF u \in W THEN Cardinality(W) ELSE Cardinality(W) + 1
    BY <1>2, FS_AddElement
  <2>2. Cardinality(W) \in Nat
    BY <1>2, FS_CardinalityType
  <2>. QED
    BY <2>1, <2>2
<1>3. ASSUME NEW t \in T
      PROVE  IsFiniteSet(T \ {t}) /\ Cardinality(T \ {t}) = Cardinality(T) - 1
  BY FS_RemoveElement
<1>4. /\ Cardinality(T) \in Nat /\ Cardinality(V) \in Nat
      /\ Cardinality(V) <= Cardinality(T) + 1
  <2>1. PICK W : W = T \cup {u}
    OBVIOUS
  <2>2. IsFiniteSet(W) /\ Cardinality(W) <= Cardinality(T) + 1 /\ Cardinality(T) \in Nat
    BY <1>2, <2>1
  <2>3. Cardinality(V) <= Cardinality(W) /\ Cardinality(V) \in Nat /\ Cardinality(W) \in Nat
    BY <1>1, <2>1, <2>2
  <2>. QED
    BY <2>2, <2>3
<1>5. V \subseteq T => Cardinality(V) <= Cardinality(T)
  BY <1>1
<1>6. ASSUME NEW t \in T, V \subseteq T \ {t} PROVE Cardinality(V) + 1 <= Cardinality(T)
  <2>1. PICK W : W = T \ {t}
    OBVIOUS
  <2>2. IsFiniteSet(W) /\ Cardinality(W) = Cardinality(T) - 1
    BY <1>3, <2>1
  <2>3. Cardinality(V) <= Cardinality(W)
    BY <1>1, <1>6, <2>1, <2>2
  <2>. QED
    BY <1>4, <2>2, <2>3
<1>7. ASSUME NEW t \in T, V \subseteq (T \ {t}) \cup {u} PROVE Cardinality(V) <= Cardinality(T)
  <2>1. PICK W : W = T \ {t}
    OBVIOUS
  <2>2. IsFiniteSet(W) /\ Cardinality(W) = Cardinality(T) - 1
    BY <1>3, <2>1
  <2>3. /\ IsFiniteSet(W \cup {u}) /\ Cardinality(W \cup {u}) <= Cardinality(W) + 1
    BY <1>2, <2>2
  <2>4. Cardinality(V) <= Cardinality(W \cup {u}) /\ Cardinality(W \cup {u}) \in Nat
    BY <1>1, <1>7, <2>1, <2>3
  <2>. QED
    BY <1>4, <2>2, <2>3, <2>4
<1>. QED
  BY <1>4, <1>5, <1>6, <1>7

\* What has been paid never shrinks; each of the three faults adds to it, and so does a
\* rejected row.
LEMMA CostlyFacts ==
    ASSUME TypeInv, [Next]_vars, NEW k \in Keys
    PROVE  /\ Costly(k) \in Nat /\ Costly(k)' \in Nat /\ Costly(k) <= Costly(k)'
           /\ \/ Spend("crash") \/ Spend("expel") \/ Spend("outage")
              \/ rejected[k] + 1 <= rejected'[k]
              => Costly(k) + 1 <= Costly(k)'
<1> DEFINE Three == {"crash", "expel", "outage"}
<1>1. \A f \in Three : f \in Faults /\ budget[f] \in Nat /\ budget'[f] \in Nat
                      /\ Budget[f] \in Nat /\ budget[f] <= Budget[f] /\ budget'[f] <= budget[f]
  BY NextType, BudgetFalls, BoundsAssumption DEF TypeInv, TypeOK, Faults
<1>2. \A f \in Three : Spend(f) => budget'[f] = budget[f] - 1
  BY <1>1 DEF Spend, TypeInv, TypeOK
<1>3. rejected[k] \in Nat /\ rejected'[k] \in Nat /\ rejected[k] <= rejected'[k]
  BY NextType, TracesGrow DEF TypeInv, TypeOK
<1>. QED
  BY <1>1, <1>2, <1>3 DEF Costly, Spent

\* A step that adds no token and takes no excuse away, or that costs a fault.
LEMMA NoMoreTokens ==
    ASSUME TypeInv, [Next]_vars, NEW k \in Keys, Paid(k),
           Tokens(k)' \subseteq Tokens(k), normalized'[k] = normalized[k],
           \/ dbUp => dbUp' /\ (Excused(k) => Excused(k)')
           \/ Costly(k) + 1 <= Costly(k)'
    PROVE  Paid(k)'
<1>1. TypeOK /\ TypeOK'
  BY NextType DEF TypeInv
<1>2. /\ Cardinality(Tokens(k)) \in Nat /\ Cardinality(Tokens(k)') \in Nat
      /\ Cardinality(Tokens(k)') <= Cardinality(Tokens(k))
  <2>1. IsFiniteSet(Tokens(k))
    BY <1>1, TokensFinite
  <2>. QED
    BY <2>1, FewerTokens
<1>3. Cardinality(Tokens(k))' = Cardinality(Tokens(k)')
  OBVIOUS
<1>4. Room(k) \in {0, 1} /\ Room(k)' \in {0, 1} /\ (Room(k) <= Room(k)' \/ Costly(k) + 1 <= Costly(k)')
  <2>1. Room(k) \in {0, 1} /\ Room(k)' \in {0, 1}
    BY DEF Room
  <2>2. CASE dbUp => dbUp' /\ (Excused(k) => Excused(k)')
    BY <2>2 DEF Room
  <2>. QED
    BY <2>1, <2>2
<1>5. normalized[k] \in Nat
  BY <1>1 DEF TypeOK
<1>. QED
  BY <1>2, <1>3, <1>4, <1>5, CostlyFacts DEF Paid

\* The tokens of processes that a step leaves alone.
LEMMA OtherTokens ==
    ASSUME TypeInv, NEW i \in Instances, NEW k \in Keys,
           \A j \in Instances \ {i} :
              /\ sendq'[j] = sendq[j] /\ pc'[j] = pc[j] /\ (owner' = j <=> owner = j)
              /\ pc[j] \in Handling => Current(j)' = Current(j)
    PROVE  \A t \in Instances \X Nat : t[1] # i => (t \in Tokens(k)' <=> t \in Tokens(k))
<1> SUFFICES ASSUME NEW t \in Instances \X Nat, t[1] # i
             PROVE  t \in Tokens(k)' <=> t \in Tokens(k)
  OBVIOUS
<1>1. PICK j \in Instances \ {i} : j = t[1]
  OBVIOUS
<1>2. Waiting(j, k)' <=> Waiting(j, k)
  BY DEF Waiting, Handling
<1>. QED
  BY <1>1, <1>2 DEF Tokens

\* Every step pays for the tokens it adds.
LEMMA NextPaid == TypeInv /\ PaidInv /\ [Next]_vars => PaidInv'
<1> SUFFICES ASSUME TypeInv, PaidInv, [Next]_vars, NEW k \in Keys PROVE Paid(k)'
  BY DEF PaidInv
<1>0. /\ Paid(k) /\ TypeOK /\ TypeInv' /\ TypeOK'
      /\ pc \in [Instances -> Steps] /\ pos \in [Instances -> 0 .. Len(raw)]
      /\ sendq \in [Instances -> [Keys -> Nat]] /\ rows \in [Keys -> Nat]
      /\ normalized \in [Keys -> Nat] /\ Len(raw) \in Nat
  <2>1. TypeInv'
    BY NextType
  <2>2. Paid(k) /\ TypeOK /\ TypeOK'
    BY <2>1 DEF TypeInv, PaidInv
  <2>3. TypeOK
    BY <2>2
  <2>4. /\ pc \in [Instances -> Steps] /\ pos \in [Instances -> 0 .. Len(raw)]
        /\ sendq \in [Instances -> [Keys -> Nat]] /\ rows \in [Keys -> Nat]
        /\ normalized \in [Keys -> Nat] /\ Len(raw) \in Nat
    BY <2>3 DEF TypeOK
  <2>. QED
    BY <2>1, <2>2, <2>4, Zenon
<1>1. CASE UNCHANGED vars
  BY <1>0, <1>1, NoMoreTokens DEF vars, Tokens, Waiting, Current, Excused
<1>2. ASSUME NEW m \in Messages, NEW T \in SUBSET Targets(m), Publish(m, T)
      PROVE  Paid(k)'
  <2>1. \A i \in Instances : pc[i] \in Handling => Current(i)' = Current(i)
    BY <1>0, <1>2 DEF Publish, Current, TypeInv, CurrentOK, TypeOK
  <2>2. Tokens(k)' = Tokens(k)
    BY <1>2, <2>1 DEF Publish, Tokens, Waiting, Handling
  <2>3. Excused(k)' <=> Excused(k)
    BY <1>2, <2>1 DEF Publish, Excused, Handling
  <2>. QED
    BY <1>0, <1>2, <2>2, <2>3, NoMoreTokens DEF Publish
<1>3. CASE DbDown
  <2>1. Tokens(k)' = Tokens(k) /\ normalized' = normalized /\ Spend("outage")
    BY <1>3 DEF DbDown, Tokens, Waiting, Current
  <2>. QED
    BY <1>0, <2>1, CostlyFacts, NoMoreTokens
<1>4. CASE DbRecover
  <2>1. Tokens(k)' = Tokens(k) /\ normalized' = normalized /\ ~dbUp
    BY <1>4 DEF DbRecover, Tokens, Waiting, Current
  <2>. QED
    BY <1>0, <2>1, NoMoreTokens
\* Steps after which the process neither waits nor is excused less.
<1>5. ASSUME NEW i \in Instances,
             \A j \in Instances \ {i} :
                /\ sendq'[j] = sendq[j] /\ pc'[j] = pc[j] /\ (owner' = j <=> owner = j)
                /\ pos'[j] = pos[j],
             raw' = raw, rows' = rows, normalized' = normalized, dbUp' = dbUp,
             \A n \in Nat : n \in 1 .. sendq'[i][k] => n \in 1 .. sendq[i][k],
             pc'[i] \notin {"lookup", "produce"} \/ (pc'[i] = "lookup" /\ owner' = i),
             pc[i] \notin {"produce", "insert"} \/ Costly(k) + 1 <= Costly(k)'
      PROVE  Paid(k)'
  <2>1. \A j \in Instances \ {i} : Current(j)' = Current(j)
    BY <1>5 DEF Current
  <2>2. \A t \in Instances \X Nat : t[1] # i => (t \in Tokens(k)' <=> t \in Tokens(k))
    BY <1>5, <2>1, OtherTokens, Zenon
  <2>3. \A t \in Instances \X Nat : t[1] = i /\ t \in Tokens(k)' => t \in Tokens(k)
    BY <1>5 DEF Tokens, Waiting
  <2>4. Tokens(k)' \subseteq Tokens(k)
    BY <2>2, <2>3 DEF Tokens
  <2>5. pc[i] \notin {"produce", "insert"} /\ Excused(k) => Excused(k)'
    BY <1>5, <2>1 DEF Excused
  <2>. QED
    BY <1>0, <1>5, <2>4, <2>5, NoMoreTokens
<1>6. ASSUME NEW i \in Instances, Handle(i), pc[i] \notin {"lookup", "produce", "insert"}
      PROVE  Paid(k)'
  <2>1. /\ \A j \in Instances \ {i} :
              /\ sendq'[j] = sendq[j] /\ pc'[j] = pc[j] /\ (owner' = j <=> owner = j)
              /\ pos'[j] = pos[j]
        /\ raw' = raw /\ rows' = rows /\ normalized' = normalized /\ dbUp' = dbUp
    BY <1>0, <1>6, DistinctAssumption
    DEF Handle, PollUndecodable, PollInvalid, PollEvent, Fetch, Lookup, Produce, Insert,
        Quarantine, Commit, CommitAndDie, TryCommit, Exit, Goto
  <2>2. \A n \in Nat : n \in 1 .. sendq'[i][k] => n \in 1 .. sendq[i][k]
    BY <1>0, <1>6
    DEF Handle, PollUndecodable, PollInvalid, PollEvent, Lookup, Produce, Insert,
        Quarantine, Commit, CommitAndDie, Exit, NoCopies
  <2>3. pc'[i] \notin {"lookup", "produce"} \/ (pc'[i] = "lookup" /\ owner' = i)
    BY <1>0, <1>6
    DEF Handle, PollUndecodable, PollInvalid, PollEvent, Fetch, Lookup, Produce, Insert,
        Quarantine, Commit, CommitAndDie, Exit, Goto
  <2>. QED
    BY <1>5, <1>6, <2>1, <2>2, <2>3
<1>7. ASSUME NEW i \in Instances,
             PollChaosDrop(i) \/ Assign(i) \/ Revoke(i) \/ Crash(i) \/ Stop(i) \/ Close(i)
                \/ Restart(i) \/ \E j \in Keys : Forget(i, j)
      PROVE  Paid(k)'
  <2>1. /\ \A j \in Instances \ {i} :
              /\ sendq'[j] = sendq[j] /\ pc'[j] = pc[j] /\ (owner' = j <=> owner = j)
              /\ pos'[j] = pos[j]
        /\ raw' = raw /\ rows' = rows /\ normalized' = normalized /\ dbUp' = dbUp
    BY <1>0, <1>7, DistinctAssumption
    DEF PollChaosDrop, Fetch, Assign, Revoke, Crash, Stop, Close, Restart, Forget, Exit, Goto
  <2>2. \A n \in Nat : n \in 1 .. sendq'[i][k] => n \in 1 .. sendq[i][k]
    BY <1>0, <1>7
    DEF PollChaosDrop, Assign, Revoke, Crash, Stop, Close, Restart, Forget, Exit, NoCopies
  <2>3. pc'[i] \notin {"lookup", "produce"}
    BY <1>0, <1>7
    DEF PollChaosDrop, Fetch, Assign, Revoke, Crash, Stop, Close, Restart, Forget, Exit, Goto
  <2>4. pc[i] \notin {"produce", "insert"} \/ Spend("crash")
    BY <1>7 DEF PollChaosDrop, Fetch, Assign, Revoke, Crash, Stop, Close, Restart, Forget
  <2>. QED
    BY <1>5, <2>1, <2>2, <2>3, <2>4, CostlyFacts
\* What an action leaves alone when it only moves one process on.
<1>8. ASSUME NEW i \in Instances, Lookup(i) \/ Produce(i) \/ Insert(i)
      PROVE  /\ \A j \in Instances \ {i} : pc'[j] = pc[j] /\ sendq'[j] = sendq[j]
             /\ raw' = raw /\ pos' = pos /\ owner' = owner /\ dbUp' = dbUp
             /\ normalized' = normalized /\ \A j \in Instances : Current(j)' = Current(j)
             /\ \A t \in Instances \X Nat : t[1] # i => (t \in Tokens(k)' <=> t \in Tokens(k))
  <2>1. /\ \A j \in Instances \ {i} : pc'[j] = pc[j] /\ sendq'[j] = sendq[j]
        /\ raw' = raw /\ pos' = pos /\ owner' = owner /\ dbUp' = dbUp
        /\ normalized' = normalized /\ \A j \in Instances : Current(j)' = Current(j)
    BY <1>0, <1>8 DEF Lookup, Produce, Insert, Goto, Current
  <2>. QED
    BY <2>1, OtherTokens
<1>9. ASSUME NEW i \in Instances, Lookup(i) PROVE Paid(k)'
  <2>1. sendq' = sendq /\ rows' = rows /\ pc[i] = "lookup"
    BY <1>9 DEF Lookup
  <2>2. CASE pc'[i] = "produce" /\ owner = i /\ Current(i) = k
    <3>1. dbUp /\ dbUp' /\ rows[k] = 0
      BY <1>0, <1>9, <2>2 DEF Lookup, Goto
    <3>2. Room(k) = 0 /\ Room(k)' = 1
      BY <1>8, <1>9, <2>1, <2>2, <3>1 DEF Room, Excused
    <3>3. \A t \in Instances \X Nat :
            t[1] = i /\ t \in Tokens(k)' => t \in Tokens(k) \/ t = <<i, 0>>
      BY <2>1 DEF Tokens
    <3>4. Tokens(k)' \subseteq Tokens(k) \cup {<<i, 0>>}
      BY <1>8, <1>9, <3>3 DEF Tokens
    <3>5. Cardinality(Tokens(k)') <= Cardinality(Tokens(k)) + 1
          /\ Cardinality(Tokens(k)) \in Nat /\ Cardinality(Tokens(k)') \in Nat
      BY <1>0, <3>4, TokensFinite, FewerTokens
    <3>6. normalized'[k] = normalized[k] /\ normalized[k] \in Nat
      BY <1>0, <1>8, <1>9
    <3>. QED
      BY <1>0, <3>2, <3>5, <3>6, CostlyFacts DEF Paid
  <2>3. CASE ~ (pc'[i] = "produce" /\ owner = i /\ Current(i) = k)
    <3>0. /\ \A j \in Instances \ {i} : pc'[j] = pc[j]
          /\ owner' = owner /\ \A j \in Instances : Current(j)' = Current(j)
          /\ \A t \in Instances \X Nat : t[1] # i => (t \in Tokens(k)' <=> t \in Tokens(k))
      BY <1>8, <1>9
    <3>1. Waiting(i, k)' => Waiting(i, k)
      <4>1. pc'[i] # "lookup"
        BY <1>0, <1>9 DEF Lookup, Goto
      <4>. QED
        BY <2>1, <2>3, <3>0, <4>1 DEF Waiting
    <3>2. Tokens(k)' \subseteq Tokens(k)
      <4>1. \A t \in Instances \X Nat : t[1] = i /\ t \in Tokens(k)' => t \in Tokens(k)
        BY <2>1, <3>1 DEF Tokens
      <4>. QED
        BY <3>0, <4>1 DEF Tokens
    <3>3. Excused(k) => Excused(k)'
      BY <2>1, <3>0 DEF Excused
    <3>4. normalized'[k] = normalized[k] /\ dbUp' = dbUp
      BY <1>8, <1>9
    <3>. QED
      BY <1>0, <3>2, <3>3, <3>4, NoMoreTokens
  <2>. QED
    BY <2>2, <2>3
<1>10. ASSUME NEW i \in Instances, Insert(i) PROVE Paid(k)'
  <2>1. sendq' = sendq /\ pc[i] = "insert" /\ pc'[i] \in {"commit", "quarantine"}
    BY <1>0, <1>10 DEF Insert, Goto
  <2>2. Tokens(k)' \subseteq Tokens(k)
    <3>1. \A t \in Instances \X Nat : t[1] = i /\ t \in Tokens(k)' => t \in Tokens(k)
      BY <2>1 DEF Tokens, Waiting
    <3>. QED
      BY <1>8, <1>10, <3>1 DEF Tokens
  <2>3. (dbUp => (Excused(k) => Excused(k)')) \/ rejected[k] + 1 <= rejected'[k]
    <3> SUFFICES ASSUME dbUp, Excused(k), ~ (rejected[k] + 1 <= rejected'[k])
                 PROVE  Excused(k)'
      OBVIOUS
    <3>1. CASE rows' = [rows EXCEPT ![Current(i)] = @ + 1]
      <4>1. rows[k] > 0 \/ Current(i) = k => rows'[k] > 0
        BY <1>0, <3>1
      <4>. QED
        BY <1>8, <1>10, <4>1 DEF Excused
    <3>2. CASE rows' = rows /\ rejected' = [rejected EXCEPT ![Current(i)] = @ + 1]
      <4>1. Current(i) # k
        <5>1. rejected \in [Keys -> Nat]
          BY <1>0 DEF TypeOK
        <5>. QED
          BY <3>2, <5>1
      <4>. QED
        BY <1>8, <1>10, <3>2, <4>1 DEF Excused
    <3>. QED
      BY <1>10, <3>1, <3>2 DEF Insert
  <2>4. (dbUp => dbUp' /\ (Excused(k) => Excused(k)')) \/ Costly(k) + 1 <= Costly(k)'
    BY <1>8, <1>10, <2>3, CostlyFacts
  <2>. QED
    BY <1>0, <1>8, <1>10, <2>2, <2>4, NoMoreTokens
<1>11. ASSUME NEW i \in Instances, Produce(i), Current(i) # k PROVE Paid(k)'
  <2>0. /\ \A j \in Instances \ {i} : pc'[j] = pc[j]
        /\ owner' = owner /\ \A j \in Instances : Current(j)' = Current(j)
        /\ \A t \in Instances \X Nat : t[1] # i => (t \in Tokens(k)' <=> t \in Tokens(k))
    BY <1>8, <1>11
  <2>1. sendq'[i][k] = sendq[i][k] /\ rows' = rows
    BY <1>0, <1>11 DEF Produce
  <2>2. Tokens(k)' \subseteq Tokens(k)
    <3>1. ~ Waiting(i, k)'
      BY <1>11, <2>0 DEF Waiting
    <3>2. \A t \in Instances \X Nat : t[1] = i /\ t \in Tokens(k)' => t \in Tokens(k)
      BY <2>1, <3>1 DEF Tokens
    <3>. QED
      BY <2>0, <3>2 DEF Tokens
  <2>3. Excused(k) => Excused(k)'
    BY <1>11, <2>0, <2>1 DEF Excused
  <2>4. normalized'[k] = normalized[k] /\ dbUp' = dbUp
    BY <1>8, <1>11
  <2>. QED
    BY <1>0, <2>2, <2>3, <2>4, NoMoreTokens
<1>12. ASSUME NEW i \in Instances, Produce(i), Current(i) = k PROVE Paid(k)'
  <2>1. pc[i] = "produce" /\ rows' = rows /\ <<i, 0>> \in Tokens(k)
    BY <1>12 DEF Produce, Tokens, Waiting
  <2>2. PICK q \in Nat : q = sendq[i][k]
    BY <1>0
  <2>3. normalized'[k] = normalized[k] /\ normalized[k] \in Nat
    BY <1>0, <1>8, <1>12
  <2>4. CASE pc'[i] = "insert"
    <3>1. sendq'[i][k] = q + 1
      BY <1>0, <1>12, <2>2, <2>4 DEF Produce, Goto
    <3>2. \A t \in Instances \X Nat :
            t[1] = i /\ t \in Tokens(k)' => t \in (Tokens(k) \ {<<i, 0>>}) \cup {<<i, q + 1>>}
      <4> SUFFICES ASSUME NEW n \in Nat, <<i, n>> \in Tokens(k)'
                   PROVE  n # 0 /\ (<<i, n>> \in Tokens(k) \/ n = q + 1)
        OBVIOUS
      <4>1. n \in 1 .. q + 1
        BY <2>4, <3>1 DEF Tokens, Waiting
      <4>2. n \in 1 .. q => <<i, n>> \in Tokens(k)
        BY <2>2 DEF Tokens
      <4>. QED
        BY <4>1, <4>2
    <3>3. Tokens(k)' \subseteq (Tokens(k) \ {<<i, 0>>}) \cup {<<i, q + 1>>}
      BY <1>8, <1>12, <3>2 DEF Tokens
    <3>4. Cardinality(Tokens(k)') <= Cardinality(Tokens(k))
          /\ Cardinality(Tokens(k)) \in Nat /\ Cardinality(Tokens(k)') \in Nat
      <4>1. IsFiniteSet(Tokens(k)) /\ Tokens(k)' \subseteq Tokens(k) \cup {<<i, q + 1>>}
        BY <1>0, <3>3, TokensFinite
      <4>. QED
        BY <2>1, <3>3, <4>1, FewerTokens
    <3>5. Excused(k) => Excused(k)'
      BY <1>8, <1>12, <2>1, <2>4 DEF Excused
    <3>6. Room(k) \in {0, 1} /\ Room(k)' \in {0, 1} /\ Room(k) <= Room(k)'
      BY <1>8, <1>12, <3>5 DEF Room
    <3>. QED
      BY <1>0, <2>3, <3>4, <3>6, CostlyFacts DEF Paid
  <2>5. CASE pc'[i] # "insert"
    <3>1. sendq' = sendq /\ pc'[i] = "quarantine"
      BY <1>0, <1>12, <2>5 DEF Produce, Goto
    <3>2. \A t \in Instances \X Nat :
            t[1] = i /\ t \in Tokens(k)' => t \in Tokens(k) \ {<<i, 0>>}
      BY <1>0, <3>1 DEF Tokens, Waiting
    <3>3. Tokens(k)' \subseteq Tokens(k) \ {<<i, 0>>}
      BY <1>8, <1>12, <3>2 DEF Tokens
    <3>4. Cardinality(Tokens(k)') + 1 <= Cardinality(Tokens(k))
          /\ Cardinality(Tokens(k)) \in Nat /\ Cardinality(Tokens(k)') \in Nat
      <4>1. IsFiniteSet(Tokens(k)) /\ Tokens(k)' \subseteq Tokens(k) \cup {<<i, 0>>}
        BY <1>0, <3>3, TokensFinite
      <4>. QED
        BY <2>1, <3>3, <4>1, FewerTokens
    <3>5. Room(k) \in {0, 1} /\ Room(k)' \in {0, 1}
      BY DEF Room
    <3>. QED
      BY <1>0, <2>3, <3>4, <3>5, CostlyFacts DEF Paid
  <2>. QED
    BY <2>4, <2>5
<1>13. ASSUME NEW i \in Instances, Expel(i) PROVE Paid(k)'
  <2>1. /\ owner = i /\ owner' = NoOwner /\ Spend("expel") /\ normalized' = normalized
        /\ UNCHANGED <<raw, pos, pc, sendq, rows, dbUp>>
    BY <1>13 DEF Expel
  <2>2. \A t \in Instances \X Nat : t[1] # i => (t \in Tokens(k)' <=> t \in Tokens(k))
    BY <2>1, OtherTokens, DistinctAssumption DEF Current
  <2>3. Costly(k) + 1 <= Costly(k)'
    BY <2>1, CostlyFacts
  <2>4. CASE pc[i] = "lookup"
    <3>1. \A t \in Instances \X Nat :
            t[1] = i /\ t \in Tokens(k)' => t \in Tokens(k) \/ t = <<i, 0>>
      BY <2>1 DEF Tokens
    <3>2. Tokens(k)' \subseteq Tokens(k) \cup {<<i, 0>>}
      BY <2>2, <3>1 DEF Tokens
    <3>3. Cardinality(Tokens(k)') <= Cardinality(Tokens(k)) + 1
          /\ Cardinality(Tokens(k)) \in Nat /\ Cardinality(Tokens(k)') \in Nat
      BY <1>0, <3>2, TokensFinite, FewerTokens
    <3>4. Excused(k) => Excused(k)'
      BY <2>1, <2>4 DEF Excused
    <3>5. Room(k) \in {0, 1} /\ Room(k)' \in {0, 1} /\ Room(k) <= Room(k)'
      BY <2>1, <3>4 DEF Room
    <3>6. normalized'[k] = normalized[k] /\ normalized[k] \in Nat
      BY <1>0, <2>1
    <3>. QED
      BY <1>0, <2>3, <3>3, <3>5, <3>6, CostlyFacts DEF Paid
  <2>5. CASE pc[i] # "lookup"
    <3>1. \A t \in Instances \X Nat : t[1] = i /\ t \in Tokens(k)' => t \in Tokens(k)
      BY <2>1, <2>5 DEF Tokens, Waiting, Current
    <3>2. Tokens(k)' \subseteq Tokens(k)
      BY <2>2, <3>1 DEF Tokens
    <3>. QED
      BY <1>0, <2>1, <2>3, <3>2, NoMoreTokens
  <2>. QED
    BY <2>4, <2>5
<1>14. ASSUME NEW i \in Instances, NEW c \in Keys, Deliver(i, c) \/ Expire(i, c)
       PROVE  Paid(k)'
  <2>1. /\ sendq' = [sendq EXCEPT ![i][c] = @ - 1] /\ sendq[i][c] > 0
        /\ UNCHANGED <<raw, owner, pos, pc, rows, dbUp>>
    BY <1>14 DEF Deliver, Expire
  <2>2. PICK q \in Nat : q = sendq[i][k]
    BY <1>0
  <2>3. /\ sendq'[i][k] = (IF c = k THEN q - 1 ELSE q) /\ (c = k => q > 0)
        /\ \A j \in Instances \ {i} : sendq'[j] = sendq[j]
    BY <1>0, <2>1, <2>2
  <2>4. \A t \in Instances \X Nat : t[1] # i => (t \in Tokens(k)' <=> t \in Tokens(k))
    BY <2>1, <2>3, OtherTokens DEF Current
  <2>5. Excused(k) => Excused(k)'
    BY <2>1 DEF Excused, Current
  <2>6. ASSUME NEW t \in Instances \X Nat, t[1] = i, t \in Tokens(k)'
        PROVE  t \in Tokens(k) /\ (c = k => t # <<i, q>>)
    <3>1. Waiting(i, k)' <=> Waiting(i, k)
      BY <2>1 DEF Waiting, Current
    <3>2. t[2] \in Nat /\ (t[2] \in 1 .. sendq'[i][k] \/ (t[2] = 0 /\ Waiting(i, k)))
      <4>1. t[2] \in 1 .. (sendq[t[1]][k])' \/ (t[2] = 0 /\ Waiting(t[1], k)')
        BY <2>6 DEF Tokens
      <4>2. t[2] \in 1 .. sendq'[i][k] \/ (t[2] = 0 /\ Waiting(i, k)')
        BY <2>6, <4>1
      <4>3. t[2] \in Nat
        BY <2>6
      <4>. QED
        BY <3>1, <4>2, <4>3
    <3>3. t[2] \in 1 .. q \/ (t[2] = 0 /\ Waiting(i, k))
      BY <2>3, <3>2
    <3>4. t \in Tokens(k)
      BY <2>2, <2>6, <3>3 DEF Tokens
    <3>5. c = k => t[2] # q
      BY <2>3, <3>2
    <3>. QED
      BY <3>4, <3>5
  <2>7. Tokens(k)' \subseteq Tokens(k)
    BY <2>4, <2>6 DEF Tokens
  <2>8. CASE normalized'[k] = normalized[k]
    BY <1>0, <2>1, <2>5, <2>7, <2>8, NoMoreTokens
  <2>9. CASE normalized'[k] # normalized[k]
    <3>1. c = k /\ normalized'[k] = normalized[k] + 1 /\ normalized[k] \in Nat
      BY <1>0, <1>14, <2>9 DEF Deliver, Expire
    <3>2. <<i, q>> \in Tokens(k)
      BY <2>2, <2>3, <3>1 DEF Tokens
    <3>3. Tokens(k)' \subseteq Tokens(k) \ {<<i, q>>}
      BY <2>4, <2>6, <3>1 DEF Tokens
    <3>4. Cardinality(Tokens(k)') + 1 <= Cardinality(Tokens(k))
          /\ Cardinality(Tokens(k)) \in Nat /\ Cardinality(Tokens(k)') \in Nat
      <4>1. IsFiniteSet(Tokens(k)) /\ Tokens(k)' \subseteq Tokens(k) \cup {<<i, q>>}
        BY <1>0, <3>3, TokensFinite
      <4>. QED
        BY <3>2, <3>3, <4>1, FewerTokens
    <3>5. Room(k) \in {0, 1} /\ Room(k)' \in {0, 1} /\ Room(k) <= Room(k)'
      BY <2>1, <2>5 DEF Room
    <3>. QED
      BY <1>0, <3>1, <3>4, <3>5, CostlyFacts DEF Paid
  <2>. QED
    BY <2>8, <2>9
<1>15. ASSUME NEW i \in Instances, Handle(i) PROVE Paid(k)'
  <2>1. pc[i] \notin {"lookup", "produce", "insert"} \/ Lookup(i) \/ Produce(i) \/ Insert(i)
    BY <1>15 DEF Handle, PollUndecodable, PollInvalid, PollEvent, Fetch, Quarantine, Commit,
                 CommitAndDie
  <2>. QED
    BY <1>6, <1>9, <1>10, <1>11, <1>12, <1>15, <2>1
<1>. QED
  BY <1>1, <1>2, <1>3, <1>4, <1>7, <1>13, <1>14, <1>15 DEF Next

\* At the start there is nothing to pay for.
LEMMA InitPaid == Init => PaidInv
<1> SUFFICES ASSUME Init, NEW k \in Keys PROVE Paid(k)
  BY DEF PaidInv
<1>1. TypeOK
  BY InitType DEF TypeInv
<1>2. Tokens(k) = {}
  BY DEF Init, Tokens, Waiting, NoCopies
<1>3. normalized[k] = 0 /\ Cardinality(Tokens(k)) = 0
  BY <1>2, FS_EmptySet DEF Init, NoCopies
<1>4. Costly(k) = 0
  BY BoundsAssumption DEF Init, Costly, Spent, Faults, NoCopies
<1>5. Room(k) \in {0, 1}
  BY DEF Room
<1>. QED
  BY <1>3, <1>4, <1>5 DEF Paid

\* Each copy of an event in events.normalized after the first costs a crash, an expelled
\* process, an outage or a row that Postgres rejected, for any number of processes, keys and faults: redelivery, lost
\* commits, replayed events and a cache that forgets never publish a second copy.
THEOREM DuplicatesArePaid == Spec => []DuplicatesCostAFault
<1>1. TypeInv /\ PaidInv => DuplicatesCostAFault
  <2> SUFFICES ASSUME TypeInv, PaidInv, NEW k \in Keys 
               PROVE  Copies(k) <= 1 + Spent("crash") + Spent("expel") + Spent("outage")
                                   + rejected[k]
    BY DEF DuplicatesCostAFault
  <2>1. TypeOK /\ Paid(k)
    BY DEF TypeInv, PaidInv
  <2>2. Copies(k) <= normalized[k] + Cardinality(Tokens(k)) /\ Cardinality(Tokens(k)) \in Nat
    BY <2>1, CopiesAreTokens, TokensFinite
  <2>3. normalized[k] \in Nat /\ Copies(k) \in Nat
    BY <2>1, CopiesAreTokens DEF TypeOK
  <2>4. /\ Spent("crash") \in Int /\ Spent("expel") \in Int /\ Spent("outage") \in Int
        /\ Room(k) \in {0, 1} /\ rejected[k] \in Nat
    <3>1. \A f \in {"crash", "expel", "outage"} :
            f \in Faults /\ budget[f] \in Nat /\ Budget[f] \in Nat
      BY <2>1, BoundsAssumption DEF TypeOK, Faults
    <3>2. rejected[k] \in Nat
      BY <2>1 DEF TypeOK
    <3>. QED
      BY <3>1, <3>2 DEF Spent, Room
  <2>. QED
    BY <2>1, <2>2, <2>3, <2>4 DEF Paid, Costly
<1>. QED
  BY <1>1, InitType, NextType, InitPaid, NextPaid, PTL DEF Spec
===============================================================================
