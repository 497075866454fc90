-------------------------- MODULE CausalEngineProofs --------------------------
(***************************************************************************)
(* Theorems about CausalEngine, for any number of processes, candidates    *)
(* and faults.                                                             *)
(***************************************************************************)
EXTENDS CausalEngine, FiniteSetTheorems, TLAPS

\* A process that handles a candidate holds a polled one; transactions are open only in
\* the three storing steps.
CurrentOK ==
    \A i \in Instances :
        /\ pc[i] \in Handling => pos[i] >= 1
        /\ tx[i].open => pc[i] \in Tables

\* Finitely many batches, so that there is a name for a new one.
BatchesFinite ==
    /\ \A t \in Tables, c \in Candidates : IsFiniteSet(rows[t][c])
    /\ \A i \in Instances : IsFiniteSet(tx[i].saw)

TypeInv == TypeOK /\ CurrentOK /\ BatchesFinite

\* Every step names the faults, or leaves both variables about them alone.
USE DEF strikes

LEMMA StrikeType ==
    ASSUME struck \subseteq Faults, faults \in 0 .. MaxFaults, NEW f \in Faults, Strike(f)
    PROVE  /\ struck' \subseteq Faults /\ faults' \in 0 .. MaxFaults
           /\ f \in struck' /\ struck \subseteq struck'
  BY BoundsAssumption DEF Strike

LEMMA CurrentType ==
    ASSUME TypeInv, NEW i \in Instances, pc[i] \in Handling
    PROVE  Current(i) \in 1 .. log /\ Current(i) \in Candidates
<1>1. pos[i] \in 0 .. log /\ pos[i] >= 1 /\ log \in 0 .. MaxCandidates /\ MaxCandidates \in Nat
  BY BoundsAssumption DEF TypeInv, TypeOK, CurrentOK
<1>. QED
  BY <1>1 DEF Current, Candidates

\* The name of a new batch is in use nowhere.
LEMMA NewBatchType ==
    ASSUME TypeInv, NEW t \in Tables, NEW c \in Candidates
    PROVE  NewBatch(t, c) \in Nat \ {0}
<1> DEFINE seen == {tx[j].saw : j \in Instances}
           used == rows[t][c] \cup UNION seen
<1>1. IsFiniteSet(used)
  <2>1. [j \in Instances |-> tx[j].saw] \in Surjection(Instances, seen)
    BY DEF Surjection
  <2>2. IsFiniteSet(seen)
    BY <2>1, FS_Surjection, InstancesAssumption
  <2>3. \A S \in seen : IsFiniteSet(S)
    BY DEF TypeInv, BatchesFinite
  <2>4. IsFiniteSet(UNION seen)
    BY <2>2, <2>3, FS_UNION
  <2>. QED
    BY <2>4, FS_Union DEF TypeInv, BatchesFinite
<1>2. PICK n \in Nat : n = Cardinality(used)
  BY <1>1, FS_CardinalityType
<1>3. \E b \in 1 .. n + 1 : b \notin used
  <2> SUFFICES ASSUME 1 .. n + 1 \subseteq used PROVE FALSE
    OBVIOUS
  <2>1. Cardinality(1 .. n + 1) <= n
    BY <1>1, <1>2, FS_Subset
  <2>2. Cardinality(1 .. n + 1) = n + 1
    BY FS_Interval
  <2>. QED
    BY <2>1, <2>2
<1>4. NewBatch(t, c) = CHOOSE b \in 1 .. n + 1 : b \notin used
  BY <1>2 DEF NewBatch
<1>5. NewBatch(t, c) \in 1 .. n + 1
  BY <1>3, <1>4
<1>. QED
  BY <1>5

\* What a transaction leaves is a set of batches again, and not an empty one if there was
\* something to update.
LEMMA WrittenType ==
    ASSUME TypeInv, NEW i \in Instances, NEW t \in Tables, NEW c \in Candidates
    PROVE  /\ Written(i, t, c) \in SUBSET (Nat \ {0})
           /\ IsFiniteSet(Written(i, t, c))
           /\ Written(i, t, c) # {} \/ (Written(i, t, c) = rows[t][c] /\ tx[i].saw # {})
<1>1. rows[t][c] \in SUBSET (Nat \ {0}) /\ IsFiniteSet(rows[t][c])
  BY DEF TypeInv, TypeOK, BatchesFinite
<1>2. PICK b \in Nat \ {0} : b = NewBatch(t, c)
  BY NewBatchType
<1>3. IsFiniteSet((rows[t][c] \ tx[i].saw) \cup {b})
  BY <1>1, FS_Difference, FS_AddElement
<1>. QED
  BY <1>1, <1>2, <1>3 DEF Written

LEMMA InitType == Init => TypeInv
<1> SUFFICES ASSUME Init PROVE TypeInv
  OBVIOUS
<1>1. TypeOK
  BY BoundsAssumption DEF Init, TypeOK, Candidates, Tables, Steps, NoTx, NoRequest
<1>2. CurrentOK
  BY DEF Init, CurrentOK, Handling, Tables, NoTx
<1>3. BatchesFinite
  BY FS_EmptySet DEF Init, BatchesFinite, NoTx
<1>. QED
  BY <1>1, <1>2, <1>3 DEF TypeInv

\* The end of a process, whatever ends it.
LEMMA ExitType ==
    ASSUME TypeInv, NEW i \in Instances, Exit(i), struck' \subseteq Faults /\ faults' \in 0 .. MaxFaults
    PROVE  TypeInv'
<1>1. TypeOK'
  BY DEF TypeInv, TypeOK, Exit, Steps, NoTx
<1>2. CurrentOK'
  BY DEF TypeInv, TypeOK, CurrentOK, Exit, Handling, Tables, NoTx
<1>3. BatchesFinite'
  BY FS_EmptySet DEF TypeInv, TypeOK, BatchesFinite, Exit, NoTx
<1>. QED
  BY <1>1, <1>2, <1>3 DEF TypeInv

\* Steps that leave the tables and the transactions alone.
LEMMA NoTransaction ==
    ASSUME TypeInv, UNCHANGED <<tx, rows>>
    PROVE  BatchesFinite'
  BY DEF TypeInv, BatchesFinite

\* A step of a process that polls or handles a candidate.
LEMMA HandleType ==
    ASSUME TypeInv, NEW i \in Instances, Handle(i)
    PROVE  TypeInv'
<1> USE DEF TypeInv, TypeOK, CurrentOK, Handling, Steps, Tables, Faults, Goto, Current,
            group, stream
<1>1. CASE Poll(i)
  <2>1. /\ pos' \in [Instances -> 0 .. log] /\ pos'[i] = pos[i] + 1 /\ pos'[i] \in 1 .. log
        /\ \A j \in Instances \ {i} : pos'[j] = pos[j]
    BY <1>1 DEF Poll
  <2>2. struck' \subseteq Faults /\ faults' \in 0 .. MaxFaults
    BY <1>1, StrikeType DEF Poll
  <2>3. dropped' \subseteq 1 .. log
    <3>1. dropped' = dropped \/ dropped' = dropped \cup {pos'[i]}
      BY <1>1, <2>1 DEF Poll
    <3>2. dropped \subseteq 1 .. log
      OBVIOUS
    <3>3. PICK n \in 1 .. log : n = pos'[i]
      BY <2>1
    <3>4. dropped \cup {n} \subseteq 1 .. log
      BY <3>2, Zenon
    <3>. QED
      BY <3>1, <3>2, <3>3, <3>4, Zenon
  <2>4. pc' \in [Instances -> Steps] /\ pc'[i] \in {"incidents", "commit"}
    BY <1>1 DEF Poll
  <2>5. \A j \in Instances \ {i} : pc'[j] = pc[j]
    BY <1>1 DEF Poll
  <2>6. TypeOK'
    BY <1>1, <2>1, <2>2, <2>3, <2>4 DEF Poll
  <2>7. CurrentOK'
    BY <1>1, <2>1, <2>4, <2>5 DEF Poll
  <2>. QED
    BY <1>1, <2>6, <2>7, NoTransaction DEF Poll
<1>2. CASE Begin(i)
  <2>1. Current(i) \in Candidates /\ pc[i] \in Tables
    BY <1>2, CurrentType DEF Begin
  <2>2. rows[pc[i]][Current(i)] \in SUBSET (Nat \ {0}) /\ IsFiniteSet(rows[pc[i]][Current(i)])
    BY <2>1 DEF BatchesFinite
  <2>3. tx' \in [Instances -> [open : BOOLEAN, saw : SUBSET (Nat \ {0})]]
    <3>1. PICK S \in SUBSET (Nat \ {0}) : S = rows[pc[i]][Current(i)]
      BY <2>2
    <3>2. [tx EXCEPT ![i] = [open |-> TRUE, saw |-> S]]
            \in [Instances -> [open : BOOLEAN, saw : SUBSET (Nat \ {0})]]
      OBVIOUS
    <3>3. tx' = [tx EXCEPT ![i] = [open |-> TRUE, saw |-> S]] \/ tx' = tx
      BY <1>2, <3>1 DEF Begin
    <3>. QED
      BY <3>2, <3>3
  <2>4. pc' \in [Instances -> Steps]
    BY <1>2 DEF Begin
  <2>5. TypeOK'
    BY <1>2, <2>3, <2>4 DEF Begin
  <2>6. CurrentOK'
    BY <1>2 DEF Begin
  <2>7. \A j \in Instances : tx'[j].saw = tx[j].saw \/ tx'[j].saw = rows[pc[i]][Current(i)]
    BY <1>2 DEF Begin
  <2>8. BatchesFinite'
    BY <1>2, <2>2, <2>7 DEF Begin, BatchesFinite
  <2>. QED
    BY <2>5, <2>6, <2>8
<1>3. CASE End(i)
  <2>1. Current(i) \in Candidates /\ pc[i] \in Tables
    BY <1>3, CurrentType DEF End
  <2>2. PICK t \in Tables, c \in Candidates : t = pc[i] /\ c = Current(i)
    BY <2>1
  <2>3. rows' = [rows EXCEPT ![t][c] = Written(i, t, c)] \/ UNCHANGED rows
    BY <1>3, <2>2 DEF End
  <2>4. rows' \in [Tables -> [Candidates -> SUBSET (Nat \ {0})]]
    <3>1. PICK W \in SUBSET (Nat \ {0}) : W = Written(i, t, c)
      BY WrittenType
    <3>2. [rows EXCEPT ![t][c] = W] \in [Tables -> [Candidates -> SUBSET (Nat \ {0})]]
      OBVIOUS
    <3>. QED
      BY <2>3, <3>1, <3>2
  <2>5. \A u \in Tables, d \in Candidates :
           rows'[u][d] = rows[u][d] \/ rows'[u][d] = Written(i, t, c)
    BY <2>3
  <2>6. tx' \in [Instances -> [open : BOOLEAN, saw : SUBSET (Nat \ {0})]]
        /\ tx'[i] = NoTx /\ \A j \in Instances \ {i} : tx'[j] = tx[j]
    BY <1>3 DEF End, NoTx
  <2>7. pc' \in [Instances -> Steps] /\ \A j \in Instances \ {i} : pc'[j] = pc[j]
    BY <1>3 DEF End, NextStep
  <2>8. TypeOK'
    BY <1>3, <2>4, <2>6, <2>7 DEF End
  <2>9. CurrentOK'
    BY <1>3, <2>1, <2>6, <2>7 DEF End, NoTx
  <2>10. IsFiniteSet(Written(i, t, c)) /\ IsFiniteSet({})
    BY WrittenType, FS_EmptySet
  <2>11. \A u \in Tables, d \in Candidates : IsFiniteSet(rows'[u][d])
    BY <2>5, <2>10 DEF BatchesFinite
  <2>12. \A j \in Instances : tx'[j].saw = {} \/ tx'[j].saw = tx[j].saw
    BY <2>6 DEF NoTx
  <2>13. BatchesFinite'
    BY <2>10, <2>11, <2>12 DEF BatchesFinite
  <2>. QED
    BY <2>8, <2>9, <2>13
<1>4. CASE Produce(i)
  <2>1. Current(i) \in Candidates
    BY <1>4, CurrentType DEF Produce
  <2>2. struck' \subseteq Faults /\ faults' \in 0 .. MaxFaults
    BY <1>4, StrikeType DEF Produce
  <2>5. sendq' \in [Instances -> SUBSET Candidates] /\ pc' \in [Instances -> Steps]
    BY <1>4, <2>1 DEF Produce
  <2>3. TypeOK'
    BY <1>4, <2>2, <2>5 DEF Produce
  <2>4. CurrentOK'
    BY <1>4 DEF Produce
  <2>. QED
    BY <1>4, <2>3, <2>4, NoTransaction DEF Produce
<1>5. CASE Commit(i)
  <2>1. struck' \subseteq Faults /\ faults' \in 0 .. MaxFaults
    BY <1>5, StrikeType DEF Commit
  <2>2. committed' \in 0 .. log
    BY <1>5 DEF Commit, CommittedOffset
  <2>3. TypeOK'
    BY <1>5, <2>1, <2>2 DEF Commit
  <2>4. CurrentOK'
    BY <1>5 DEF Commit
  <2>. QED
    BY <1>5, <2>3, <2>4, NoTransaction DEF Commit
<1>. QED
  BY <1>1, <1>2, <1>3, <1>4, <1>5 DEF Handle

\* A step of the group protocol, of an operator or of the producer's thread.
EnvironmentOf(i) ==
    \/ Assign(i) \/ Revoke(i) \/ Expel(i) \/ Crash(i) \/ Stop(i) \/ Close(i) \/ Restart(i)
    \/ \E c \in Candidates : Deliver(i, c) \/ Expire(i, c)

LEMMA EnvironmentType ==
    ASSUME TypeInv, NEW i \in Instances, EnvironmentOf(i)
    PROVE  TypeInv'
<1>1. CASE Crash(i) \/ Close(i)
  <2>1. Exit(i) /\ struck' \subseteq Faults /\ faults' \in 0 .. MaxFaults
    BY <1>1, StrikeType DEF Crash, Close, TypeInv, TypeOK, Faults
  <2>. QED
    BY <2>1, ExitType
<1> USE DEF TypeInv, TypeOK, CurrentOK, Handling, Steps, Tables, Faults, group, stream
<1>2. CASE Assign(i)
  <2>1. TypeOK' /\ CurrentOK'
    BY <1>2 DEF Assign
  <2>2. UNCHANGED <<tx, rows>>
    BY <1>2 DEF Assign
  <2>. QED
    BY <2>1, <2>2, NoTransaction
<1>3. CASE Revoke(i) \/ Expel(i) \/ Stop(i) \/ Restart(i)
  <2>1. struck' \subseteq Faults /\ faults' \in 0 .. MaxFaults
    BY <1>3, StrikeType DEF Revoke, Expel, Stop, Restart
  <2>2. TypeOK' /\ CurrentOK'
    <3>1. CASE Revoke(i)
      BY <2>1, <3>1 DEF Revoke
    <3>2. CASE Expel(i)
      BY <2>1, <3>2 DEF Expel
    <3>3. CASE Stop(i)
      BY <2>1, <3>3 DEF Stop
    <3>4. CASE Restart(i)
      BY <2>1, <3>4 DEF Restart
    <3>. QED
      BY <1>3, <3>1, <3>2, <3>3, <3>4, Zenon
  <2>3. UNCHANGED <<tx, rows>>
    BY <1>3 DEF Revoke, Expel, Stop, Restart
  <2>. QED
    BY <2>2, <2>3, NoTransaction
<1>4. ASSUME NEW c \in Candidates, Deliver(i, c) \/ Expire(i, c) PROVE TypeInv'
  <2>1. struck' \subseteq Faults /\ faults' \in 0 .. MaxFaults
    BY <1>4, StrikeType DEF Deliver, Expire
  <2>2. sendq' \in [Instances -> SUBSET Candidates]
    <3>1. sendq' = [sendq EXCEPT ![i] = sendq[i] \ {c}]
      BY <1>4 DEF Deliver, Expire
    <3>2. sendq[i] \ {c} \in SUBSET Candidates
      OBVIOUS
    <3>. QED
      BY <3>1, <3>2
  <2>3. TypeOK' /\ CurrentOK'
    BY <1>4, <2>1, <2>2 DEF Deliver, Expire
  <2>. QED
    BY <1>4, <2>3, NoTransaction DEF Deliver, Expire
<1>. QED
  BY <1>1, <1>2, <1>3, <1>4 DEF EnvironmentOf

\* A candidate arrives.
Arrival == \E t \in Tables \cup {"none"} : Publish(t)

\* A step of the reporter API.
Read ==
    \/ \E c \in Candidates : ReadIncident(c)
    \/ ReadRankings \/ ReadEdges \/ Answer

LEMMA NextCases ==
    ASSUME [Next]_vars
    PROVE  \/ UNCHANGED vars \/ Arrival \/ DbDown \/ DbRecover \/ Read
           \/ \E i \in Instances : Handle(i) \/ EnvironmentOf(i)
  BY BoundsAssumption DEF Next, Arrival, Read, EnvironmentOf, Candidates

LEMMA ReadType ==
    ASSUME TypeOK, Read
    PROVE  reader' \in [step : {"idle", "rankings", "edges", "answer"}, c : 0 .. MaxCandidates,
                        announced : BOOLEAN, ranked : BOOLEAN, edged : BOOLEAN]
<1>1. ASSUME NEW c \in Candidates, ReadIncident(c)
      PROVE  reader' \in [step : {"idle", "rankings", "edges", "answer"},
                          c : 0 .. MaxCandidates,
                          announced : BOOLEAN, ranked : BOOLEAN, edged : BOOLEAN]
  <2>1. c \in 0 .. MaxCandidates
    BY BoundsAssumption DEF Candidates
  <2>2. reader' = [step |-> "rankings", c |-> c, announced |-> c \in diagnosed,
                   ranked |-> FALSE, edged |-> FALSE]
    BY <1>1 DEF ReadIncident, NoRequest
  <2>. QED
    BY <2>1, <2>2
<1>2. NoRequest \in [step : {"idle", "rankings", "edges", "answer"}, c : 0 .. MaxCandidates,
                     announced : BOOLEAN, ranked : BOOLEAN, edged : BOOLEAN]
  BY BoundsAssumption DEF NoRequest
<1>3. CASE ReadRankings
  BY <1>2, <1>3 DEF TypeOK, ReadRankings, Stored
<1>4. CASE ReadEdges
  BY <1>2, <1>4 DEF TypeOK, ReadEdges, Stored
<1>5. CASE Answer
  BY <1>2, <1>5 DEF Answer
<1>. QED
  BY <1>1, <1>3, <1>4, <1>5 DEF Read

LEMMA ReadFrame ==
    ASSUME Read
    PROVE  UNCHANGED <<log, refuses, committed, owner, pos, pc, tx, rows, sendq, diagnosed,
                       dropped, discarded, dbUp, struck, faults>>
  BY DEF Read, ReadIncident, ReadRankings, ReadEdges, Answer, group, stream

LEMMA NextType == TypeInv /\ [Next]_vars => TypeInv'
<1> SUFFICES ASSUME TypeInv, [Next]_vars PROVE TypeInv'
  OBVIOUS
<1>1. ASSUME NEW i \in Instances, Handle(i) \/ EnvironmentOf(i) PROVE TypeInv'
  BY <1>1, HandleType, EnvironmentType
<1> USE DEF TypeInv, TypeOK, CurrentOK, Handling, Tables, Faults, group, stream
<1>2. CASE UNCHANGED vars
  <2>1. TypeOK' /\ CurrentOK'
    BY <1>2 DEF vars
  <2>. QED
    BY <1>2, <2>1, NoTransaction DEF vars
<1>3. CASE Arrival
  <2>1. log' \in 0 .. MaxCandidates /\ log' = log + 1
    BY <1>3, BoundsAssumption DEF Arrival, Publish
  <2>2. struck' \subseteq Faults /\ faults' \in 0 .. MaxFaults
    BY <1>3, StrikeType DEF Arrival, Publish
  <2>3. refuses' \in [Candidates -> Tables \cup {"none"}]
    <3>1. PICK t \in Tables \cup {"none"} : refuses' = [refuses EXCEPT ![log + 1] = t]
      BY <1>3 DEF Arrival, Publish
    <3>. QED
      BY <3>1
  <2>4. TypeOK' /\ CurrentOK'
    BY <1>3, <2>1, <2>2, <2>3 DEF Arrival, Publish
  <2>. QED
    BY <1>3, <2>4, NoTransaction DEF Arrival, Publish
<1>4. CASE DbDown \/ DbRecover
  <2>1. struck' \subseteq Faults /\ faults' \in 0 .. MaxFaults
    BY <1>4, StrikeType DEF DbDown, DbRecover
  <2>2. TypeOK' /\ CurrentOK'
    BY <1>4, <2>1 DEF DbDown, DbRecover
  <2>. QED
    BY <1>4, <2>2, NoTransaction DEF DbDown, DbRecover
<1>5. CASE Read
  <2>1. TypeOK' /\ CurrentOK'
    BY <1>5, ReadType, ReadFrame
  <2>. QED
    BY <1>5, <2>1, ReadFrame, NoTransaction
<1>. QED
  BY <1>1, <1>2, <1>3, <1>4, <1>5, NextCases

\* The state of the group, its processes, the tables and the reader stays well typed.
THEOREM CausalTypeCorrect == Spec => []TypeOK
<1>1. TypeInv => TypeOK
  BY DEF TypeInv
<1>. QED
  BY <1>1, InitType, NextType, PTL DEF Spec

-------------------------------------------------------------------------------
(* An announced diagnosis is readable as a whole.                          *)

\* An open transaction that saw rows still has rows to update.
SeenStored ==
    \A i \in Instances :
        tx[i].open /\ tx[i].saw # {} => Stored(pc[i], Current(i))

\* A process that has come to a step has stored what comes before it.
EarlierStored ==
    \A i \in Instances :
        /\ pc[i] \in {"rankings", "edges"} => Stored("incidents", Current(i))
        /\ pc[i] = "edges" => Stored("rankings", Current(i))
        /\ pc[i] = "produce" => Complete(Current(i))

SentComplete ==
    /\ \A c \in diagnosed : Complete(c)
    /\ \A i \in Instances : \A c \in sendq[i] : Complete(c)

\* What the reader holds of an announced diagnosis.
ReaderWhole ==
    reader.step # "idle" =>
        /\ reader.c \in Candidates
        /\ reader.announced =>
             /\ Complete(reader.c)
             /\ reader.step \in {"edges", "answer"} => reader.ranked
             /\ reader.step = "answer" => reader.edged

WholeInv == SeenStored /\ EarlierStored /\ SentComplete /\ ReaderWhole

\* Rows are replaced, never just deleted.
LEMMA RowsStay ==
    ASSUME TypeInv, [Next]_vars
    PROVE  /\ \A t \in Tables, c \in Candidates : Stored(t, c) => Stored(t, c)'
           /\ \A c \in Candidates : Complete(c) => Complete(c)'
<1>1. \A t \in Tables, c \in Candidates : Stored(t, c) => Stored(t, c)'
  <2> SUFFICES ASSUME NEW t \in Tables, NEW c \in Candidates, rows[t][c] # {}
               PROVE  rows'[t][c] # {}
    BY DEF Stored
  <2>1. CASE UNCHANGED rows
    BY <2>1
  <2>2. ASSUME NEW i \in Instances, End(i) PROVE rows'[t][c] # {}
    <3>1. pc[i] \in Tables /\ Current(i) \in Candidates
      BY <2>2, CurrentType DEF End, Handling
    <3>2. PICK u \in Tables, d \in Candidates : u = pc[i] /\ d = Current(i)
      BY <3>1
    <3>3. rows' = [rows EXCEPT ![u][d] = Written(i, u, d)] \/ UNCHANGED rows
      BY <2>2, <3>2 DEF End
    <3>4. rows'[t][c] = rows[t][c] \/ (t = u /\ c = d /\ rows'[t][c] = Written(i, u, d))
      BY <3>3 DEF TypeInv, TypeOK
    <3>5. Written(i, u, d) # {} \/ Written(i, u, d) = rows[u][d]
      BY WrittenType
    <3>. QED
      BY <3>4, <3>5
  <2>3. ASSUME NEW i \in Instances, Handle(i) \/ EnvironmentOf(i), ~ End(i)
        PROVE  UNCHANGED rows
    BY <2>3 DEF Handle, EnvironmentOf, Poll, Begin, Produce, Commit, Assign, Revoke, Expel,
                Crash, Stop, Close, Restart, Exit, Deliver, Expire
  <2>4. UNCHANGED vars \/ Arrival \/ DbDown \/ DbRecover \/ Read => UNCHANGED rows
    BY ReadFrame DEF vars, Arrival, Publish, DbDown, DbRecover
  <2>. QED
    BY <2>1, <2>2, <2>3, <2>4, NextCases
<1>. QED
  BY <1>1 DEF Complete

\* A transaction that succeeds leaves rows.
LEMMA EndStores ==
    ASSUME TypeInv, SeenStored, NEW i \in Instances, End(i)
    PROVE  \/ pc'[i] = "commit"
           \/ pc'[i] = NextStep(pc[i]) /\ rows'[pc[i]][Current(i)] # {}
<1>1. pc[i] \in Tables /\ Current(i) \in Candidates
  BY CurrentType DEF End, Handling
<1>2. PICK t \in Tables, c \in Candidates : t = pc[i] /\ c = Current(i)
  BY <1>1
<1>3. \/ pc'[i] = "commit"
      \/ pc'[i] = NextStep(t) /\ rows' = [rows EXCEPT ![t][c] = Written(i, t, c)]
  BY <1>2 DEF End, Raises, Goto, TypeInv, TypeOK
<1>4. Written(i, t, c) # {} \/ (Written(i, t, c) = rows[t][c] /\ tx[i].saw # {})
  BY WrittenType
<1>5. Written(i, t, c) # {}
  BY <1>2, <1>4 DEF SeenStored, Stored, End
<1>6. rows' = [rows EXCEPT ![t][c] = Written(i, t, c)] => rows'[t][c] = Written(i, t, c)
  BY DEF TypeInv, TypeOK
<1>. QED
  BY <1>2, <1>3, <1>5, <1>6

\* Processes whose step, position and transaction do not change keep their part.
LEMMA OthersKeep ==
    ASSUME TypeInv, WholeInv, [Next]_vars, NEW j \in Instances,
           pc'[j] = pc[j], pos'[j] = pos[j], tx'[j] = tx[j]
    PROVE  /\ (tx[j].open /\ tx[j].saw # {} => Stored(pc[j], Current(j)))'
           /\ (pc[j] \in {"rankings", "edges"} => Stored("incidents", Current(j)))'
           /\ (pc[j] = "edges" => Stored("rankings", Current(j)))'
           /\ (pc[j] = "produce" => Complete(Current(j)))'
<1>1. Current(j)' = Current(j)
  BY DEF Current
<1>2. pc[j] \in Handling => Current(j) \in Candidates
  BY CurrentType
<1>3. tx[j].open => pc[j] \in Tables
  BY DEF TypeInv, CurrentOK
<1>. QED
  BY <1>1, <1>2, <1>3, RowsStay
  DEF WholeInv, SeenStored, EarlierStored, Handling, Tables, Stored

LEMMA InitWhole == Init => WholeInv
  BY DEF Init, WholeInv, SeenStored, EarlierStored, SentComplete, ReaderWhole, NoTx, NoRequest

\* What is sent stays complete as long as a step adds only complete diagnoses.
LEMMA SentKeeps ==
    ASSUME TypeInv, WholeInv, [Next]_vars,
           diagnosed' \subseteq diagnosed \cup UNION {sendq[i] : i \in Instances},
           \A i \in Instances : \A c \in sendq'[i] \ sendq[i] :
                c \in Candidates /\ Complete(c)
    PROVE  SentComplete'
<1>1. \A c \in diagnosed' : c \in Candidates /\ Complete(c)
  BY DEF WholeInv, SentComplete, TypeInv, TypeOK
<1>2. \A i \in Instances : \A c \in sendq'[i] : c \in Candidates /\ Complete(c)
  BY DEF WholeInv, SentComplete, TypeInv, TypeOK
<1>. QED
  BY <1>1, <1>2, RowsStay DEF SentComplete

LEMMA ReaderKeeps ==
    ASSUME TypeInv, WholeInv, [Next]_vars, UNCHANGED reader
    PROVE  ReaderWhole'
  BY RowsStay DEF WholeInv, ReaderWhole

LEMMA ReadWhole ==
    ASSUME TypeInv, WholeInv, [Next]_vars, Read
    PROVE  ReaderWhole'
<1>0. \A c \in Candidates : Complete(c) => Complete(c)'
  BY RowsStay
<1> USE DEF ReaderWhole, WholeInv
<1>1. ASSUME NEW c \in Candidates, ReadIncident(c) PROVE ReaderWhole'
  <2>1. /\ reader' = [step |-> "rankings", c |-> c, announced |-> c \in diagnosed,
                      ranked |-> FALSE, edged |-> FALSE]
    BY <1>1 DEF ReadIncident, NoRequest
  <2>2. c \in diagnosed => Complete(c)'
    BY <1>0 DEF SentComplete
  <2>. QED
    BY <2>1, <2>2
<1>2. CASE ReadRankings
  <2>1. \/ reader'.step = "idle"
        \/ /\ reader'.step = "edges" /\ reader'.c = reader.c
           /\ reader'.announced = reader.announced
           /\ reader'.ranked = Stored("rankings", reader.c)
    BY <1>2 DEF ReadRankings, NoRequest, TypeInv, TypeOK
  <2>. QED
    BY <1>0, <1>2, <2>1 DEF ReadRankings, Complete, Tables
<1>3. CASE ReadEdges
  <2>1. \/ reader'.step = "idle"
        \/ /\ reader'.step = "answer" /\ reader'.c = reader.c
           /\ reader'.announced = reader.announced /\ reader'.ranked = reader.ranked
           /\ reader'.edged = Stored("edges", reader.c)
    BY <1>3 DEF ReadEdges, NoRequest, TypeInv, TypeOK
  <2>. QED
    BY <1>0, <1>3, <2>1 DEF ReadEdges, Complete, Tables
<1>4. CASE Answer
  BY <1>4 DEF Answer, NoRequest
<1>. QED
  BY <1>1, <1>2, <1>3, <1>4 DEF Read

\* A step of process i keeps the invariant if it keeps i's own part.
LEMMA OwnPartSuffices ==
    ASSUME TypeInv, WholeInv, [Next]_vars, NEW i \in Instances,
           \A j \in Instances \ {i} : pc'[j] = pc[j] /\ pos'[j] = pos[j] /\ tx'[j] = tx[j],
           (tx[i].open /\ tx[i].saw # {} => Stored(pc[i], Current(i)))',
           (pc[i] \in {"rankings", "edges"} => Stored("incidents", Current(i)))',
           (pc[i] = "edges" => Stored("rankings", Current(i)))',
           (pc[i] = "produce" => Complete(Current(i)))'
    PROVE  SeenStored' /\ EarlierStored'
<1>1. ASSUME NEW j \in Instances
      PROVE  /\ (tx[j].open /\ tx[j].saw # {} => Stored(pc[j], Current(j)))'
             /\ (pc[j] \in {"rankings", "edges"} => Stored("incidents", Current(j)))'
             /\ (pc[j] = "edges" => Stored("rankings", Current(j)))'
             /\ (pc[j] = "produce" => Complete(Current(j)))'
  BY OthersKeep
<1>. QED
  BY <1>1 DEF SeenStored, EarlierStored

LEMMA HandleWhole ==
    ASSUME TypeInv, WholeInv, [Next]_vars, NEW i \in Instances, Handle(i)
    PROVE  WholeInv'
<1>0. /\ pc \in [Instances -> Steps] /\ pos \in [Instances -> 0 .. log]
      /\ tx \in [Instances -> [open : BOOLEAN, saw : SUBSET (Nat \ {0})]]
      /\ sendq \in [Instances -> SUBSET Candidates]
  BY DEF TypeInv, TypeOK
<1>1. ReaderWhole'
  BY ReaderKeeps DEF Handle, Poll, Begin, End, Produce, Commit, group, stream
<1>2. \A j \in Instances \ {i} : pc'[j] = pc[j] /\ pos'[j] = pos[j] /\ tx'[j] = tx[j]
  BY <1>0 DEF Handle, Poll, Begin, End, Produce, Commit, Goto, group
<1>3. CASE Poll(i)
  <2>1. SentComplete'
    BY <1>3, SentKeeps DEF Poll
  <2>2. pc'[i] \in {"incidents", "commit"} /\ ~ tx'[i].open
    BY <1>0, <1>3 DEF Poll, Goto, TypeInv, CurrentOK, Tables
  <2>3. SeenStored' /\ EarlierStored'
    BY <1>2, <2>2, OwnPartSuffices
  <2>. QED
    BY <1>1, <2>1, <2>3 DEF WholeInv
<1>4. CASE Begin(i)
  <2>1. SentComplete'
    BY <1>4, SentKeeps DEF Begin, stream
  <2>2. Current(i)' = Current(i) /\ UNCHANGED rows
    BY <1>4 DEF Begin, Current, group
  <2>3. \/ pc'[i] = "commit" /\ ~ tx'[i].open
        \/ pc'[i] = pc[i] /\ tx'[i].saw = rows[pc[i]][Current(i)]
    BY <1>0, <1>4 DEF Begin, Goto
  <2>4. SeenStored' /\ EarlierStored'
    BY <1>2, <2>2, <2>3, OwnPartSuffices
    DEF WholeInv, EarlierStored, Stored, Complete
  <2>. QED
    BY <1>1, <2>1, <2>4 DEF WholeInv
<1>5. CASE End(i)
  <2>1. SentComplete'
    BY <1>5, SentKeeps DEF End, stream
  <2>2. Current(i)' = Current(i) /\ ~ tx'[i].open
    BY <1>0, <1>5 DEF End, Current, group, NoTx
  <2>3. pc[i] \in Tables /\ Current(i) \in Candidates
    BY <1>5, CurrentType DEF End, Handling
  <2>4. \/ pc'[i] = "commit"
        \/ pc'[i] = NextStep(pc[i]) /\ rows'[pc[i]][Current(i)] # {}
    BY <1>5, EndStores DEF WholeInv
  <2>5. PICK c \in Candidates : c = Current(i)
    BY <2>3
  <2>6. \A t \in Tables : Stored(t, c) => Stored(t, c)'
    BY RowsStay
  <2>7. \/ pc'[i] = "commit"
        \/ pc'[i] = "rankings" /\ Stored("incidents", c)'
        \/ pc'[i] = "edges" /\ Stored("incidents", c)' /\ Stored("rankings", c)'
        \/ pc'[i] = "produce" /\ Complete(c)'
    <3>1. CASE pc[i] = "incidents"
      BY <2>2, <2>4, <2>5, <3>1 DEF NextStep, Stored
    <3>2. CASE pc[i] = "rankings"
      BY <2>2, <2>4, <2>5, <2>6, <3>2 DEF NextStep, Stored, WholeInv, EarlierStored, Tables
    <3>3. CASE pc[i] = "edges"
      <4>1. Stored("incidents", c)' /\ Stored("rankings", c)'
        BY <2>5, <2>6, <3>3 DEF WholeInv, EarlierStored, Tables
      <4>. QED
        BY <2>2, <2>4, <2>5, <3>3, <4>1 DEF NextStep, Stored, Complete, Tables
    <3>. QED
      BY <2>3, <3>1, <3>2, <3>3 DEF Tables
  <2>8. /\ (pc[i] \in {"rankings", "edges"} => Stored("incidents", Current(i)))'
        /\ (pc[i] = "edges" => Stored("rankings", Current(i)))'
        /\ (pc[i] = "produce" => Complete(Current(i)))'
    BY <2>2, <2>5, <2>7 DEF Stored, Complete
  <2>9. SeenStored' /\ EarlierStored'
    BY <1>2, <2>2, <2>8, OwnPartSuffices
  <2>. QED
    BY <1>1, <2>1, <2>9 DEF WholeInv
<1>6. CASE Produce(i)
  <2>1. Current(i) \in Candidates /\ Complete(Current(i))
    BY <1>6, CurrentType DEF Produce, Handling, WholeInv, EarlierStored
  <2>2. \A j \in Instances : sendq'[j] \subseteq sendq[j] \cup {Current(i)}
    BY <1>0, <1>6 DEF Produce
  <2>3. SentComplete'
    BY <1>6, <2>1, <2>2, SentKeeps DEF Produce
  <2>4. pc'[i] = "commit" /\ ~ tx'[i].open
    BY <1>0, <1>6 DEF Produce, Goto, TypeInv, CurrentOK, Tables
  <2>5. SeenStored' /\ EarlierStored'
    BY <1>2, <2>4, OwnPartSuffices
  <2>. QED
    BY <1>1, <2>3, <2>5 DEF WholeInv
<1>7. CASE Commit(i)
  <2>1. SentComplete'
    BY <1>7, SentKeeps DEF Commit, stream
  <2>2. pc'[i] = "poll" /\ ~ tx'[i].open
    BY <1>0, <1>7 DEF Commit, Goto, TypeInv, CurrentOK, Tables
  <2>3. SeenStored' /\ EarlierStored'
    BY <1>2, <2>2, OwnPartSuffices
  <2>. QED
    BY <1>1, <2>1, <2>3 DEF WholeInv
<1>. QED
  BY <1>3, <1>4, <1>5, <1>6, <1>7 DEF Handle

LEMMA EnvironmentWhole ==
    ASSUME TypeInv, WholeInv, [Next]_vars, NEW i \in Instances, EnvironmentOf(i)
    PROVE  WholeInv'
<1>0. /\ pc \in [Instances -> Steps] /\ pos \in [Instances -> 0 .. log]
      /\ tx \in [Instances -> [open : BOOLEAN, saw : SUBSET (Nat \ {0})]]
      /\ sendq \in [Instances -> SUBSET Candidates]
  BY DEF TypeInv, TypeOK
<1>1. ReaderWhole'
  BY ReaderKeeps DEF EnvironmentOf, Assign, Revoke, Expel, Crash, Stop, Close, Restart, Exit,
                     Deliver, Expire
<1>2. \A j \in Instances \ {i} : pc'[j] = pc[j] /\ pos'[j] = pos[j] /\ tx'[j] = tx[j]
  BY <1>0 DEF EnvironmentOf, Assign, Revoke, Expel, Crash, Stop, Close, Restart, Exit,
              Deliver, Expire, group
<1>3. \/ pc'[i] = pc[i] /\ pos'[i] = pos[i] /\ tx'[i] = tx[i]
      \/ pc'[i] \in {"down", "poll", "flush"} /\ ~ tx'[i].open
  BY <1>0 DEF EnvironmentOf, Assign, Revoke, Expel, Crash, Stop, Close, Restart, Exit,
              Deliver, Expire, group, NoTx, TypeInv, CurrentOK, Tables
<1>4. SeenStored' /\ EarlierStored'
  <2>1. CASE pc'[i] = pc[i] /\ pos'[i] = pos[i] /\ tx'[i] = tx[i]
    BY <1>2, <2>1, OthersKeep, OwnPartSuffices
  <2>2. CASE pc'[i] \in {"down", "poll", "flush"} /\ ~ tx'[i].open
    BY <1>2, <2>2, OwnPartSuffices
  <2>. QED
    BY <1>3, <2>1, <2>2
<1>5. SentComplete'
  <2>1. \A j \in Instances : sendq'[j] \subseteq sendq[j]
    BY <1>0 DEF EnvironmentOf, Assign, Revoke, Expel, Crash, Stop, Close, Restart, Exit,
                Deliver, Expire, stream
  <2>2. diagnosed' \subseteq diagnosed \cup sendq[i]
    BY <1>0 DEF EnvironmentOf, Assign, Revoke, Expel, Crash, Stop, Close, Restart, Exit,
                Deliver, Expire, stream
  <2>. QED
    BY <2>1, <2>2, SentKeeps
<1>. QED
  BY <1>1, <1>4, <1>5 DEF WholeInv

LEMMA NextWhole == TypeInv /\ WholeInv /\ [Next]_vars => WholeInv'
<1> SUFFICES ASSUME TypeInv, WholeInv, [Next]_vars PROVE WholeInv'
  OBVIOUS
<1>1. ASSUME NEW i \in Instances, Handle(i) \/ EnvironmentOf(i) PROVE WholeInv'
  BY <1>1, HandleWhole, EnvironmentWhole
<1>2. CASE UNCHANGED vars \/ Arrival \/ DbDown \/ DbRecover \/ Read
  <2>1. UNCHANGED <<pc, pos, tx, sendq, diagnosed>>
    BY <1>2, ReadFrame DEF vars, Arrival, Publish, DbDown, DbRecover, group, stream
  <2>2. SeenStored' /\ EarlierStored'
    BY <2>1, OthersKeep DEF SeenStored, EarlierStored
  <2>3. SentComplete'
    BY <2>1, SentKeeps
  <2>4. ReaderWhole'
    BY <1>2, ReaderKeeps, ReadWhole DEF vars, Arrival, Publish, DbDown, DbRecover
  <2>. QED
    BY <2>2, <2>3, <2>4 DEF WholeInv
<1>. QED
  BY <1>1, <1>2, NextCases

\* Whoever hears of a diagnosis and then asks the API gets all of it, whatever crashes,
\* outages, redeliveries and concurrent processes come between the three reads.
THEOREM AnnouncedWhole == Spec => []AnnouncedIsWhole
<1>1. Init => TypeInv /\ WholeInv
  BY InitType, InitWhole
<1>2. TypeInv /\ WholeInv /\ [Next]_vars => (TypeInv /\ WholeInv)'
  BY NextType, NextWhole
<1>3. TypeInv /\ WholeInv => AnnouncedIsWhole
  BY DEF WholeInv, ReaderWhole, AnnouncedIsWhole
<1>. QED
  BY <1>1, <1>2, <1>3, PTL DEF Spec

-------------------------------------------------------------------------------
(* One list of edges while no process is expelled.                         *)

\* Only the owner handles a candidate, so its transaction sees what it is about to
\* replace.
OwnerAlone ==
    \A i \in Instances :
        /\ pc[i] \in Handling => owner = i
        /\ tx[i].open => tx[i].saw = rows[pc[i]][Current(i)]

OneList == \A c \in Candidates : rows["edges"][c] = {} \/ \E b : rows["edges"][c] = {b}

AloneInv == OwnerAlone /\ OneList
IndAlone == "expel" \notin struck => AloneInv

LEMMA StruckGrows ==
    ASSUME [Next]_vars
    PROVE  struck \subseteq struck'
<1>1. ASSUME NEW i \in Instances, Handle(i) \/ EnvironmentOf(i) PROVE struck \subseteq struck'
  BY <1>1 DEF Handle, Poll, Begin, End, Produce, Commit, EnvironmentOf, Assign, Revoke, Expel,
              Crash, Stop, Close, Restart, Deliver, Expire, Strike, group, stream
<1>2. UNCHANGED vars \/ Arrival \/ DbDown \/ DbRecover \/ Read => struck \subseteq struck'
  BY ReadFrame DEF vars, Arrival, Publish, DbDown, DbRecover, Strike
<1>. QED
  BY <1>1, <1>2, NextCases

LEMMA InitAlone == Init => IndAlone
  BY DEF Init, IndAlone, AloneInv, OwnerAlone, OneList, Handling, Tables, NoTx

\* The owner's transaction replaces all that is there.
LEMMA OwnerReplaces ==
    ASSUME TypeInv, AloneInv, NEW i \in Instances, End(i)
    PROVE  /\ ~ Rejected(i, pc[i], Current(i))
           /\ OneList'
<1>1. pc[i] \in Tables /\ Current(i) \in Candidates
  BY CurrentType DEF End, Handling
<1>2. tx[i].saw = rows[pc[i]][Current(i)]
  BY DEF End, AloneInv, OwnerAlone
<1>3. ~ Rejected(i, pc[i], Current(i))
  BY <1>2 DEF Rejected
<1>4. PICK t \in Tables, d \in Candidates : t = pc[i] /\ d = Current(i)
  BY <1>1
<1>5. rows' = [rows EXCEPT ![t][d] = Written(i, t, d)] \/ UNCHANGED rows
  BY <1>4 DEF End
<1>6. t = "edges" => Written(i, t, d) = {NewBatch(t, d)}
  BY <1>2, <1>4 DEF Written
<1>7. ASSUME NEW c \in Candidates
      PROVE  rows'["edges"][c] = {} \/ \E b : rows'["edges"][c] = {b}
  <2>1. \/ rows'["edges"][c] = rows["edges"][c]
        \/ t = "edges" /\ rows'["edges"][c] = Written(i, t, d)
    BY <1>5 DEF TypeInv, TypeOK, Tables
  <2>. QED
    BY <1>6, <2>1 DEF AloneInv, OneList
<1>. QED
  BY <1>3, <1>7 DEF OneList

LEMMA NextAlone == TypeInv /\ IndAlone /\ [Next]_vars => IndAlone'
<1> SUFFICES ASSUME TypeInv, IndAlone, [Next]_vars, "expel" \notin struck'
             PROVE  AloneInv'
  BY DEF IndAlone
<1>0. AloneInv
  BY StruckGrows DEF IndAlone
<1>t. /\ pc \in [Instances -> Steps] /\ pos \in [Instances -> 0 .. log]
      /\ tx \in [Instances -> [open : BOOLEAN, saw : SUBSET (Nat \ {0})]]
      /\ NoOwner \notin Instances
      /\ \A j \in Instances : tx[j].open => pc[j] \in Tables
  BY InstancesAssumption DEF TypeInv, TypeOK, CurrentOK
<1> USE DEF AloneInv, Current
<1>1. ASSUME NEW i \in Instances, End(i) PROVE AloneInv'
  <2>1. OneList'
    BY <1>0, <1>1, OwnerReplaces
  <2>2. pc'[i] \in Handling /\ ~ tx'[i].open /\ owner' = owner /\ owner = i
    BY <1>0, <1>1, <1>t DEF End, Goto, NoTx, NextStep, Handling, Tables, OwnerAlone, group
  <2>3. \A j \in Instances \ {i} : pc'[j] = pc[j] /\ tx'[j] = tx[j]
    BY <1>1, <1>t DEF End, Goto
  <2>4. \A j \in Instances \ {i} : pc[j] \notin Handling /\ ~ tx[j].open
    BY <1>0, <1>t, <2>2 DEF OwnerAlone, Handling
  <2>5. OwnerAlone'
    BY <2>2, <2>3, <2>4 DEF OwnerAlone
  <2>. QED
    BY <2>1, <2>5
<1>2. ASSUME NEW i \in Instances, Handle(i), ~ End(i) PROVE AloneInv'
  <2>1. UNCHANGED <<rows, owner>>
    BY <1>2 DEF Handle, Poll, Begin, Produce, Commit, group
  <2>2. \A j \in Instances \ {i} : pc'[j] = pc[j] /\ tx'[j] = tx[j] /\ pos'[j] = pos[j]
    BY <1>2, <1>t DEF Handle, Poll, Begin, Produce, Commit, Goto, group
  <2>3. pc'[i] \in Handling => owner = i
    BY <1>0, <1>2, <1>t DEF Handle, Poll, Begin, Produce, Commit, Goto, Handling, Tables,
                            OwnerAlone
  <2>4. tx'[i].open => tx'[i].saw = rows[pc'[i]][pos'[i]]
    BY <1>0, <1>2, <1>t DEF Handle, Poll, Begin, Produce, Commit, Goto, Tables, OwnerAlone,
                            group
  <2>5. OwnerAlone'
    BY <1>0, <2>1, <2>2, <2>3, <2>4 DEF OwnerAlone
  <2>. QED
    BY <1>0, <2>1, <2>5 DEF OneList
<1>3. ASSUME NEW i \in Instances, EnvironmentOf(i) PROVE AloneInv'
  <2>1. UNCHANGED rows
    BY <1>3 DEF EnvironmentOf, Assign, Revoke, Expel, Crash, Stop, Close, Restart, Exit,
                Deliver, Expire
  <2>2. \A j \in Instances \ {i} : pc'[j] = pc[j] /\ tx'[j] = tx[j] /\ pos'[j] = pos[j]
    BY <1>3, <1>t DEF EnvironmentOf, Assign, Revoke, Expel, Crash, Stop, Close, Restart, Exit,
                      Deliver, Expire, group
  <2>3. ~ Expel(i)
    BY StrikeType DEF Expel, Faults, TypeInv, TypeOK
  <2>4. \/ pc'[i] \in {"down", "poll", "flush"} /\ ~ tx'[i].open
        \/ pc'[i] = pc[i] /\ pos'[i] = pos[i] /\ tx'[i] = tx[i] /\ owner' = owner
    BY <1>3, <1>t, <2>3 DEF EnvironmentOf, Assign, Revoke, Crash, Stop, Close, Restart,
                            Exit, Deliver, Expire, group, NoTx, Tables
  <2>5. owner' = owner \/ owner = NoOwner \/ owner = i
    BY <1>3 DEF EnvironmentOf, Assign, Revoke, Expel, Crash, Stop, Close, Restart, Exit,
                Deliver, Expire, group
  <2>6. ASSUME NEW j \in Instances
        PROVE  /\ pc'[j] \in Handling => owner' = j
               /\ tx'[j].open => tx'[j].saw = rows[pc'[j]][pos'[j]]
    BY <1>0, <1>t, <2>2, <2>4, <2>5 DEF OwnerAlone, Handling, Tables
  <2>. QED
    BY <1>0, <2>1, <2>6 DEF OwnerAlone, OneList
<1>4. CASE UNCHANGED vars \/ Arrival \/ DbDown \/ DbRecover \/ Read
  <2>1. UNCHANGED <<pc, pos, tx, owner, rows>>
    BY <1>4, ReadFrame DEF vars, Arrival, Publish, DbDown, DbRecover, group
  <2>. QED
    BY <1>0, <2>1 DEF OwnerAlone, OneList
<1>. QED
  BY <1>1, <1>2, <1>3, <1>4, NextCases

\* Without an expelled process every incident has one list of evidence edges, although
\* the table has no unique constraint.
THEOREM OneEdgeList == Spec => []OneListOfEdges
<1>1. Init => TypeInv /\ IndAlone
  BY InitType, InitAlone
<1>2. TypeInv /\ IndAlone /\ [Next]_vars => (TypeInv /\ IndAlone)'
  BY NextType, NextAlone
<1>3. TypeInv /\ IndAlone => OneListOfEdges
  <2>1. \A b : Cardinality({b}) = 1
    BY FS_Singleton
  <2>2. Cardinality({}) = 0
    BY FS_EmptySet
  <2>3. ASSUME NEW S, S = {} \/ \E b : S = {b} PROVE Cardinality(S) <= 1
    <3>1. CASE S = {}
      BY <2>2, <3>1
    <3>2. CASE \E b : S = {b}
      <4>1. PICK b : S = {b}
        BY <3>2
      <4>2. Cardinality(S) = 1
        BY <2>1, <4>1
      <4>. QED
        BY <4>2
    <3>. QED
      BY <2>3, <3>1, <3>2
  <2>. QED
    BY <2>3 DEF IndAlone, AloneInv, OneList, OneListOfEdges
<1>. QED
  BY <1>1, <1>2, <1>3, PTL DEF Spec

-------------------------------------------------------------------------------
(* Behind the committed offset every candidate is diagnosed.               *)

\* All three tables take the rows of candidate c.
Fits(c) == c \in 1 .. log /\ refuses[c] = "none"

\* A process has passed no table that refuses its candidate, and what is sent fits.
FitsInv ==
    /\ \A i \in Instances :
         /\ pc[i] = "rankings" => refuses[Current(i)] # "incidents"
         /\ pc[i] = "edges" => refuses[Current(i)] \notin {"incidents", "rankings"}
         /\ pc[i] = "produce" => Fits(Current(i))
    /\ \A c \in diagnosed : Fits(c)
    /\ \A i \in Instances : \A c \in sendq[i] : Fits(c)

LEMMA InitFits == Init => FitsInv
  BY DEF Init, FitsInv

\* What the tables make of a published candidate does not change.
LEMMA FitsStays ==
    ASSUME TypeInv, [Next]_vars
    PROVE  /\ log <= log' /\ log \in Nat /\ log' \in Nat
           /\ \A c \in 1 .. log : refuses'[c] = refuses[c] /\ (Fits(c) => Fits(c)')
<1>1. log \in Nat /\ log \in 0 .. MaxCandidates /\ refuses \in [Candidates -> Tables \cup {"none"}]
  BY BoundsAssumption DEF TypeInv, TypeOK
<1>2. \/ UNCHANGED <<log, refuses>>
      \/ \E t : log' = log + 1 /\ refuses' = [refuses EXCEPT ![log + 1] = t]
  <2>1. UNCHANGED vars \/ DbDown \/ DbRecover \/ Read => UNCHANGED <<log, refuses>>
    BY ReadFrame DEF vars, DbDown, DbRecover, group
  <2>2. ASSUME NEW i \in Instances, Handle(i) \/ EnvironmentOf(i)
        PROVE  UNCHANGED <<log, refuses>>
    BY <2>2 DEF Handle, Poll, Begin, End, Produce, Commit, EnvironmentOf, Assign, Revoke,
                Expel, Crash, Stop, Close, Restart, Exit, Deliver, Expire, group
  <2>3. Arrival => \E t : log' = log + 1 /\ refuses' = [refuses EXCEPT ![log + 1] = t]
    BY DEF Arrival, Publish
  <2>. QED
    BY <2>1, <2>2, <2>3, NextCases
<1>3. log <= log' /\ log' \in Nat
  BY <1>1, <1>2
<1>4. ASSUME NEW c \in 1 .. log PROVE refuses'[c] = refuses[c]
  <2>1. c \in Candidates /\ c # log + 1
    BY <1>1, BoundsAssumption DEF Candidates
  <2>. QED
    BY <1>1, <1>2, <2>1
<1>. QED
  BY <1>1, <1>3, <1>4 DEF Fits

\* A step that changes the step of one process only, and sends what fits.
LEMMA FitsKeeps ==
    ASSUME TypeInv, FitsInv, [Next]_vars, NEW i \in Instances,
           \A j \in Instances \ {i} : pc'[j] = pc[j] /\ pos'[j] = pos[j],
           \A c \in diagnosed' : Fits(c),
           \A j \in Instances : \A c \in sendq'[j] : Fits(c),
           pc'[i] \notin {"rankings", "edges", "produce"} \/
              /\ pos'[i] = pos[i] /\ pc[i] \in Handling
              /\ pc'[i] = "rankings" => refuses[pos[i]] # "incidents"
              /\ pc'[i] = "edges" => refuses[pos[i]] \notin {"incidents", "rankings"}
              /\ pc'[i] = "produce" => refuses[pos[i]] = "none"
    PROVE  FitsInv'
<1>1. \A c : Fits(c) => Fits(c)'
  BY FitsStays DEF Fits
<1>2. ASSUME NEW j \in Instances
      PROVE  /\ pc'[j] = "rankings" => refuses'[pos'[j]] # "incidents"
             /\ pc'[j] = "edges" => refuses'[pos'[j]] \notin {"incidents", "rankings"}
             /\ pc'[j] = "produce" => pos'[j] \in 1 .. log' /\ refuses'[pos'[j]] = "none"
  <2>1. CASE pc'[j] \notin {"rankings", "edges", "produce"}
    BY <2>1
  <2>2. CASE pc'[j] \in {"rankings", "edges", "produce"}
    <3>1. pos'[j] = pos[j] /\ pc[j] \in Handling
      BY <2>2 DEF Handling, Tables
    <3>2. pos[j] \in 1 .. log
      BY <3>1, CurrentType DEF Current
    <3>3. refuses'[pos[j]] = refuses[pos[j]] /\ pos[j] \in 1 .. log'
      BY <3>2, FitsStays
    <3>4. CASE j = i
      BY <2>2, <3>1, <3>3, <3>4
    <3>5. CASE j # i
      BY <3>1, <3>3, <3>5 DEF FitsInv, Fits, Current
    <3>. QED
      BY <3>4, <3>5
  <2>. QED
    BY <2>1, <2>2
<1>3. (\A c \in diagnosed : Fits(c))' /\ (\A j \in Instances : \A c \in sendq[j] : Fits(c))'
  BY <1>1
<1>. QED
  BY <1>2, <1>3 DEF FitsInv, Fits, Current

LEMMA NextFits == TypeInv /\ FitsInv /\ [Next]_vars => FitsInv'
<1> SUFFICES ASSUME TypeInv, FitsInv, [Next]_vars PROVE FitsInv'
  OBVIOUS
<1>t. /\ pc \in [Instances -> Steps] /\ pos \in [Instances -> 0 .. log]
      /\ sendq \in [Instances -> SUBSET Candidates]
      /\ refuses \in [Candidates -> Tables \cup {"none"}]
  BY DEF TypeInv, TypeOK
<1>1. ASSUME NEW i \in Instances, Handle(i) PROVE FitsInv'
  <2>1. \A j \in Instances \ {i} : pc'[j] = pc[j] /\ pos'[j] = pos[j]
    BY <1>1, <1>t DEF Handle, Poll, Begin, End, Produce, Commit, Goto, group
  <2>2. \A c \in diagnosed' : Fits(c)
    BY <1>1 DEF Handle, Poll, Begin, End, Produce, Commit, stream, FitsInv
  <2>3. ASSUME NEW j \in Instances, NEW c \in sendq'[j] PROVE Fits(c)
    <3>1. c \in sendq[j] \/ (pc[i] = "produce" /\ c = Current(i))
      BY <1>1, <1>t DEF Handle, Poll, Begin, End, Produce, Commit, stream
    <3>. QED
      BY <3>1 DEF FitsInv
  <2>4. pc'[i] \notin {"rankings", "edges", "produce"} \/
           /\ pos'[i] = pos[i] /\ pc[i] \in Handling
           /\ pc'[i] = "rankings" => refuses[pos[i]] # "incidents"
           /\ pc'[i] = "edges" => refuses[pos[i]] \notin {"incidents", "rankings"}
           /\ pc'[i] = "produce" => refuses[pos[i]] = "none"
    <3>1. CASE Poll(i) \/ Produce(i) \/ Commit(i)
      BY <1>t, <3>1 DEF Poll, Produce, Commit, Goto
    <3>2. CASE Begin(i)
      BY <1>t, <3>2 DEF Begin, Goto, group, FitsInv, Current, Handling, Fits
    <3>3. CASE End(i)
      <4>1. pos' = pos /\ pc[i] \in Tables /\ pc[i] \in Handling
        BY <3>3 DEF End, group, Handling
      <4>2. pc'[i] = "commit" \/ (pc'[i] = NextStep(pc[i]) /\ refuses[pos[i]] # pc[i])
        BY <1>t, <3>3 DEF End, Goto, Raises, Current
      <4>3. pos[i] \in Candidates
        BY <4>1, CurrentType DEF Current
      <4>4. refuses[pos[i]] \in Tables \cup {"none"}
        BY <1>t, <4>3
      <4>. QED
        BY <4>1, <4>2, <4>4 DEF FitsInv, Current, NextStep, Tables
    <3>. QED
      BY <1>1, <3>1, <3>2, <3>3 DEF Handle
  <2>. QED
    BY <2>1, <2>2, <2>3, <2>4, FitsKeeps
<1>2. ASSUME NEW i \in Instances, EnvironmentOf(i) PROVE FitsInv'
  <2>1. \A j \in Instances \ {i} : pc'[j] = pc[j] /\ pos'[j] = pos[j]
    BY <1>2, <1>t DEF EnvironmentOf, Assign, Revoke, Expel, Crash, Stop, Close, Restart,
                      Exit, Deliver, Expire, group
  <2>2. /\ diagnosed' \subseteq diagnosed \cup sendq[i]
        /\ \A j \in Instances : sendq'[j] \subseteq sendq[j]
    BY <1>2, <1>t DEF EnvironmentOf, Assign, Revoke, Expel, Crash, Stop, Close, Restart,
                      Exit, Deliver, Expire, stream
  <2>3. pc'[i] \in {"down", "poll", "flush"} \/ (pc'[i] = pc[i] /\ pos'[i] = pos[i])
    BY <1>2, <1>t DEF EnvironmentOf, Assign, Revoke, Expel, Crash, Stop, Close, Restart,
                      Exit, Deliver, Expire, group
  <2>4. (\A c \in diagnosed' : Fits(c)) /\ \A j \in Instances : \A c \in sendq'[j] : Fits(c)
    BY <2>2 DEF FitsInv
  <2>. QED
    BY <2>1, <2>3, <2>4, FitsKeeps DEF FitsInv, Fits, Current, Handling, Tables
<1>3. CASE UNCHANGED vars \/ Arrival \/ DbDown \/ DbRecover \/ Read
  <2>1. UNCHANGED <<pc, pos, sendq, diagnosed>>
    BY <1>3, ReadFrame DEF vars, Arrival, Publish, DbDown, DbRecover, group, stream
  <2>2. CASE Instances = {}
    BY <2>1, <2>2, FitsStays DEF FitsInv, Fits
  <2>3. CASE Instances # {}
    <3>1. PICK i \in Instances : TRUE
      BY <2>3
    <3>. QED
      BY <2>1, FitsKeeps DEF FitsInv, Fits, Current, Handling, Tables
  <2>. QED
    BY <2>2, <2>3
<1>. QED
  BY <1>1, <1>2, <1>3, NextCases

\* A candidate that fits is published, on its way, given up or failed to be sent.
Announced(c) ==
    \/ c \in diagnosed \cup discarded \/ "send" \in struck
    \/ \E i \in Instances : c \in sendq[i]

\* What is stored of a candidate when the process is done with it.
StoredAsFar(c) == \A t \in Before(refuses[c]) : Stored(t, c)

Settled ==
    {c \in Candidates :
        c \in dropped \/ (StoredAsFar(c) /\ (refuses[c] # "none" \/ Announced(c)))}

\* The steps in which a polled candidate is not yet settled.
Pending == Tables \cup {"produce"}

\* Behind the position of the owner only its current candidate may be unsettled.
SettledInv ==
    /\ dbUp
    /\ 1 .. committed \subseteq Settled
    /\ \A i \in Instances : owner = i =>
         \A c \in 1 .. pos[i] : c \in Settled \/ (c = pos[i] /\ pc[i] \in Pending)

IndSettled == struck \cap {"outage", "expel"} = {} => SettledInv

LEMMA InitSettled == Init => IndSettled
  BY InstancesAssumption DEF Init, IndSettled, SettledInv

\* Nothing takes a settled candidate back.
LEMMA SettledStays ==
    ASSUME TypeInv, [Next]_vars
    PROVE  Settled \cap (1 .. log) \subseteq Settled'
<1> SUFFICES ASSUME NEW c \in Candidates, c \in Settled, c \in 1 .. log PROVE c \in Settled'
  BY DEF Settled
<1>0. refuses'[c] = refuses[c]
  BY FitsStays
<1>1. StoredAsFar(c) => StoredAsFar(c)'
  <2>1. Before(refuses[c]) \subseteq Tables
    BY DEF Before, Tables, TypeInv, TypeOK
  <2>. QED
    BY <1>0, <2>1, RowsStay DEF StoredAsFar
<1>2. dropped \subseteq dropped' /\ (Announced(c) => Announced(c)')
  <2>1. CASE Arrival \/ DbDown \/ DbRecover \/ Read \/ UNCHANGED vars
    <3>1. UNCHANGED <<dropped, diagnosed, discarded, sendq>>
      BY <2>1, ReadFrame DEF Arrival, Publish, DbDown, DbRecover, vars, stream
    <3>. QED
      BY <3>1, StruckGrows DEF Announced
  <2>2. ASSUME NEW i \in Instances, Handle(i)
        PROVE  dropped \subseteq dropped' /\ (Announced(c) => Announced(c)')
    <3>1. /\ dropped \subseteq dropped' /\ UNCHANGED <<diagnosed, discarded>>
          /\ \A j \in Instances : sendq[j] \subseteq sendq'[j]
      BY <2>2 DEF Handle, Poll, Begin, End, Produce, Commit, stream, TypeInv, TypeOK
    <3>. QED
      BY <3>1, StruckGrows DEF Announced
  <2>3. ASSUME NEW i \in Instances, EnvironmentOf(i)
        PROVE  dropped \subseteq dropped' /\ (Announced(c) => Announced(c)')
    <3>t. sendq \in [Instances -> SUBSET Candidates]
      BY DEF TypeInv, TypeOK
    <3>1. /\ UNCHANGED dropped
          /\ diagnosed \subseteq diagnosed' /\ discarded \subseteq discarded'
          /\ \A j \in Instances : c \in sendq[j] =>
                c \in sendq'[j] \cup diagnosed' \cup discarded'
      <4>1. CASE Assign(i) \/ Revoke(i) \/ Expel(i) \/ Stop(i) \/ Restart(i)
        BY <4>1 DEF Assign, Revoke, Expel, Stop, Restart, stream
      <4>2. CASE Exit(i)
        BY <4>2, <3>t DEF Exit
      <4>3. CASE \E d \in Candidates : Deliver(i, d) \/ Expire(i, d)
        BY <4>3, <3>t DEF Deliver, Expire
      <4>. QED
        BY <2>3, <4>1, <4>2, <4>3 DEF EnvironmentOf, Crash, Close
    <3>. QED
      BY <3>1, StruckGrows DEF Announced
  <2>. QED
    BY <2>1, <2>2, <2>3, NextCases
<1>. QED
  BY <1>0, <1>1, <1>2 DEF Settled

\* A process at table t has stored what comes before it.
LEMMA StoredBefore ==
    ASSUME TypeInv, WholeInv, NEW i \in Instances, pc[i] \in Tables,
           refuses[Current(i)] = pc[i]
    PROVE  StoredAsFar(Current(i))
  BY DEF StoredAsFar, Before, WholeInv, EarlierStored, Tables

LEMMA NextSettled ==
    TypeInv /\ WholeInv /\ FitsInv /\ IndAlone /\ IndSettled /\ [Next]_vars => IndSettled'
<1> SUFFICES ASSUME TypeInv, WholeInv, FitsInv, IndAlone, IndSettled, [Next]_vars,
                    struck' \cap {"outage", "expel"} = {}
             PROVE  SettledInv'
  BY DEF IndSettled
<1>0. SettledInv /\ AloneInv
  BY StruckGrows DEF IndSettled, IndAlone
<1>t. /\ pc \in [Instances -> Steps] /\ pos \in [Instances -> 0 .. log]
      /\ sendq \in [Instances -> SUBSET Candidates]
      /\ log \in 0 .. MaxCandidates /\ committed \in 0 .. log
      /\ NoOwner \notin Instances /\ MaxCandidates \in Nat
      /\ struck \subseteq Faults /\ faults \in 0 .. MaxFaults
  BY InstancesAssumption, BoundsAssumption DEF TypeInv, TypeOK
<1>s. \A c \in Settled : c \in 1 .. log => c \in Settled'
  BY SettledStays
<1>c. 1 .. committed \subseteq Settled'
  BY <1>0, <1>s, <1>t DEF SettledInv
<1>p. \A i \in Instances : \A c \in 1 .. pos[i] : c \in Settled => c \in Settled'
  <2>1. \A i \in Instances : 1 .. pos[i] \subseteq 1 .. log
    BY <1>t
  <2>. QED
    BY <2>1, <1>s
<1>r. /\ committed \in 0 .. MaxCandidates
      /\ \A i \in Instances : pos[i] \in 0 .. MaxCandidates /\ pos[i] \in 0 .. log
      /\ log \in Nat
  BY <1>t
<1>1. ASSUME NEW i \in Instances, Handle(i) PROVE SettledInv'
  <2>1. owner' = owner /\ dbUp' /\ \A j \in Instances \ {i} : pc'[j] = pc[j] /\ pos'[j] = pos[j]
    BY <1>0, <1>1, <1>t DEF Handle, Poll, Begin, End, Produce, Commit, Goto, group, SettledInv
  <2>2. pc[i] \in Handling => owner = i
    BY <1>0 DEF AloneInv, OwnerAlone
  <2>3. owner = i => \A c \in 1 .. pos'[i] : c \in Settled' \/ (c = pos'[i] /\ pc'[i] \in Pending)
    <3> SUFFICES ASSUME owner = i, NEW c \in 1 .. pos'[i]
                 PROVE  c \in Settled' \/ (c = pos'[i] /\ pc'[i] \in Pending)
      OBVIOUS
    <3>1. CASE Poll(i)
      <4>1. pos'[i] = pos[i] + 1
        BY <1>t, <3>1 DEF Poll
      <4>2. CASE c = pos[i] + 1
        <5>1. pc'[i] = "incidents" \/ c \in dropped'
          BY <1>t, <3>1, <4>2 DEF Poll, Goto
        <5>2. c \in Candidates
          BY <1>t, <3>1, <4>2 DEF Poll, Candidates
        <5>. QED
          BY <4>1, <4>2, <5>1, <5>2 DEF Settled, Pending, Tables
      <4>3. CASE c # pos[i] + 1
        <5>1. c \in 1 .. pos[i] /\ pc[i] \notin Pending
          BY <1>r, <3>1, <4>1, <4>3 DEF Poll, Pending, Tables
        <5>. QED
          BY <1>0, <1>r, <1>s, <5>1 DEF SettledInv
      <4>. QED
        BY <4>2, <4>3
    <3>2. CASE ~ Poll(i)
      <4>1. pos'[i] = pos[i]
        BY <1>1, <3>2 DEF Handle, Begin, End, Produce, Commit, group
      <4>2. c \in Settled \/ (c = pos[i] /\ pc[i] \in Pending)
        BY <1>0, <4>1 DEF SettledInv
      <4>3. c \in Settled => c \in Settled'
        BY <1>r, <1>s, <4>1
      <4>4. CASE Begin(i)
        <5>1. pc[i] \in Tables /\ Current(i) = pos[i] /\ pos[i] \in Candidates
          BY <4>4, CurrentType DEF Begin, Current, Handling
        <5>2. pc'[i] = pc[i] \/ refuses[Current(i)] = pc[i]
          BY <1>0, <1>t, <4>4 DEF Begin, SettledInv
        <5>3. refuses[Current(i)] = pc[i] => pos[i] \in Settled
          BY <5>1, StoredBefore DEF Settled, Tables
        <5>. QED
          BY <4>1, <4>2, <4>3, <5>2, <5>3
      <4>5. CASE End(i)
        <5>1. pc[i] \in Tables /\ Current(i) = pos[i] /\ pos[i] \in Candidates
          BY <4>5, CurrentType DEF End, Current, Handling
        <5>2. ~ Rejected(i, pc[i], Current(i))
          BY <1>0, <4>5, OwnerReplaces
        <5>3. pc'[i] \in Pending \/ refuses[Current(i)] = pc[i]
          BY <1>0, <1>t, <4>5, <5>2
          DEF End, Raises, SettledInv, Goto, NextStep, Pending, Tables
        <5>4. refuses[Current(i)] = pc[i] => pos[i] \in Settled
          BY <5>1, StoredBefore DEF Settled, Tables
        <5>. QED
          BY <4>1, <4>2, <4>3, <5>3, <5>4
      <4>6. CASE Produce(i)
        <5>1. c = pos[i] => Complete(c) /\ c \in Candidates /\ c \in 1 .. log
          BY <4>6, CurrentType DEF Produce, WholeInv, EarlierStored, Current, Handling
        <5>5. c = pos[i] => refuses'[c] = refuses[c] /\ refuses[c] = "none"
          BY <4>6, <5>1, FitsStays DEF Produce, FitsInv, Fits, Current
        <5>6. c = pos[i] => Complete(c)'
          BY <5>1, RowsStay
        <5>2. c = pos[i] => StoredAsFar(c)'
          BY <5>5, <5>6 DEF StoredAsFar, Before, Complete
        <5>7. sendq'[i] = sendq[i] \cup {Current(i)} \/ Strike("send")
          BY <1>t, <4>6 DEF Produce
        <5>8. Strike("send") => "send" \in struck'
          BY DEF Strike
        <5>3. c = pos[i] => "send" \in struck' \/ c \in sendq'[i]
          BY <5>7, <5>8 DEF Current
        <5>4. c = pos[i] => c \in Settled'
          BY <5>1, <5>2, <5>3 DEF Settled, Announced
        <5>. QED
          BY <4>2, <4>3, <4>1, <5>4
      <4>7. CASE Commit(i)
        BY <4>2, <4>3, <4>7 DEF Commit, Pending, Tables
      <4>. QED
        BY <1>1, <3>2, <4>4, <4>5, <4>6, <4>7 DEF Handle
    <3>. QED
      BY <3>1, <3>2
  <2>4. 1 .. committed' \subseteq Settled'
    <3>1. CASE committed' = committed
      BY <1>c, <3>1
    <3>2. CASE committed' # committed
      <4>1. Commit(i) /\ owner = i /\ committed' = pos[i] /\ pc[i] \notin Pending
        BY <1>1, <3>2
        DEF Handle, Poll, Begin, End, Produce, Commit, CommittedOffset, group, Pending, Tables
      <4>. QED
        BY <1>0, <1>p, <4>1 DEF SettledInv
    <3>. QED
      BY <3>1, <3>2
  <2>5. ASSUME NEW j \in Instances, owner' = j
        PROVE  \A c \in 1 .. pos'[j] : c \in Settled' \/ (c = pos'[j] /\ pc'[j] \in Pending)
    BY <1>0, <1>p, <2>1, <2>3, <2>5 DEF SettledInv
  <2>. QED
    BY <2>1, <2>4, <2>5 DEF SettledInv
<1>2. ASSUME NEW i \in Instances, EnvironmentOf(i) PROVE SettledInv'
  <2>1. UNCHANGED <<dbUp, committed>>
    BY <1>2 DEF EnvironmentOf, Assign, Revoke, Expel, Crash, Stop, Close, Restart, Exit,
                Deliver, Expire, group
  <2>2. ASSUME NEW j \in Instances, owner' = j
        PROVE  \/ owner = j /\ pos'[j] = pos[j] /\ pc'[j] = pc[j]
               \/ owner = j /\ pos'[j] = pos[j] /\ pc[j] \notin Pending
               \/ pos'[j] = committed
    BY <1>2, <1>t, <2>2
    DEF EnvironmentOf, Assign, Revoke, Expel, Crash, Stop, Close, Restart, Exit,
        Deliver, Expire, group, Pending, Tables
  <2>3. ASSUME NEW j \in Instances, owner' = j
        PROVE  \A c \in 1 .. pos'[j] : c \in Settled' \/ (c = pos'[j] /\ pc'[j] \in Pending)
    BY <1>0, <1>c, <1>p, <2>2, <2>3 DEF SettledInv
  <2>. QED
    BY <1>0, <1>c, <2>1, <2>3 DEF SettledInv
<1>3. CASE UNCHANGED vars \/ Arrival \/ DbRecover \/ Read
  <2>1. UNCHANGED <<owner, pos, pc, committed>> /\ dbUp'
    BY <1>0, <1>3, ReadFrame DEF vars, Arrival, Publish, DbRecover, group, SettledInv
  <2>. QED
    BY <1>0, <1>c, <1>p, <2>1 DEF SettledInv
<1>4. ~ DbDown
  BY DEF DbDown, Strike
<1>. QED
  BY <1>1, <1>2, <1>3, <1>4, NextCases

\* Crashes, lost commits and rebalances only repeat work: without an outage or an expelled
\* process a committed candidate is dropped on purpose; or stored as a whole and
\* published, on its way, given up by a producer, or the send failed; or one whose rows a
\* table does not take, which is stored in the tables in front of that one and never
\* published.
THEOREM CommittedAreDiagnosed == Spec => []CommittedDiagnosed
<1>1. Init => TypeInv /\ WholeInv /\ FitsInv /\ IndAlone /\ IndSettled
  BY InitType, InitWhole, InitFits, InitAlone, InitSettled
<1>2. TypeInv /\ WholeInv /\ FitsInv /\ IndAlone /\ IndSettled /\ [Next]_vars
         => (TypeInv /\ WholeInv /\ FitsInv /\ IndAlone /\ IndSettled)'
  BY NextType, NextWhole, NextFits, NextAlone, NextSettled
<1>3. FitsInv /\ IndSettled => CommittedDiagnosed
  BY DEF IndSettled, SettledInv, Settled, StoredAsFar, Announced, CommittedDiagnosed, FitsInv,
         Fits
<1>. QED
  BY <1>1, <1>2, <1>3, PTL DEF Spec

-------------------------------------------------------------------------------
(* The engine implements ConsumerGroup.                                    *)

\* Where the owner of the partition stands, in this state and in the next.
LEMMA PositionCases ==
    /\ owner = NoOwner => Position = committed
    /\ owner # NoOwner => Position = IF pc[owner] \in Handling THEN pos[owner] - 1 ELSE pos[owner]
    /\ owner' = NoOwner => Position' = committed'
    /\ owner' # NoOwner =>
          Position' = IF pc'[owner'] \in Handling THEN pos'[owner'] - 1 ELSE pos'[owner']
  BY DEF Position

\* Nothing the group sees changes.
LEMMA GroupStutters ==
    ASSUME UNCHANGED <<log, committed, owner>>,
           owner # NoOwner => /\ pos'[owner] = pos[owner]
                              /\ (pc'[owner] \in Handling) = (pc[owner] \in Handling)
    PROVE  UNCHANGED Group!vars
  BY PositionCases DEF Group!vars

LEMMA HandleRefines ==
    ASSUME TypeInv, NEW i \in Instances, Handle(i)
    PROVE  [Group!Next]_(Group!vars)
<1>0. /\ pos \in [Instances -> 0 .. log] /\ pc \in [Instances -> Steps]
      /\ log \in Nat /\ committed \in Nat /\ owner \in Instances \cup {NoOwner}
  BY BoundsAssumption DEF TypeInv, TypeOK
<1>1. CASE Poll(i)
  <2>1. /\ owner = i /\ UNCHANGED <<log, committed, owner>>
        /\ pos'[i] = pos[i] + 1 /\ pc[i] \notin Handling /\ pc'[i] \in Handling
    BY <1>0, <1>1 DEF Poll, Goto, Handling, Tables
  <2>2. Position' = Position
    BY <1>0, <2>1, PositionCases, InstancesAssumption
  <2>. QED
    BY <2>1, <2>2 DEF Group!vars
<1>2. CASE Begin(i) \/ End(i) \/ Produce(i)
  <2>1. UNCHANGED group /\ pc[i] \in Handling /\ pc'[i] \in Handling
    BY <1>0, <1>2 DEF Begin, End, Produce, Goto, NextStep, Handling, Tables
  <2>2. \A j \in Instances \ {i} : pc'[j] = pc[j]
    BY <1>0, <1>2 DEF Begin, End, Produce, Goto
  <2>. QED
    BY <1>0, <2>1, <2>2, GroupStutters DEF group
<1>3. CASE Commit(i)
  <2>1. /\ UNCHANGED <<log, owner, pos>>
        /\ pc[i] \in Handling /\ pc'[i] \notin Handling
        /\ \A j \in Instances \ {i} : pc'[j] = pc[j]
    BY <1>0, <1>3 DEF Commit, Goto, Handling, Tables
  <2>2. CASE owner = i
    <3>1. /\ Position = pos[i] - 1 /\ Position' = pos[i] /\ pos[i] \in 0 .. log
          /\ committed' \in {committed, pos[i]}
      BY <1>0, <1>3, <2>1, <2>2, PositionCases, InstancesAssumption DEF Commit, CommittedOffset
    <3>2. Position < log /\ Position' = Position + 1 /\ committed' \in {committed, Position + 1}
      BY <1>0, <3>1
    <3>. QED
      BY <2>1, <3>2 DEF Group!Next, Group!Finish
  <2>3. CASE owner # i
    <3>1. UNCHANGED committed
      BY <1>3, <2>3 DEF Commit
    <3>. QED
      BY <1>0, <2>1, <2>3, <3>1, GroupStutters
  <2>. QED
    BY <2>2, <2>3
<1>. QED
  BY <1>1, <1>2, <1>3 DEF Handle

LEMMA EnvironmentRefines ==
    ASSUME TypeInv, NEW i \in Instances, EnvironmentOf(i)
    PROVE  [Group!Next]_(Group!vars)
<1>0. /\ pos \in [Instances -> 0 .. log] /\ pc \in [Instances -> Steps]
      /\ owner \in Instances \cup {NoOwner}
  BY DEF TypeInv, TypeOK
<1>1. CASE Assign(i)
  <2>1. /\ owner = NoOwner /\ owner' = i /\ pos'[i] = committed /\ pc'[i] = "poll"
        /\ UNCHANGED <<log, committed>>
    BY <1>0, <1>1 DEF Assign
  <2>2. Position' = Position
    BY <2>1, PositionCases, InstancesAssumption DEF Handling, Tables
  <2>. QED
    BY <2>1, <2>2 DEF Group!vars
<1>2. CASE owner' = NoOwner /\ UNCHANGED <<log, committed>>
  <2>1. Position' = committed
    BY <1>2, PositionCases
  <2>. QED
    BY <1>2, <2>1 DEF Group!Next, Group!Resume
<1>3. CASE ~ Assign(i) /\ owner' # NoOwner
  <2>1. UNCHANGED <<log, committed, owner, pos>>
    BY <1>3 DEF EnvironmentOf, Revoke, Expel, Crash, Stop, Close, Restart, Exit, Deliver,
                Expire, group
  <2>2. \A j \in Instances \ {i} : pc'[j] = pc[j]
    BY <1>0, <1>3 DEF EnvironmentOf, Revoke, Expel, Crash, Stop, Close, Restart, Exit,
                      Deliver, Expire, group
  <2>3. owner = i => (pc'[i] \in Handling) = (pc[i] \in Handling)
    BY <1>0, <1>3 DEF EnvironmentOf, Revoke, Expel, Crash, Stop, Close, Restart, Exit,
                      Deliver, Expire, group, Handling, Tables
  <2>. QED
    BY <1>0, <2>1, <2>2, <2>3, GroupStutters
<1>4. UNCHANGED <<log, committed>>
  BY DEF EnvironmentOf, Assign, Revoke, Expel, Crash, Stop, Close, Restart, Exit, Deliver,
         Expire, group
<1>. QED
  BY <1>1, <1>2, <1>3, <1>4

LEMMA NextRefines == TypeInv /\ [Next]_vars => [Group!Next]_(Group!vars)
<1> SUFFICES ASSUME TypeInv, [Next]_vars PROVE [Group!Next]_(Group!vars)
  OBVIOUS
<1>1. CASE UNCHANGED vars \/ DbDown \/ DbRecover \/ Read
  <2>1. UNCHANGED <<log, committed, owner, pos, pc>>
    BY <1>1 DEF vars, DbDown, DbRecover, Read, ReadIncident, ReadRankings, ReadEdges, Answer,
                group
  <2>. QED
    BY <2>1, GroupStutters
<1>2. CASE Arrival
  <2>1. log' = log + 1 /\ UNCHANGED <<committed, owner, pos, pc>>
    BY <1>2 DEF Arrival, Publish
  <2>2. Position' = Position
    BY <2>1, PositionCases
  <2>. QED
    BY <2>1, <2>2 DEF Group!Next, Group!Publish
<1>. QED
  BY <1>1, <1>2, HandleRefines, EnvironmentRefines, NextCases

\* The engine consumes the candidates at least once: every step is a step of
\* ConsumerGroup, or one that the group does not see.
THEOREM CausalConsumesAtLeastOnce == Spec => AtLeastOnce
<1>1. Init => Group!Init
  BY PositionCases DEF Init, Group!Init
<1>2. Init => TypeInv
  BY InitType
<1>3. TypeInv /\ [Next]_vars => TypeInv'
  BY NextType
<1>. QED
  BY <1>1, <1>2, <1>3, NextRefines, PTL DEF Spec, AtLeastOnce, Group!Spec

\* A step of the group keeps the committed offset between itself and the position.
LEMMA GroupStep ==
    ASSUME TypeInv, TypeInv', Group!NeverAhead, [Group!Next]_(Group!vars)
    PROVE  Group!NeverAhead' /\ committed <= committed'
<1>1. /\ log \in Nat /\ committed \in Nat /\ Position \in Int
      /\ log' \in Nat /\ committed' \in Nat /\ Position' \in Int
  BY PositionCases DEF TypeInv, TypeOK
<1>2. committed <= Position /\ Position <= log
  BY DEF Group!NeverAhead
<1>3. \/ /\ committed' = committed /\ Position' = Position
         /\ log' \in {log, log + 1}
      \/ /\ Position < log /\ Position' = Position + 1 /\ log' = log
         /\ committed' \in {committed, Position + 1}
      \/ committed' = committed /\ Position' = committed /\ log' = log
  BY DEF Group!Next, Group!Publish, Group!Finish, Group!Resume, Group!vars
<1>. QED
  BY <1>1, <1>2, <1>3 DEF Group!NeverAhead

\* What the engines commit never runs ahead of the candidates that were handled to their
\* end, whichever process commits; and no commit is ever taken back.
THEOREM CausalCommitsFollowWork == Spec => []Group!NeverAhead /\ [][committed <= committed']_vars
<1>1. Init => Group!NeverAhead
  BY PositionCases DEF Init, Group!NeverAhead
<1>2. TypeInv /\ Group!NeverAhead /\ [Next]_vars =>
          Group!NeverAhead' /\ [committed <= committed']_vars
  BY NextType, NextRefines, GroupStep
<1>. QED
  BY <1>1, <1>2, InitType, NextType, PTL DEF Spec
===============================================================================
