----------------------------- MODULE ConsumerGroup ----------------------------
(***************************************************************************)
(* What every stage of the pipeline promises about its input, whatever it  *)
(* does with a message: at-least-once consumption of one partition.  The   *)
(* stages poll with enable.auto.commit off, handle a message to its end    *)
(* and only then commit its offset, or fail to (libs/common/kafka.py and   *)
(* the run loops).  Committing an offset commits all before it, so the     *)
(* promise is that nothing before it was passed over.                      *)
(*                                                                         *)
(* Ingestor, Correlator and CausalEngine implement this specification.     *)
(***************************************************************************)
EXTENDS Naturals

VARIABLES
    published,   \* messages in the partition
    committed,   \* the group's committed offset
    position     \* messages the current owner of the partition is done with

vars == <<published, committed, position>>

Init == published = 0 /\ committed = 0 /\ position = 0

Publish == published' = published + 1 /\ UNCHANGED <<committed, position>>

\* The next message is handled to its end; its commit succeeds or fails.
Finish ==
    /\ position < published
    /\ position' = position + 1
    /\ committed' \in {committed, position + 1}
    /\ UNCHANGED published

\* The partition changes hands, or its owner restarts: back to the committed offset.
Resume == position' = committed /\ UNCHANGED <<published, committed>>

Next == Publish \/ Finish \/ Resume

Spec == Init /\ [][Next]_vars

-------------------------------------------------------------------------------
\* A commit never covers a message that no owner has finished.
NeverAhead == committed <= position /\ position <= published

\* A committed offset is never taken back.
NeverBack == [][committed <= committed']_vars
===============================================================================
