---------------------------- MODULE HandOffQueue ----------------------------
(***************************************************************************)
(* The bounded hand-off between admission and the pump                     *)
(* (crates/telemetry-ingestion/src/queue.rs): a FIFO bounded in accounted  *)
(* bytes, each operation one critical section of its own mutex.            *)
(***************************************************************************)
EXTENDS Records, Sequences

CONSTANT QueueCeiling    \* ceiling_bytes

ASSUME QueueAssumption == QueueCeiling \in Nat

VARIABLES
    items,      \* the records in flight, front first
    accounted   \* their accounted bytes, as the queue maintains them

queueVars == <<items, accounted>>

QueueInit ==
    /\ items = <<>>
    /\ accounted = 0

QueueTypeOK ==
    /\ items \in Seq(Records)
    /\ accounted \in Int

(* Fault: the occupancy is left out of the test.                             *)
SaturatesAlone(bytes) == bytes > QueueCeiling

(* Whether the queue refuses `bytes` more: the saturation test of offer and  *)
(* of the pipeline's export-atomic measurement.                              *)
Saturates(bytes) == accounted + bytes > QueueCeiling

Offer(r) ==
    /\ ~Saturates(QueuedBytes(r.w))
    /\ items' = Append(items, r)
    /\ accounted' = accounted + QueuedBytes(r.w)

PopFront ==
    /\ items # <<>>
    /\ items' = Tail(items)
    /\ accounted' = accounted - QueuedBytes(Head(items).w)
=============================================================================
