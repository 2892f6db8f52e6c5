--------------------------- MODULE QueueDelivery ---------------------------
(***************************************************************************)
(* QueueSync implements Delivery: a message is handed over when            *)
(* processMetas is done with it, and the cursors are the NextKeys that     *)
(* processBatch has stored in r.queues.                                    *)
(***************************************************************************)
EXTENDS QueueSync

cursors == [k \in Queues |-> run.queues[k].key]

Abstract == INSTANCE Delivery WITH log <- tail, done <- handled, cursor <- cursors

\* However connections fail, pages repeat and stale jobs linger, the engine of
\* sdk/queue.go hands messages over in order and without gaps, and neither its
\* cursor nor the server's passes a message it was not done with.
DeliveryInOrder == Abstract!Spec
=============================================================================
