---------------------------- MODULE MCQueueSync ----------------------------
(* QueueSync instantiated for TLC, and the property that needs a sum. *)
EXTENDS QueueDelivery, FiniteSetsExt, TLC

CONSTANTS q1, q2, q3

\* q1 carries two messages, so that a queue is pulled in several pages; one is
\* enough to make the others compete for a slot.
TwoOne == [k \in Queues |-> IF k = q1 THEN 2 ELSE 1]
One == [k \in Queues |-> 1]

\* The workers of a pool are interchangeable.
Symmetry == Permutations(PullWorkers) \cup Permutations(BatchWorkers)

\* The batch budgets are charged with exactly the jobs that are waiting or being
\* processed, those of connections that are gone included.
BatchChargesExact ==
  /\ batchUsed = MapThenSumSet(LAMBDA i : batchWeight(batches[i].d), DOMAIN batches)
               + MapThenSumSet(LAMBDA w : batchWeight(bw[w].job.d),
                               {w \in BatchWorkers : bw[w] # Idle})
  /\ batchUsed <= BatchBudget

=============================================================================
