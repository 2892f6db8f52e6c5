------------------------------ MODULE Delivery ------------------------------
(***************************************************************************)
(* What message synchronisation promises, without queues of requests,      *)
(* workers, frames or connections: the messages of a queue are handed to   *)
(* the application in the order in which they were logged, each after all  *)
(* of its predecessors; some may be handed over again; and a cursor, the   *)
(* client's or the one the server keeps, covers only messages that were.   *)
(***************************************************************************)
EXTENDS Integers

CONSTANT Queues

VARIABLES
  log,         \* number of messages in each queue
  done,        \* the messages that were handed over
  cursor,      \* the client's cursors
  confirmed    \* the cursors the client has confirmed to the server

vars == <<log, done, cursor, confirmed>>

Init ==
  /\ log = [k \in Queues |-> 0]
  /\ done = [k \in Queues |-> {}]
  /\ cursor = [k \in Queues |-> 0]
  /\ confirmed = [k \in Queues |-> 0]

Covered(k, c) == 1..c \subseteq done[k]

Publish(k) ==
  /\ log' = [log EXCEPT ![k] = @ + 1]
  /\ UNCHANGED <<done, cursor, confirmed>>

\* The next message, or one that was handed over before.
Deliver(k) ==
  /\ \E m \in 1..log[k] : Covered(k, m - 1) /\ done' = [done EXCEPT ![k] = @ \cup {m}]
  /\ UNCHANGED <<log, cursor, confirmed>>

\* Cursors move, or go back when a connection ends.
Move ==
  /\ cursor' \in [Queues -> Nat] /\ \A k \in Queues : Covered(k, cursor'[k])
  /\ UNCHANGED <<log, done, confirmed>>

\* What was confirmed stays confirmed.
Confirm ==
  /\ confirmed' \in [Queues -> Nat]
  /\ \A k \in Queues : confirmed'[k] >= confirmed[k] /\ Covered(k, confirmed'[k])
  /\ UNCHANGED <<log, done, cursor>>

Next == Move \/ Confirm \/ \E k \in Queues : Publish(k) \/ Deliver(k)

Spec == Init /\ [][Next]_vars
=============================================================================
