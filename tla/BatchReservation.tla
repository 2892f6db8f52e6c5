-------------------------- MODULE BatchReservation --------------------------
(***************************************************************************)
(* batchReservation (sdk/resource_budgets.go): a batch of messages is      *)
(* charged to the budget of its Client and to the budget of the process,   *)
(* in two critical sections, and given back in two.  Several Clients share *)
(* the process budget, and nothing keeps two goroutines from calling       *)
(* Release of the same reservation.                                        *)
(***************************************************************************)
EXTENDS BudgetMath, FiniteSets, FiniteSetsExt

CONSTANTS
  Clients, Batches,
  Owner,          \* the Client of each batch
  Releasers,      \* goroutines that call Release
  Weights,        \* retained weights of batches
  ClientLimit,    \* clientBatchBudgetBytes
  ProcessLimit    \* processBatchBudgetBytes

ASSUME ReservationAssumption ==
  /\ Owner \in [Batches -> Clients]
  /\ Weights \subseteq Word
  /\ ClientLimit \in 0..MaxInt /\ ProcessLimit \in 0..MaxInt

VARIABLES
  clientUsed,    \* of each Client: used of its batch budget
  processUsed,   \* used of processBatchBudget
  stage,         \* of each batch: how far tryReserveBatchScoped got
  weight,        \* batchReservation.weight
  released,      \* batchReservation.released
  releaser       \* where each goroutine is in Release, and of which batch

vars == <<clientUsed, processUsed, stage, weight, released, releaser>>

Resting == [pc |-> "idle", batch |-> CHOOSE b \in Batches : TRUE]

Init ==
  /\ clientUsed = [c \in Clients |-> 0] /\ processUsed = 0
  /\ stage = [b \in Batches |-> "none"]
  /\ weight = [b \in Batches |-> 0]
  /\ released = [b \in Batches |-> FALSE]
  /\ releaser = [g \in Releasers |-> Resting]

\* client.TryAcquire.  A refusal ends the call with nothing charged.
ReserveClient(b, w) ==
  LET out == tryAcquireLocked(ClientLimit, clientUsed[Owner[b]], w)
  IN /\ stage[b] = "none" /\ out.result = "ok"
     /\ clientUsed' = [clientUsed EXCEPT ![Owner[b]] = out.used]
     /\ stage' = [stage EXCEPT ![b] = "client"]
     /\ weight' = [weight EXCEPT ![b] = w]
     /\ UNCHANGED <<processUsed, released, releaser>>

\* process.TryAcquire, with the Client's charge already made.
ReserveProcess(b) ==
  LET out == tryAcquireLocked(ProcessLimit, processUsed, weight[b])
  IN /\ stage[b] = "client"
     /\ processUsed' = out.used
     /\ stage' = [stage EXCEPT ![b] = IF out.result = "ok" THEN "held" ELSE "undo"]
     /\ UNCHANGED <<clientUsed, weight, released, releaser>>

\* Mistake: a batch the process refuses stays charged to its Client.
reserveKeepsCharge(b) ==
  /\ stage[b] = "undo"
  /\ stage' = [stage EXCEPT ![b] = "none"]
  /\ UNCHANGED <<clientUsed, processUsed, weight, released, releaser>>

\* The process refused: the Client's charge is given back.
ReserveUndo(b) ==
  /\ stage[b] = "undo"
  /\ clientUsed' = [clientUsed EXCEPT
       ![Owner[b]] = releaseLocked(ClientLimit, clientUsed[Owner[b]], weight[b]).used]
  /\ stage' = [stage EXCEPT ![b] = "none"]
  /\ UNCHANGED <<processUsed, weight, released, releaser>>

\* Mistake: a second call is not told apart from the first.
releaseUnmarked(g, b) ==
  /\ releaser[g].pc = "idle" /\ stage[b] = "held"
  /\ released' = [released EXCEPT ![b] = TRUE]
  /\ releaser' = [releaser EXCEPT ![g] = [pc |-> "client", batch |-> b]]
  /\ UNCHANGED <<clientUsed, processUsed, stage, weight>>

\* Release: the first caller marks the reservation; any other gets an error
\* and changes nothing.
ReleaseBegin(g, b) ==
  /\ releaser[g].pc = "idle" /\ stage[b] = "held" /\ ~released[b]
  /\ released' = [released EXCEPT ![b] = TRUE]
  /\ releaser' = [releaser EXCEPT ![g] = [pc |-> "client", batch |-> b]]
  /\ UNCHANGED <<clientUsed, processUsed, stage, weight>>

ReleaseClient(g) ==
  LET b == releaser[g].batch
  IN /\ releaser[g].pc = "client"
     /\ clientUsed' = [clientUsed EXCEPT
          ![Owner[b]] = releaseLocked(ClientLimit, clientUsed[Owner[b]], weight[b]).used]
     /\ releaser' = [releaser EXCEPT ![g].pc = "process"]
     /\ UNCHANGED <<processUsed, stage, weight, released>>

ReleaseProcess(g) ==
  LET b == releaser[g].batch
  IN /\ releaser[g].pc = "process"
     /\ processUsed' = releaseLocked(ProcessLimit, processUsed, weight[b]).used
     /\ releaser' = [releaser EXCEPT ![g] = Resting]
     /\ UNCHANGED <<clientUsed, stage, weight, released>>

Terminated ==
  /\ \A b \in Batches : released[b]
  /\ \A g \in Releasers : releaser[g].pc = "idle"
  /\ UNCHANGED vars

Next ==
  \/ \E b \in Batches :
       \/ \E w \in Weights : ReserveClient(b, w)
       \/ ReserveProcess(b) \/ ReserveUndo(b)
       \/ \E g \in Releasers : ReleaseBegin(g, b)
  \/ \E g \in Releasers : ReleaseClient(g) \/ ReleaseProcess(g)
  \/ Terminated

Spec == Init /\ [][Next]_vars

-----------------------------------------------------------------------------
(* Properties.                                                             *)

Releasing(b, pc) == \E g \in Releasers : releaser[g] = [pc |-> pc, batch |-> b]

ChargedToClient(b) ==
  stage[b] \in {"client", "undo", "held"} /\ (released[b] => Releasing(b, "client"))

ChargedToProcess(b) ==
  stage[b] = "held" /\ (released[b] => Releasing(b, "client") \/ Releasing(b, "process"))

\* Between any two of the critical sections, each budget is charged with
\* exactly the batches that still hold their charge of it: a reservation the
\* process refuses, and a release that is asked for twice, leave nothing
\* behind in one budget and take nothing of another batch out of the other.
ChargesExact ==
  /\ \A c \in Clients :
       clientUsed[c] = MapThenSumSet(LAMBDA b : weight[b],
                          {b \in Batches : Owner[b] = c /\ ChargedToClient(b)})
  /\ processUsed = MapThenSumSet(LAMBDA b : weight[b], {b \in Batches : ChargedToProcess(b)})

\* The two budgets as ByteBudget describes one, with the batches as callers.
NotCanceled(S) == [b \in S |-> FALSE]
Process ==
  INSTANCE ByteBudget WITH
    Callers <- Batches, Limit <- ProcessLimit, Amounts <- Weights, used <- processUsed,
    proc <- [b \in Batches |-> IF ChargedToProcess(b) THEN "holding" ELSE "idle"],
    amount <- [b \in Batches |-> IF stage[b] = "held" THEN weight[b] ELSE 0],
    canceled <- NotCanceled(Batches)

Of(c) == {b \in Batches : Owner[b] = c}
Client(c) ==
  INSTANCE ByteBudget WITH
    Callers <- Of(c), Limit <- ClientLimit, Amounts <- Weights, used <- clientUsed[c],
    proc <- [b \in Of(c) |-> IF ChargedToClient(b) THEN "holding" ELSE "idle"],
    amount <- [b \in Of(c) |-> weight[b]],
    canceled <- NotCanceled(Of(c))

\* Each budget, seen alone, is used as a byteBudget has to be: whatever the
\* other one refuses and however releases race, every charge is given back
\* exactly once, by the batch that holds it, and with the amount it took.
\* (Process!Spec and Client(c)!Spec of every Client, in the form TLC checks.)
BudgetsRespected ==
  /\ Process!Init /\ \A c \in Clients : Client(c)!Init
  /\ [][/\ Process!Next \/ UNCHANGED Process!vars
        /\ \A c \in Clients : Client(c)!Next \/ UNCHANGED Client(c)!vars]_vars
=============================================================================
