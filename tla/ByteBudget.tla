----------------------------- MODULE ByteBudget -----------------------------
(***************************************************************************)
(* One byteBudget (sdk/byte_budget.go), the weighted semaphore that bounds *)
(* decoding, batches and queues, used by any number of goroutines.  A      *)
(* goroutine makes one reservation at a time and gives it back later, as   *)
(* decodeAndDispatch does (sdk/connection.go).                             *)
(*                                                                         *)
(* A step is one critical section of byteBudget.mu, or one look at the     *)
(* context.  Waiters park on the channel that is current when they find    *)
(* the budget full; Release closes it, which wakes all of them.            *)
(***************************************************************************)
EXTENDS BudgetMath, FiniteSets, FiniteSetsExt

CONSTANTS
  Callers,     \* goroutines
  Limit,       \* byteBudget.limit
  Amounts      \* the amounts callers ask for

ASSUME BudgetAssumption ==
  /\ Limit \in Word /\ Limit >= 0      \* newByteBudget refuses a negative limit
  /\ Amounts \subseteq Word

VARIABLES
  used,        \* byteBudget.used
  proc,        \* where each caller is: in Acquire, holding a reservation, ...
  amount,      \* the n of its reservation or request
  canceled     \* its context is done

vars == <<used, proc, amount, canceled>>

\* "parked" waits on the current channel, "woken" on one that was closed.
PCs == {"idle", "loop", "try", "parked", "woken", "holding"}

Init ==
  /\ used = 0
  /\ proc = [p \in Callers |-> "idle"]
  /\ amount = [p \in Callers |-> 0]
  /\ canceled = [p \in Callers |-> FALSE]

At(p, pc) == proc[p] = pc

Goto(p, pc) == proc' = [proc EXCEPT ![p] = pc]

\* TryAcquire.  A call that is refused changes nothing.
TryAcquire(p, n) ==
  /\ At(p, "idle")
  /\ LET out == tryAcquireLocked(Limit, used, n)
     IN out.result = "ok" /\ used' = out.used
  /\ Goto(p, "holding")
  /\ amount' = [amount EXCEPT ![p] = n]
  /\ UNCHANGED canceled

\* Acquire is called and its amount found valid; a call with an invalid one
\* returns an error at once and changes nothing.
Acquire(p, n) ==
  /\ At(p, "idle")
  /\ validateAcquireLocked(Limit, used, n)
  /\ Goto(p, "loop")
  /\ amount' = [amount EXCEPT ![p] = n]
  /\ canceled' = [canceled EXCEPT ![p] = FALSE]
  /\ UNCHANGED used

\* The context of a caller in Acquire expires (decodeAdmissionWait).
Cancel(p) ==
  /\ proc[p] \in {"loop", "try", "parked", "woken"}
  /\ ~canceled[p]
  /\ canceled' = [canceled EXCEPT ![p] = TRUE]
  /\ UNCHANGED <<used, proc, amount>>

\* The head of the loop looks at the context before it competes.
AcquireChecks(p) ==
  /\ At(p, "loop")
  /\ Goto(p, IF canceled[p] THEN "idle" ELSE "try")
  /\ UNCHANGED <<used, amount, canceled>>

\* Trying and taking the channel to wait on are one critical section.
AcquireTries(p) ==
  /\ At(p, "try")
  /\ LET out == tryAcquireLocked(Limit, used, amount[p])
     IN /\ used' = out.used
        /\ Goto(p, CASE out.result = "ok"      -> "holding"
                     [] out.result = "full"    -> "parked"
                     [] out.result = "invalid" -> "idle")
  /\ UNCHANGED <<amount, canceled>>

\* The select: the channel was closed, or the context is done, either first.
AcquireWakes(p) ==
  /\ \/ At(p, "woken") /\ Goto(p, "loop")
     \/ proc[p] \in {"parked", "woken"} /\ canceled[p] /\ Goto(p, "idle")
  /\ UNCHANGED <<used, amount, canceled>>

\* Mistake: a release wakes one waiter.
wakeOne(p, next) ==
  LET parked == {q \in Callers : At(q, "parked")}
      lucky == IF parked = {} THEN {} ELSE {CHOOSE q \in parked : TRUE}
  IN [q \in Callers |-> IF q = p THEN next
                        ELSE IF q \in lucky THEN "woken" ELSE proc[q]]

\* close(b.waitLocked()) wakes every waiter.
wakeAll(p, next) ==
  [q \in Callers |-> IF q = p THEN next
                     ELSE IF At(q, "parked") THEN "woken" ELSE proc[q]]

\* Mistake: the channel is replaced but not closed.
releaseSilently(p) ==
  /\ At(p, "holding")
  /\ used' = releaseLocked(Limit, used, amount[p]).used
  /\ Goto(p, "idle")
  /\ UNCHANGED <<amount, canceled>>

\* A holder gives its reservation back, once: decodeAndDispatch in a defer, and
\* batchReservation sees to it (BatchReservation).
Release(p) ==
  /\ At(p, "holding")
  /\ LET out == releaseLocked(Limit, used, amount[p])
     IN /\ used' = out.used
        /\ IF out.result = "ok" THEN proc' = wakeAll(p, "idle") ELSE Goto(p, "idle")
  /\ UNCHANGED <<amount, canceled>>

AcquireStep(p) == AcquireChecks(p) \/ AcquireTries(p) \/ AcquireWakes(p)

Next ==
  \E p \in Callers :
    \/ \E n \in Amounts : TryAcquire(p, n) \/ Acquire(p, n)
    \/ Cancel(p) \/ AcquireStep(p) \/ Release(p)

Spec == Init /\ [][Next]_vars

\* Goroutines in Acquire run, and a holder releases: decodeAndDispatch does so
\* in a defer.  No context is assumed to expire.
FairSpec ==
  /\ Spec
  /\ \A p \in Callers : WF_vars(AcquireStep(p)) /\ WF_vars(Release(p))

-----------------------------------------------------------------------------
(* Properties.                                                             *)

TypeOK ==
  /\ used \in Word
  /\ proc \in [Callers -> PCs]
  /\ amount \in [Callers -> Word]
  /\ canceled \in [Callers -> BOOLEAN]

\* The budget is never overdrawn and never negative, whatever is asked for,
\* up to amounts and limits at the end of the int64 range (tryAcquireLocked).
WithinLimit == 0 <= used /\ used <= Limit

\* No wake-up is lost: a caller sleeps on the current channel only while its
\* amount does not fit (waitLocked and Release under the same lock).
NoLostWakeup == \A p \in Callers : At(p, "parked") => amount[p] > Limit - used

\* A waiter always gets to compete again: holders release, and every release
\* wakes every waiter (Release).
WaiterMovesOn == \A p \in Callers : At(p, "parked") ~> ~At(p, "parked")
=============================================================================
