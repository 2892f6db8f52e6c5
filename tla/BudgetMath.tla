----------------------------- MODULE BudgetMath -----------------------------
(***************************************************************************)
(* What the critical sections of a byteBudget compute (sdk/byte_budget.go):*)
(* the bytes in use after the call, and how the call ends.  Amounts are    *)
(* int64 in the code; here they are the integers of a machine word whose   *)
(* largest value is MaxInt, and sums and differences wrap around.          *)
(***************************************************************************)
EXTENDS Integers

CONSTANT MaxInt      \* math.MaxInt64

ASSUME MaxIntAssumption == MaxInt \in Nat \ {0}

Word == (-MaxInt - 1)..MaxInt

\* The sum or difference of two words, as a word.
Wrap(x) ==
  IF x > MaxInt THEN x - 2 * (MaxInt + 1)
  ELSE IF x < -MaxInt - 1 THEN x + 2 * (MaxInt + 1)
  ELSE x

\* (true, nil), (false, nil) and (false, errByteBudgetInvariant).
Outcome(result, used) == [result |-> result, used |-> used]

validateLocked(limit, used) == limit >= 0 /\ used >= 0 /\ used <= limit

validateAcquireLocked(limit, used, n) ==
  validateLocked(limit, used) /\ n > 0 /\ n <= limit

\* tryAcquireLocked compares n with what is left, which cannot overflow.
tryAcquireLocked(limit, used, n) ==
  IF ~validateAcquireLocked(limit, used, n) THEN Outcome("invalid", used)
  ELSE IF n > Wrap(limit - used) THEN Outcome("full", used)
  ELSE Outcome("ok", Wrap(used + n))

\* Release: an amount that is not positive or more than is in use is refused.
releaseLocked(limit, used, n) ==
  IF ~validateLocked(limit, used) \/ n <= 0 \/ n > used THEN Outcome("invalid", used)
  ELSE Outcome("ok", Wrap(used - n))
=============================================================================
