-------------------------- MODULE DecodePathProofs --------------------------
(***************************************************************************)
(* For every word size, limit, set of callers and set of amounts a byte    *)
(* budget is never overdrawn and no wake-up is lost.  decodeAndDispatch    *)
(* uses the decode budget as ByteBudget says it is used, whatever arrives  *)
(* on however many connections: what is proved of ByteBudget holds of      *)
(* decoding.                                                               *)
(***************************************************************************)
EXTENDS DecodePath, TLAPS

-----------------------------------------------------------------------------
(* The budget *)

\* Neither invariant is inductive alone: that a sleeper's amount does not fit
\* speaks of Limit - used, which is a word only within the limit.
BudgetInv == TypeOK /\ WithinLimit /\ NoLostWakeup

\* Within the limit no sum or difference of tryAcquireLocked wraps.
LEMMA TryAcquireFacts ==
  ASSUME NEW u \in Word, 0 <= u, u <= Limit, NEW n \in Word
  PROVE LET out == tryAcquireLocked(Limit, u, n)
        IN /\ out.result \in {"ok", "full", "invalid"}
           /\ out.result = "ok" => /\ out.used = u + n
                                   /\ 0 < n /\ u + n <= Limit
           /\ out.result # "ok" => out.used = u
           /\ out.result = "full" => n > Limit - u
  BY MaxIntAssumption, BudgetAssumption
  DEF tryAcquireLocked, validateAcquireLocked, validateLocked, Outcome, Wrap, Word

\* A release that is accepted takes off what it was called with.
LEMMA ReleaseFacts ==
  ASSUME NEW u \in Word, 0 <= u, u <= Limit, NEW n \in Word
  PROVE LET out == releaseLocked(Limit, u, n)
        IN /\ out.result \in {"ok", "invalid"}
           /\ out.result = "ok" => /\ out.used = u - n
                                   /\ 0 < n /\ n <= u
           /\ out.result # "ok" => out.used = u
  BY MaxIntAssumption, BudgetAssumption
  DEF releaseLocked, validateLocked, Outcome, Wrap, Word

\* An accepted release leaves nobody parked.
LEMMA WakeAllFacts ==
  ASSUME TypeOK, NEW p \in Callers, NEW next \in PCs \ {"parked"}
  PROVE /\ wakeAll(p, next) \in [Callers -> PCs]
        /\ \A q \in Callers : wakeAll(p, next)[q] # "parked"
  BY DEF TypeOK, wakeAll, At, PCs

\* A step that takes bytes, or leaves them alone, and parks nobody.
LEMMA NobodyParks ==
  ASSUME BudgetInv, NEW p \in Callers, NEW next \in PCs \ {"parked"}, Goto(p, next),
         amount' \in [Callers -> Word], \A q \in Callers \ {p} : amount'[q] = amount[q],
         canceled' \in [Callers -> BOOLEAN],
         used' \in Int, used <= used', used' <= Limit
  PROVE BudgetInv'
<1>1. proc' \in [Callers -> PCs] /\ proc'[p] # "parked"
  BY DEF BudgetInv, TypeOK, Goto
<1>2. \A q \in Callers \ {p} : proc'[q] = proc[q]
  BY DEF BudgetInv, TypeOK, Goto
<1>3. used' \in Word /\ 0 <= used'
  BY MaxIntAssumption, BudgetAssumption DEF BudgetInv, TypeOK, WithinLimit, Word
<1>4. NoLostWakeup'
  <2> SUFFICES ASSUME NEW q \in Callers, proc'[q] = "parked" PROVE amount'[q] > Limit - used'
    BY DEF NoLostWakeup, At
  <2>1. q # p /\ amount'[q] = amount[q] /\ amount[q] > Limit - used /\ amount[q] \in Word
    BY <1>1, <1>2 DEF BudgetInv, TypeOK, NoLostWakeup, At
  <2> QED
    BY <2>1, BudgetAssumption, MaxIntAssumption DEF Word, BudgetInv, TypeOK
<1> QED
  BY <1>1, <1>3, <1>4 DEF BudgetInv, TypeOK, WithinLimit

\* A release, accepted or refused.
LEMMA Releases ==
  ASSUME BudgetInv, NEW p \in Callers, NEW next \in PCs \ {"parked"},
         LET out == releaseLocked(Limit, used, amount[p])
         IN /\ used' = out.used
            /\ IF out.result = "ok" THEN proc' = wakeAll(p, next) ELSE Goto(p, next),
         UNCHANGED <<amount, canceled>>
  PROVE BudgetInv'
<1> DEFINE out == releaseLocked(Limit, used, amount[p])
<1>1. used \in Word /\ 0 <= used /\ used <= Limit /\ amount[p] \in Word
  BY DEF BudgetInv, TypeOK, WithinLimit
<1>2. /\ out.result \in {"ok", "invalid"}
      /\ out.result = "ok" => out.used = used - amount[p] /\ 0 < amount[p] /\ amount[p] <= used
      /\ out.result # "ok" => out.used = used
  BY <1>1, ReleaseFacts
<1>3. CASE out.result = "ok"
  <2>1. used' = used - amount[p] /\ proc' = wakeAll(p, next)
    BY <1>2, <1>3
  <2>2. proc' \in [Callers -> PCs] /\ \A q \in Callers : proc'[q] # "parked"
    BY <2>1, WakeAllFacts DEF BudgetInv
  <2> QED
    BY <1>1, <1>2, <1>3, <2>1, <2>2, MaxIntAssumption, BudgetAssumption
    DEF BudgetInv, TypeOK, WithinLimit, NoLostWakeup, At, Word
<1>4. CASE out.result # "ok"
  BY <1>1, <1>2, <1>4, NobodyParks DEF BudgetInv, TypeOK, WithinLimit, Word
<1> QED
  BY <1>3, <1>4

\* The budget starts empty, with nobody waiting.
LEMMA BudgetInvInit == Init => BudgetInv
  BY MaxIntAssumption, BudgetAssumption
  DEF Init, BudgetInv, TypeOK, WithinLimit, NoLostWakeup, At, PCs, Word

\* Every step preserves the invariant.
LEMMA BudgetInvStep == BudgetInv /\ [Next]_vars => BudgetInv'
<1> SUFFICES ASSUME BudgetInv, [Next]_vars PROVE BudgetInv'
  OBVIOUS
<1>1. CASE UNCHANGED vars
  BY <1>1 DEF BudgetInv, TypeOK, WithinLimit, NoLostWakeup, At, vars
<1>2. CASE Next
  <2>0. PICK p \in Callers :
          \/ \E n \in Amounts : TryAcquire(p, n) \/ Acquire(p, n)
          \/ Cancel(p) \/ AcquireStep(p) \/ Release(p)
    BY <1>2 DEF Next
  <2>00. used \in Word /\ 0 <= used /\ used <= Limit /\ amount[p] \in Word
    BY DEF BudgetInv, TypeOK, WithinLimit
  <2>1. CASE \E n \in Amounts : TryAcquire(p, n)
    <3>1. PICK n \in Amounts : TryAcquire(p, n)
      BY <2>1
    <3>2. n \in Word
      BY BudgetAssumption
    <3>3. used' = used + n /\ 0 < n /\ used + n <= Limit
      BY <2>00, <3>1, <3>2, TryAcquireFacts DEF TryAcquire
    <3>4. Goto(p, "holding") /\ amount' = [amount EXCEPT ![p] = n] /\ canceled' = canceled
      BY <3>1 DEF TryAcquire
    <3> QED
      BY <2>00, <3>2, <3>3, <3>4, NobodyParks DEF BudgetInv, TypeOK, PCs, Word
  <2>2. CASE \E n \in Amounts : Acquire(p, n)
    BY <2>00, <2>2, BudgetAssumption, NobodyParks
    DEF Acquire, BudgetInv, TypeOK, PCs, Word
  <2>3. CASE Cancel(p)
    BY <2>3 DEF Cancel, BudgetInv, TypeOK, WithinLimit, NoLostWakeup, At
  <2>4. CASE AcquireChecks(p)
    <3>1. (IF canceled[p] THEN "idle" ELSE "try") \in PCs \ {"parked"}
      BY DEF PCs
    <3> QED
      BY <2>00, <2>4, <3>1, NobodyParks DEF AcquireChecks, BudgetInv, TypeOK, Word
  <2>5. CASE AcquireTries(p)
    <3> DEFINE out == tryAcquireLocked(Limit, used, amount[p])
    <3>1. /\ out.result \in {"ok", "full", "invalid"}
          /\ out.result = "ok" => /\ out.used = used + amount[p]
                                  /\ 0 < amount[p] /\ used + amount[p] <= Limit
          /\ out.result # "ok" => out.used = used
          /\ out.result = "full" => amount[p] > Limit - used
      BY <2>00, TryAcquireFacts
    <3>2. used' = out.used /\ amount' = amount /\ canceled' = canceled
      BY <2>5 DEF AcquireTries
    <3>3. CASE out.result = "ok"
      <4>1. Goto(p, "holding")
        BY <2>5, <3>3 DEF AcquireTries
      <4> QED
        BY <2>00, <3>1, <3>2, <3>3, <4>1, NobodyParks DEF BudgetInv, TypeOK, PCs, Word
    <3>4. CASE out.result = "full"
      <4>1. Goto(p, "parked")
        BY <2>5, <3>4 DEF AcquireTries
      <4> QED
        BY <2>00, <3>1, <3>2, <3>4, <4>1
        DEF BudgetInv, TypeOK, WithinLimit, NoLostWakeup, Goto, At, PCs
    <3>5. CASE out.result = "invalid"
      <4>1. Goto(p, "idle")
        BY <2>5, <3>5 DEF AcquireTries
      <4> QED
        BY <2>00, <3>1, <3>2, <3>5, <4>1, NobodyParks DEF BudgetInv, TypeOK, PCs, Word
    <3> QED
      BY <3>1, <3>3, <3>4, <3>5
  <2>6. CASE AcquireWakes(p)
    <3>1. (Goto(p, "loop") \/ Goto(p, "idle")) /\ UNCHANGED <<used, amount, canceled>>
      BY <2>6 DEF AcquireWakes
    <3> QED
      BY <2>00, <3>1, NobodyParks DEF BudgetInv, TypeOK, PCs, Word
  <2>7. CASE Release(p)
    BY <2>7, Releases DEF Release, PCs
  <2> QED
    BY <2>0, <2>1, <2>2, <2>3, <2>4, <2>5, <2>6, <2>7 DEF AcquireStep
<1> QED
  BY <1>1, <1>2 DEF vars

\* Whatever callers ask for, and up to the end of the int64 range, a byteBudget
\* is never overdrawn.
THEOREM NeverOverdrawn == Spec => []WithinLimit
<1>1. BudgetInv => WithinLimit
  BY DEF BudgetInv
<1> QED
  BY BudgetInvInit, BudgetInvStep, <1>1, PTL DEF Spec

\* No Acquire sleeps on the current channel while its amount fits: Release
\* closes the channel under the lock under which the waiter took it.
THEOREM NoSleeperFits == Spec => []NoLostWakeup
<1>1. BudgetInv => NoLostWakeup
  BY DEF BudgetInv
<1> QED
  BY BudgetInvInit, BudgetInvStep, <1>1, PTL DEF Spec

-----------------------------------------------------------------------------
(* Decoding *)

\* A class reserves one of the four amounts.
LEMMA WeightIsAmount ==
  ASSUME NEW data, estimateDecodeAdmission(data).err = "nil"
  PROVE  decodeAdmissionWeight(estimateDecodeAdmission(data).class) \in Amounts
<1> DEFINE class == estimateDecodeAdmission(data).class
<1>1. sizeClass(Len(data)) \in {"Tiny", "Small", "Large", "Ambiguous"}
  BY DEF sizeClass
<1>2. class \in {"Tiny", "Small", "Large", "Ambiguous", "Compressed"}
  BY <1>1 DEF estimateDecodeAdmission, Failed
<1> HIDE DEF class
<1>3. decodeAdmissionWeight(class) \in Weights
  BY <1>2 DEF decodeAdmissionWeight, Weights
<1> QED BY <1>3, AdmissionAssumption DEF class

\* A step of a connection is a step of the budget, or leaves it alone.
LEMMA DecodeStep == [DecodeNext]_decodeVars => [Next]_vars
<1> SUFFICES ASSUME [DecodeNext]_decodeVars PROVE [Next]_vars
  OBVIOUS
<1>1. CASE UNCHANGED decodeVars
  BY <1>1 DEF decodeVars
<1>2. CASE DecodeNext
  <2>1. PICK p \in Callers :
          \/ \E v \in ProvisionsOf[p] : EncodeProvision(p, v)
          \/ \E frame \in FramesOf[p] : AdmissionFails(p, frame) \/ Admit(p, frame)
          \/ Wait(p) \/ Expire(p)
          \/ Work(p)
    BY <1>2 DEF DecodeNext
  <2>2. CASE \E v \in ProvisionsOf[p] : EncodeProvision(p, v)
    BY <2>2 DEF EncodeProvision
  <2>3. CASE \E frame \in FramesOf[p] : AdmissionFails(p, frame)
    BY <2>3 DEF AdmissionFails
  <2>4. ASSUME NEW frame \in FramesOf[p], Admit(p, frame) PROVE Next
    <3> DEFINE n == decodeAdmissionWeight(estimateDecodeAdmission(Raw(frame)).class)
    <3>1. n \in Amounts /\ Acquire(p, n)
      BY <2>4, WeightIsAmount, ZenonT(30) DEF Admit
    <3> QED BY <3>1 DEF Next
  <2>5. CASE Wait(p) \/ Expire(p)
    BY <2>5, ZenonT(30) DEF Wait, Expire, Next
  <2>6. CASE Work(p)
    BY <2>6, ZenonT(30) DEF Work, Unpack, Parse, Copy, Return, Next
  <2> QED BY <2>1, <2>2, <2>3, <2>4, <2>5, <2>6, ZenonT(30)
<1> QED BY <1>1, <1>2

\* The connections use the decode budget as ByteBudget describes: decodeAndDispatch
\* reserves once, gives back what it reserved and nothing else.
THEOREM DecodeUsesBudget == DecodeSpec => Spec
<1>1. DecodeInit => Init
  BY DEF DecodeInit
<1> QED BY <1>1, DecodeStep, PTL DEF DecodeSpec, Spec

\* No frame waits for bytes of the decode budget that are free.
THEOREM NoFrameLeftWaiting == DecodeSpec => []NoLostWakeup
  BY DecodeUsesBudget, NoSleeperFits, PTL

\* The frames that are decoded at the same time never reserve more than the limit.
THEOREM DecodeWithinLimit == DecodeSpec => []WithinLimit
  BY DecodeUsesBudget, NeverOverdrawn, PTL
=============================================================================
