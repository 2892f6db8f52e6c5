--------------------------- MODULE QueueSyncProofs ---------------------------
(***************************************************************************)
(* Every variable of QueueSync keeps its type, and activeQueues is exact.  *)
(* What the helpers that run with queueMu held return and preserve comes   *)
(* first, then the inductive invariant ActiveInv, its initial case, and    *)
(* its preservation by the server, by readPump, by the pull workers, by    *)
(* the batch workers and by the end of a run.                              *)
(***************************************************************************)
EXTENDS QueueSync, FiniteSetTheorems, WellFoundedInduction, TLAPS

-----------------------------------------------------------------------------
(* The helpers *)

\* What no helper that only schedules may touch.
SameBooks(r, s) ==
  /\ s.used = r.used
  /\ \A j \in Queues : /\ s.queues[j].processing = r.queues[j].processing
                       /\ s.queues[j].key = r.queues[j].key
                       /\ s.queues[j].weight = r.queues[j].weight

ActiveSet(r) == {k \in Queues : r.queues[k].phase = "active"}

ActiveCounted(r) ==
  /\ r.activeQueues = Cardinality(ActiveSet(r))
  /\ r.activeQueues <= MaxActiveQueues

\* enqueuePullLocked touches nothing but pullQueued, the channel and the error.
LEMMA EnqueueFacts ==
  ASSUME NEW r \in RunState, NEW k \in Queues
  PROVE  LET s == enqueuePullLocked(r, k) IN
         /\ s \in RunState
         /\ SameBooks(r, s)
         /\ s.activeQueues = r.activeQueues
         /\ \A j \in Queues : s.queues[j].phase = r.queues[j].phase
<1>1. [r.queues EXCEPT ![k].pullQueued = TRUE] \in [Queues -> QueueState]
  BY ZenonT(30) DEF RunState, QueueState
<1>2. Append(r.pullRequests, k) \in Seq(Queues)
  BY DEF RunState
<1>3. enqueuePullLocked(r, k) \in RunState
  BY <1>1, <1>2, ZenonT(30) DEF RunState, enqueuePullLocked
<1>4. CASE enqueuePullLocked(r, k) = r
  BY <1>3, <1>4 DEF SameBooks
<1>5. CASE enqueuePullLocked(r, k) = [r EXCEPT !.err = TRUE]
  BY <1>3, <1>5 DEF RunState, SameBooks
<1>6. CASE enqueuePullLocked(r, k) = [r EXCEPT !.queues[k].pullQueued = TRUE,
                                               !.pullRequests = Append(@, k)]
  <2> DEFINE s == enqueuePullLocked(r, k)
  <2>1. /\ s.used = r.used /\ s.activeQueues = r.activeQueues
        /\ s.queues = [r.queues EXCEPT ![k].pullQueued = TRUE]
    BY <1>6 DEF RunState
  <2>2. ASSUME NEW j \in Queues
        PROVE  /\ s.queues[j].processing = r.queues[j].processing
               /\ s.queues[j].key = r.queues[j].key
               /\ s.queues[j].weight = r.queues[j].weight
               /\ s.queues[j].phase = r.queues[j].phase
    BY <2>1 DEF RunState, QueueState
  <2> QED BY <1>3, <2>1, <2>2 DEF SameBooks
<1> QED BY <1>4, <1>5, <1>6 DEF enqueuePullLocked

\* The set of active queues is finite: its cardinality is a number.
LEMMA ActiveSetFinite ==
  ASSUME NEW r
  PROVE  IsFiniteSet(ActiveSet(r)) /\ Cardinality(ActiveSet(r)) \in Nat
<1>1. ActiveSet(r) \subseteq Queues /\ IsFiniteSet(Queues)
  BY ConstantsAssumption DEF ActiveSet
<1>2. IsFiniteSet(ActiveSet(r))
  BY <1>1, FS_Subset
<1> QED BY <1>2, FS_CardinalityType

\* Making a queue that is not active active, and counting it, keeps the count exact.
LEMMA ActivateFacts ==
  ASSUME NEW r \in RunState, NEW k \in Queues, NEW D \in Seq(Queues),
         r.queues[k].phase # "active"
  PROVE  LET s == [r EXCEPT !.queues[k].phase = "active", !.activeQueues = @ + 1,
                            !.deferred = D]
         IN /\ s \in RunState
            /\ SameBooks(r, s)
            /\ ActiveSet(s) = ActiveSet(r) \cup {k}
            /\ ActiveCounted(r) /\ r.activeQueues < MaxActiveQueues => ActiveCounted(s)
<1> DEFINE s == [r EXCEPT !.queues[k].phase = "active", !.activeQueues = @ + 1,
                          !.deferred = D]
<1>1. [r.queues EXCEPT ![k].phase = "active"] \in [Queues -> QueueState]
  BY ZenonT(60) DEF RunState, QueueState, Phases
<1>2. r.activeQueues + 1 \in Nat
  BY DEF RunState
<1>3. s \in RunState
  BY <1>1, <1>2, ZenonT(30) DEF RunState
<1>4. /\ s.activeQueues = r.activeQueues + 1
      /\ \A j \in Queues : s.queues[j].phase = IF j = k THEN "active" ELSE r.queues[j].phase
  BY DEF RunState, QueueState
<1>5. SameBooks(r, s)
  BY DEF RunState, QueueState, SameBooks
<1> HIDE DEF s
<1>6. ActiveSet(s) = ActiveSet(r) \cup {k} /\ k \notin ActiveSet(r)
  BY <1>4 DEF ActiveSet
<1>7. Cardinality(ActiveSet(s)) = Cardinality(ActiveSet(r)) + 1
  BY <1>6, ActiveSetFinite, FS_AddElement, ZenonT(30)
<1>8. ActiveCounted(r) /\ r.activeQueues < MaxActiveQueues => ActiveCounted(s)
  BY <1>4, <1>7, <1>2, ConstantsAssumption DEF ActiveCounted, RunState
<1> QED BY <1>3, <1>5, <1>6, <1>8 DEF s

\* The same for enqueuing the queue afterwards, which changes no phase.
LEMMA EnqueueCounted ==
  ASSUME NEW r \in RunState, NEW k \in Queues
  PROVE  LET s == enqueuePullLocked(r, k) IN
         /\ ActiveSet(s) = ActiveSet(r)
         /\ ActiveCounted(r) => ActiveCounted(s)
  BY EnqueueFacts, ZenonT(30) DEF ActiveSet, ActiveCounted

\* activateOrDeferLocked on a queue that is not active.
LEMMA ActivateOrDeferFacts ==
  ASSUME NEW r \in RunState, NEW k \in Queues, r.queues[k].phase # "active"
  PROVE  LET s == activateOrDeferLocked(r, k) IN
         /\ s \in RunState
         /\ SameBooks(r, s)
         /\ ActiveSet(r) \subseteq ActiveSet(s)
         /\ ActiveCounted(r) => ActiveCounted(s)
<1> DEFINE t == [r EXCEPT !.queues[k].phase = "active", !.activeQueues = @ + 1]
           u == [r EXCEPT !.queues[k].phase = "deferred", !.deferred = Append(@, k)]
           v == [r EXCEPT !.queues[k].phase = "deferred", !.err = TRUE]
<1>1. CASE r.activeQueues < MaxActiveQueues
  <2>1. t = [r EXCEPT !.queues[k].phase = "active", !.activeQueues = @ + 1,
                      !.deferred = r.deferred]
    BY ZenonT(30) DEF RunState
  <2>2. /\ t \in RunState /\ SameBooks(r, t) /\ ActiveSet(t) = ActiveSet(r) \cup {k}
        /\ ActiveCounted(r) => ActiveCounted(t)
    <3>1. r.deferred \in Seq(Queues)
      BY DEF RunState
    <3> HIDE DEF t
    <3> QED BY <1>1, <2>1, <3>1, ActivateFacts, ZenonT(30)
  <2>3. activateOrDeferLocked(r, k) = enqueuePullLocked(t, k)
    BY <1>1 DEF activateOrDeferLocked
  <2> HIDE DEF t
  <2>4. SameBooks(t, enqueuePullLocked(t, k)) /\ enqueuePullLocked(t, k) \in RunState
    BY <2>2, EnqueueFacts
  <2>5. /\ ActiveSet(enqueuePullLocked(t, k)) = ActiveSet(t)
        /\ ActiveCounted(t) => ActiveCounted(enqueuePullLocked(t, k))
    BY <2>2, EnqueueCounted
  <2> QED BY <2>2, <2>3, <2>4, <2>5 DEF SameBooks
<1>2. /\ u \in RunState /\ v \in RunState
      /\ SameBooks(r, u) /\ SameBooks(r, v)
      /\ u.activeQueues = r.activeQueues /\ v.activeQueues = r.activeQueues
  <2>1. [r.queues EXCEPT ![k].phase = "deferred"] \in [Queues -> QueueState]
    BY ZenonT(60) DEF RunState, QueueState, Phases
  <2>2. Append(r.deferred, k) \in Seq(Queues)
    BY DEF RunState
  <2>3. u \in RunState /\ v \in RunState
    BY <2>1, <2>2, ZenonT(30) DEF RunState
  <2>4. SameBooks(r, u) /\ u.activeQueues = r.activeQueues
    BY DEF RunState, QueueState, SameBooks
  <2>5. SameBooks(r, v) /\ v.activeQueues = r.activeQueues
    BY DEF RunState, QueueState, SameBooks
  <2> QED BY <2>3, <2>4, <2>5
<1>3. ActiveSet(u) = ActiveSet(r) /\ ActiveSet(v) = ActiveSet(r)
  <2>1. /\ \A j \in Queues : u.queues[j].phase = IF j = k THEN "deferred" ELSE r.queues[j].phase
        /\ \A j \in Queues : v.queues[j].phase = IF j = k THEN "deferred" ELSE r.queues[j].phase
    BY DEF RunState, QueueState
  <2> HIDE DEF u, v
  <2> QED BY <2>1 DEF ActiveSet
<1>4. CASE r.activeQueues >= MaxActiveQueues
  <2>1. activateOrDeferLocked(r, k) \in {u, v}
    BY <1>4, ConstantsAssumption, SMTT(30) DEF activateOrDeferLocked, RunState
  <2> HIDE DEF u, v
  <2> QED BY <1>2, <1>3, <2>1 DEF ActiveCounted
<1> QED BY <1>1, <1>4, ConstantsAssumption DEF RunState

\* promoteDeferredLocked: a slot that is free goes to a deferred queue or stays free.
LEMMA PromoteFacts ==
  ASSUME NEW r \in RunState
  PROVE  LET s == promoteDeferredLocked(r) IN
         /\ s \in RunState
         /\ SameBooks(r, s)
         /\ ActiveSet(r) \subseteq ActiveSet(s)
         /\ ActiveCounted(r) => ActiveCounted(s)
<1> DEFINE waiting == {i \in 1..Len(r.deferred) : r.queues[r.deferred[i]].phase = "deferred"}
           first == CHOOSE i \in waiting : \A j \in waiting : i <= j
           D == SubSeq(r.deferred, first + 1, Len(r.deferred))
           k == r.deferred[first]
           t == [r EXCEPT !.queues[k].phase = "active", !.activeQueues = @ + 1,
                          !.deferred = D]
<1>1. CASE r.activeQueues >= MaxActiveQueues
  <2>1. promoteDeferredLocked(r) = r
    BY <1>1, ZenonT(30) DEF promoteDeferredLocked
  <2> QED BY <2>1 DEF SameBooks
<1>2. CASE r.activeQueues < MaxActiveQueues /\ waiting = {}
  <2> DEFINE e == [r EXCEPT !.deferred = <<>>]
  <2>1. promoteDeferredLocked(r) = e
    BY <1>2, ConstantsAssumption DEF promoteDeferredLocked, RunState
  <2>2. e \in RunState /\ e.queues = r.queues /\ e.used = r.used /\ e.activeQueues = r.activeQueues
    <3>1. <<>> \in Seq(Queues)
      OBVIOUS
    <3> QED BY <3>1, ZenonT(60) DEF RunState
  <2> HIDE DEF e
  <2> QED BY <2>1, <2>2, ZenonT(30) DEF SameBooks, ActiveSet, ActiveCounted
<1>3. CASE r.activeQueues < MaxActiveQueues /\ waiting # {}
  <2>1. promoteDeferredLocked(r) = enqueuePullLocked(t, k)
    <3>1. ~(r.activeQueues >= MaxActiveQueues) /\ waiting # {}
      BY <1>3, ConstantsAssumption DEF RunState
    <3> QED BY <3>1, Zenon DEF promoteDeferredLocked
  <2>2. first \in waiting
    <3>1. waiting \in SUBSET Nat /\ waiting # {}
      BY <1>3
    <3>2. \E i \in waiting : \A j \in waiting : i <= j
      <4> HIDE DEF waiting
      <4> DEFINE R == OpToRel(<, Nat)
      <4>1. \A i, j \in Nat : j < i => <<j, i>> \in R
        BY Zenon DEF OpToRel
      <4>2. \E i \in waiting : \A j \in waiting : ~(<<j, i>> \in R)
        BY <3>1, NatLessThanWellFounded, WFMin, ZenonT(30)
      <4> HIDE DEF R
      <4>3. PICK i \in waiting : \A j \in waiting : ~(<<j, i>> \in R)
        BY <4>2
      <4>4. ASSUME NEW j \in waiting PROVE i <= j
        <5>1. i \in Nat /\ j \in Nat /\ ~(<<j, i>> \in R)
          BY <3>1, <4>3
        <5>2. ~(j < i)
          BY <4>1, <5>1
        <5> QED BY <5>1, <5>2
      <4> QED BY <4>4
    <3> QED BY <3>2, ZenonT(30)
  <2>3. k \in Queues /\ r.queues[k].phase = "deferred" /\ D \in Seq(Queues)
    <3>1. first \in 1..Len(r.deferred) /\ r.queues[r.deferred[first]].phase = "deferred"
      BY <2>2, ZenonT(60)
    <3> HIDE DEF first
    <3> QED BY <3>1, SMTT(30) DEF RunState
  <2> HIDE DEF k, D
  <2>4. /\ t \in RunState /\ SameBooks(r, t) /\ ActiveSet(t) = ActiveSet(r) \cup {k}
        /\ ActiveCounted(r) => ActiveCounted(t)
    BY <1>3, <2>3, ActivateFacts, ZenonT(30)
  <2> HIDE DEF t
  <2>5. SameBooks(t, enqueuePullLocked(t, k)) /\ enqueuePullLocked(t, k) \in RunState
    BY <2>3, <2>4, EnqueueFacts
  <2>6. /\ ActiveSet(enqueuePullLocked(t, k)) = ActiveSet(t)
        /\ ActiveCounted(t) => ActiveCounted(enqueuePullLocked(t, k))
    BY <2>3, <2>4, EnqueueCounted, ZenonT(30)
  <2> QED BY <2>1, <2>4, <2>5, <2>6 DEF SameBooks
<1> QED BY <1>1, <1>2, <1>3, ConstantsAssumption, SMTT(30) DEF RunState

\* The critical section of processBatch, for a queue that is active.
LEMMA AdvanceFacts ==
  ASSUME NEW r \in RunState, NEW d \in Batch,
         r.queues[d.q].phase = "active", ActiveCounted(r)
  PROVE  LET s == advanceQueue(r, d) IN
         /\ s \in RunState
         /\ ActiveCounted(s)
         /\ ActiveSet(r) \ {d.q} \subseteq ActiveSet(s)
         /\ s.used = r.used
         /\ \A j \in Queues : s.queues[j].weight = r.queues[j].weight
         /\ \A j \in Queues \ {d.q} : /\ s.queues[j].processing = r.queues[j].processing
                                      /\ s.queues[j].key = r.queues[j].key
         /\ s.queues[d.q].key = IF d.nextKey # 0 THEN d.nextKey ELSE r.queues[d.q].key
<1> DEFINE n == IF d.nextKey # 0 THEN d.nextKey ELSE r.queues[d.q].key
           q == [r.queues[d.q] EXCEPT !.processing = FALSE,
                                      !.key = IF d.nextKey # 0 THEN d.nextKey ELSE @]
           qa == [q EXCEPT !.noticePending = FALSE]
           qi == [q EXCEPT !.phase = "idle"]
           again == [r EXCEPT !.queues[d.q] = qa]
           idle == [r EXCEPT !.queues[d.q] = qi, !.activeQueues = @ - 1]
<1>1. d.q \in Queues /\ r.queues[d.q] \in QueueState /\ n \in Nat /\ r.activeQueues \in Nat
  BY DEF Batch, RunState, QueueState
<1>2. /\ q \in QueueState
      /\ q.phase = "active" /\ q.weight = r.queues[d.q].weight /\ q.key = n
  BY <1>1, ZenonT(30) DEF QueueState
<1>3. /\ advanceQueue(r, d) \in {promoteDeferredLocked(idle), enqueuePullLocked(again, d.q)}
  BY Zenon DEF advanceQueue
<1>4. /\ Cardinality(ActiveSet(r)) # 0
      /\ Cardinality(ActiveSet(r) \ {d.q}) = Cardinality(ActiveSet(r)) - 1
  <2>1. d.q \in ActiveSet(r)
    BY <1>1 DEF ActiveSet
  <2> QED BY <2>1, ActiveSetFinite, FS_RemoveElement, FS_EmptySet
<1>5. r.activeQueues - 1 \in Nat
  BY <1>1, <1>4 DEF ActiveCounted
<1>6. again = [r EXCEPT !.queues[d.q] = qa, !.activeQueues = r.activeQueues]
  BY ZenonT(30) DEF RunState
<1>7. idle = [r EXCEPT !.queues[d.q] = qi, !.activeQueues = r.activeQueues - 1]
  OBVIOUS
<1> HIDE DEF again, idle, q
<1>a. /\ qa \in QueueState /\ qa.phase = q.phase /\ qa.weight = q.weight /\ qa.key = q.key
      /\ qi \in QueueState /\ qi.phase = "idle" /\ qi.weight = q.weight /\ qi.key = q.key
  BY <1>2, ZenonT(30) DEF QueueState, Phases
<1> HIDE DEF qa, qi, n
<1>8. /\ again \in RunState
      /\ again.used = r.used
      /\ again.activeQueues = r.activeQueues
      /\ again.queues[d.q] = qa
      /\ \A j \in Queues \ {d.q} : again.queues[j] = r.queues[j]
  <2>1. [r.queues EXCEPT ![d.q] = qa] \in [Queues -> QueueState]
    BY <1>1, <1>a DEF RunState
  <2> QED BY <1>1, <1>5, <1>6, <2>1, ZenonT(30) DEF RunState
<1>9. /\ idle \in RunState
      /\ idle.used = r.used
      /\ idle.activeQueues = r.activeQueues - 1
      /\ idle.queues[d.q] = qi
      /\ \A j \in Queues \ {d.q} : idle.queues[j] = r.queues[j]
  <2>1. [r.queues EXCEPT ![d.q] = qi] \in [Queues -> QueueState]
    BY <1>1, <1>a, ZenonT(30) DEF RunState
  <2> QED BY <1>1, <1>5, <1>7, <2>1, ZenonT(30) DEF RunState
<1>10. CASE advanceQueue(r, d) = enqueuePullLocked(again, d.q)
  <2>1. ActiveSet(again) = ActiveSet(r) /\ ActiveCounted(again)
    BY <1>1, <1>2, <1>a, <1>8 DEF ActiveSet, ActiveCounted
  <2> DEFINE s == enqueuePullLocked(again, d.q)
  <2>2. /\ s \in RunState /\ SameBooks(again, s)
        /\ ActiveSet(s) = ActiveSet(again) /\ ActiveCounted(s)
    BY <1>1, <1>8, <2>1, EnqueueFacts, EnqueueCounted, ZenonT(30)
  <2> HIDE DEF s
  <2> QED BY <1>1, <1>2, <1>a, <1>8, <1>10, <2>1, <2>2, ZenonT(30) DEF SameBooks, n, s
<1>11. CASE advanceQueue(r, d) = promoteDeferredLocked(idle)
  <2>1. ActiveSet(idle) = ActiveSet(r) \ {d.q}
    BY <1>1, <1>a, <1>9 DEF ActiveSet
  <2>2. ActiveCounted(idle)
    BY <1>1, <1>4, <1>9, <2>1, ConstantsAssumption DEF ActiveCounted
  <2> DEFINE s == promoteDeferredLocked(idle)
  <2>3. /\ s \in RunState /\ SameBooks(idle, s)
        /\ ActiveSet(idle) \subseteq ActiveSet(s) /\ ActiveCounted(s)
    BY <1>9, <2>2, PromoteFacts
  <2> HIDE DEF s
  <2> QED BY <1>1, <1>2, <1>a, <1>9, <1>11, <2>1, <2>3, ZenonT(30) DEF SameBooks, n, s
<1> QED BY <1>3, <1>10, <1>11

\* Handing the error to the caller leaves the rest of the run as it is.
LEMMA CommitFacts ==
  ASSUME NEW r \in RunState
  PROVE  LET s == [r EXCEPT !.err = FALSE] IN
         /\ s \in RunState
         /\ s.queues = r.queues
         /\ s.used = r.used
         /\ ActiveSet(s) = ActiveSet(r)
         /\ ActiveCounted(r) => ActiveCounted(s)
  BY ZenonT(30) DEF RunState, ActiveSet, ActiveCounted

-----------------------------------------------------------------------------
(* The invariant *)

Busy(k) == run.queues[k].phase = "active" /\ run.queues[k].processing

\* A job belongs to the current connection or to an earlier one.
JobsNotFromTheFuture ==
  /\ \A i \in 1..Len(batches) : batches[i].gen <= gen
  /\ \A w \in BatchWorkers : bw[w] # Idle => bw[w].job.gen <= gen

\* Whoever holds a page of a queue of the current connection holds it busy.
HolderIsBusy ==
  /\ rd.stage = "admit" => ~finalized /\ Busy(rd.d.q)
  /\ \A i \in 1..Len(batches) :
       batches[i].gen = gen /\ ~finalized => Busy(batches[i].d.q)
  /\ \A w \in BatchWorkers :
       bw[w].stage = "work" /\ bw[w].job.gen = gen /\ ~finalized => Busy(bw[w].job.d.q)

\* No two pages of the same queue of the current connection are held at a time.
HolderIsUnique ==
  /\ \A i, j \in 1..Len(batches) :
       i # j /\ batches[i].gen = gen /\ batches[j].gen = gen => batches[i].d.q # batches[j].d.q
  /\ \A w, v \in BatchWorkers :
       /\ w # v
       /\ bw[w].stage = "work" /\ bw[w].job.gen = gen
       /\ bw[v].stage = "work" /\ bw[v].job.gen = gen
       => bw[w].job.d.q # bw[v].job.d.q
  /\ \A i \in 1..Len(batches), w \in BatchWorkers :
       batches[i].gen = gen /\ bw[w].stage = "work" /\ bw[w].job.gen = gen
       => batches[i].d.q # bw[w].job.d.q
  /\ rd.stage = "admit" =>
       /\ \A i \in 1..Len(batches) : batches[i].gen = gen => batches[i].d.q # rd.d.q
       /\ \A w \in BatchWorkers :
            bw[w].stage = "work" /\ bw[w].job.gen = gen => bw[w].job.d.q # rd.d.q

ActiveInv ==
  /\ TypeOK
  /\ ActiveCounted(run)
  /\ JobsNotFromTheFuture
  /\ HolderIsBusy
  /\ HolderIsUnique

\* The first state satisfies it.
LEMMA ActiveInvInit == Init => ActiveInv
<1> SUFFICES ASSUME Init PROVE ActiveInv
  OBVIOUS
<1>1. newQueueState \in QueueState
  BY DEF newQueueState, QueueState, Phases
<1>2. run \in RunState
  <2>1. [k \in Queues |-> newQueueState] \in [Queues -> QueueState]
    BY <1>1
  <2> QED BY <2>1 DEF Init, newRun, RunState
<1>3. rd \in ReaderState /\ pw \in [PullWorkers -> PullWorkerState]
      /\ bw \in [BatchWorkers -> BatchWorkerState]
  BY DEF Init, ReaderState, PullWorkerState, BatchWorkerState
<1>4. TypeOK
  <2>1. batches \in Seq(Job) /\ toClient \in Seq(Frame) /\ toServer \in Seq(Pull)
    BY DEF Init
  <2>2. /\ tail \in [Queues -> Nat] /\ confirmed \in [Queues -> Nat]
        /\ handled \in [Queues -> SUBSET Nat]
    BY DEF Init
  <2>3. alive \in BOOLEAN /\ finalized \in BOOLEAN
    BY Zenon DEF Init
  <2>4. /\ gen \in Nat
        /\ lifetime \in {"open", "closed", "draining"}
        /\ processUsed \in Int /\ batchUsed \in Int /\ repeats \in Nat /\ pushes \in Nat
    BY DEF Init
  <2> QED BY <1>2, <1>3, <2>1, <2>2, <2>3, <2>4 DEF TypeOK
<1>5. ActiveCounted(run)
  <2>1. ActiveSet(run) = {} /\ run.activeQueues = 0
    BY DEF Init, newRun, newQueueState, ActiveSet
  <2> QED BY <2>1, FS_EmptySet, ConstantsAssumption DEF ActiveCounted
<1>6. JobsNotFromTheFuture /\ HolderIsBusy /\ HolderIsUnique
  BY DEF Init, JobsNotFromTheFuture, HolderIsBusy, HolderIsUnique, Idle
<1> QED BY <1>4, <1>5, <1>6 DEF ActiveInv

\* A frame taken off the connection.
LEMMA FrameFacts ==
  ASSUME toClient \in Seq(Frame), toClient # <<>>
  PROVE  Head(toClient) \in Frame /\ Tail(toClient) \in Seq(Frame)
  OBVIOUS

\* The pages of the server are batches.
LEMMA PagesType ==
  ASSUME TypeOK, NEW k \in Queues, NEW lo \in Nat
  PROVE  Pages(k, lo) \subseteq Batch
<1> SUFFICES ASSUME NEW d \in Pages(k, lo) PROVE d \in Batch
  OBVIOUS
<1>1. lo..tail[k] \subseteq Nat
  BY DEF TypeOK
<1> QED BY <1>1 DEF Pages, Batch

\* The steps of the server.
LEMMA ServerType == ASSUME TypeOK, Server PROVE TypeOK'
<1> USE DEF TypeOK, clientVars
<1>1. ASSUME NEW k \in Queues, NEW w \in Weights, ServerLog(k, w) PROVE TypeOK'
  <2>1. [type |-> "notice", q |-> k, weight |-> w] \in Frame
    BY DEF Frame, Notice
  <2>2. toClient' \in Seq(Frame)
    BY <1>1, <2>1 DEF ServerLog
  <2>3. tail' \in [Queues -> Nat]
    BY <1>1 DEF ServerLog
  <2> QED BY <1>1, <2>2, <2>3 DEF ServerLog
<1>2. ASSUME NEW k \in Queues, NEW w \in Weights, ServerRepeat(k, w) PROVE TypeOK'
  <2>1. [type |-> "notice", q |-> k, weight |-> w] \in Frame
    BY DEF Frame, Notice
  <2>2. toClient' \in Seq(Frame)
    BY <1>2, <2>1 DEF ServerRepeat
  <2> QED BY <1>2, <2>2 DEF ServerRepeat
<1>3. ASSUME NEW k \in Queues, ServerPush(k) PROVE TypeOK'
  <2>1. Pages(k, confirmed[k]) \subseteq Frame
    BY PagesType DEF Frame
  <2>2. toClient' \in Seq(Frame)
    BY <1>3, <2>1 DEF ServerPush
  <2> QED BY <1>3, <2>2 DEF ServerPush
<1>4. ASSUME ServerReply PROVE TypeOK'
  <2> DEFINE p == Head(toServer)
             lo == IF p.key = 0 THEN confirmed[p.q] ELSE p.key
  <2>1. p \in Pull /\ toServer' \in Seq(Pull)
    BY <1>4 DEF ServerReply
  <2>2. p.q \in Queues /\ p.key \in Nat /\ lo \in Nat /\ confirmed[p.q] \in Nat
    BY <2>1 DEF Pull
  <2>3. Pages(p.q, lo) \subseteq Frame
    BY <2>2, PagesType DEF Frame
  <2>4. [type |-> "invalid"] \in Frame
    BY DEF Frame, Invalid
  <2>5. \/ \E d \in Pages(p.q, lo) : toClient' = Append(toClient, d)
        \/ toClient' = Append(toClient, [type |-> "invalid"])
    BY <1>4 DEF ServerReply
  <2>6. confirmed' = [confirmed EXCEPT ![p.q] = Max2(@, p.key)]
    BY <1>4 DEF ServerReply
  <2> HIDE DEF p, lo
  <2>7. toClient' \in Seq(Frame)
    <3>1. ASSUME NEW d \in Pages(p.q, lo), toClient' = Append(toClient, d)
          PROVE  toClient' \in Seq(Frame)
      BY <2>3, <3>1
    <3>2. ASSUME toClient' = Append(toClient, [type |-> "invalid"])
          PROVE  toClient' \in Seq(Frame)
      BY <2>4, <3>2
    <3> QED BY <2>5, <3>1, <3>2, ZenonT(30)
  <2>8. confirmed' \in [Queues -> Nat]
    BY <2>2, <2>6 DEF Max2
  <2> QED BY <1>4, <2>1, <2>7, <2>8, ZenonT(30) DEF ServerReply
<1> QED BY <1>1, <1>2, <1>3, <1>4, ZenonT(30) DEF Server

\* What a step that only schedules leaves alone: no queue stops being active, no
\* batch changes hands, no cursor moves.
Keeps(r, s) ==
  \A j \in Queues : /\ r.queues[j].phase = "active" => s.queues[j].phase = "active"
                    /\ s.queues[j].processing = r.queues[j].processing
                    /\ s.queues[j].key = r.queues[j].key

\* startQueue for a queue that is known.
LEMMA StartKnownFacts ==
  ASSUME TypeOK, NEW f \in Notice, run.queues[f.q].phase # "unknown", startKnown(f)
  PROVE  /\ run' \in RunState /\ processUsed' \in Int /\ rd' \in {Idle, Failing}
         /\ Keeps(run, run')
         /\ ActiveCounted(run) => ActiveCounted(run')
<1> DEFINE q == run.queues[f.q]
           delta == IF f.weight > q.weight THEN f.weight - q.weight ELSE 0
           grown == [run EXCEPT !.queues[f.q].weight = @ + delta, !.used = @ + delta]
           noticed == [grown EXCEPT !.queues[f.q].noticePending = TRUE]
<1>1. run \in RunState /\ f.q \in Queues /\ q \in QueueState /\ delta \in Nat
  <2>1. run \in RunState /\ f.q \in Queues /\ f.weight \in Nat
    BY ConstantsAssumption, ZenonT(30) DEF TypeOK, Notice
  <2>2. q \in QueueState
    BY <2>1 DEF RunState
  <2>3. q.weight \in Nat
    BY <2>2 DEF QueueState
  <2> HIDE DEF q
  <2> QED BY <2>1, <2>2, <2>3
<1> HIDE DEF delta
<1>2. /\ grown \in RunState /\ grown.activeQueues = run.activeQueues
      /\ \A j \in Queues : /\ grown.queues[j].phase = run.queues[j].phase
                           /\ grown.queues[j].processing = run.queues[j].processing
                           /\ grown.queues[j].key = run.queues[j].key
  <2>1. [run.queues EXCEPT ![f.q].weight = @ + delta] \in [Queues -> QueueState]
    <3>1. q.weight + delta \in Nat
      BY <1>1 DEF QueueState
    <3>2. [q EXCEPT !.weight = @ + delta] \in QueueState
      BY <1>1, <3>1 DEF QueueState
    <3> QED BY <1>1, <3>2 DEF RunState
  <2>2. run.used + delta \in Nat
    BY <1>1 DEF RunState
  <2>3. grown \in RunState
    BY <1>1, <2>1, <2>2, ZenonT(30) DEF RunState
  <2> QED BY <1>1, <2>3, ZenonT(30) DEF RunState, QueueState
<1> HIDE DEF grown
<1>3. /\ noticed \in RunState /\ noticed.activeQueues = grown.activeQueues
      /\ \A j \in Queues : /\ noticed.queues[j].phase = grown.queues[j].phase
                           /\ noticed.queues[j].processing = grown.queues[j].processing
                           /\ noticed.queues[j].key = grown.queues[j].key
  <2>1. [grown.queues EXCEPT ![f.q].noticePending = TRUE] \in [Queues -> QueueState]
    BY <1>1, <1>2, ZenonT(60) DEF RunState, QueueState
  <2>2. noticed \in RunState
    BY <1>2, <2>1, ZenonT(30) DEF RunState
  <2> QED BY <1>1, <1>2, <2>2, ZenonT(30) DEF RunState, QueueState
<1>4. CASE delta > 0 /\ ~reserveQueueLocked(run, delta)
  <2>1. run' = run /\ processUsed' = processUsed /\ rd' = Failing
    BY <1>4 DEF startKnown, delta
  <2> QED BY <1>1, <2>1 DEF TypeOK, Keeps
<1>5. CASE ~(delta > 0 /\ ~reserveQueueLocked(run, delta))
  <2> DEFINE r == CASE q.phase = "active" -> noticed
                    [] q.phase = "deferred" -> grown
                    [] q.phase = "idle" -> activateOrDeferLocked(grown, f.q)
  <2>1. commit(r) /\ processUsed' = processUsed + delta /\ rd' \in {Idle, Failing}
    BY <1>5, ZenonT(30) DEF startKnown, delta, grown
  <2>2. q.phase \in {"active", "deferred", "idle"}
    BY <1>1 DEF QueueState, Phases
  <2>3. /\ r \in RunState /\ Keeps(run, r)
        /\ ActiveCounted(run) => ActiveCounted(r)
    <3>1. CASE q.phase = "active"
      <4>1. r = noticed
        BY <3>1
      <4> HIDE DEF r, noticed
      <4> QED BY <1>2, <1>3, <4>1, ZenonT(30) DEF Keeps, ActiveCounted, ActiveSet
    <3>2. CASE q.phase = "deferred"
      <4>1. r = grown
        BY <3>2
      <4> HIDE DEF r
      <4> QED BY <1>2, <4>1 DEF Keeps, ActiveCounted, ActiveSet
    <3>3. CASE q.phase = "idle"
      <4>1. r = activateOrDeferLocked(grown, f.q)
        BY <3>3
      <4> HIDE DEF r
      <4>2. ActiveCounted(run) => ActiveCounted(grown)
        BY <1>2, ZenonT(30) DEF ActiveCounted, ActiveSet
      <4>3. grown.queues[f.q].phase # "active"
        BY <1>1, <1>2, <3>3, ZenonT(30)
      <4>4. /\ r \in RunState /\ SameBooks(grown, r) /\ ActiveSet(grown) \subseteq ActiveSet(r)
            /\ ActiveCounted(grown) => ActiveCounted(r)
        BY <1>1, <1>2, <4>1, <4>3, ActivateOrDeferFacts
      <4> QED BY <1>2, <4>2, <4>4 DEF Keeps, SameBooks, ActiveSet
    <3> QED BY <2>2, <3>1, <3>2, <3>3, ZenonT(30)
  <2> HIDE DEF r
  <2>4. run' = [r EXCEPT !.err = FALSE]
    BY <2>1 DEF commit
  <2>5. /\ run' \in RunState /\ run'.queues = r.queues
        /\ ActiveCounted(r) => ActiveCounted(run')
    BY <2>3, <2>4, CommitFacts
  <2>6. Keeps(run, run')
    BY <2>3, <2>5, ZenonT(30) DEF Keeps
  <2> QED BY <1>1, <2>1, <2>3, <2>5, <2>6 DEF TypeOK
<1> QED BY <1>4, <1>5

\* startQueue for a queue that is not known.
LEMMA StartNewFacts ==
  ASSUME TypeOK, NEW f \in Notice, run.queues[f.q].phase = "unknown", startNew(f)
  PROVE  /\ run' \in RunState /\ processUsed' \in Int /\ rd' \in {Idle, Failing}
         /\ \A j \in Queues \ {f.q} :
              /\ run.queues[j].phase = "active" => run'.queues[j].phase = "active"
              /\ run'.queues[j].processing = run.queues[j].processing
              /\ run'.queues[j].key = run.queues[j].key
         /\ run'.queues[f.q].key \in {0, run.queues[f.q].key}
         /\ ActiveCounted(run) => ActiveCounted(run')
<1> DEFINE q == [newQueueState EXCEPT !.phase = "idle", !.weight = f.weight]
           inserted == [run EXCEPT !.queues[f.q] = q, !.used = @ + f.weight]
           r == activateOrDeferLocked(inserted, f.q)
<1>1. run \in RunState /\ f.q \in Queues /\ f.weight \in Nat
  BY ConstantsAssumption, ZenonT(30) DEF TypeOK, Notice
<1>2. q \in QueueState /\ q.phase = "idle" /\ q.key = 0
  BY <1>1, ZenonT(30) DEF newQueueState, QueueState, Phases
<1> HIDE DEF q
<1>3. /\ inserted \in RunState /\ inserted.activeQueues = run.activeQueues
      /\ inserted.queues[f.q] = q
      /\ \A j \in Queues \ {f.q} : inserted.queues[j] = run.queues[j]
  <2>1. [run.queues EXCEPT ![f.q] = q] \in [Queues -> QueueState]
    BY <1>1, <1>2 DEF RunState
  <2>2. run.used + f.weight \in Nat
    BY <1>1 DEF RunState
  <2>3. inserted \in RunState
    BY <1>1, <2>1, <2>2, ZenonT(30) DEF RunState
  <2> QED BY <1>1, <2>3 DEF RunState
<1>4. CASE ~reserveQueueLocked(run, f.weight) \/ r.err
  <2>1. run' = run /\ processUsed' = processUsed /\ rd' = Failing
    BY <1>4 DEF startNew, q
  <2> QED BY <1>1, <2>1 DEF TypeOK
<1>5. CASE ~(~reserveQueueLocked(run, f.weight) \/ r.err)
  <2>1. run' = [r EXCEPT !.err = FALSE] /\ processUsed' = processUsed + f.weight /\ rd' = Idle
    BY <1>5 DEF startNew, q, commit
  <2> HIDE DEF inserted
  <2>2. ActiveCounted(run) => ActiveCounted(inserted)
    BY <1>1, <1>2, <1>3, ZenonT(30) DEF ActiveCounted, ActiveSet
  <2>3. /\ r \in RunState /\ SameBooks(inserted, r) /\ ActiveSet(inserted) \subseteq ActiveSet(r)
        /\ ActiveCounted(inserted) => ActiveCounted(r)
    BY <1>1, <1>2, <1>3, ActivateOrDeferFacts
  <2> HIDE DEF r
  <2>4. /\ run' \in RunState /\ run'.queues = r.queues
        /\ ActiveCounted(r) => ActiveCounted(run')
    BY <2>1, <2>3, CommitFacts
  <2>5. processUsed' \in Int
    BY <1>1, <2>1 DEF TypeOK
  <2>6. \A j \in Queues \ {f.q} :
          /\ run.queues[j].phase = "active" => r.queues[j].phase = "active"
          /\ r.queues[j].processing = run.queues[j].processing
          /\ r.queues[j].key = run.queues[j].key
    BY <1>3, <2>3 DEF SameBooks, ActiveSet
  <2>7. r.queues[f.q].key = 0
    BY <1>1, <1>2, <1>3, <2>3, ZenonT(30) DEF SameBooks
  <2> QED BY <2>1, <2>2, <2>3, <2>4, <2>5, <2>6, <2>7, ZenonT(30)
<1> QED BY <1>4, <1>5

\* What the goroutines have in their hands.
LEMMA HolderTypes ==
  ASSUME TypeOK
  PROVE  /\ rd.stage = "admit" => rd.d \in Batch /\ rd.d.q \in Queues
         /\ \A i \in 1..Len(batches) :
              batches[i] \in Job /\ batches[i].gen \in Nat
              /\ batches[i].d \in Batch /\ batches[i].d.q \in Queues
         /\ \A w \in BatchWorkers : bw[w] # Idle =>
              bw[w].job \in Job /\ bw[w].job.gen \in Nat
              /\ bw[w].job.d \in Batch /\ bw[w].job.d.q \in Queues
         /\ \A w \in BatchWorkers : bw[w].stage = "work" => bw[w] # Idle /\ bw[w].done \in Nat
         /\ \A w \in BatchWorkers : bw[w].stage = "failing" => bw[w] # Idle
<1>1. \A d \in Batch : d.q \in Queues
  BY DEF Batch
<1>2. \A j \in Job : j.gen \in Nat /\ j.d \in Batch
  BY DEF Job
<1>3. rd.stage = "admit" => rd.d \in Batch
  BY DEF TypeOK, ReaderState, Idle, Failing
<1>4. \A i \in 1..Len(batches) : batches[i] \in Job
  BY DEF TypeOK
<1>5. \A w \in BatchWorkers : /\ bw[w] # Idle => bw[w].job \in Job
                              /\ bw[w].stage = "work" => bw[w] # Idle /\ bw[w].done \in Nat
                              /\ bw[w].stage = "failing" => bw[w] # Idle
  BY DEF TypeOK, BatchWorkerState, Idle
<1> QED BY <1>1, <1>2, <1>3, <1>4, <1>5

\* A step that takes no job, hands none on and interrupts no busy queue.
LEMMA HoldersKept ==
  ASSUME ActiveInv, UNCHANGED <<gen, finalized, batches, bw>>,
         rd' = rd \/ rd' \in {Idle, Failing},
         \A j \in Queues : Busy(j) => Busy(j)'
  PROVE  JobsNotFromTheFuture' /\ HolderIsBusy' /\ HolderIsUnique'
<1>1. JobsNotFromTheFuture'
  BY DEF ActiveInv, JobsNotFromTheFuture
<1>2. rd'.stage = "admit" => rd' = rd
  BY DEF Idle, Failing
<1>3. /\ rd.stage = "admit" => rd.d.q \in Queues
      /\ \A i \in 1..Len(batches) : batches[i].d.q \in Queues
      /\ \A w \in BatchWorkers : bw[w].stage = "work" => bw[w].job.d.q \in Queues
  BY HolderTypes DEF ActiveInv
<1>4. HolderIsBusy'
  BY <1>2, <1>3, ZenonT(30) DEF ActiveInv, HolderIsBusy
<1>5. HolderIsUnique'
  BY <1>2 DEF ActiveInv, HolderIsUnique
<1> QED BY <1>1, <1>4, <1>5

\* The server does not touch the state of the client.
LEMMA ServerActive == ASSUME ActiveInv, Server PROVE ActiveInv'
<1>1. UNCHANGED <<run, gen, finalized, batches, bw, rd>>
  BY ZenonT(30) DEF Server, ServerLog, ServerRepeat, ServerPush, ServerReply, clientVars
<1>2. TypeOK'
  BY ServerType DEF ActiveInv
<1>3. JobsNotFromTheFuture' /\ HolderIsBusy' /\ HolderIsUnique'
  BY <1>1, HoldersKept DEF Busy
<1>4. ActiveCounted(run)'
  BY <1>1 DEF ActiveInv, ActiveCounted, ActiveSet
<1> QED BY <1>2, <1>3, <1>4 DEF ActiveInv

\* NOTICE and UNREAD.
LEMMA StartQueueActive == ASSUME ActiveInv, startQueue PROVE ActiveInv'
<1> DEFINE f == Head(toClient)
<1>1. f \in Notice /\ toClient' \in Seq(Frame)
  <2>1. /\ f \in Frame /\ f.type = "notice"
        /\ toClient' = Tail(toClient) /\ Tail(toClient) \in Seq(Frame)
    BY FrameFacts DEF startQueue, ActiveInv, TypeOK
  <2> QED BY <2>1 DEF Frame, Notice, Invalid, Batch
<1>2. /\ UNCHANGED <<gen, alive, finalized, lifetime, pw, bw, toServer, tail, confirmed,
                     repeats, pushes, handled, batches, batchUsed>>
      /\ IF run.queues[f.q].phase = "unknown" THEN startNew(f) ELSE startKnown(f)
  BY DEF startQueue, readVars, clientVars, serverVars
<1> HIDE DEF f
<1>3. TypeOK
  BY DEF ActiveInv
<1>4. /\ run' \in RunState /\ processUsed' \in Int /\ rd' \in {Idle, Failing}
      /\ ActiveCounted(run')
      /\ \A j \in Queues : Busy(j) => Busy(j)'
  <2>1. CASE run.queues[f.q].phase = "unknown"
    <3>1. startNew(f)
      BY <1>2, <2>1, ZenonT(30)
    <3>2. ASSUME NEW j \in Queues, Busy(j) PROVE Busy(j)'
      <4>1. j # f.q
        BY <2>1, <3>2 DEF Busy
      <4> QED BY <1>1, <1>3, <2>1, <3>1, <3>2, <4>1, StartNewFacts, ZenonT(30) DEF Busy
    <3> QED BY <1>1, <1>3, <2>1, <3>1, <3>2, StartNewFacts DEF ActiveInv
  <2>2. CASE run.queues[f.q].phase # "unknown"
    <3>1. startKnown(f)
      BY <1>2, <2>2, ZenonT(30)
    <3> QED BY <1>1, <1>3, <2>2, <3>1, StartKnownFacts, ZenonT(30) DEF ActiveInv, Keeps, Busy
  <2> QED BY <2>1, <2>2, ZenonT(30)
<1>5. TypeOK'
  BY <1>1, <1>2, <1>3, <1>4, ZenonT(30) DEF TypeOK, ReaderState
<1>6. JobsNotFromTheFuture' /\ HolderIsBusy' /\ HolderIsUnique'
  BY <1>2, <1>4, HoldersKept
<1> QED BY <1>4, <1>5, <1>6 DEF ActiveInv

\* A page is taken: its queue becomes busy, and it was not before.
LEMMA HandleBatchAcceptActive == ASSUME ActiveInv, handleBatchAccept PROVE ActiveInv'
<1> DEFINE d == Head(toClient)
           q == run.queues[d.q]
           taken == [q EXCEPT !.pullQueued = FALSE, !.pullInFlight = FALSE,
                              !.pullSent = FALSE, !.processing = TRUE]
<1>1. d \in Batch /\ toClient' \in Seq(Frame)
  <2>1. /\ d \in Frame /\ d.type = "batch"
        /\ toClient' = Tail(toClient) /\ Tail(toClient) \in Seq(Frame)
    BY FrameFacts DEF handleBatchAccept, ActiveInv, TypeOK
  <2> QED BY <2>1 DEF Frame, Notice, Invalid, Batch
<1>2. /\ UNCHANGED <<gen, alive, finalized, lifetime, pw, bw, toServer, tail, confirmed,
                     repeats, pushes, handled, batches, batchUsed, processUsed>>
      /\ ~finalized /\ rd = Idle
      /\ IF q.phase = "active" /\ ~q.processing
           THEN run' = [run EXCEPT !.queues[d.q] = taken] /\ rd' = [stage |-> "admit", d |-> d]
           ELSE UNCHANGED <<run, rd>>
  BY DEF handleBatchAccept, readVars, clientVars, serverVars
<1> HIDE DEF d
<1>3. TypeOK /\ run \in RunState /\ d.q \in Queues /\ q \in QueueState
  BY <1>1, ZenonT(30) DEF ActiveInv, TypeOK, RunState, Batch
<1>4. CASE ~(q.phase = "active" /\ ~q.processing)
  <2>1. UNCHANGED <<run, rd>>
    BY <1>2, <1>4
  <2>2. TypeOK'
    BY <1>1, <1>2, <1>3, <2>1, ZenonT(30) DEF TypeOK
  <2>3. JobsNotFromTheFuture' /\ HolderIsBusy' /\ HolderIsUnique'
    BY <1>2, <2>1, HoldersKept DEF Busy
  <2> QED BY <2>1, <2>2, <2>3 DEF ActiveInv, ActiveCounted, ActiveSet
<1>5. CASE q.phase = "active" /\ ~q.processing
  <2>1. run' = [run EXCEPT !.queues[d.q] = taken] /\ rd' = [stage |-> "admit", d |-> d]
    BY <1>2, <1>5
  <2>2. taken \in QueueState /\ taken.phase = "active" /\ taken.processing
    BY <1>3, <1>5, ZenonT(30) DEF QueueState
  <2> HIDE DEF taken
  <2>3. /\ run' \in RunState /\ run'.activeQueues = run.activeQueues
        /\ run'.queues[d.q] = taken
        /\ \A j \in Queues \ {d.q} : run'.queues[j] = run.queues[j]
    <3>1. [run.queues EXCEPT ![d.q] = taken] \in [Queues -> QueueState]
      BY <1>3, <2>2 DEF RunState
    <3> QED BY <1>3, <2>1, <3>1, ZenonT(30) DEF RunState
  <2>4. ActiveCounted(run')
    <3>1. ActiveSet(run') = ActiveSet(run)
      BY <1>3, <1>5, <2>2, <2>3 DEF ActiveSet
    <3> QED BY <2>3, <3>1 DEF ActiveInv, ActiveCounted
  <2>5. rd' \in ReaderState
    BY <1>1, <2>1 DEF ReaderState
  <2>6. TypeOK'
    BY <1>1, <1>2, <1>3, <2>3, <2>5, ZenonT(30) DEF TypeOK
  <2>7. ASSUME NEW j \in Queues, Busy(j) PROVE Busy(j)' /\ j # d.q
    BY <1>5, <2>3, <2>7 DEF Busy
  <2>8. JobsNotFromTheFuture'
    BY <1>2 DEF ActiveInv, JobsNotFromTheFuture
  <2>9. HolderIsBusy'
    <3>1. rd'.stage = "admit" /\ rd'.d = d
      BY <2>1
    <3>2. Busy(rd.d.q)'
      BY <2>2, <2>3, <3>1, ZenonT(30) DEF Busy
    <3>3. \A i \in 1..Len(batches) : batches[i].gen = gen => Busy(batches[i].d.q)'
      BY <1>2, <1>3, <2>7, HolderTypes, ZenonT(30) DEF ActiveInv, HolderIsBusy
    <3>4. \A w \in BatchWorkers :
            bw[w].stage = "work" /\ bw[w].job.gen = gen => Busy(bw[w].job.d.q)'
      BY <1>2, <1>3, <2>7, HolderTypes, ZenonT(30) DEF ActiveInv, HolderIsBusy
    <3> QED BY <1>2, <3>2, <3>3, <3>4 DEF HolderIsBusy
  <2>10. HolderIsUnique'
    BY <1>2, <1>3, <2>1, <2>7, HolderTypes, ZenonT(30) DEF ActiveInv, HolderIsBusy, HolderIsUnique
  <2> QED BY <2>4, <2>6, <2>8, <2>9, <2>10, ZenonT(30) DEF ActiveInv
<1> QED BY <1>4, <1>5

\* The page moves from readPump into the channel.
LEMMA HandleBatchEnqueueActive == ASSUME ActiveInv, handleBatchEnqueue PROVE ActiveInv'
<1>1. /\ UNCHANGED <<gen, alive, finalized, lifetime, pw, bw, toServer, toClient, tail, confirmed,
                     repeats, pushes, handled, processUsed, run>>
      /\ rd.stage = "admit"
      /\ batches' = Append(batches, [gen |-> gen, d |-> rd.d])
      /\ batchUsed' = batchUsed + batchWeight(rd.d)
      /\ rd' = Idle
  BY DEF handleBatchEnqueue, readVars, clientVars, serverVars
<1>2. TypeOK /\ rd.d \in Batch /\ rd.d.q \in Queues
  BY <1>1, HolderTypes DEF ActiveInv
<1>3. [gen |-> gen, d |-> rd.d] \in Job
  BY <1>2 DEF TypeOK, Job
<1>4. /\ batches' \in Seq(Job) /\ Len(batches') = Len(batches) + 1 /\ Len(batches) \in Nat
      /\ \A i \in 1..Len(batches) : batches'[i] = batches[i]
      /\ batches'[Len(batches) + 1] = [gen |-> gen, d |-> rd.d]
  BY <1>1, <1>2, <1>3, SMTT(30) DEF TypeOK
<1>5. batchUsed' \in Int
  BY <1>1, <1>2, SMTT(30) DEF TypeOK, Batch, batchWeight
<1>6. TypeOK'
  BY <1>1, <1>2, <1>4, <1>5, ZenonT(30) DEF TypeOK, ReaderState
<1>7. JobsNotFromTheFuture'
  BY <1>1, <1>2, <1>4, SMTT(30) DEF ActiveInv, JobsNotFromTheFuture, TypeOK
<1>8. HolderIsBusy'
  <2>1. ASSUME NEW i \in 1..Len(batches'), batches'[i].gen = gen, ~finalized
        PROVE  Busy(batches[i].d.q)'
    <3>1. CASE i = Len(batches) + 1
      <4>1. batches'[i].d.q = rd.d.q
        BY <1>4, <3>1, SMTT(30)
      <4>2. Busy(rd.d.q)
        BY <1>1, ZenonT(30) DEF ActiveInv, HolderIsBusy
      <4> QED BY <1>1, <4>1, <4>2, ZenonT(30) DEF Busy
    <3>2. CASE i \in 1..Len(batches)
      BY <1>1, <1>4, <2>1, <3>2, ZenonT(60) DEF ActiveInv, HolderIsBusy, Busy
    <3> QED BY <1>4, <3>1, <3>2, SMTT(30)
  <2>2. \A w \in BatchWorkers :
          bw[w].stage = "work" /\ bw[w].job.gen = gen /\ ~finalized => Busy(bw[w].job.d.q)'
    BY <1>1, ZenonT(60) DEF ActiveInv, HolderIsBusy, Busy
  <2> QED BY <1>1, <2>1, <2>2, ZenonT(30) DEF HolderIsBusy, Idle
<1>9. HolderIsUnique'
  <2>1. ASSUME NEW i \in 1..Len(batches'), NEW j \in 1..Len(batches'), i # j,
               batches'[i].gen = gen, batches'[j].gen = gen
        PROVE  batches'[i].d.q # batches'[j].d.q
    BY <1>1, <1>4, <2>1, SMTT(30) DEF ActiveInv, HolderIsUnique
  <2>2. ASSUME NEW i \in 1..Len(batches'), NEW w \in BatchWorkers, batches'[i].gen = gen,
               bw[w].stage = "work", bw[w].job.gen = gen
        PROVE  batches'[i].d.q # bw[w].job.d.q
    BY <1>1, <1>4, <2>2, SMTT(30) DEF ActiveInv, HolderIsUnique
  <2>3. rd'.stage # "admit"
    BY <1>1 DEF Idle
  <2> QED BY <1>1, <2>1, <2>2, <2>3, ZenonT(30) DEF ActiveInv, HolderIsUnique
<1>10. ActiveCounted(run)'
  BY <1>1 DEF ActiveInv, ActiveCounted, ActiveSet
<1> QED BY <1>6, <1>7, <1>8, <1>9, <1>10, ZenonT(30) DEF ActiveInv

\* The page is given up, and with it the queue's processing flag.
LEMMA HandleBatchRejectActive == ASSUME ActiveInv, handleBatchReject PROVE ActiveInv'
<1>1. /\ UNCHANGED <<gen, alive, finalized, lifetime, pw, bw, toServer, toClient, tail, confirmed,
                     repeats, pushes, handled, processUsed, batches, batchUsed>>
      /\ rd.stage = "admit"
      /\ run' = [run EXCEPT !.queues[rd.d.q] = [@ EXCEPT !.processing = FALSE]]
      /\ rd' \in {Idle, Failing}
  BY DEF handleBatchReject, readVars, clientVars, serverVars
<1>2. TypeOK /\ run \in RunState /\ rd.d.q \in Queues
  BY <1>1, HolderTypes, ZenonT(30) DEF ActiveInv, TypeOK
<1>3. /\ run' \in RunState /\ run'.activeQueues = run.activeQueues
      /\ \A j \in Queues : run'.queues[j].phase = run.queues[j].phase
      /\ \A j \in Queues \ {rd.d.q} : run'.queues[j] = run.queues[j]
  <2> DEFINE k == rd.d.q
             q == [run.queues[k] EXCEPT !.processing = FALSE]
  <2>1. q \in QueueState /\ q.phase = run.queues[k].phase
    BY <1>2, ZenonT(60) DEF RunState, QueueState
  <2>2. run' = [run EXCEPT !.queues[k] = q]
    BY <1>1
  <2> HIDE DEF k, q
  <2>3. k \in Queues /\ [run.queues EXCEPT ![k] = q] \in [Queues -> QueueState]
    BY <1>2, <2>1 DEF RunState, k
  <2>4. /\ run' \in RunState /\ run'.activeQueues = run.activeQueues
        /\ run'.queues = [run.queues EXCEPT ![k] = q]
    BY <1>2, <2>2, <2>3, ZenonT(30) DEF RunState
  <2> QED BY <1>2, <2>1, <2>3, <2>4 DEF RunState, k
<1>4. TypeOK'
  BY <1>1, <1>2, <1>3, ZenonT(30) DEF TypeOK, ReaderState
<1>5. ActiveCounted(run')
  BY <1>3 DEF ActiveInv, ActiveCounted, ActiveSet
<1>6. \A j \in Queues \ {rd.d.q} : Busy(j) => Busy(j)'
  BY <1>3 DEF Busy
<1>7. JobsNotFromTheFuture'
  BY <1>1 DEF ActiveInv, JobsNotFromTheFuture
<1>8. HolderIsBusy'
  <2>1. \A i \in 1..Len(batches) : batches[i].gen = gen /\ ~finalized => Busy(batches[i].d.q)'
    BY <1>1, <1>2, <1>6, HolderTypes, ZenonT(30) DEF ActiveInv, HolderIsBusy, HolderIsUnique
  <2>2. \A w \in BatchWorkers :
          bw[w].stage = "work" /\ bw[w].job.gen = gen /\ ~finalized => Busy(bw[w].job.d.q)'
    BY <1>1, <1>2, <1>6, HolderTypes, ZenonT(30) DEF ActiveInv, HolderIsBusy, HolderIsUnique
  <2> QED BY <1>1, <2>1, <2>2, SMTT(30) DEF HolderIsBusy, Idle, Failing
<1>9. HolderIsUnique'
  BY <1>1 DEF ActiveInv, HolderIsUnique, Idle, Failing
<1> QED BY <1>4, <1>5, <1>7, <1>8, <1>9, ZenonT(30) DEF ActiveInv

\* The other steps of readPump.
LEMMA ReaderActive == ASSUME ActiveInv, Reader PROVE ActiveInv'
<1>1. ASSUME dispatchInvalid PROVE ActiveInv'
  <2>1. /\ UNCHANGED <<run, gen, alive, finalized, lifetime, pw, bw, toServer, tail, confirmed,
                       repeats, pushes, handled, processUsed, batches, batchUsed>>
        /\ rd' = Failing /\ toClient' = Tail(toClient) /\ toClient # <<>>
    BY <1>1, ZenonT(30) DEF dispatchInvalid, readVars, clientVars, serverVars
  <2>2. TypeOK'
    BY <2>1, FrameFacts, ZenonT(30) DEF ActiveInv, TypeOK, ReaderState
  <2>3. JobsNotFromTheFuture' /\ HolderIsBusy' /\ HolderIsUnique'
    BY <2>1, HoldersKept, ZenonT(30) DEF Busy
  <2> QED BY <2>1, <2>2, <2>3 DEF ActiveInv, ActiveCounted, ActiveSet
<1>2. ASSUME readerFails PROVE ActiveInv'
  <2>1. /\ UNCHANGED <<run, gen, finalized, lifetime, pw, bw, toServer, toClient, tail, confirmed,
                       repeats, pushes, handled, processUsed, batches, batchUsed>>
        /\ rd' = Idle /\ alive' \in BOOLEAN
    BY <1>2, ZenonT(30) DEF readerFails, serverVars
  <2>2. TypeOK'
    BY <2>1, ZenonT(30) DEF ActiveInv, TypeOK, ReaderState
  <2>3. JobsNotFromTheFuture' /\ HolderIsBusy' /\ HolderIsUnique'
    BY <2>1, HoldersKept, ZenonT(30) DEF Busy
  <2> QED BY <2>1, <2>2, <2>3 DEF ActiveInv, ActiveCounted, ActiveSet
<1> QED BY ZenonT(30), <1>1, <1>2, StartQueueActive, HandleBatchAcceptActive, HandleBatchEnqueueActive,
           HandleBatchRejectActive DEF Reader

-----------------------------------------------------------------------------
(* The pull workers, the batch workers and the end of a run. *)

\* The pull workers change flags of pulls and the channel, nothing else of the run.
LEMMA PullWorkerRun ==
  ASSUME TypeOK, NEW w \in PullWorkers, pullWorker(w)
  PROVE  /\ run' \in RunState /\ run'.activeQueues = run.activeQueues
         /\ \A j \in Queues : /\ run'.queues[j].phase = run.queues[j].phase
                              /\ run'.queues[j].processing = run.queues[j].processing
                              /\ run'.queues[j].key = run.queues[j].key
<1>1. run \in RunState
  BY DEF TypeOK
<1>2. CASE pullWorkerTake(w)
  <2>1. Tail(run.pullRequests) \in Seq(Queues)
    BY <1>1, <1>2 DEF pullWorkerTake, RunState
  <2> QED BY <1>1, <1>2, <2>1, ZenonT(30) DEF pullWorkerTake, RunState
<1>3. ASSUME NEW k \in Queues, NEW q \in QueueState,
             q.phase = run.queues[k].phase, q.processing = run.queues[k].processing,
             q.key = run.queues[k].key, run' = [run EXCEPT !.queues[k] = q]
      PROVE  /\ run' \in RunState /\ run'.activeQueues = run.activeQueues
             /\ \A j \in Queues : /\ run'.queues[j].phase = run.queues[j].phase
                                  /\ run'.queues[j].processing = run.queues[j].processing
                                  /\ run'.queues[j].key = run.queues[j].key
  <2>1. [run.queues EXCEPT ![k] = q] \in [Queues -> QueueState]
    BY <1>1, <1>3 DEF RunState
  <2>2. /\ run' \in RunState /\ run'.activeQueues = run.activeQueues
        /\ run'.queues = [run.queues EXCEPT ![k] = q]
    BY <1>1, <1>3, <2>1, ZenonT(30) DEF RunState
  <2> QED BY <1>1, <1>3, <2>2, ZenonT(30) DEF RunState
<1>4. pw[w].stage \in {"taken", "sending", "sent"} => pw[w].q \in Queues
  BY SMTT(30) DEF TypeOK, PullWorkerState, Idle, Failing
<1> DEFINE k == pw[w].q
<1>5. CASE executePullBegin(w)
  <2> DEFINE drop == \/ ~alive
                     \/ run.queues[k].phase # "active"
                     \/ ~run.queues[k].pullQueued
                     \/ run.queues[k].processing
                     \/ run.queues[k].pullInFlight
             q == [run.queues[k] EXCEPT
                     !.pullQueued = FALSE,
                     !.pullInFlight = IF drop THEN run.queues[k].pullInFlight ELSE TRUE]
  <2>a. k \in Queues
    BY <1>4, <1>5 DEF executePullBegin
  <2>b. run' = [run EXCEPT !.queues[k] = q]
    BY <1>5 DEF executePullBegin
  <2>1. k \in Queues /\ run' = [run EXCEPT !.queues[k] = q]
    BY <2>a, <2>b, ZenonT(30)
  <2>2. /\ q \in QueueState /\ q.phase = run.queues[k].phase
        /\ q.processing = run.queues[k].processing /\ q.key = run.queues[k].key
    BY <1>1, <2>1, ZenonT(30) DEF RunState, QueueState
  <2> HIDE DEF k, q
  <2> QED BY <1>3, <2>1, <2>2
<1>6. CASE executePullSent(w)
  <2> DEFINE q == [run.queues[k] EXCEPT !.pullSent = IF /\ run.queues[k].pullInFlight
                                                        /\ ~run.queues[k].processing
                                                       THEN TRUE ELSE run.queues[k].pullSent]
  <2>a. k \in Queues
    BY <1>4, <1>6, ZenonT(30) DEF executePullSent
  <2>b. run' = [run EXCEPT !.queues[k] = q]
    BY <1>6 DEF executePullSent
  <2>1. k \in Queues /\ run' = [run EXCEPT !.queues[k] = q]
    BY <2>a, <2>b
  <2>2. /\ q \in QueueState /\ q.phase = run.queues[k].phase
        /\ q.processing = run.queues[k].processing /\ q.key = run.queues[k].key
    BY <1>1, <2>1, ZenonT(30) DEF RunState, QueueState
  <2> HIDE DEF k, q
  <2> QED BY <1>3, <2>1, <2>2
<1>7. CASE executePullError(w)
  <2> DEFINE q == [run.queues[k] EXCEPT !.pullInFlight = FALSE, !.pullSent = FALSE]
  <2>1. k \in Queues /\ run' = [run EXCEPT !.queues[k] = q]
    BY <1>4, <1>7 DEF executePullError
  <2>2. /\ q \in QueueState /\ q.phase = run.queues[k].phase
        /\ q.processing = run.queues[k].processing /\ q.key = run.queues[k].key
    BY <1>1, <2>1, ZenonT(60) DEF RunState, QueueState
  <2> HIDE DEF k, q
  <2> QED BY <1>3, <2>1, <2>2
<1>8. CASE sendPull(w) \/ pullWorkerFails(w)
  BY <1>1, <1>8 DEF sendPull, pullWorkerFails
<1> QED BY <1>2, <1>5, <1>6, <1>7, <1>8 DEF pullWorker

\* A pull worker and what it sends keep their types.
LEMMA PullWorkerType == ASSUME TypeOK, NEW w \in PullWorkers, pullWorker(w) PROVE TypeOK'
<1>1. run \in RunState /\ run' \in RunState
  BY PullWorkerRun DEF TypeOK
<1>2. UNCHANGED <<gen, finalized, lifetime, processUsed, rd, bw, batches, batchUsed, toClient,
                  tail, confirmed, repeats, pushes, handled>>
  BY ZenonT(30) DEF pullWorker, pullWorkerTake, executePullBegin, sendPull, executePullSent,
         executePullError, pullWorkerFails, pullVars, clientVars, serverVars
<1>3. alive' \in BOOLEAN
  BY ZenonT(30) DEF TypeOK, pullWorker, pullWorkerTake, executePullBegin, sendPull, executePullSent,
         executePullError, pullWorkerFails, pullVars, clientVars
<1>4. toServer' \in Seq(Pull) /\ pw' \in [PullWorkers -> PullWorkerState]
  <2>1. CASE pullWorkerTake(w)
    <3>1. Head(run.pullRequests) \in Queues
      BY <1>1, <2>1 DEF pullWorkerTake, RunState
    <3> QED BY <2>1, <3>1 DEF pullWorkerTake, TypeOK, PullWorkerState
  <2>2. CASE executePullBegin(w)
    <3>0. pw[w] \in PullWorkerState /\ pw[w].stage = "taken"
      BY <2>2 DEF executePullBegin, TypeOK
    <3>1. pw[w].q \in Queues
      BY <3>0 DEF PullWorkerState, Idle, Failing
    <3>2. run.queues[pw[w].q].key \in Nat
      BY <1>1, <3>1 DEF RunState, QueueState
    <3> QED BY <2>2, <3>1, <3>2, ZenonT(30) DEF executePullBegin, TypeOK, PullWorkerState
  <2>3. CASE sendPull(w)
    <3>1. pw[w] \in [stage : {"sending", "sent"}, q : Queues, key : Nat]
      BY <2>3 DEF sendPull, TypeOK, PullWorkerState, Idle, Failing
    <3>2. [q |-> pw[w].q, key |-> pw[w].key] \in Pull
      BY <3>1 DEF Pull
    <3>3. [pw[w] EXCEPT !.stage = "sent"] \in PullWorkerState
      BY <3>1 DEF PullWorkerState
    <3> QED BY <2>3, <3>2, <3>3 DEF sendPull, TypeOK
  <2>4. CASE executePullSent(w) \/ executePullError(w) \/ pullWorkerFails(w)
    BY <2>4, ZenonT(30)
       DEF executePullSent, executePullError, pullWorkerFails, TypeOK, PullWorkerState
  <2> QED BY <2>1, <2>2, <2>3, <2>4 DEF pullWorker
<1> QED BY <1>1, <1>2, <1>3, <1>4 DEF TypeOK

\* Hence no pull worker disturbs the count or a busy queue.
LEMMA PullWorkerActive ==
  ASSUME ActiveInv, NEW w \in PullWorkers, pullWorker(w) PROVE ActiveInv'
<1>1. UNCHANGED <<gen, finalized, rd, bw, batches>>
  BY ZenonT(30) DEF pullWorker, pullWorkerTake, executePullBegin, sendPull, executePullSent,
         executePullError, pullWorkerFails, pullVars, clientVars
<1>2. TypeOK'
  BY PullWorkerType DEF ActiveInv
<1>3. ActiveCounted(run')
  BY PullWorkerRun DEF ActiveInv, ActiveCounted, ActiveSet
<1>4. \A j \in Queues : Busy(j) => Busy(j)'
  BY PullWorkerRun DEF ActiveInv, Busy
<1>5. JobsNotFromTheFuture' /\ HolderIsBusy' /\ HolderIsUnique'
  BY <1>1, <1>4, HoldersKept
<1> QED BY <1>2, <1>3, <1>5 DEF ActiveInv

\* What a receive from the batches channel leaves in it.
LEMMA ReceiveFacts ==
  ASSUME batches \in Seq(Job), batches # <<>>, batches' = Tail(batches)
  PROVE  /\ batches' \in Seq(Job) /\ Head(batches) \in Job /\ Head(batches) = batches[1]
         /\ Len(batches) \in Nat \ {0} /\ Len(batches') = Len(batches) - 1
         /\ \A i \in 1..Len(batches') : i + 1 \in 1..Len(batches) /\ batches'[i] = batches[i + 1]
  OBVIOUS

\* The jobs behind the head of the channel are pages of different queues.
LEMMA TailUnique ==
  ASSUME HolderIsUnique, Len(batches) \in Nat \ {0}, Len(batches') = Len(batches) - 1,
         \A i \in 1..Len(batches') : i + 1 \in 1..Len(batches) /\ batches'[i] = batches[i + 1]
  PROVE  /\ \A i, j \in 1..Len(batches') :
              i # j /\ batches'[i].gen = gen /\ batches'[j].gen = gen
              => batches'[i].d.q # batches'[j].d.q
         /\ \A i \in 1..Len(batches'), v \in BatchWorkers :
              batches'[i].gen = gen /\ bw[v].stage = "work" /\ bw[v].job.gen = gen
              => batches'[i].d.q # bw[v].job.d.q
         /\ rd.stage = "admit" =>
              \A i \in 1..Len(batches') : batches'[i].gen = gen => batches'[i].d.q # rd.d.q
<1>1. \A i, j \in 1..Len(batches') :
        i # j /\ batches'[i].gen = gen /\ batches'[j].gen = gen
        => batches'[i].d.q # batches'[j].d.q
  BY DEF HolderIsUnique
<1>2. \A i \in 1..Len(batches'), v \in BatchWorkers :
        batches'[i].gen = gen /\ bw[v].stage = "work" /\ bw[v].job.gen = gen
        => batches'[i].d.q # bw[v].job.d.q
  BY DEF HolderIsUnique
<1>3. rd.stage = "admit" =>
        \A i \in 1..Len(batches') : batches'[i].gen = gen => batches'[i].d.q # rd.d.q
  BY DEF HolderIsUnique
<1> QED BY <1>1, <1>2, <1>3, ZenonT(30)

\* The channel gives up its head, and a worker keeps it or nobody does.
LEMMA DropUnique ==
  ASSUME HolderIsUnique, gen' = gen, rd' = rd, bw' = bw,
         Len(batches) \in Nat \ {0}, Len(batches') = Len(batches) - 1,
         \A i \in 1..Len(batches') : i + 1 \in 1..Len(batches) /\ batches'[i] = batches[i + 1]
  PROVE  HolderIsUnique'
  BY TailUnique, ZenonT(30) DEF HolderIsUnique

LEMMA ReceiveUnique ==
  ASSUME HolderIsUnique, gen' = gen, rd' = rd, NEW w \in BatchWorkers,
         Len(batches) \in Nat \ {0}, Len(batches') = Len(batches) - 1,
         \A i \in 1..Len(batches') : i + 1 \in 1..Len(batches) /\ batches'[i] = batches[i + 1],
         bw'[w].stage = "work", bw'[w].job = batches[1],
         \A v \in BatchWorkers \ {w} : bw'[v] = bw[v]
  PROVE  HolderIsUnique'
<1>1. \A i, j \in 1..Len(batches') :
        i # j /\ batches'[i].gen = gen /\ batches'[j].gen = gen
        => batches'[i].d.q # batches'[j].d.q
  BY TailUnique, Zenon
<1>2. ASSUME NEW i \in 1..Len(batches'), NEW v \in BatchWorkers, batches'[i].gen = gen,
             bw'[v].stage = "work", bw'[v].job.gen = gen
      PROVE  batches'[i].d.q # bw'[v].job.d.q
  <2>1. /\ i + 1 \in 1..Len(batches) /\ 1 \in 1..Len(batches) /\ i + 1 # 1
        /\ batches'[i] = batches[i + 1]
    OBVIOUS
  <2>2. CASE v = w
    BY <1>2, <2>1, <2>2 DEF HolderIsUnique
  <2>3. CASE v # w
    <3>1. bw'[v] = bw[v]
      BY <2>3, ZenonT(30)
    <3>2. bw[v].stage = "work" /\ bw[v].job.gen = gen
      BY <1>2, <3>1
    <3>3. batches'[i].d.q # bw[v].job.d.q
      BY <1>2, <3>2, TailUnique, Zenon
    <3> QED BY <3>1, <3>3, ZenonT(30)
  <2> QED BY <2>2, <2>3, ZenonT(30)
<1>3. \A u, v \in BatchWorkers :
        /\ u # v
        /\ bw'[u].stage = "work" /\ bw'[u].job.gen = gen
        /\ bw'[v].stage = "work" /\ bw'[v].job.gen = gen
        => bw'[u].job.d.q # bw'[v].job.d.q
  BY DEF HolderIsUnique
<1>4. rd.stage = "admit" =>
        /\ \A i \in 1..Len(batches') : batches'[i].gen = gen => batches'[i].d.q # rd.d.q
        /\ \A v \in BatchWorkers :
             bw'[v].stage = "work" /\ bw'[v].job.gen = gen => bw'[v].job.d.q # rd.d.q
  BY DEF HolderIsUnique
<1> QED BY <1>1, <1>2, <1>3, <1>4, ZenonT(30) DEF HolderIsUnique

\* A worker or drainBatchJobs receives a job; a worker may keep it.
LEMMA ReceiveActive ==
  ASSUME ActiveInv, UNCHANGED <<run, gen, finalized, rd>>,
         batches # <<>>, batches' = Tail(batches),
         \/ bw' = bw
         \/ \E w \in BatchWorkers :
              bw[w] = Idle /\ bw' = [bw EXCEPT ![w] = [stage |-> "work", job |-> Head(batches),
                                                       done |-> Head(batches).d.lo]]
  PROVE  /\ batches' \in Seq(Job) /\ bw' \in [BatchWorkers -> BatchWorkerState]
         /\ ActiveCounted(run)'
         /\ JobsNotFromTheFuture' /\ HolderIsBusy' /\ HolderIsUnique'
<1> DEFINE job == Head(batches)
<1>1. TypeOK /\ batches \in Seq(Job) /\ bw \in [BatchWorkers -> BatchWorkerState]
  BY DEF ActiveInv, TypeOK
<1>2. /\ batches' \in Seq(Job) /\ job \in Job /\ job = batches[1]
      /\ Len(batches) \in Nat \ {0} /\ Len(batches') = Len(batches) - 1
      /\ \A i \in 1..Len(batches') : i + 1 \in 1..Len(batches) /\ batches'[i] = batches[i + 1]
  BY <1>1, ReceiveFacts, ZenonT(30)
<1> HIDE DEF job
<1>3. job.d.lo \in Nat /\ [stage |-> "work", job |-> job, done |-> job.d.lo] \in BatchWorkerState
  <2>1. job.d \in Batch
    BY <1>2, ZenonT(30) DEF Job
  <2>2. job.d.lo \in Nat
    BY <2>1, ZenonT(30) DEF Batch
  <2> QED BY <1>2, <2>2, ZenonT(30) DEF BatchWorkerState
<1>4. ActiveCounted(run)'
  BY ZenonT(30) DEF ActiveInv, ActiveCounted, ActiveSet
<1>b. \A i \in 1..Len(batches) : batches[i].gen = gen /\ ~finalized => Busy(batches[i].d.q)
  BY DEF ActiveInv, HolderIsBusy
<1>c. \A i \in 1..Len(batches') : batches'[i].gen = gen /\ ~finalized => Busy(batches'[i].d.q)
  BY <1>2, <1>b, ZenonT(30)
<1>d. \A i \in 1..Len(batches') : batches'[i].gen = gen /\ ~finalized => Busy(batches[i].d.q)'
  BY <1>c, ZenonT(30) DEF Busy
<1>5. CASE bw' = bw
  <2>1. JobsNotFromTheFuture'
    BY <1>2, <1>5, ZenonT(30) DEF ActiveInv, JobsNotFromTheFuture
  <2>2. HolderIsBusy'
    <3>1. \A w \in BatchWorkers :
            bw[w].stage = "work" /\ bw[w].job.gen = gen /\ ~finalized => Busy(bw[w].job.d.q)
      BY ZenonT(30) DEF ActiveInv, HolderIsBusy
    <3>2. \A w \in BatchWorkers :
            bw'[w].stage = "work" /\ bw'[w].job.gen = gen /\ ~finalized => Busy(bw[w].job.d.q)'
      BY <1>5, <3>1, ZenonT(60) DEF Busy
    <3>3. rd.stage = "admit" => ~finalized /\ Busy(rd.d.q)'
      BY ZenonT(30) DEF ActiveInv, HolderIsBusy, Busy
    <3> QED BY <1>d, <3>2, <3>3 DEF HolderIsBusy
  <2>3. HolderIsUnique'
    <3>1. HolderIsUnique
      BY DEF ActiveInv
    <3> QED BY <1>2, <1>5, <3>1, DropUnique, Zenon
  <2> QED BY <1>1, <1>2, <1>4, <1>5, <2>1, <2>2, <2>3, ZenonT(30)
<1>6. ASSUME NEW w \in BatchWorkers, bw[w] = Idle,
             bw' = [bw EXCEPT ![w] = [stage |-> "work", job |-> job, done |-> job.d.lo]]
      PROVE  /\ bw' \in [BatchWorkers -> BatchWorkerState]
             /\ JobsNotFromTheFuture' /\ HolderIsBusy' /\ HolderIsUnique'
  <2>1. bw' \in [BatchWorkers -> BatchWorkerState]
    BY <1>1, <1>3, <1>6, ZenonT(30)
  <2>2. /\ bw'[w].stage = "work" /\ bw'[w].job = batches[1] /\ 1 \in 1..Len(batches)
        /\ \A v \in BatchWorkers \ {w} : bw'[v] = bw[v]
    BY <1>1, <1>2, <1>6
  <2>3. JobsNotFromTheFuture'
    BY <1>2, <2>2, ZenonT(30) DEF ActiveInv, JobsNotFromTheFuture
  <2>4. HolderIsBusy'
    <3>1. \A v \in BatchWorkers \ {w} :
            bw[v].stage = "work" /\ bw[v].job.gen = gen /\ ~finalized => Busy(bw[v].job.d.q)
      BY DEF ActiveInv, HolderIsBusy
    <3>2. \A v \in BatchWorkers :
            bw'[v].stage = "work" /\ bw'[v].job.gen = gen /\ ~finalized => Busy(bw'[v].job.d.q)
      BY <1>b, <2>2, <3>1, ZenonT(30)
    <3>3. \A v \in BatchWorkers :
            bw'[v].stage = "work" /\ bw'[v].job.gen = gen /\ ~finalized => Busy(bw[v].job.d.q)'
      BY <3>2, ZenonT(30) DEF Busy
    <3>4. rd.stage = "admit" => ~finalized /\ Busy(rd.d.q)'
      BY ZenonT(30) DEF ActiveInv, HolderIsBusy, Busy
    <3> QED BY <1>d, <3>3, <3>4, ZenonT(30) DEF HolderIsBusy
  <2>5. HolderIsUnique'
    <3>1. HolderIsUnique
      BY DEF ActiveInv
    <3> QED BY <1>2, <2>2, <3>1, ReceiveUnique, Zenon
  <2> QED BY <2>1, <2>3, <2>4, <2>5, ZenonT(30)
<1> QED BY <1>2, <1>4, <1>5, <1>6, ZenonT(30) DEF job

\* No worker has a page it did not have before.
LEMMA KeepUnique ==
  ASSUME HolderIsUnique, UNCHANGED <<gen, batches, rd>>,
         \A v \in BatchWorkers :
           bw'[v].stage = "work" => bw[v].stage = "work" /\ bw'[v].job = bw[v].job
  PROVE  HolderIsUnique'
<1>1. \A u, v \in BatchWorkers :
        /\ u # v
        /\ bw'[u].stage = "work" /\ bw'[u].job.gen = gen
        /\ bw'[v].stage = "work" /\ bw'[v].job.gen = gen
        => bw'[u].job.d.q # bw'[v].job.d.q
  BY DEF HolderIsUnique
<1>2. \A i \in 1..Len(batches), v \in BatchWorkers :
        batches[i].gen = gen /\ bw'[v].stage = "work" /\ bw'[v].job.gen = gen
        => batches[i].d.q # bw'[v].job.d.q
  BY ZenonT(30) DEF HolderIsUnique
<1>3. rd.stage = "admit" => \A v \in BatchWorkers :
        bw'[v].stage = "work" /\ bw'[v].job.gen = gen => bw'[v].job.d.q # rd.d.q
  BY DEF HolderIsUnique
<1> QED BY <1>1, <1>2, <1>3, ZenonT(30) DEF HolderIsUnique

\* A batch worker goes on with its job or gives it up; nobody else's queue is touched.
LEMMA WorkerHolds ==
  ASSUME ActiveInv, NEW w \in BatchWorkers, UNCHANGED <<gen, finalized, batches, rd>>,
         \A v \in BatchWorkers \ {w} : bw'[v] = bw[v],
         bw'[w] # Idle => bw[w] # Idle /\ bw'[w].job = bw[w].job,
         bw'[w].stage = "work" => bw'[w] # Idle /\ bw[w].stage = "work",
         \A j \in Queues :
           \/ Busy(j) => Busy(j)'
           \/ /\ bw'[w].stage # "work" /\ bw[w].stage = "work" /\ ~finalized
              /\ bw[w].job.gen = gen /\ j = bw[w].job.d.q
  PROVE  JobsNotFromTheFuture' /\ HolderIsBusy' /\ HolderIsUnique'
<1>1. JobsNotFromTheFuture'
  BY ZenonT(30) DEF ActiveInv, JobsNotFromTheFuture
<1>2. /\ rd.stage = "admit" => rd.d.q \in Queues
      /\ \A i \in 1..Len(batches) : batches[i].d.q \in Queues
      /\ \A v \in BatchWorkers : bw[v].stage = "work" => bw[v].job.d.q \in Queues
  BY HolderTypes, ZenonT(30) DEF ActiveInv
<1>3. HolderIsBusy'
  <2>1. rd.stage = "admit" => ~finalized /\ Busy(rd.d.q)'
    BY <1>2, ZenonT(30) DEF ActiveInv, HolderIsBusy, HolderIsUnique
  <2>2. \A i \in 1..Len(batches) : batches[i].gen = gen /\ ~finalized => Busy(batches[i].d.q)'
    BY <1>2, ZenonT(30) DEF ActiveInv, HolderIsBusy, HolderIsUnique
  <2>3. ASSUME NEW v \in BatchWorkers, bw'[v].stage = "work", bw'[v].job.gen = gen, ~finalized
        PROVE  Busy(bw[v].job.d.q)'
    <3> DEFINE k == bw[v].job.d.q
    <3>1. bw[v].stage = "work" /\ bw[v].job.gen = gen /\ bw'[v].job = bw[v].job
      BY <2>3
    <3>2. k \in Queues /\ Busy(k)
      BY <1>2, <2>3, <3>1, ZenonT(30) DEF ActiveInv, HolderIsBusy
    <3>3. ~(bw'[w].stage # "work" /\ bw[w].stage = "work" /\ bw[w].job.gen = gen
            /\ k = bw[w].job.d.q)
      BY <2>3, <3>1, ZenonT(30) DEF ActiveInv, HolderIsUnique
    <3>4. \A j \in Queues : j = k => Busy(j)'
      BY <3>2, <3>3
    <3>5. bw'[v].job.d.q = k
      BY <3>1, ZenonT(30)
    <3> QED BY <3>2, <3>4, <3>5, ZenonT(30)
  <2> QED BY <2>1, <2>2, <2>3, ZenonT(30) DEF HolderIsBusy
<1>4. HolderIsUnique'
  <2>1. HolderIsUnique
    BY DEF ActiveInv
  <2>2. \A v \in BatchWorkers :
          bw'[v].stage = "work" => bw[v].stage = "work" /\ bw'[v].job = bw[v].job
    BY ZenonT(30)
  <2> QED BY <2>1, <2>2, KeepUnique, Zenon
<1> QED BY <1>1, <1>3, <1>4, Zenon

\* A reservation that is taken or released keeps the budget an integer.
LEMMA BatchWeightType == \A d \in Batch : batchWeight(d) \in Int
  BY DEF Batch, batchWeight

LEMMA IntDifference == \A a, b \in Int : a - b \in Int
  OBVIOUS

\* The steps of the batch workers except the last one of processBatch.
LEMMA BatchWorkerActive ==
  ASSUME ActiveInv, NEW w \in BatchWorkers, batchWorker(w), ~processBatch(w) PROVE ActiveInv'
<1>1. TypeOK /\ bw \in [BatchWorkers -> BatchWorkerState] /\ batchUsed \in Int
  BY ZenonT(30) DEF ActiveInv, TypeOK
<1>2. /\ bw[w] # Idle => bw[w].job \in Job /\ bw[w].job.d \in Batch
      /\ bw[w].stage = "work" => bw[w] # Idle /\ bw[w].done \in Nat
      /\ bw[w].stage = "failing" => bw[w] # Idle
  BY <1>1, HolderTypes
<1>3. ASSUME batchWorkerTake(w) PROVE ActiveInv'
  <2>1. /\ UNCHANGED <<run, gen, alive, finalized, lifetime, pw, rd, toServer, toClient, tail,
                       confirmed, repeats, pushes, handled, processUsed>>
        /\ bw[w] = Idle /\ batches # <<>> /\ batches' = Tail(batches)
    BY <1>3, ZenonT(30) DEF batchWorkerTake, workVars, clientVars, serverVars
  <2>2. \/ bw' = bw
        \/ bw' = [bw EXCEPT ![w] = [stage |-> "work", job |-> Head(batches),
                                    done |-> Head(batches).d.lo]]
    BY <1>3, ZenonT(30) DEF batchWorkerTake
  <2>3. \/ batchUsed' = batchUsed
        \/ batchUsed' = batchUsed - batchWeight(Head(batches).d)
    BY <1>3 DEF batchWorkerTake
  <2>4. Head(batches) \in Job
    BY <1>1, <2>1, ReceiveFacts DEF TypeOK
  <2>5. Head(batches).d \in Batch
    BY <2>4 DEF Job
  <2>6. batchUsed' \in Int
    BY <1>1, <2>3, <2>5, BatchWeightType, SMTT(30)
  <2>7. /\ batches' \in Seq(Job) /\ bw' \in [BatchWorkers -> BatchWorkerState]
        /\ ActiveCounted(run)'
        /\ JobsNotFromTheFuture' /\ HolderIsBusy' /\ HolderIsUnique'
    BY <2>1, <2>2, ReceiveActive, ZenonT(30)
  <2>8. TypeOK'
    BY <1>1, <2>1, <2>6, <2>7, ZenonT(30) DEF TypeOK
  <2> QED BY <2>7, <2>8, ZenonT(30) DEF ActiveInv
<1>4. ASSUME processMeta(w) PROVE ActiveInv'
  <2> DEFINE k == bw[w].job.d.q
             m == bw[w].done + 1
  <2>1. /\ UNCHANGED <<run, gen, alive, finalized, lifetime, pw, rd, toServer, toClient, tail,
                       confirmed, repeats, pushes, processUsed, batches, batchUsed>>
        /\ bw[w].stage = "work" /\ bw' = [bw EXCEPT ![w].done = m]
        /\ handled' = [handled EXCEPT ![k] = @ \cup {m}]
    BY <1>4 DEF processMeta, workVars, clientVars, serverVars
  <2>2. m \in Nat
    BY <1>2, <2>1
  <2> HIDE DEF m, k
  <2>3. handled' \in [Queues -> SUBSET Nat]
    BY <1>1, <2>1, <2>2, ZenonT(30) DEF TypeOK
  <2>4. bw[w] \in [stage : {"work"}, job : Job, done : Nat]
    BY <1>1, <2>1 DEF BatchWorkerState, Idle
  <2>5. /\ [bw[w] EXCEPT !.done = m] \in BatchWorkerState /\ [bw[w] EXCEPT !.done = m] # Idle
        /\ [bw[w] EXCEPT !.done = m].job = bw[w].job
    BY <2>2, <2>4 DEF BatchWorkerState, Idle
  <2>6. /\ bw' \in [BatchWorkers -> BatchWorkerState]
        /\ bw'[w] # Idle /\ bw'[w].job = bw[w].job
        /\ \A v \in BatchWorkers \ {w} : bw'[v] = bw[v]
    BY <1>1, <2>1, <2>5, ZenonT(30)
  <2>7. TypeOK'
    BY <1>1, <2>1, <2>3, <2>6, ZenonT(30) DEF TypeOK
  <2>8. \A j \in Queues : Busy(j) => Busy(j)'
    BY <2>1 DEF Busy
  <2>9. JobsNotFromTheFuture' /\ HolderIsBusy' /\ HolderIsUnique'
    BY <1>2, <2>1, <2>6, <2>8, WorkerHolds, ZenonT(30)
  <2> QED BY <2>1, <2>7, <2>9, ZenonT(30) DEF ActiveInv, ActiveCounted, ActiveSet
<1>5. ASSUME processBatchAbandon(w) \/ batchWorkerFails(w) PROVE ActiveInv'
  <2>1. /\ UNCHANGED <<run, gen, finalized, lifetime, pw, rd, toServer, toClient, tail,
                       confirmed, repeats, pushes, processUsed, batches, handled>>
        /\ bw[w] # Idle /\ bw' = [bw EXCEPT ![w] = Idle]
        /\ batchUsed' = batchUsed - batchWeight(bw[w].job.d)
    BY <1>2, <1>5, ZenonT(30)
       DEF processBatchAbandon, batchWorkerFails, workVars, clientVars, serverVars
  <2>2. alive' \in BOOLEAN
    BY <1>1, <1>5, ZenonT(30)
       DEF processBatchAbandon, batchWorkerFails, workVars, clientVars, TypeOK
  <2>3. batchUsed' \in Int
    BY <1>1, <1>2, <2>1, BatchWeightType, IntDifference, ZenonT(30)
  <2>4. bw' \in [BatchWorkers -> BatchWorkerState] /\ bw'[w] = Idle
        /\ \A v \in BatchWorkers \ {w} : bw'[v] = bw[v]
    BY <1>1, <2>1, ZenonT(30) DEF BatchWorkerState
  <2>5. TypeOK'
    BY <1>1, <2>1, <2>2, <2>3, <2>4, ZenonT(30) DEF TypeOK
  <2>6. \A j \in Queues : Busy(j) => Busy(j)'
    BY <2>1, ZenonT(30) DEF Busy
  <2>7. bw'[w].stage # "work"
    BY <2>4 DEF Idle
  <2>8. JobsNotFromTheFuture' /\ HolderIsBusy' /\ HolderIsUnique'
    BY <2>1, <2>4, <2>6, <2>7, WorkerHolds, ZenonT(30)
  <2> QED BY <2>1, <2>5, <2>8, ZenonT(30) DEF ActiveInv, ActiveCounted, ActiveSet
<1> QED BY <1>3, <1>4, <1>5, ZenonT(30) DEF batchWorker

\* The last step of processBatch: the queue of the job gives up its slot or goes on.
LEMMA ProcessBatchActive ==
  ASSUME ActiveInv, NEW w \in BatchWorkers, processBatch(w) PROVE ActiveInv'
<1> DEFINE job == bw[w].job
           d == bw[w].job.d
           r == advanceQueue(run, d)
<1>1. /\ UNCHANGED <<gen, alive, finalized, lifetime, pw, rd, toServer, toClient, tail,
                     confirmed, repeats, pushes, processUsed, batches, handled>>
      /\ bw[w].stage = "work" /\ job.gen = gen /\ ~finalized
      /\ run' = [r EXCEPT !.err = FALSE]
      /\ bw' = [bw EXCEPT ![w] = IF r.err THEN [stage |-> "failing", job |-> job] ELSE Idle]
      /\ batchUsed' = IF r.err THEN batchUsed ELSE batchUsed - batchWeight(d)
  BY ZenonT(30) DEF processBatch, commit, workVars, clientVars, serverVars
<1>2. TypeOK /\ run \in RunState /\ bw \in [BatchWorkers -> BatchWorkerState] /\ batchUsed \in Int
  BY DEF ActiveInv, TypeOK
<1>3. job \in Job /\ d \in Batch /\ d.q \in Queues /\ bw[w] # Idle
  BY <1>1, <1>2, HolderTypes, ZenonT(30)
<1>4. run.queues[d.q].phase = "active" /\ ActiveCounted(run)
  BY <1>1, ZenonT(30) DEF ActiveInv, HolderIsBusy, Busy
<1> HIDE DEF job, d, r
<1>5. /\ r \in RunState /\ ActiveCounted(r)
      /\ ActiveSet(run) \ {d.q} \subseteq ActiveSet(r)
      /\ \A j \in Queues \ {d.q} : r.queues[j].processing = run.queues[j].processing
  BY <1>2, <1>3, <1>4, AdvanceFacts DEF r
<1>6. run' \in RunState /\ run'.queues = r.queues /\ ActiveCounted(run')
  BY <1>1, <1>5, CommitFacts, ZenonT(30)
<1>7. [stage |-> "failing", job |-> job] \in BatchWorkerState /\ Idle \in BatchWorkerState
  BY <1>3, ZenonT(30) DEF BatchWorkerState
<1>8. /\ bw' \in [BatchWorkers -> BatchWorkerState]
      /\ \A v \in BatchWorkers \ {w} : bw'[v] = bw[v]
      /\ bw'[w].stage # "work"
      /\ bw'[w] # Idle => bw'[w].job = job
  BY <1>1, <1>2, <1>7 DEF Idle
<1>9. batchUsed' \in Int
  BY <1>1, <1>2, <1>3, BatchWeightType, IntDifference, ZenonT(30)
<1>10. TypeOK'
  BY <1>1, <1>2, <1>6, <1>8, <1>9, ZenonT(30) DEF TypeOK
<1>11. ASSUME NEW j \in Queues, j # d.q PROVE Busy(j) => Busy(j)'
  BY <1>5, <1>6, <1>11, ZenonT(30) DEF Busy, ActiveSet
<1>12. JobsNotFromTheFuture' /\ HolderIsBusy' /\ HolderIsUnique'
  BY <1>1, <1>3, <1>8, <1>11, WorkerHolds, ZenonT(30) DEF job, d
<1> QED BY <1>6, <1>10, <1>12, ZenonT(30) DEF ActiveInv

\* The fresh state of a run, and the units of weight it tracks.
LEMMA NewRunFacts ==
  /\ newRun \in RunState /\ ActiveCounted(newRun)
  /\ \A j \in Queues : newRun.queues[j].key = 0
<1>1. newQueueState \in QueueState
  BY DEF newQueueState, QueueState, Phases
<1>2. [k \in Queues |-> newQueueState] \in [Queues -> QueueState]
  BY <1>1, ZenonT(30)
<1>3. newRun \in RunState
  BY <1>2, SMTT(30) DEF newRun, RunState
<1>4. /\ ActiveSet(newRun) = {} /\ newRun.activeQueues = 0
      /\ \A j \in Queues : newRun.queues[j].key = 0
  BY DEF newRun, newQueueState, ActiveSet
<1> QED BY <1>3, <1>4, FS_EmptySet, ConstantsAssumption, SMTT(30) DEF ActiveCounted

\* The weight that finalizeQueues gives back is a number of bytes.
LEMMA TrackedType == ASSUME NEW r PROVE tracked(r) \in Nat
<1> DEFINE S == Queues \X (1..QueueBudget)
           T == {u \in S : u[2] <= r.queues[u[1]].weight}
<1>1. IsFiniteSet(1..QueueBudget)
  BY FS_Interval, ConstantsAssumption
<1>2. IsFiniteSet(S)
  BY <1>1, FS_Product, ConstantsAssumption, ZenonT(30)
<1>3. IsFiniteSet(T)
  BY <1>2, FS_Subset, ZenonT(30)
<1> QED BY <1>3, FS_CardinalityType DEF tracked

\* The connection of nextRun starts with a sequence of notices.
LEMMA UnreadNotices ==
  ASSUME NEW n \in Nat, NEW s \in [1..n -> Queues], NEW w \in Weights
  PROVE  [i \in DOMAIN s |-> [type |-> "notice", q |-> s[i], weight |-> w]] \in Seq(Frame)
<1>1. DOMAIN s = 1..n
  OBVIOUS
<1>2. \A i \in 1..n : [type |-> "notice", q |-> s[i], weight |-> w] \in Frame
  BY DEF Frame, Notice
<1>3. [i \in 1..n |-> [type |-> "notice", q |-> s[i], weight |-> w]] \in [1..n -> Frame]
  BY <1>2
<1> QED BY <1>1, <1>3

\* The end of a run, the next one and the end of the Client.
LEMMA EndingActive == ASSUME ActiveInv, Ending PROVE ActiveInv'
<1>1. TypeOK /\ processUsed \in Int /\ batchUsed \in Int /\ gen \in Nat
  BY ZenonT(30) DEF ActiveInv, TypeOK
<1>2. ASSUME \/ fail
             \/ \E k \in Queues : pullResponseWatchdog(k)
             \/ Close
             \/ finalizeClose
      PROVE  ActiveInv'
  <2>1. UNCHANGED <<run, gen, finalized, processUsed, rd, pw, bw, batches, batchUsed,
                    toClient, toServer, tail, confirmed, repeats, pushes, handled>>
    BY <1>2, ZenonT(30) DEF fail, pullResponseWatchdog, Close, finalizeClose, serverVars
  <2>2. alive' \in BOOLEAN
    BY <1>1, <1>2, ZenonT(30) DEF fail, pullResponseWatchdog, Close, finalizeClose, TypeOK
  <2>3. lifetime' \in {"open", "closed", "draining"}
    BY <1>1, <1>2, ZenonT(30) DEF fail, pullResponseWatchdog, Close, finalizeClose, TypeOK
  <2>4. TypeOK'
    BY <1>1, <2>1, <2>2, <2>3, ZenonT(30) DEF TypeOK
  <2>5. JobsNotFromTheFuture' /\ HolderIsBusy' /\ HolderIsUnique'
    BY <2>1, HoldersKept, ZenonT(30) DEF Busy
  <2> QED BY <2>1, <2>4, <2>5, ZenonT(30) DEF ActiveInv, ActiveCounted, ActiveSet
<1>3. ASSUME drainBatchJobs PROVE ActiveInv'
  <2>1. /\ UNCHANGED <<run, gen, alive, finalized, lifetime, pw, rd, toServer, toClient, tail,
                       confirmed, repeats, pushes, handled, processUsed, bw>>
        /\ batches # <<>> /\ batches' = Tail(batches)
        /\ batchUsed' = batchUsed - batchWeight(Head(batches).d)
    BY <1>3, ZenonT(30) DEF drainBatchJobs, workVars, clientVars, serverVars
  <2>2. Head(batches) \in Job
    BY <1>1, <2>1, ReceiveFacts DEF TypeOK
  <2>3. Head(batches).d \in Batch
    BY <2>2 DEF Job
  <2>4. batchUsed' \in Int
    BY <1>1, <2>1, <2>3, BatchWeightType, IntDifference, ZenonT(30)
  <2>5. /\ batches' \in Seq(Job) /\ ActiveCounted(run)'
        /\ JobsNotFromTheFuture' /\ HolderIsBusy' /\ HolderIsUnique'
    BY <2>1, ReceiveActive, ZenonT(30)
  <2>6. TypeOK'
    BY <1>1, <2>1, <2>4, <2>5, ZenonT(30) DEF TypeOK
  <2> QED BY <2>5, <2>6, ZenonT(30) DEF ActiveInv
<1>4. ASSUME finalizeQueues PROVE ActiveInv'
  <2>1. /\ UNCHANGED <<gen, alive, lifetime, rd, pw, bw, batches, batchUsed, toClient, toServer,
                       tail, confirmed, repeats, pushes, handled>>
        /\ finalized' = TRUE /\ run' = newRun /\ rd = Idle
        /\ processUsed' = processUsed - tracked(run)
    BY <1>4, ZenonT(30) DEF finalizeQueues, serverVars
  <2>2. processUsed' \in Int
    BY <1>1, <2>1, TrackedType
  <2>3. finalized' \in BOOLEAN
    BY <2>1, Zenon
  <2>4. TypeOK'
    BY <1>1, <2>1, <2>2, <2>3, NewRunFacts, ZenonT(30) DEF TypeOK
  <2>5. JobsNotFromTheFuture' /\ HolderIsUnique'
    BY <2>1, ZenonT(30) DEF ActiveInv, JobsNotFromTheFuture, HolderIsUnique
  <2>6. HolderIsBusy'
    BY <2>1 DEF HolderIsBusy, Idle
  <2>7. ActiveCounted(run')
    BY <2>1, NewRunFacts, ZenonT(30)
  <2> QED BY <2>4, <2>5, <2>6, <2>7, ZenonT(30) DEF ActiveInv
<1>5. ASSUME nextRun PROVE ActiveInv'
  <2>1. /\ UNCHANGED <<run, lifetime, processUsed, rd, pw, bw, batches, batchUsed,
                       tail, confirmed, repeats, pushes, handled>>
        /\ finalized /\ gen' = gen + 1 /\ toServer' = <<>>
        /\ alive' = TRUE /\ finalized' = FALSE
    BY <1>5 DEF nextRun, serverVars
  <2>2. PICK s \in [1..Cardinality(unreadQueues) -> unreadQueues], w \in Weights :
          toClient' = [i \in DOMAIN s |-> [type |-> "notice", q |-> s[i], weight |-> w]]
    BY <1>5, ZenonT(30) DEF nextRun
  <2>3. unreadQueues \subseteq Queues
    BY DEF unreadQueues
  <2>4. Cardinality(unreadQueues) \in Nat
    BY <2>3, FS_Subset, FS_CardinalityType, ConstantsAssumption, ZenonT(30)
  <2>5. s \in [1..Cardinality(unreadQueues) -> Queues]
    BY <2>3
  <2>6. toClient' \in Seq(Frame)
    BY <2>2, <2>4, <2>5, UnreadNotices, ZenonT(30)
  <2>7. alive' \in BOOLEAN /\ finalized' \in BOOLEAN
    BY <2>1, Zenon
  <2>8. toServer' \in Seq(Pull) /\ gen' \in Nat
    BY <1>1, <2>1
  <2>9. TypeOK'
    BY <1>1, <2>1, <2>6, <2>7, <2>8, ZenonT(30) DEF TypeOK
  <2>10. /\ \A i \in 1..Len(batches) : batches[i].gen \in Nat /\ batches[i].gen <= gen
         /\ \A w1 \in BatchWorkers :
              bw[w1] # Idle => bw[w1].job.gen \in Nat /\ bw[w1].job.gen <= gen
         /\ \A w1 \in BatchWorkers : bw[w1].stage = "work" => bw[w1] # Idle
    BY <1>1, HolderTypes DEF ActiveInv, JobsNotFromTheFuture
  <2>11. rd.stage # "admit"
    BY <2>1, ZenonT(30) DEF ActiveInv, HolderIsBusy
  <2>12. /\ \A i \in 1..Len(batches) : batches[i].gen # gen' /\ batches[i].gen <= gen'
         /\ \A w1 \in BatchWorkers : bw[w1] # Idle =>
              bw[w1].job.gen # gen' /\ bw[w1].job.gen <= gen'
    BY <1>1, <2>1, <2>10, SMTT(30)
  <2>13. JobsNotFromTheFuture'
    BY <2>1, <2>12, ZenonT(30) DEF JobsNotFromTheFuture
  <2>14. HolderIsBusy' /\ HolderIsUnique'
    BY <2>1, <2>10, <2>11, <2>12, ZenonT(30) DEF HolderIsBusy, HolderIsUnique
  <2> QED BY <2>1, <2>9, <2>13, <2>14, ZenonT(30) DEF ActiveInv, ActiveCounted, ActiveSet
<1> QED BY <1>2, <1>3, <1>4, <1>5, ZenonT(30) DEF Ending

\* Every step, and every stuttering step, preserves the invariant.
LEMMA ActiveInvStep == ActiveInv /\ [Next]_vars => ActiveInv'
<1> SUFFICES ASSUME ActiveInv, [Next]_vars PROVE ActiveInv'
  OBVIOUS
<1>1. CASE UNCHANGED vars
  BY <1>1, ZenonT(30)
     DEF ActiveInv, TypeOK, ActiveCounted, ActiveSet, JobsNotFromTheFuture, HolderIsBusy,
              HolderIsUnique, Busy, vars, clientVars, serverVars
<1>2. CASE Next
  BY ZenonT(30), <1>2, ServerActive, ReaderActive, PullWorkerActive, BatchWorkerActive, ProcessBatchActive,
     EndingActive DEF Next
<1> QED BY <1>1, <1>2

-----------------------------------------------------------------------------
(* Theorems *)

\* Every variable of the engine keeps its type, whatever readPump, the pull workers, the
\* batch workers, the watchdog and Close do in which order.
THEOREM TypeCorrect == Spec => []TypeOK
<1>1. ActiveInv => TypeOK
  BY DEF ActiveInv
<1> QED BY <1>1, ActiveInvInit, ActiveInvStep, PTL DEF Spec

\* activeQueues, which startQueue, promoteDeferredLocked and processBatch adjust by hand,
\* is the number of active queues and stays within maxActiveQueues.
THEOREM ActiveExact == Spec => []ActiveCountExact
<1>1. ActiveInv => ActiveCountExact
  BY DEF ActiveInv, ActiveCounted, ActiveSet, ActiveCountExact, QueuesIn
<1> QED BY <1>1, ActiveInvInit, ActiveInvStep, PTL DEF Spec
=============================================================================
