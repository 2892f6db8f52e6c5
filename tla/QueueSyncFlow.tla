--------------------------- MODULE QueueSyncFlow ---------------------------
(***************************************************************************)
(* No queue of a sound connection is stranded, and every pull in flight is *)
(* timed, for every number of queues, workers and slots.                   *)
(*                                                                         *)
(* FlowInv says where each queue is: a queue is active exactly when one of *)
(* pullQueued, pullInFlight and processing is set, and each flag is backed *)
(* by a request, a pull or a page that somebody has in hand.  What the     *)
(* helpers do to the flags of the queue they are called for, and of the    *)
(* others, comes first; then one lemma per action.                         *)
(***************************************************************************)
EXTENDS QueueSyncProofs

\* A pull worker is sending the pull of queue k or has just sent it.
Sending(k) == \E w \in PullWorkers : pw[w].stage \in {"sending", "sent"} /\ pw[w].q = k

\* Queue k is where its flags say: it has at most one of them, one exactly when it is
\* active, and the flag is backed by work under way.
FlowOK(k) ==
  LET q == run.queues[k] IN
  /\ q.pullQueued => PullIsQueued(k) /\ ~q.pullInFlight /\ ~q.processing
  /\ q.pullInFlight => PullIsInFlight(k) /\ ~q.processing /\ (q.pullSent \/ Sending(k))
  /\ q.processing => BatchIsProcessed(k)
  /\ q.pullSent => q.pullInFlight
  /\ q.phase = "active" <=> q.pullQueued \/ q.pullInFlight \/ q.processing

\* Between two runs there is nothing left of the old one, and the Client drains its
\* jobs only after the last.
RestInv ==
  /\ finalized => ~alive /\ run = newRun /\ \A w \in PullWorkers : pw[w] = Idle
  /\ lifetime = "draining" => finalized

\* While the connection is up and no failure is about to end it, this holds of all queues.
FlowInv == alive /\ ~Doomed => \A k \in Queues : FlowOK(k)
-----------------------------------------------------------------------------
(* What the helpers do to the flags of a queue *)

\* A queue that nobody works for.
Parked(q) ==
  /\ q.phase # "active"
  /\ ~q.pullQueued /\ ~q.pullInFlight /\ ~q.pullSent /\ ~q.processing

\* A queue that waits for a pull worker, its request in the channel.
Requested(r, k) ==
  /\ r.queues[k].phase = "active"
  /\ r.queues[k].pullQueued
  /\ ~r.queues[k].pullInFlight /\ ~r.queues[k].pullSent /\ ~r.queues[k].processing
  /\ k \in Entries(r.pullRequests)

\* From r to s queue k kept its flags, or it was parked and is deferred or activated;
\* requests only came in.
SameFlags(q, p) ==
  /\ p.phase = q.phase /\ p.processing = q.processing
  /\ p.pullQueued = q.pullQueued /\ p.pullInFlight = q.pullInFlight /\ p.pullSent = q.pullSent

Scheduled(r, s, k) ==
  \/ SameFlags(r.queues[k], s.queues[k])
  \/ /\ Parked(r.queues[k])
     /\ \/ Parked(s.queues[k]) /\ s.queues[k].phase = "deferred"
        \/ Requested(s, k)

Schedules(r, s) ==
  /\ Entries(r.pullRequests) \subseteq Entries(s.pullRequests)
  /\ \A k \in Queues : Scheduled(r, s, k)

\* The elements of a channel after a send and after a receive.
LEMMA EntriesSend ==
  ASSUME NEW S, NEW s \in Seq(S), NEW e \in S
  PROVE  Entries(Append(s, e)) = Entries(s) \cup {e}
<1> DEFINE t == Append(s, e)
<1>1. /\ Len(s) \in Nat /\ Len(t) = Len(s) + 1 /\ t[Len(s) + 1] = e
      /\ \A i \in 1..Len(s) : t[i] = s[i]
  OBVIOUS
<1> HIDE DEF t
<1>2. ASSUME NEW x \in Entries(t) PROVE x \in Entries(s) \cup {e}
  <2>1. PICK i \in 1..Len(t) : x = t[i]
    BY <1>2 DEF Entries
  <2>2. i = Len(s) + 1 \/ i \in 1..Len(s)
    BY <1>1, <2>1
  <2> QED BY <1>1, <2>1, <2>2 DEF Entries
<1>3. ASSUME NEW x \in Entries(s) PROVE x \in Entries(t)
  <2>1. PICK i \in 1..Len(s) : x = s[i]
    BY <1>3 DEF Entries
  <2>2. i \in 1..Len(t) /\ t[i] = x
    BY <1>1, <2>1
  <2> QED BY <2>2 DEF Entries
<1>4. e \in Entries(t)
  <2>1. Len(s) + 1 \in 1..Len(t)
    BY <1>1
  <2> QED BY <1>1, <2>1 DEF Entries
<1> QED BY <1>2, <1>3, <1>4, ZenonT(30) DEF t

LEMMA EntriesReceive ==
  ASSUME NEW S, NEW s \in Seq(S), s # <<>>
  PROVE  Entries(s) = {Head(s)} \cup Entries(Tail(s))
<1> DEFINE t == Tail(s)
<1>1. /\ Len(s) \in Nat \ {0} /\ Len(t) = Len(s) - 1 /\ Head(s) = s[1]
      /\ \A i \in 1..Len(t) : t[i] = s[i + 1]
  OBVIOUS
<1> HIDE DEF t
<1>2. ASSUME NEW x \in Entries(s) PROVE x = Head(s) \/ x \in Entries(t)
  <2>1. PICK i \in 1..Len(s) : x = s[i]
    BY <1>2 DEF Entries
  <2>2. i = 1 \/ (i - 1 \in 1..Len(t) /\ t[i - 1] = s[i])
    BY <1>1, <2>1
  <2> QED BY <1>1, <2>1, <2>2, ZenonT(30) DEF Entries
<1>3. ASSUME NEW x \in Entries(t) PROVE x \in Entries(s)
  <2>1. PICK i \in 1..Len(t) : x = t[i]
    BY <1>3 DEF Entries
  <2>2. i + 1 \in 1..Len(s) /\ s[i + 1] = x
    BY <1>1, <2>1
  <2> QED BY <2>2 DEF Entries
<1>4. Head(s) \in Entries(s)
  <2>1. 1 \in 1..Len(s)
    BY <1>1
  <2> QED BY <1>1, <2>1 DEF Entries
<1> QED BY <1>2, <1>3, <1>4 DEF t

\* enqueuePullLocked for a queue that is active and has no flag set.
LEMMA EnqueueFlow ==
  ASSUME NEW r \in RunState, NEW k \in Queues, r.queues[k].phase = "active",
         ~r.queues[k].pullQueued, ~r.queues[k].pullInFlight, ~r.queues[k].pullSent,
         ~r.queues[k].processing, ~enqueuePullLocked(r, k).err
  PROVE  LET s == enqueuePullLocked(r, k) IN
         /\ Entries(r.pullRequests) \subseteq Entries(s.pullRequests)
         /\ \A j \in Queues \ {k} : s.queues[j] = r.queues[j]
         /\ s.deferred = r.deferred
         /\ Requested(s, k)
<1> DEFINE s == enqueuePullLocked(r, k)
           q == [r.queues[k] EXCEPT !.pullQueued = TRUE]
<1>1. s = [r EXCEPT !.queues[k].pullQueued = TRUE, !.pullRequests = Append(@, k)]
  <2>1. [r EXCEPT !.err = TRUE].err
    BY ZenonT(30) DEF RunState
  <2> QED BY <2>1, ZenonT(30) DEF enqueuePullLocked
<1>2. /\ s.queues = [r.queues EXCEPT ![k] = q] /\ s.deferred = r.deferred
      /\ s.pullRequests = Append(r.pullRequests, k)
  BY <1>1, ZenonT(30) DEF RunState
<1> HIDE DEF s
<1>3. /\ q.phase = "active" /\ q.pullQueued
      /\ ~q.pullInFlight /\ ~q.pullSent /\ ~q.processing
  BY ZenonT(30) DEF RunState, QueueState
<1> HIDE DEF q
<1>4. s.queues[k] = q /\ \A j \in Queues \ {k} : s.queues[j] = r.queues[j]
  BY <1>2 DEF RunState
<1>5. Entries(s.pullRequests) = Entries(r.pullRequests) \cup {k}
  BY <1>2, EntriesSend DEF RunState
<1> QED BY <1>2, <1>3, <1>4, <1>5, ZenonT(30) DEF Requested, s

\* A queue that is made active and enqueued.
Activated(r, k, D) ==
  [r EXCEPT !.queues[k].phase = "active", !.activeQueues = @ + 1, !.deferred = D]

LEMMA ActivateFlow ==
  ASSUME NEW r \in RunState, NEW k \in Queues, NEW D \in Seq(Queues), Parked(r.queues[k]),
         ~enqueuePullLocked(Activated(r, k, D), k).err
  PROVE  LET s == enqueuePullLocked(Activated(r, k, D), k) IN
         /\ Schedules(r, s) /\ Requested(s, k)
         /\ s.deferred = D /\ \A j \in Queues \ {k} : s.queues[j] = r.queues[j]
<1> DEFINE t == Activated(r, k, D)
           s == enqueuePullLocked(t, k)
           q == [r.queues[k] EXCEPT !.phase = "active"]
<1>1. t \in RunState
  <2>1. r.queues[k].phase # "active"
    BY DEF Parked
  <2> QED BY <2>1, ActivateFacts, ZenonT(30) DEF Activated
<1>2. /\ t.queues = [r.queues EXCEPT ![k] = q] /\ t.deferred = D
      /\ t.pullRequests = r.pullRequests
  BY DEF RunState, Activated
<1>a. ~enqueuePullLocked(t, k).err
  OBVIOUS
<1> HIDE DEF t
<1>3. /\ q.phase = "active" /\ ~q.pullQueued
      /\ ~q.pullInFlight /\ ~q.pullSent /\ ~q.processing
  BY ZenonT(30) DEF RunState, QueueState, Parked
<1> HIDE DEF q
<1>4. t.queues[k] = q /\ \A j \in Queues \ {k} : t.queues[j] = r.queues[j]
  BY <1>2 DEF RunState
<1>5. /\ Entries(t.pullRequests) \subseteq Entries(s.pullRequests)
      /\ \A j \in Queues \ {k} : s.queues[j] = t.queues[j]
      /\ s.deferred = t.deferred
      /\ Requested(s, k)
  BY <1>1, <1>a, <1>3, <1>4, EnqueueFlow, ZenonT(30)
<1> HIDE DEF s
<1>6. Schedules(r, s)
  BY <1>2, <1>3, <1>4, <1>5, ZenonT(30) DEF Schedules, Scheduled, SameFlags
<1> QED BY <1>2, <1>4, <1>5, <1>6, ZenonT(30) DEF s, t

\* activateOrDeferLocked for a queue that is parked.
LEMMA ActivateOrDeferFlow ==
  ASSUME NEW r \in RunState, NEW k \in Queues, Parked(r.queues[k]),
         ~activateOrDeferLocked(r, k).err
  PROVE  LET s == activateOrDeferLocked(r, k) IN
         /\ Schedules(r, s)
         /\ \A j \in Queues \ {k} : s.queues[j] = r.queues[j]
         /\ \/ r.activeQueues < MaxActiveQueues /\ s.deferred = r.deferred /\ Requested(s, k)
            \/ /\ ~(r.activeQueues < MaxActiveQueues) /\ s.deferred = Append(r.deferred, k)
               /\ s.queues[k].phase = "deferred" /\ Parked(s.queues[k])
<1> DEFINE s == activateOrDeferLocked(r, k)
<1>1. CASE r.activeQueues < MaxActiveQueues
  <2> DEFINE t == [r EXCEPT !.queues[k].phase = "active", !.activeQueues = @ + 1]
  <2>1. t = Activated(r, k, r.deferred)
    BY ZenonT(30) DEF RunState, Activated
  <2>2. s = enqueuePullLocked(t, k)
    BY <1>1 DEF activateOrDeferLocked
  <2>3. r.deferred \in Seq(Queues)
    BY DEF RunState
  <2> HIDE DEF t
  <2> QED BY <1>1, <2>1, <2>2, <2>3, ActivateFlow
<1>2. CASE ~(r.activeQueues < MaxActiveQueues)
  <2> DEFINE u == [r EXCEPT !.queues[k].phase = "deferred", !.deferred = Append(@, k)]
             q == [r.queues[k] EXCEPT !.phase = "deferred"]
  <2>1. [r EXCEPT !.queues[k].phase = "deferred", !.err = TRUE].err
    BY ZenonT(30) DEF RunState
  <2>2. s = u
    BY <1>2, <2>1, ZenonT(30) DEF activateOrDeferLocked
  <2>3. /\ u.queues = [r.queues EXCEPT ![k] = q] /\ u.deferred = Append(r.deferred, k)
        /\ u.pullRequests = r.pullRequests
    BY DEF RunState
  <2> HIDE DEF u
  <2>4. Parked(q) /\ q.phase = "deferred"
    BY ZenonT(30) DEF RunState, QueueState, Parked
  <2> HIDE DEF q
  <2>5. u.queues[k] = q /\ \A j \in Queues \ {k} : u.queues[j] = r.queues[j]
    BY <2>3 DEF RunState
  <2>6. Schedules(r, u)
    BY <2>3, <2>4, <2>5, ZenonT(30) DEF Schedules, Scheduled, SameFlags
  <2> QED BY <1>2, <2>2, <2>3, <2>4, <2>5, <2>6, ZenonT(30)
<1> QED BY <1>1, <1>2, ZenonT(30)

\* The entry that promoteDeferredLocked activates is the first that is still deferred.
LEMMA FirstWaiting ==
  ASSUME NEW r \in RunState,
         NEW W, W = {i \in 1..Len(r.deferred) : r.queues[r.deferred[i]].phase = "deferred"},
         W # {}
  PROVE  LET first == CHOOSE i \in W : \A j \in W : i <= j IN
         first \in W /\ \A j \in W : first <= j
<1>1. W \in SUBSET Nat
  OBVIOUS
<1>2. \E i \in W : \A j \in W : i <= j
  <2> DEFINE R == OpToRel(<, Nat)
  <2>1. \A i, j \in Nat : j < i => <<j, i>> \in R
    BY Zenon DEF OpToRel
  <2>2. \E i \in W : \A j \in W : ~(<<j, i>> \in R)
    BY <1>1, NatLessThanWellFounded, WFMin, ZenonT(30)
  <2> HIDE DEF R
  <2>3. PICK i \in W : \A j \in W : ~(<<j, i>> \in R)
    BY <2>2, ZenonT(30)
  <2>4. ASSUME NEW j \in W PROVE i <= j
    <3>1. i \in Nat /\ j \in Nat /\ ~(<<j, i>> \in R)
      BY <1>1, <2>3, ZenonT(30)
    <3>2. ~(j < i)
      BY <2>1, <3>1, ZenonT(30)
    <3> QED BY <3>1, <3>2
  <2> QED BY <2>4
<1> QED BY <1>2, ZenonT(30)

\* promoteDeferredLocked when the deferred queues are parked.
LEMMA PromoteFlow ==
  ASSUME NEW r \in RunState, \A j \in Queues : r.queues[j].phase = "deferred" => Parked(r.queues[j]),
         ~promoteDeferredLocked(r).err
  PROVE  LET s == promoteDeferredLocked(r) IN
         /\ Schedules(r, s)
         /\ \A j \in Queues : s.queues[j] = r.queues[j] \/ r.queues[j].phase = "deferred"
<1> DEFINE s == promoteDeferredLocked(r)
           waiting == {i \in 1..Len(r.deferred) : r.queues[r.deferred[i]].phase = "deferred"}
           first == CHOOSE i \in waiting : \A j \in waiting : i <= j
           D == SubSeq(r.deferred, first + 1, Len(r.deferred))
           k == r.deferred[first]
           t == Activated(r, k, D)
           e == [r EXCEPT !.deferred = <<>>]
<1>1. s = r \/ s = e \/ (waiting # {} /\ s = enqueuePullLocked(t, k))
  BY Zenon DEF promoteDeferredLocked, Activated
<1>2. CASE s = r
  BY <1>2 DEF Schedules, Scheduled, SameFlags
<1>3. CASE s = e
  <2>1. e.queues = r.queues /\ e.pullRequests = r.pullRequests
    BY DEF RunState
  <2> QED BY <1>3, <2>1 DEF Schedules, Scheduled, SameFlags
<1>4. CASE waiting # {} /\ s = enqueuePullLocked(t, k)
  <2>1. first \in waiting
    <3> HIDE DEF waiting
    <3> QED BY <1>4, FirstWaiting, ZenonT(30) DEF waiting
  <2>2. k \in Queues /\ r.queues[k].phase = "deferred" /\ D \in Seq(Queues)
    <3>1. first \in 1..Len(r.deferred) /\ r.queues[r.deferred[first]].phase = "deferred"
      BY <2>1, ZenonT(60)
    <3> HIDE DEF first
    <3> QED BY <3>1, SMTT(30) DEF RunState
  <2> HIDE DEF k, D, s, waiting
  <2>3. Parked(r.queues[k])
    BY <2>2
  <2>4. ~enqueuePullLocked(t, k).err
    BY <1>4 DEF s
  <2>5. Schedules(r, s) /\ \A j \in Queues \ {k} : s.queues[j] = r.queues[j]
    BY <1>4, <2>2, <2>3, <2>4, ActivateFlow, ZenonT(30)
  <2> QED BY <2>2, <2>5 DEF s
<1> HIDE DEF s, waiting, t, k, e
<1> QED BY <1>1, <1>2, <1>3, <1>4, ZenonT(30) DEF s

\* The critical section of processBatch for a queue whose only flag is processing.
LEMMA AdvanceFlow ==
  ASSUME NEW r \in RunState, NEW d \in Batch, ActiveCounted(r),
         \A j \in Queues : r.queues[j].phase = "deferred" => Parked(r.queues[j]),
         r.queues[d.q].phase = "active", ~r.queues[d.q].pullQueued,
         ~r.queues[d.q].pullInFlight, ~r.queues[d.q].pullSent,
         ~advanceQueue(r, d).err
  PROVE  LET s == advanceQueue(r, d) IN
         /\ Entries(r.pullRequests) \subseteq Entries(s.pullRequests)
         /\ \A j \in Queues \ {d.q} :
              /\ Scheduled(r, s, j)
              /\ s.queues[j] = r.queues[j] \/ r.queues[j].phase = "deferred"
         /\ \/ Requested(s, d.q)
            \/ /\ Parked(s.queues[d.q]) /\ s.queues[d.q].phase = "idle"
               /\ d.isLast \/ d.nextKey = 0
               /\ ~r.queues[d.q].noticePending
<1> DEFINE k == d.q
           q == [r.queues[k] EXCEPT !.processing = FALSE,
                                    !.key = IF d.nextKey # 0 THEN d.nextKey ELSE @]
           qa == [q EXCEPT !.noticePending = FALSE]
           qi == [q EXCEPT !.phase = "idle"]
           again == [r EXCEPT !.queues[k] = qa]
           idle == [r EXCEPT !.queues[k] = qi, !.activeQueues = @ - 1]
           rest == (d.isLast \/ d.nextKey = 0) /\ ~r.queues[k].noticePending
<1>1. k \in Queues /\ r.queues[k] \in QueueState /\ d.nextKey \in Nat /\ r.activeQueues \in Nat
  BY DEF Batch, RunState
<1>2. /\ q \in QueueState /\ q.phase = "active" /\ q.noticePending = r.queues[k].noticePending
      /\ ~q.pullQueued /\ ~q.pullInFlight /\ ~q.pullSent /\ ~q.processing
  BY <1>1, ZenonT(30) DEF QueueState
<1>3. /\ rest => advanceQueue(r, d) = promoteDeferredLocked(idle)
      /\ ~rest => advanceQueue(r, d) = enqueuePullLocked(again, k)
  BY <1>2, Zenon DEF advanceQueue
<1> HIDE DEF q
<1>4. /\ qa \in QueueState /\ qa.phase = "active" /\ ~qa.noticePending
      /\ ~qa.pullQueued /\ ~qa.pullInFlight /\ ~qa.pullSent /\ ~qa.processing
  BY <1>2, ZenonT(30) DEF QueueState
<1>5. qi \in QueueState /\ Parked(qi) /\ qi.phase = "idle"
  BY <1>2, ZenonT(30) DEF QueueState, Parked, Phases
<1> HIDE DEF qa, qi, k
<1>6. /\ again \in RunState /\ again.pullRequests = r.pullRequests
      /\ again.queues = [r.queues EXCEPT ![k] = qa]
  <2>1. [r.queues EXCEPT ![k] = qa] \in [Queues -> QueueState]
    BY <1>1, <1>4 DEF RunState
  <2> QED BY <1>1, <2>1, ZenonT(30) DEF RunState
<1>7. /\ idle \in RunState /\ idle.pullRequests = r.pullRequests
      /\ idle.queues = [r.queues EXCEPT ![k] = qi]
  <2>1. [r.queues EXCEPT ![k] = qi] \in [Queues -> QueueState]
    BY <1>1, <1>5, ZenonT(30) DEF RunState
  <2>2. r.activeQueues - 1 \in Nat
    <3>1. k \in ActiveSet(r)
      BY <1>1 DEF ActiveSet, k
    <3>2. Cardinality(ActiveSet(r)) # 0
      BY <3>1, ActiveSetFinite, FS_EmptySet, ZenonT(30)
    <3> QED BY <1>1, <3>2 DEF ActiveCounted
  <2> QED BY <1>1, <2>1, <2>2, ZenonT(30) DEF RunState
<1> HIDE DEF again, idle
<1>8. /\ again.queues[k] = qa /\ \A j \in Queues \ {k} : again.queues[j] = r.queues[j]
      /\ idle.queues[k] = qi /\ \A j \in Queues \ {k} : idle.queues[j] = r.queues[j]
  BY <1>1, <1>6, <1>7, ZenonT(30) DEF RunState
<1> DEFINE s == advanceQueue(r, d)
<1>9. CASE ~rest
  <2>1. s = enqueuePullLocked(again, k)
    BY <1>3, <1>9, ZenonT(30)
  <2>2. ~enqueuePullLocked(again, k).err
    BY <2>1
  <2> HIDE DEF s, rest
  <2>3. /\ Entries(again.pullRequests) \subseteq Entries(s.pullRequests)
        /\ \A j \in Queues \ {k} : s.queues[j] = again.queues[j]
        /\ Requested(s, k)
    BY <1>1, <1>4, <1>6, <1>8, <2>1, <2>2, EnqueueFlow, ZenonT(30)
  <2> QED BY <1>6, <1>8, <2>3, ZenonT(30) DEF Scheduled, SameFlags, s, k
<1>10. CASE rest
  <2>1. s = promoteDeferredLocked(idle)
    BY <1>3, <1>10, ZenonT(30)
  <2>2. ~promoteDeferredLocked(idle).err
    BY <2>1
  <2>3. \A j \in Queues : idle.queues[j].phase = "deferred" => Parked(idle.queues[j])
    BY <1>5, <1>8
  <2> HIDE DEF s
  <2>4. /\ Schedules(idle, s)
        /\ \A j \in Queues : s.queues[j] = idle.queues[j] \/ idle.queues[j].phase = "deferred"
    BY <1>7, <2>1, <2>2, <2>3, PromoteFlow, ZenonT(30)
  <2>5. s.queues[k] = qi
    BY <1>1, <1>5, <1>8, <2>4, ZenonT(30)
  <2>6. \A j \in Queues \ {k} : /\ Scheduled(r, s, j)
                                /\ s.queues[j] = r.queues[j] \/ r.queues[j].phase = "deferred"
    BY <1>8, <2>4, ZenonT(30) DEF Schedules, Scheduled, SameFlags
  <2>7. Entries(r.pullRequests) \subseteq Entries(s.pullRequests)
    BY <1>7, <2>4 DEF Schedules
  <2>8. d.isLast \/ d.nextKey = 0
    BY <1>10
  <2>9. ~r.queues[k].noticePending
    BY <1>10
  <2> HIDE DEF rest
  <2>10. Parked(s.queues[k]) /\ s.queues[k].phase = "idle"
    BY <1>5, <2>5
  <2> QED BY <2>6, <2>7, <2>8, <2>9, <2>10, ZenonT(30) DEF s, k
<1> QED BY <1>9, <1>10, ZenonT(30)

-----------------------------------------------------------------------------
(* Between the runs *)

LEMMA RestInit == Init => RestInv
  BY DEF Init, RestInv

\* Nothing touches a run that is finalized.
LEMMA RestStep == ActiveInv /\ RestInv /\ [Next]_vars => RestInv'
<1> SUFFICES ASSUME ActiveInv, RestInv, [Next]_vars PROVE RestInv'
  OBVIOUS
<1>1. CASE UNCHANGED vars
  BY <1>1, Zenon DEF RestInv, vars, clientVars
<1>2. CASE Server
  <2>1. UNCHANGED <<run, alive, finalized, lifetime, pw>>
    BY <1>2, ZenonT(30) DEF Server, ServerLog, ServerRepeat, ServerPush, ServerReply, clientVars
  <2> QED BY <2>1, Zenon DEF RestInv
<1>3. CASE Reader
  <2>1. UNCHANGED <<finalized, lifetime, pw>> /\ (alive' = alive \/ alive' = FALSE)
    BY <1>3, ZenonT(30) DEF Reader, startQueue, handleBatchAccept, handleBatchEnqueue,
       handleBatchReject, dispatchInvalid, readerFails, readVars, clientVars
  <2>2. finalized => run' = run
    <3>1. rd.stage = "admit" => ~finalized
      BY ZenonT(30) DEF ActiveInv, HolderIsBusy
    <3> QED BY <1>3, <3>1, ZenonT(30) DEF Reader, startQueue, handleBatchAccept, handleBatchEnqueue,
           handleBatchReject, dispatchInvalid, readerFails
  <2> QED BY <2>1, <2>2 DEF RestInv
<1>4. ASSUME NEW w \in PullWorkers, pullWorker(w) PROVE RestInv'
  <2>1. UNCHANGED <<finalized, lifetime>>
    BY <1>4, ZenonT(30) DEF pullWorker, pullWorkerTake, executePullBegin, sendPull, executePullSent,
       executePullError, pullWorkerFails, pullVars, clientVars
  <2>2. finalized => pw[w] = Idle /\ ~alive
    BY Zenon DEF RestInv
  <2>a. Idle.stage = "idle" /\ Idle # Failing
    BY DEF Idle, Failing
  <2>3. ~finalized
    BY <1>4, <2>2, <2>a, ZenonT(30) DEF pullWorker, pullWorkerTake, executePullBegin, sendPull, executePullSent,
       executePullError, pullWorkerFails
  <2> QED BY <2>1, <2>3, Zenon DEF RestInv
<1>5. ASSUME NEW w \in BatchWorkers, batchWorker(w) PROVE RestInv'
  <2>1. UNCHANGED <<finalized, lifetime, pw>> /\ (alive' = alive \/ alive' = FALSE)
    BY <1>5, ZenonT(30) DEF batchWorker, batchWorkerTake, processMeta, processBatchAbandon,
       processBatch, batchWorkerFails, workVars, clientVars
  <2>2. finalized => run' = run
    BY <1>5, ZenonT(30) DEF batchWorker, batchWorkerTake, processMeta, processBatchAbandon,
       processBatch, batchWorkerFails
  <2> QED BY <2>1, <2>2 DEF RestInv
<1>6. CASE Ending
  <2>1. CASE fail \/ \E k \in Queues : pullResponseWatchdog(k)
    BY <2>1 DEF RestInv, fail, pullResponseWatchdog
  <2>2. CASE finalizeQueues
    BY <2>2, ZenonT(30) DEF RestInv, finalizeQueues
  <2>3. CASE nextRun
    BY <2>3, ZenonT(30) DEF RestInv, nextRun
  <2>4. CASE Close \/ finalizeClose
    BY <2>4 DEF RestInv, Close, finalizeClose
  <2>5. CASE drainBatchJobs
    BY <2>5, ZenonT(30) DEF RestInv, drainBatchJobs, workVars, clientVars
  <2> QED BY <1>6, <2>1, <2>2, <2>3, <2>4, <2>5, ZenonT(30) DEF Ending
<1> QED BY <1>1, <1>2, <1>3, <1>4, <1>5, <1>6, ZenonT(30) DEF Next

-----------------------------------------------------------------------------
(* The flags and the work that backs them: readPump and the server *)

\* A queue whose flags stay as they are, while its work goes on.
LEMMA FlowKept ==
  ASSUME NEW k \in Queues, FlowOK(k), SameFlags(run.queues[k], run'.queues[k]),
         run.queues[k].pullQueued /\ PullIsQueued(k) => PullIsQueued(k)',
         run.queues[k].pullInFlight /\ PullIsInFlight(k) => PullIsInFlight(k)',
         run.queues[k].pullInFlight /\ Sending(k) => Sending(k)' \/ run.queues[k].pullSent,
         run.queues[k].processing /\ BatchIsProcessed(k) => BatchIsProcessed(k)'
  PROVE  FlowOK(k)'
  BY ZenonT(30) DEF FlowOK, SameFlags

\* A queue that a helper may have scheduled.
LEMMA FlowScheduled ==
  ASSUME NEW k \in Queues, FlowOK(k), Scheduled(run, run', k),
         Entries(run.pullRequests) \subseteq Entries(run'.pullRequests), pw' = pw,
         run.queues[k].pullInFlight /\ PullIsInFlight(k) => PullIsInFlight(k)',
         run.queues[k].processing /\ BatchIsProcessed(k) => BatchIsProcessed(k)'
  PROVE  FlowOK(k)'
<1>1. PullIsQueued(k) => PullIsQueued(k)'
  BY Zenon DEF PullIsQueued
<1>2. Sending(k) => Sending(k)'
  BY Zenon DEF Sending
<1>3. CASE SameFlags(run.queues[k], run'.queues[k])
  BY <1>1, <1>2, <1>3, FlowKept, ZenonT(30)
<1>4. CASE Parked(run'.queues[k])
  BY <1>4, ZenonT(30) DEF FlowOK, Parked
<1>5. CASE Requested(run', k)
  <2>1. PullIsQueued(k)'
    BY <1>5, Zenon DEF PullIsQueued, Requested
  <2> QED BY <1>5, <2>1 DEF FlowOK, Requested
<1> QED BY <1>3, <1>4, <1>5, ZenonT(30) DEF Scheduled

\* The flags are exclusive.
LEMMA FlowFlags ==
  ASSUME NEW k \in Queues, FlowOK(k)
  PROVE  /\ run.queues[k].phase # "active" => Parked(run.queues[k])
         /\ run.queues[k].processing => /\ run.queues[k].phase = "active"
                                        /\ ~run.queues[k].pullQueued
                                        /\ ~run.queues[k].pullInFlight
                                        /\ ~run.queues[k].pullSent
  BY DEF FlowOK, Parked

\* The server answers every pull, with a page of its queue or an error.
LEMMA ServerFlow ==
  ASSUME TypeOK, FlowInv, Server, alive', ~Doomed'
  PROVE  \A k \in Queues : FlowOK(k)'
<1>1. UNCHANGED <<run, gen, alive, rd, pw, bw, batches>>
  BY ZenonT(30) DEF Server, ServerLog, ServerRepeat, ServerPush, ServerReply, clientVars
<1>2. \A k \in Queues : FlowOK(k)
  BY <1>1, Zenon DEF FlowInv, Doomed
<1>3. toClient \in Seq(Frame) /\ toServer \in Seq(Pull) /\ confirmed \in [Queues -> Nat]
  BY DEF TypeOK
<1>4. ASSUME NEW f \in Frame, toClient' = Append(toClient, f)
      PROVE  Entries(toClient') = Entries(toClient) \cup {f}
  BY <1>3, <1>4, EntriesSend
<1>5. ASSUME toServer' = toServer, Entries(toClient) \subseteq Entries(toClient'), NEW k \in Queues
      PROVE  PullIsInFlight(k) => PullIsInFlight(k)'
  BY <1>1, <1>5, Zenon DEF PullIsInFlight
<1>6. ASSUME NEW k \in Queues PROVE PullIsInFlight(k) => PullIsInFlight(k)'
  <2>1. ASSUME NEW j \in Queues, NEW w \in Weights, ServerLog(j, w) \/ ServerRepeat(j, w)
        PROVE  PullIsInFlight(k) => PullIsInFlight(k)'
    <3> DEFINE f == [type |-> "notice", q |-> j, weight |-> w]
    <3>1. f \in Frame
      BY DEF Frame, Notice
    <3>2. toServer' = toServer /\ (toClient' = Append(toClient, f) \/ toClient' = toClient)
      BY <2>1 DEF ServerLog, ServerRepeat
    <3> HIDE DEF f
    <3>3. Entries(toClient) \subseteq Entries(toClient')
      BY <1>4, <3>1, <3>2, ZenonT(30)
    <3> QED BY <1>5, <3>2, <3>3, Zenon
  <2>2. ASSUME NEW j \in Queues, ServerPush(j) PROVE PullIsInFlight(k) => PullIsInFlight(k)'
    <3>1. toServer' = toServer
      BY <2>2, ZenonT(30) DEF ServerPush
    <3>2. PICK d \in Pages(j, confirmed[j]) : toClient' = Append(toClient, d)
      BY <2>2 DEF ServerPush
    <3>3. d \in Frame
      BY <1>3, PagesType DEF Frame
    <3>4. Entries(toClient) \subseteq Entries(toClient')
      BY <1>4, <3>2, <3>3, ZenonT(30)
    <3> QED BY <1>5, <3>1, <3>4, Zenon
  <2>3. ASSUME ServerReply PROVE PullIsInFlight(k) => PullIsInFlight(k)'
    <3> DEFINE p == Head(toServer)
               lo == IF p.key = 0 THEN confirmed[p.q] ELSE p.key
    <3>1. /\ toServer # <<>> /\ toServer' = Tail(toServer)
          /\ \/ \E d \in Pages(p.q, lo) : toClient' = Append(toClient, d)
             \/ toClient' = Append(toClient, [type |-> "invalid"])
      BY <2>3 DEF ServerReply
    <3>2. p \in Pull /\ Entries(toServer) = {p} \cup Entries(toServer')
      BY <1>3, <3>1, EntriesReceive
    <3>3. p.q \in Queues /\ lo \in Nat
      BY <1>3, <3>2, ZenonT(30) DEF Pull
    <3> HIDE DEF p, lo
    <3>4. PICK f \in Frame : /\ toClient' = Append(toClient, f)
                             /\ f.type = "invalid" \/ (f.type = "batch" /\ f.q = p.q)
      <4>1. CASE toClient' = Append(toClient, [type |-> "invalid"])
        <5>1. [type |-> "invalid"] \in Frame /\ [type |-> "invalid"].type = "invalid"
          BY DEF Frame, Invalid
        <5> QED BY <4>1, <5>1, Zenon
      <4>2. ASSUME NEW d \in Pages(p.q, lo), toClient' = Append(toClient, d)
            PROVE  \E f \in Frame : /\ toClient' = Append(toClient, f)
                                    /\ f.type = "invalid" \/ (f.type = "batch" /\ f.q = p.q)
        <5>1. d \in Frame
          BY <3>3, PagesType, ZenonT(30) DEF Frame
        <5>2. d.type = "batch" /\ d.q = p.q
          BY DEF Pages
        <5> QED BY <4>2, <5>1, <5>2, Zenon
      <4> QED BY <3>1, <4>1, <4>2, Zenon
    <3>5. Entries(toClient') = Entries(toClient) \cup {f}
      BY <1>4, <3>4
    <3>6. f \in Entries(toClient') /\ Entries(toClient) \subseteq Entries(toClient')
      BY <3>5, ZenonT(30)
    <3>7. \A x \in Entries(toServer) : x = p \/ x \in Entries(toServer')
      BY <3>2
    <3> QED BY <1>1, <3>4, <3>6, <3>7, ZenonT(30) DEF PullIsInFlight
  <2> QED BY <2>1, <2>2, <2>3, Zenon DEF Server
<1>7. ASSUME NEW k \in Queues PROVE FlowOK(k)'
  <2>1. /\ PullIsQueued(k) => PullIsQueued(k)'
        /\ Sending(k) => Sending(k)'
        /\ BatchIsProcessed(k) => BatchIsProcessed(k)'
    BY <1>1, ZenonT(30) DEF PullIsQueued, Sending, BatchIsProcessed
  <2>2. SameFlags(run.queues[k], run'.queues[k])
    BY <1>1 DEF SameFlags
  <2> QED BY <1>2, <1>6, <2>1, <2>2, FlowKept, Zenon
<1> QED BY <1>7

\* startQueue for a known queue, when it does not fail.
LEMMA StartKnownFlow ==
  ASSUME TypeOK, NEW f \in Notice, run.queues[f.q].phase # "unknown", startKnown(f),
         rd' # Failing, run.queues[f.q].phase # "active" => Parked(run.queues[f.q])
  PROVE  /\ Schedules(run, run')
         /\ \A j \in Queues \ {f.q} : run'.queues[j] = run.queues[j]
         /\ run'.queues[f.q].phase \in {"active", "deferred"}
         /\ run.queues[f.q].phase = "active" => run'.queues[f.q].noticePending
<1> DEFINE k == f.q
           q == run.queues[k]
           delta == IF f.weight > q.weight THEN f.weight - q.weight ELSE 0
           g == [q EXCEPT !.weight = @ + delta]
           n == [g EXCEPT !.noticePending = TRUE]
           grown == [run EXCEPT !.queues[k].weight = @ + delta, !.used = @ + delta]
           noticed == [grown EXCEPT !.queues[k].noticePending = TRUE]
           r == CASE q.phase = "active" -> noticed
                  [] q.phase = "deferred" -> grown
                  [] q.phase = "idle" -> activateOrDeferLocked(grown, k)
<1>1. run \in RunState /\ k \in Queues /\ f.weight \in Nat
  BY ConstantsAssumption, ZenonT(30) DEF TypeOK, Notice
<1>2. q \in QueueState /\ q.weight \in Nat
  BY <1>1 DEF RunState, QueueState
<1>3. delta \in Nat /\ q.weight + delta \in Nat /\ run.used + delta \in Nat
  <2>1. run.used \in Nat
    BY <1>1 DEF RunState
  <2> HIDE DEF q
  <2> QED BY <1>1, <1>2, <2>1
<1>4. /\ run' = [r EXCEPT !.err = FALSE]
      /\ ~r.err
  <2>1. /\ commit(r)
        /\ rd' = IF r.err THEN Failing ELSE Idle
    BY ZenonT(30) DEF startKnown
  <2> HIDE DEF r
  <2> QED BY <2>1 DEF commit
<1> HIDE DEF delta
<1>5. g \in QueueState /\ SameFlags(q, g)
  BY <1>2, <1>3, ZenonT(30) DEF QueueState, SameFlags
<1>6. n \in QueueState /\ SameFlags(q, n) /\ n.noticePending
  <2> HIDE DEF g
  <2> QED BY <1>5, ZenonT(30) DEF QueueState, SameFlags
<1>7. /\ grown \in RunState /\ grown.pullRequests = run.pullRequests
      /\ grown.queues = [run.queues EXCEPT ![k] = g]
  <2>1. [run.queues EXCEPT ![k] = g] \in [Queues -> QueueState]
    BY <1>1, <1>5 DEF RunState
  <2> QED BY <1>1, <1>3, <2>1, ZenonT(30) DEF RunState
<1>8. /\ noticed.pullRequests = run.pullRequests /\ noticed \in RunState
      /\ noticed.queues = [grown.queues EXCEPT ![k] = n]
  <2> HIDE DEF grown, g, k
  <2>a. grown.queues[k] = g
    BY <1>1, <1>7, ZenonT(30) DEF RunState
  <2>1. n = [grown.queues[k] EXCEPT !.noticePending = TRUE]
    BY <2>a
  <2> HIDE DEF n
  <2>2. [grown.queues EXCEPT ![k] = n] \in [Queues -> QueueState]
    BY <1>1, <1>6, <1>7, Zenon DEF RunState
  <2> QED BY <1>1, <1>7, <2>1, <2>2, ZenonT(30) DEF RunState
<1> HIDE DEF g, n, grown, noticed, k
<1>9. /\ grown.queues[k] = g /\ \A j \in Queues \ {k} : grown.queues[j] = run.queues[j]
      /\ noticed.queues[k] = n /\ \A j \in Queues \ {k} : noticed.queues[j] = run.queues[j]
  BY <1>1, <1>7, <1>8, ZenonT(30) DEF RunState
<1>10. q.phase \in {"active", "deferred", "idle"}
  BY <1>2 DEF QueueState, Phases, k
<1>11. /\ r \in RunState
       /\ Schedules(run, r) /\ \A j \in Queues \ {k} : r.queues[j] = run.queues[j]
       /\ r.queues[k].phase \in {"active", "deferred"}
       /\ q.phase = "active" => r.queues[k].noticePending
  <2>1. CASE q.phase = "active"
    <3>1. r = noticed
      BY <2>1
    <3> HIDE DEF r
    <3>2. Schedules(run, r)
      BY <1>6, <1>8, <1>9, <3>1, ZenonT(30) DEF Schedules, Scheduled, SameFlags
    <3>3. n.phase = "active"
      BY <1>6, <2>1, Zenon DEF SameFlags
    <3> HIDE DEF q
    <3> QED BY <1>6, <1>8, <1>9, <3>1, <3>2, <3>3, ZenonT(30)
  <2>2. CASE q.phase = "deferred"
    <3>1. r = grown
      BY <2>2
    <3> HIDE DEF r
    <3>2. Schedules(run, r)
      BY <1>5, <1>7, <1>9, <3>1, ZenonT(30) DEF Schedules, Scheduled, SameFlags
    <3>3. g.phase = "deferred"
      BY <1>5, <2>2, Zenon DEF SameFlags
    <3> HIDE DEF q
    <3> QED BY <1>7, <1>9, <2>2, <3>1, <3>2, <3>3, ZenonT(30)
  <2>3. CASE q.phase = "idle"
    <3>1. r = activateOrDeferLocked(grown, k)
      BY <2>3, ZenonT(30)
    <3>2. Parked(grown.queues[k]) /\ Parked(run.queues[k])
      BY <1>5, <1>9, <2>3 DEF Parked, SameFlags, k
    <3> HIDE DEF r
    <3>3. ~activateOrDeferLocked(grown, k).err
      BY <1>4, <3>1, Zenon
    <3>4. /\ Schedules(grown, r)
          /\ \A j \in Queues \ {k} : r.queues[j] = grown.queues[j]
          /\ Requested(r, k) \/ (r.queues[k].phase = "deferred" /\ Parked(r.queues[k]))
      BY <1>1, <1>7, <3>1, <3>2, <3>3, ActivateOrDeferFlow, ZenonT(30)
    <3>5. r \in RunState
      BY <1>1, <1>7, <3>1, <3>2, ActivateOrDeferFacts, ZenonT(30) DEF Parked
    <3>6. Schedules(run, r)
      BY <1>7, <1>9, <3>2, <3>4, ZenonT(30) DEF Schedules, Scheduled, SameFlags
    <3> QED BY <1>9, <2>3, <3>4, <3>5, <3>6, ZenonT(30) DEF Requested
  <2> QED BY <1>10, <2>1, <2>2, <2>3, Zenon
<1> HIDE DEF r, q
<1>12. run'.queues = r.queues /\ run'.pullRequests = r.pullRequests
  BY <1>4, <1>11, ZenonT(30) DEF RunState
<1> QED BY <1>11, <1>12, ZenonT(30) DEF Schedules, Scheduled, Requested, k, q

\* startQueue for a new queue, when it does not fail.
LEMMA StartNewFlow ==
  ASSUME TypeOK, NEW f \in Notice, startNew(f), rd' # Failing, Parked(run.queues[f.q])
  PROVE  /\ Schedules(run, run')
         /\ \A j \in Queues \ {f.q} : run'.queues[j] = run.queues[j]
         /\ run'.queues[f.q].phase \in {"active", "deferred"}
<1> DEFINE k == f.q
           q == [newQueueState EXCEPT !.phase = "idle", !.weight = f.weight]
           inserted == [run EXCEPT !.queues[k] = q, !.used = @ + f.weight]
           r == activateOrDeferLocked(inserted, k)
<1>1. run \in RunState /\ k \in Queues /\ f.weight \in Nat
  BY ConstantsAssumption, ZenonT(30) DEF TypeOK, Notice
<1>2. run' = [r EXCEPT !.err = FALSE] /\ ~r.err
  BY ZenonT(30) DEF startNew, commit
<1>3. q \in QueueState /\ Parked(q)
  BY <1>1, ZenonT(30) DEF newQueueState, QueueState, Phases, Parked
<1> HIDE DEF q
<1>4. /\ inserted \in RunState /\ inserted.pullRequests = run.pullRequests
      /\ inserted.queues = [run.queues EXCEPT ![k] = q]
  <2>1. [run.queues EXCEPT ![k] = q] \in [Queues -> QueueState]
    BY <1>1, <1>3, ZenonT(30) DEF RunState
  <2>2. run.used + f.weight \in Nat
    BY <1>1 DEF RunState
  <2> QED BY <1>1, <2>1, <2>2, ZenonT(30) DEF RunState
<1> HIDE DEF inserted, k
<1>5. inserted.queues[k] = q /\ \A j \in Queues \ {k} : inserted.queues[j] = run.queues[j]
  BY <1>1, <1>4 DEF RunState
<1>6. /\ Schedules(inserted, r)
      /\ \A j \in Queues \ {k} : r.queues[j] = inserted.queues[j]
      /\ Requested(r, k) \/ (r.queues[k].phase = "deferred" /\ Parked(r.queues[k]))
  BY <1>1, <1>2, <1>3, <1>4, <1>5, ActivateOrDeferFlow, ZenonT(30)
<1>7. r \in RunState
  BY <1>1, <1>3, <1>4, <1>5, ActivateOrDeferFacts, ZenonT(30) DEF Parked
<1> HIDE DEF r
<1>8. Schedules(run, r) /\ r.queues[k].phase \in {"active", "deferred"}
  <2>1. Parked(run.queues[k])
    BY DEF k
  <2>2. Schedules(run, r)
    BY <1>4, <1>5, <1>6, <2>1, ZenonT(30) DEF Schedules, Scheduled, SameFlags
  <2> QED BY <1>6, <2>2, ZenonT(30) DEF Requested
<1>9. run'.queues = r.queues /\ run'.pullRequests = r.pullRequests
  BY <1>2, <1>7 DEF RunState
<1> QED BY <1>5, <1>6, <1>8, <1>9, ZenonT(30) DEF Schedules, Scheduled, Requested, k

\* A step of readPump that does not end in Failing left everybody else's state alone.
LEMMA ReaderSound ==
  ASSUME FlowInv, UNCHANGED <<gen, alive, pw, bw>>, rd # Failing, alive', ~Doomed'
  PROVE  alive /\ (\A k \in Queues : FlowOK(k)) /\ rd' # Failing
<1>1. ~Doomed /\ rd' # Failing
  BY Zenon DEF Doomed
<1>2. alive
  OBVIOUS
<1> QED BY <1>1, <1>2, Zenon DEF FlowInv

\* NOTICE and UNREAD: the reader holds no page, and the frame it drops is no answer.
LEMMA StartQueueFlow ==
  ASSUME ActiveInv, FlowInv, startQueue, alive', ~Doomed'
  PROVE  \A k \in Queues : FlowOK(k)'
<1> DEFINE f == Head(toClient)
<1>0. TypeOK /\ toClient \in Seq(Frame)
  BY DEF ActiveInv, TypeOK
<1>1. /\ UNCHANGED <<gen, alive, pw, bw, batches, toServer>>
      /\ rd = Idle /\ toClient # <<>> /\ toClient' = Tail(toClient) /\ f.type = "notice"
      /\ IF run.queues[f.q].phase = "unknown" THEN startNew(f) ELSE startKnown(f)
  BY DEF startQueue, readVars, clientVars
<1>2. f \in Notice /\ Entries(toClient) = {f} \cup Entries(toClient')
  <2>1. f \in Frame /\ Entries(toClient) = {f} \cup Entries(toClient')
    BY <1>0, <1>1, EntriesReceive
  <2> QED BY <1>1, <2>1, ZenonT(30) DEF Frame, Notice, Invalid, Batch
<1> HIDE DEF f
<1>3. rd # Failing
  BY <1>1 DEF Idle, Failing
<1>4. (\A k \in Queues : FlowOK(k)) /\ rd' # Failing
  BY <1>1, <1>3, ReaderSound, Zenon
<1>5. f.q \in Queues
  BY <1>2 DEF Notice
<1>6. run.queues[f.q].phase # "active" => Parked(run.queues[f.q])
  BY <1>4, <1>5, FlowFlags, Zenon
<1>7. Schedules(run, run')
  <2>1. CASE run.queues[f.q].phase = "unknown"
    BY <1>0, <1>1, <1>2, <1>4, <1>6, <2>1, StartNewFlow, ZenonT(30)
  <2>2. CASE run.queues[f.q].phase # "unknown"
    BY <1>0, <1>1, <1>2, <1>4, <1>6, <2>2, StartKnownFlow, ZenonT(30)
  <2> QED BY <2>1, <2>2
<1>8. ASSUME NEW k \in Queues PROVE FlowOK(k)'
  <2>1. PullIsInFlight(k) => PullIsInFlight(k)'
    <3>1. \A x \in Entries(toClient) : x = f \/ x \in Entries(toClient')
      BY <1>2
    <3> QED BY <1>1, <3>1, ZenonT(30) DEF PullIsInFlight
  <2>2. BatchIsProcessed(k) => BatchIsProcessed(k)'
    <3>1. rd.stage # "admit"
      BY <1>1 DEF Idle
    <3> QED BY <1>1, <3>1, ZenonT(30) DEF BatchIsProcessed
  <2>3. /\ Scheduled(run, run', k)
        /\ Entries(run.pullRequests) \subseteq Entries(run'.pullRequests)
    BY <1>7, Zenon DEF Schedules
  <2> QED BY <1>1, <1>4, <2>1, <2>2, <2>3, FlowScheduled, Zenon
<1> QED BY <1>8

\* The answer to a pull: its queue waits for readPump instead of the wire.
LEMMA HandleBatchAcceptFlow ==
  ASSUME ActiveInv, FlowInv, handleBatchAccept, alive', ~Doomed'
  PROVE  \A k \in Queues : FlowOK(k)'
<1> DEFINE d == Head(toClient)
           q == run.queues[d.q]
           taken == [q EXCEPT !.pullQueued = FALSE, !.pullInFlight = FALSE,
                              !.pullSent = FALSE, !.processing = TRUE]
<1>0. run \in RunState /\ toClient \in Seq(Frame)
  BY ZenonT(30) DEF ActiveInv, TypeOK
<1>1. /\ UNCHANGED <<gen, alive, pw, bw, batches, toServer>>
      /\ rd = Idle /\ toClient # <<>> /\ toClient' = Tail(toClient) /\ d.type = "batch"
      /\ IF q.phase = "active" /\ ~q.processing
           THEN run' = [run EXCEPT !.queues[d.q] = taken] /\ rd' = [stage |-> "admit", d |-> d]
           ELSE UNCHANGED <<run, rd>>
  BY DEF handleBatchAccept, readVars, clientVars
<1>2. d \in Batch /\ Entries(toClient) = {d} \cup Entries(toClient')
  <2>1. d \in Frame /\ Entries(toClient) = {d} \cup Entries(toClient')
    BY <1>0, <1>1, EntriesReceive
  <2> QED BY <1>1, <2>1, ZenonT(30) DEF Frame, Notice, Invalid, Batch
<1> HIDE DEF d
<1>3. rd # Failing /\ rd.stage # "admit"
  BY <1>1 DEF Idle, Failing
<1>4. \A k \in Queues : FlowOK(k)
  BY <1>1, <1>3, ReaderSound, Zenon
<1>5. d.q \in Queues /\ q \in QueueState
  BY <1>0, <1>2 DEF Batch, RunState
<1>6. ASSUME NEW k \in Queues, k # d.q, run'.queues[k] = run.queues[k] PROVE FlowOK(k)'
  <2>1. PullIsInFlight(k) => PullIsInFlight(k)'
    <3>1. \A x \in Entries(toClient) : x = d \/ x \in Entries(toClient')
      BY <1>2
    <3> QED BY <1>1, <1>6, <3>1, ZenonT(30) DEF PullIsInFlight
  <2>2. BatchIsProcessed(k) => BatchIsProcessed(k)'
    BY <1>1, <1>3, ZenonT(30) DEF BatchIsProcessed
  <2>3. Scheduled(run, run', k)
    BY <1>6 DEF Scheduled, SameFlags
  <2>4. Entries(run.pullRequests) \subseteq Entries(run'.pullRequests)
    <3>1. run'.pullRequests = run.pullRequests
      BY <1>0, <1>1, ZenonT(30) DEF RunState
    <3> QED BY <3>1
  <2> QED BY <1>1, <1>4, <2>1, <2>2, <2>3, <2>4, FlowScheduled, Zenon
<1>7. CASE q.phase = "active" /\ ~q.processing
  <2>1. run' = [run EXCEPT !.queues[d.q] = taken] /\ rd' = [stage |-> "admit", d |-> d]
    BY <1>1, <1>7
  <2>2. /\ taken.phase = "active" /\ taken.processing
        /\ ~taken.pullQueued /\ ~taken.pullInFlight /\ ~taken.pullSent
    BY <1>5, <1>7, ZenonT(30) DEF QueueState
  <2> HIDE DEF taken
  <2>3. run'.queues[d.q] = taken /\ \A j \in Queues \ {d.q} : run'.queues[j] = run.queues[j]
    <3>1. run'.queues = [run.queues EXCEPT ![d.q] = taken]
      BY <1>0, <2>1 DEF RunState
    <3> QED BY <1>0, <1>5, <3>1, ZenonT(30) DEF RunState
  <2>4. \A k \in Queues : k = d.q => BatchIsProcessed(k)'
    BY <2>1, ZenonT(30) DEF BatchIsProcessed
  <2>5. \A k \in Queues : k = d.q => FlowOK(k)'
    BY <2>2, <2>3, <2>4, ZenonT(30) DEF FlowOK
  <2> QED BY <1>6, <2>3, <2>5, ZenonT(30)
<1>8. CASE ~(q.phase = "active" /\ ~q.processing)
  <2>1. UNCHANGED <<run, rd>>
    BY <1>1, <1>8
  <2>2. ~q.pullInFlight
    BY <1>4, <1>5, <1>8, Zenon DEF FlowOK
  <2>3. ASSUME NEW k \in Queues, k = d.q PROVE FlowOK(k)'
    <3>1. /\ PullIsQueued(k) => PullIsQueued(k)'
          /\ BatchIsProcessed(k) => BatchIsProcessed(k)'
      BY <1>1, <2>1, ZenonT(30) DEF PullIsQueued, BatchIsProcessed
    <3>2. SameFlags(run.queues[k], run'.queues[k]) /\ ~run.queues[k].pullInFlight
      BY <2>1, <2>2, <2>3, ZenonT(30) DEF SameFlags
    <3> QED BY <1>4, <3>1, <3>2, FlowKept, Zenon
  <2> QED BY <1>6, <2>1, <2>3, ZenonT(30)
<1> QED BY <1>7, <1>8, ZenonT(30)

\* The page is handed over to the batches channel.
LEMMA HandleBatchEnqueueFlow ==
  ASSUME ActiveInv, FlowInv, handleBatchEnqueue, alive', ~Doomed'
  PROVE  \A k \in Queues : FlowOK(k)'
<1> DEFINE job == [gen |-> gen, d |-> rd.d]
<1>0. TypeOK /\ batches \in Seq(Job)
  BY DEF ActiveInv, TypeOK
<1>1. /\ UNCHANGED <<run, gen, alive, pw, bw, toClient, toServer>>
      /\ rd.stage = "admit" /\ batches' = Append(batches, job)
  BY DEF handleBatchEnqueue, readVars, clientVars
<1>2. job \in Job /\ job.gen = gen /\ job.d = rd.d
  BY <1>0, <1>1, HolderTypes, ZenonT(30) DEF TypeOK, Job
<1> HIDE DEF job
<1>3. Entries(batches') = Entries(batches) \cup {job}
  BY <1>0, <1>1, <1>2, EntriesSend
<1>4. rd # Failing
  BY <1>1 DEF Failing
<1>5. \A k \in Queues : FlowOK(k)
  BY <1>1, <1>4, ReaderSound, Zenon
<1>6. ASSUME NEW k \in Queues PROVE FlowOK(k)'
  <2>1. BatchIsProcessed(k) => BatchIsProcessed(k)'
    <3>1. job \in Entries(batches') /\ \A x \in Entries(batches) : x \in Entries(batches')
      BY <1>3
    <3> QED BY <1>1, <1>2, <3>1, ZenonT(30) DEF BatchIsProcessed
  <2>2. /\ PullIsQueued(k) => PullIsQueued(k)'
        /\ PullIsInFlight(k) => PullIsInFlight(k)'
        /\ Sending(k) => Sending(k)'
    BY <1>1, ZenonT(30) DEF PullIsQueued, Sending, PullIsInFlight
  <2>3. SameFlags(run.queues[k], run'.queues[k])
    BY <1>1 DEF SameFlags
  <2> QED BY <1>5, <2>1, <2>2, <2>3, FlowKept, Zenon
<1> QED BY <1>6

\* The other steps of readPump end the run.
LEMMA ReaderFlow ==
  ASSUME ActiveInv, FlowInv, Reader, alive', ~Doomed'
  PROVE  \A k \in Queues : FlowOK(k)'
<1>1. ~dispatchInvalid
  BY DEF dispatchInvalid, Doomed
<1>2. ~readerFails
  BY DEF readerFails
<1>3. ~handleBatchReject
  <2>1. handleBatchReject => (alive' = alive) /\ rd' = IF alive THEN Failing ELSE Idle
    BY Zenon DEF handleBatchReject, readVars, clientVars
  <2> QED BY <2>1, Zenon DEF Doomed
<1> QED BY <1>1, <1>2, <1>3, StartQueueFlow, HandleBatchAcceptFlow, HandleBatchEnqueueFlow, Zenon
       DEF Reader

-----------------------------------------------------------------------------
(* The pull workers *)

\* What one pull worker does to the work of a queue it does not hold.
LEMMA OtherWorkers ==
  ASSUME pw \in [PullWorkers -> PullWorkerState], NEW w \in PullWorkers, NEW x,
         pw' = [pw EXCEPT ![w] = x]
  PROVE  pw'[w] = x /\ \A v \in PullWorkers \ {w} : pw'[v] = pw[v]
  OBVIOUS

\* A request moves from the channel into the hands of a worker.
LEMMA PullWorkerTakeFlow ==
  ASSUME TypeOK, NEW w \in PullWorkers, pullWorkerTake(w), NEW k \in Queues, FlowOK(k)
  PROVE  FlowOK(k)'
<1> DEFINE h == Head(run.pullRequests)
<1>1. /\ pw \in [PullWorkers -> PullWorkerState]
      /\ run.pullRequests \in Seq(Queues) /\ run \in RunState
  BY DEF TypeOK, RunState
<1>2. /\ UNCHANGED <<gen, rd, bw, batches, toClient, toServer>>
      /\ pw[w] = Idle /\ run.pullRequests # <<>>
      /\ pw' = [pw EXCEPT ![w] = [stage |-> "taken", q |-> h]]
      /\ run' = [run EXCEPT !.pullRequests = Tail(run.pullRequests)]
  BY DEF pullWorkerTake, pullVars, clientVars
<1>3. run'.queues = run.queues /\ run'.pullRequests = Tail(run.pullRequests)
  BY <1>1, <1>2 DEF RunState
<1>4. Entries(run.pullRequests) = {h} \cup Entries(run'.pullRequests)
  BY <1>1, <1>2, <1>3, EntriesReceive, ZenonT(30)
<1> HIDE DEF h
<1>5. /\ pw'[w] = [stage |-> "taken", q |-> h]
      /\ \A v \in PullWorkers \ {w} : pw'[v] = pw[v]
  BY <1>1, <1>2, OtherWorkers
<1>6. pw[w].stage = "idle" /\ pw[w] # [stage |-> "taken", q |-> k]
  BY <1>2 DEF Idle
<1>7. PullIsQueued(k) => PullIsQueued(k)'
  <2>1. \A x \in Entries(run.pullRequests) : x = h \/ x \in Entries(run'.pullRequests)
    BY <1>4
  <2> QED BY <1>5, <1>6, <2>1, ZenonT(30) DEF PullIsQueued
<1>8. /\ PullIsInFlight(k) => PullIsInFlight(k)'
      /\ Sending(k) => Sending(k)'
      /\ BatchIsProcessed(k) => BatchIsProcessed(k)'
  <2>1. PullIsInFlight(k) => PullIsInFlight(k)'
    BY <1>2, <1>5, <1>6, ZenonT(30) DEF PullIsInFlight
  <2>2. Sending(k) => Sending(k)'
    BY <1>5, <1>6 DEF Sending
  <2>3. BatchIsProcessed(k) => BatchIsProcessed(k)'
    BY <1>2, ZenonT(30) DEF BatchIsProcessed
  <2> QED BY <2>1, <2>2, <2>3
<1>9. SameFlags(run.queues[k], run'.queues[k])
  BY <1>3 DEF SameFlags
<1> QED BY <1>7, <1>8, <1>9, FlowKept, Zenon

\* A flag that is not set is FALSE.
LEMMA Unset ==
  ASSUME NEW x \in BOOLEAN, ~x
  PROVE  x = FALSE
  OBVIOUS

\* executePull begins: a request that still applies becomes a pull in flight, and one
\* that does not is not the one its queue waits for.
LEMMA ExecutePullBeginFlow ==
  ASSUME TypeOK, alive, NEW w \in PullWorkers, executePullBegin(w), \A j \in Queues : FlowOK(j),
         NEW k \in Queues
  PROVE  FlowOK(k)'
<1> DEFINE h == pw[w].q
           q == run.queues[h]
           drop == \/ ~alive \/ q.phase # "active" \/ ~q.pullQueued
                   \/ q.processing \/ q.pullInFlight
           p == [q EXCEPT !.pullQueued = FALSE,
                          !.pullInFlight = IF drop THEN q.pullInFlight ELSE TRUE]
           x == IF drop THEN Idle ELSE [stage |-> "sending", q |-> h, key |-> q.key]
<1>1. pw \in [PullWorkers -> PullWorkerState] /\ run \in RunState
  BY ZenonT(30) DEF TypeOK
<1>2. /\ UNCHANGED <<gen, rd, bw, batches, toClient, toServer>>
      /\ pw[w].stage = "taken" /\ pw' = [pw EXCEPT ![w] = x]
      /\ run' = [run EXCEPT !.queues[h] = p]
  BY DEF executePullBegin, pullVars, clientVars
<1>3. h \in Queues
  <2>1. pw[w] \in PullWorkerState /\ pw[w].stage = "taken"
    BY <1>1, <1>2, ZenonT(30)
  <2> QED BY <2>1 DEF PullWorkerState, Idle, Failing
<1>4. q \in QueueState /\ FlowOK(h)
  BY <1>1, <1>3 DEF RunState
<1>5. /\ ~p.pullQueued /\ p.phase = q.phase /\ p.processing = q.processing
      /\ p.pullSent = q.pullSent
      /\ p.pullInFlight = IF drop THEN q.pullInFlight ELSE TRUE
  BY <1>4, ZenonT(30) DEF QueueState
<1>6. drop => ~q.pullQueued
  BY <1>4, ZenonT(30) DEF FlowOK
<1>7. ~drop => q.phase = "active" /\ ~q.processing /\ ~q.pullSent
  <2>1. q.pullSent => q.pullInFlight
    BY <1>4, ZenonT(30) DEF FlowOK
  <2> QED BY <2>1, ZenonT(30)
<1>8. drop => x = Idle
  BY ZenonT(30)
<1>9. ~drop => x.stage = "sending" /\ x.q = h
  OBVIOUS
<1> HIDE DEF drop, p, x, h
<1>10. /\ run'.pullRequests = run.pullRequests /\ run'.queues[h] = p
       /\ \A j \in Queues \ {h} : run'.queues[j] = run.queues[j]
  <2>1. run'.queues = [run.queues EXCEPT ![h] = p] /\ run'.pullRequests = run.pullRequests
    BY <1>1, <1>2, ZenonT(30) DEF RunState
  <2> QED BY <1>1, <1>3, <2>1, ZenonT(30) DEF RunState
<1>11. pw'[w] = x /\ \A v \in PullWorkers \ {w} : pw'[v] = pw[v]
  BY <1>1, <1>2, OtherWorkers, ZenonT(30)
<1>12. /\ PullIsInFlight(k) => PullIsInFlight(k)'
       /\ Sending(k) => Sending(k)'
       /\ BatchIsProcessed(k) => BatchIsProcessed(k)'
  <2>1. PullIsInFlight(k) => PullIsInFlight(k)'
    BY <1>2, <1>11, ZenonT(30) DEF PullIsInFlight
  <2>2. Sending(k) => Sending(k)'
    BY <1>2, <1>11, ZenonT(30) DEF Sending
  <2>3. BatchIsProcessed(k) => BatchIsProcessed(k)'
    BY <1>2, ZenonT(30) DEF BatchIsProcessed
  <2> QED BY <2>1, <2>2, <2>3, ZenonT(30)
<1>13. CASE k # h
  <2>1. PullIsQueued(k) => PullIsQueued(k)'
    <3>1. pw[w] # [stage |-> "taken", q |-> k]
      BY <1>13 DEF h
    <3> QED BY <1>10, <1>11, <3>1, ZenonT(30) DEF PullIsQueued
  <2>2. SameFlags(run.queues[k], run'.queues[k])
    BY <1>10, <1>13, ZenonT(30) DEF SameFlags
  <2> QED BY <1>12, <2>1, <2>2, FlowKept, Zenon
<1>14. CASE k = h /\ drop
  <2>1. SameFlags(run.queues[k], run'.queues[k]) /\ ~run.queues[k].pullQueued
    <3>1. q.pullQueued \in BOOLEAN /\ p.pullQueued = FALSE
      BY <1>4, <1>5, <1>14, ZenonT(30) DEF QueueState, p
    <3>2. p.pullQueued = q.pullQueued
      <4>1. ~q.pullQueued
        BY <1>6, <1>14
      <4>2. q.pullQueued = FALSE
        BY <3>1, <4>1, Unset, Zenon
      <4> QED BY <3>1, <4>2, Zenon
    <3> QED BY <1>5, <1>6, <1>10, <1>14, <3>2, ZenonT(30) DEF SameFlags
  <2> QED BY <1>12, <2>1, FlowKept, Zenon
<1>15. CASE k = h /\ ~drop
  <2>1. PullIsInFlight(k)'
    BY <1>9, <1>11, <1>15, ZenonT(30) DEF PullIsInFlight
  <2>2. Sending(k)'
    BY <1>9, <1>11, <1>15, ZenonT(30) DEF Sending
  <2>3. /\ run'.queues[k].phase = "active" /\ run'.queues[k].pullInFlight
        /\ ~run'.queues[k].pullQueued /\ ~run'.queues[k].processing /\ ~run'.queues[k].pullSent
    <3>1. p.pullInFlight = TRUE
      BY <1>5, <1>15
    <3> QED BY <1>5, <1>7, <1>10, <1>15, <3>1, ZenonT(30)
  <2> QED BY <2>1, <2>2, <2>3, ZenonT(30) DEF FlowOK
<1> QED BY <1>13, <1>14, <1>15, ZenonT(30)

\* The pull is on its way: the worker has it sent, and the server has it.
LEMMA SendPullFlow ==
  ASSUME TypeOK, NEW w \in PullWorkers, sendPull(w), NEW k \in Queues, FlowOK(k)
  PROVE  FlowOK(k)'
<1> DEFINE x == [pw[w] EXCEPT !.stage = "sent"]
           m == [q |-> pw[w].q, key |-> pw[w].key]
<1>1. pw \in [PullWorkers -> PullWorkerState] /\ toServer \in Seq(Pull)
  BY DEF TypeOK
<1>2. /\ UNCHANGED <<gen, run, rd, bw, batches, toClient>>
      /\ pw[w].stage = "sending" /\ pw' = [pw EXCEPT ![w] = x]
      /\ toServer' = Append(toServer, m)
  BY DEF sendPull, pullVars, clientVars
<1>3. x.stage = "sent" /\ x.q = pw[w].q /\ m \in Pull /\ m.q = pw[w].q
  <2>1. pw[w] \in PullWorkerState /\ pw[w].stage = "sending"
    BY <1>1, <1>2, ZenonT(30)
  <2> QED BY <2>1 DEF PullWorkerState, Idle, Failing, Pull
<1> HIDE DEF x, m
<1>4. pw'[w] = x /\ \A v \in PullWorkers \ {w} : pw'[v] = pw[v]
  BY <1>1, <1>2, OtherWorkers, ZenonT(30)
<1>5. \A y : y \in Entries(toServer') <=> y \in Entries(toServer) \/ y = m
  BY <1>1, <1>2, <1>3, EntriesSend
<1>6. PullIsQueued(k) => PullIsQueued(k)'
  <2>1. pw[w] # [stage |-> "taken", q |-> k]
    BY <1>2
  <2> QED BY <1>2, <1>4, <2>1, ZenonT(30) DEF PullIsQueued
<1>7. PullIsInFlight(k) => PullIsInFlight(k)'
  <2>1. pw[w].q = k => \E y \in Entries(toServer') : y.q = k
    BY <1>3, <1>5, ZenonT(30)
  <2>2. (\E y \in Entries(toServer) : y.q = k) => \E y \in Entries(toServer') : y.q = k
    BY <1>5, ZenonT(30)
  <2> QED BY <1>2, <1>4, <2>1, <2>2, ZenonT(30) DEF PullIsInFlight
<1>8. Sending(k) => Sending(k)'
  BY <1>3, <1>4 DEF Sending
<1>9. BatchIsProcessed(k) => BatchIsProcessed(k)'
  BY <1>2, ZenonT(30) DEF BatchIsProcessed
<1>10. SameFlags(run.queues[k], run'.queues[k])
  BY <1>2, ZenonT(30) DEF SameFlags
<1> QED BY <1>6, <1>7, <1>8, <1>9, <1>10, FlowKept, Zenon

\* executePull ends: the response timer of a pull that is still in flight is armed
\* before the worker lets go of it.
LEMMA ExecutePullSentFlow ==
  ASSUME TypeOK, NEW w \in PullWorkers, executePullSent(w), \A j \in Queues : FlowOK(j),
         NEW k \in Queues
  PROVE  FlowOK(k)'
<1> DEFINE h == pw[w].q
           q == run.queues[h]
           arm == q.pullInFlight /\ ~q.processing
           p == [q EXCEPT !.pullSent = IF arm THEN TRUE ELSE q.pullSent]
<1>1. pw \in [PullWorkers -> PullWorkerState] /\ run \in RunState
  BY ZenonT(30) DEF TypeOK
<1>2. /\ UNCHANGED <<gen, rd, bw, batches, toClient, toServer>>
      /\ pw[w].stage = "sent" /\ pw' = [pw EXCEPT ![w] = Idle]
      /\ run' = [run EXCEPT !.queues[h] = p]
  BY ZenonT(30) DEF executePullSent, pullVars, clientVars
<1>3. h \in Queues
  <2>1. pw[w] \in PullWorkerState /\ pw[w].stage = "sent"
    BY <1>1, <1>2, ZenonT(30)
  <2> QED BY <2>1 DEF PullWorkerState, Idle, Failing
<1>4. q \in QueueState /\ FlowOK(h)
  BY <1>1, <1>3, ZenonT(30) DEF RunState
<1>5. /\ p.phase = q.phase /\ p.pullQueued = q.pullQueued /\ p.processing = q.processing
      /\ p.pullInFlight = q.pullInFlight
      /\ p.pullSent = IF arm THEN TRUE ELSE q.pullSent
  BY <1>4, ZenonT(30) DEF QueueState
<1>6. q.pullInFlight => ~q.processing
  BY <1>4, ZenonT(30) DEF FlowOK
<1>7. q.pullSent => q.pullInFlight
  BY <1>4, ZenonT(30) DEF FlowOK
<1>8. q.pullInFlight => p.pullSent
  <2>1. q.pullInFlight => p.pullSent = TRUE
    BY <1>5, <1>6, ZenonT(30)
  <2> QED BY <2>1, ZenonT(30)
<1>9. p.pullSent => p.pullInFlight
  <2>1. CASE arm
    BY <1>5, <2>1
  <2>2. CASE ~arm
    <3>1. p.pullSent = q.pullSent
      BY <1>5, <2>2, Zenon
    <3> QED BY <1>5, <1>7, <3>1, Zenon
  <2> QED BY <2>1, <2>2, ZenonT(30)
<1> HIDE DEF arm, p, h
<1>10. /\ run'.pullRequests = run.pullRequests /\ run'.queues[h] = p
       /\ \A j \in Queues \ {h} : run'.queues[j] = run.queues[j]
  <2>1. run'.queues = [run.queues EXCEPT ![h] = p] /\ run'.pullRequests = run.pullRequests
    BY <1>1, <1>2 DEF RunState
  <2> QED BY <1>1, <1>3, <2>1, ZenonT(30) DEF RunState
<1>11. pw'[w] = Idle /\ \A v \in PullWorkers \ {w} : pw'[v] = pw[v]
  BY <1>1, <1>2, OtherWorkers, ZenonT(30)
<1>12. PullIsQueued(k) => PullIsQueued(k)'
  <2>1. pw[w] # [stage |-> "taken", q |-> k]
    BY <1>2
  <2> QED BY <1>10, <1>11, <2>1, ZenonT(30) DEF PullIsQueued
<1>13. PullIsInFlight(k) => PullIsInFlight(k)'
  <2>1. pw[w].stage # "sending"
    BY <1>2
  <2> QED BY <1>2, <1>11, <2>1, ZenonT(30) DEF PullIsInFlight
<1>14. BatchIsProcessed(k) => BatchIsProcessed(k)'
  BY <1>2, ZenonT(30) DEF BatchIsProcessed
<1>15. CASE k # h
  <2>1. Sending(k) => Sending(k)'
    BY <1>11, <1>15, ZenonT(30) DEF Sending, h
  <2>2. SameFlags(run.queues[k], run'.queues[k])
    BY <1>10, <1>15, ZenonT(30) DEF SameFlags
  <2> QED BY <1>12, <1>13, <1>14, <2>1, <2>2, FlowKept, Zenon
<1>16. CASE k = h
  <2> DEFINE n == run'.queues[k]
  <2>1. /\ n.phase = q.phase /\ n.pullQueued = q.pullQueued /\ n.processing = q.processing
        /\ n.pullInFlight = q.pullInFlight /\ q = run.queues[k]
        /\ (n.pullInFlight => n.pullSent) /\ (n.pullSent => n.pullInFlight)
    BY <1>5, <1>8, <1>9, <1>10, <1>16, Zenon
  <2> QED BY <1>12, <1>13, <1>14, <2>1, ZenonT(30) DEF FlowOK
<1> QED BY <1>15, <1>16, ZenonT(30)

\* Every step of a pull worker on a connection that stays up keeps the queues flowing.
LEMMA PullingFlow ==
  ASSUME TypeOK, FlowInv, NEW w \in PullWorkers,
         \/ pullWorkerTake(w) \/ executePullBegin(w) \/ sendPull(w) \/ executePullSent(w)
         \/ executePullError(w) \/ pullWorkerFails(w)
  PROVE  FlowInv'
<1> SUFFICES ASSUME alive', ~Doomed', NEW k \in Queues
             PROVE  FlowOK(k)'
  BY DEF FlowInv
<1>1. pw \in [PullWorkers -> PullWorkerState]
  BY DEF TypeOK
<1>2. ~pullWorkerFails(w)
  BY DEF pullWorkerFails
<1>3. UNCHANGED pullVars
  BY <1>2, Zenon DEF pullWorkerTake, executePullBegin, sendPull, executePullSent,
                     executePullError
<1>4. alive /\ UNCHANGED <<rd, bw, gen>>
  BY <1>3 DEF pullVars, clientVars
<1>5. ~executePullError(w)
  <2> SUFFICES ASSUME executePullError(w) PROVE FALSE
    OBVIOUS
  <2>1. pw'[w] = Failing
    BY <1>1, <1>4 DEF executePullError
  <2> QED BY <2>1, Zenon DEF Doomed
<1>6. pw[w].stage \in {"idle", "taken", "sending", "sent"}
  <2>1. pullWorkerTake(w) => pw[w].stage = "idle"
    BY DEF pullWorkerTake, Idle
  <2>2. executePullBegin(w) => pw[w].stage = "taken"
    BY DEF executePullBegin
  <2>3. sendPull(w) => pw[w].stage = "sending"
    BY ZenonT(30) DEF sendPull
  <2>4. executePullSent(w) => pw[w].stage = "sent"
    BY DEF executePullSent
  <2> QED BY <1>2, <1>5, <2>1, <2>2, <2>3, <2>4, Zenon
<1>7. pw[w] # Failing /\ \A v \in PullWorkers \ {w} : pw'[v] = pw[v]
  <2>1. pw[w] # Failing
    BY <1>6 DEF Failing
  <2>2. pullWorkerTake(w) => \A v \in PullWorkers \ {w} : pw'[v] = pw[v]
    BY <1>1, ZenonT(30) DEF pullWorkerTake
  <2>3. executePullBegin(w) => \A v \in PullWorkers \ {w} : pw'[v] = pw[v]
    BY <1>1 DEF executePullBegin
  <2>4. sendPull(w) => \A v \in PullWorkers \ {w} : pw'[v] = pw[v]
    BY <1>1, ZenonT(30) DEF sendPull
  <2>5. executePullSent(w) => \A v \in PullWorkers \ {w} : pw'[v] = pw[v]
    BY <1>1 DEF executePullSent
  <2> QED BY <1>2, <1>5, <2>1, <2>2, <2>3, <2>4, <2>5, Zenon
<1>8. ~Doomed
  BY <1>4, <1>7, ZenonT(30) DEF Doomed
<1>9. \A j \in Queues : FlowOK(j)
  BY <1>4, <1>8, ZenonT(30) DEF FlowInv
<1> QED BY ZenonT(30), <1>2, <1>4, <1>5, <1>9, PullWorkerTakeFlow, ExecutePullBeginFlow, SendPullFlow,
           ExecutePullSentFlow

-----------------------------------------------------------------------------
(* The batch workers *)

\* Nobody gets into trouble or out of it.
LEMMA WorkerSound ==
  ASSUME FlowInv, NEW w \in BatchWorkers, UNCHANGED <<alive, gen, rd, pw>>,
         \A v \in BatchWorkers \ {w} : bw'[v] = bw[v],
         ~(bw[w].stage = "failing" /\ bw[w].job.gen = gen),
         alive', ~Doomed'
  PROVE  alive /\ \A k \in Queues : FlowOK(k)
<1>1. alive
  OBVIOUS
<1>2. ~Doomed
  BY ZenonT(30) DEF Doomed
<1> QED BY <1>1, <1>2, ZenonT(30) DEF FlowInv

\* A step that moves or drops jobs and leaves the queues alone.
LEMMA JobFlow ==
  ASSUME NEW k \in Queues, FlowOK(k), UNCHANGED <<run, pw, toClient, toServer>>,
         BatchIsProcessed(k) => BatchIsProcessed(k)'
  PROVE  FlowOK(k)'
<1>1. /\ PullIsQueued(k) => PullIsQueued(k)'
      /\ PullIsInFlight(k) => PullIsInFlight(k)'
      /\ Sending(k) => Sending(k)'
  BY ZenonT(30) DEF PullIsQueued, Sending, PullIsInFlight
<1>2. SameFlags(run.queues[k], run'.queues[k])
  BY DEF SameFlags
<1> QED BY <1>1, <1>2, FlowKept, Zenon

\* A job goes from the channel to a worker, or it is of another run.
LEMMA BatchWorkerTakeFlow ==
  ASSUME ActiveInv, FlowInv, NEW w \in BatchWorkers, batchWorkerTake(w), alive', ~Doomed'
  PROVE  \A k \in Queues : FlowOK(k)'
<1> DEFINE h == Head(batches)
           x == [stage |-> "work", job |-> h, done |-> h.d.lo]
<1>1. bw \in [BatchWorkers -> BatchWorkerState] /\ batches \in Seq(Job)
  BY ZenonT(30) DEF ActiveInv, TypeOK
<1>2. /\ UNCHANGED <<run, gen, alive, rd, pw, toClient, toServer>>
      /\ bw[w] = Idle /\ batches # <<>> /\ batches' = Tail(batches)
      /\ IF stale(h) THEN bw' = bw ELSE bw' = [bw EXCEPT ![w] = x]
  BY ZenonT(30) DEF batchWorkerTake, workVars, clientVars
<1>3. Entries(batches) = {h} \cup Entries(batches')
  BY <1>1, <1>2, EntriesReceive, ZenonT(30)
<1>4. x.stage = "work" /\ x.job = h
  OBVIOUS
<1> HIDE DEF h, x
<1>5. \A v \in BatchWorkers \ {w} : bw'[v] = bw[v]
  BY <1>1, <1>2, ZenonT(30)
<1>6. bw[w].stage = "idle"
  BY <1>2 DEF Idle
<1>7. alive /\ \A k \in Queues : FlowOK(k)
  BY <1>2, <1>5, <1>6, WorkerSound, Zenon
<1>8. h.gen = gen => bw'[w] = x
  BY <1>1, <1>2, <1>7, ZenonT(30) DEF stale
<1>9. ASSUME NEW k \in Queues PROVE BatchIsProcessed(k) => BatchIsProcessed(k)'
  <2>1. \A y \in Entries(batches) : y = h \/ y \in Entries(batches')
    BY <1>3
  <2>2. h.gen = gen /\ h.d.q = k => BatchIsProcessed(k)'
    BY <1>2, <1>4, <1>8, ZenonT(30) DEF BatchIsProcessed
  <2>3. (\E y \in Entries(batches) : y.gen = gen /\ y.d.q = k) => BatchIsProcessed(k)'
    BY <1>2, <2>1, <2>2, ZenonT(30) DEF BatchIsProcessed
  <2>4. ASSUME NEW v \in BatchWorkers, bw[v].stage = "work", bw[v].job.gen = gen,
               bw[v].job.d.q = k
        PROVE  BatchIsProcessed(k)'
    <3>1. v # w
      BY <1>6, <2>4, ZenonT(30)
    <3> QED BY <1>2, <1>5, <2>4, <3>1, ZenonT(30) DEF BatchIsProcessed
  <2> QED BY <1>2, <2>3, <2>4, ZenonT(30) DEF BatchIsProcessed
<1> QED BY <1>2, <1>7, <1>9, JobFlow, Zenon

\* A message is handled; the worker keeps its job.
LEMMA ProcessMetaFlow ==
  ASSUME ActiveInv, FlowInv, NEW w \in BatchWorkers, processMeta(w), alive', ~Doomed'
  PROVE  \A k \in Queues : FlowOK(k)'
<1> DEFINE m == bw[w].done + 1
<1>1. TypeOK /\ bw \in [BatchWorkers -> BatchWorkerState]
  BY DEF ActiveInv, TypeOK
<1>2. /\ UNCHANGED <<run, gen, alive, rd, pw, toClient, toServer, batches>>
      /\ bw[w].stage = "work" /\ bw' = [bw EXCEPT ![w].done = m]
  BY DEF processMeta, workVars, clientVars
<1>3. (\A v \in BatchWorkers \ {w} : bw'[v] = bw[v]) /\ bw[w].stage # "failing"
  BY <1>1, <1>2
<1>4. \A k \in Queues : FlowOK(k)
  BY <1>2, <1>3, WorkerSound, Zenon
<1>5. bw'[w].stage = "work" /\ bw'[w].job = bw[w].job
  <2>1. bw[w] \in BatchWorkerState /\ bw'[w] = [bw[w] EXCEPT !.done = m]
    BY <1>1, <1>2, ZenonT(30)
  <2> QED BY <1>2, <2>1, ZenonT(30) DEF BatchWorkerState, Idle
<1>6. ASSUME NEW k \in Queues PROVE BatchIsProcessed(k) => BatchIsProcessed(k)'
  <2>1. \A v \in BatchWorkers : bw[v].stage = "work" => /\ bw'[v].stage = "work"
                                                       /\ bw'[v].job = bw[v].job
    BY <1>3, <1>5
  <2> QED BY <1>2, <2>1, ZenonT(30) DEF BatchIsProcessed
<1> QED BY <1>2, <1>4, <1>6, JobFlow, Zenon

\* On a connection that is up only the jobs of earlier runs are given up.
LEMMA AbandonFlow ==
  ASSUME ActiveInv, FlowInv, NEW w \in BatchWorkers,
         processBatchAbandon(w) \/ batchWorkerFails(w), alive', ~Doomed'
  PROVE  \A k \in Queues : FlowOK(k)'
<1>1. bw \in [BatchWorkers -> BatchWorkerState]
  BY DEF ActiveInv, TypeOK
<1>2. /\ UNCHANGED <<run, gen, rd, pw, toClient, toServer, batches>>
      /\ bw' = [bw EXCEPT ![w] = Idle]
  BY ZenonT(30) DEF processBatchAbandon, batchWorkerFails, workVars, clientVars
<1>3. bw[w].job.gen # gen /\ alive' = alive
  <2>1. ASSUME processBatchAbandon(w) PROVE bw[w].job.gen # gen /\ alive' = alive
    <3>1. alive' = alive /\ stale(bw[w].job)
      BY <2>1, Zenon DEF processBatchAbandon, workVars, clientVars
    <3>2. alive
      BY <3>1
    <3> QED BY <3>1, <3>2, Zenon DEF stale
  <2>2. ASSUME batchWorkerFails(w) PROVE bw[w].job.gen # gen /\ alive' = alive
    <3>1. alive' = IF bw[w].job.gen = gen THEN FALSE ELSE alive
      BY <2>2, Zenon DEF batchWorkerFails
    <3>2. bw[w].job.gen = gen => alive' = FALSE
      BY <3>1, Zenon
    <3>3. bw[w].job.gen # gen
      BY <3>2, ZenonT(30)
    <3> QED BY <3>1, <3>3, Zenon
  <2> QED BY <2>1, <2>2, Zenon
<1>4. \A v \in BatchWorkers \ {w} : bw'[v] = bw[v]
  BY <1>1, <1>2, ZenonT(30)
<1>5. \A k \in Queues : FlowOK(k)
  BY <1>2, <1>3, <1>4, WorkerSound, Zenon
<1>6. ASSUME NEW k \in Queues PROVE BatchIsProcessed(k) => BatchIsProcessed(k)'
  BY <1>2, <1>3, <1>4, ZenonT(30) DEF BatchIsProcessed
<1> QED BY <1>2, <1>5, <1>6, JobFlow, Zenon

\* processBatch ends: its queue asks for the next page or is done, and nobody else's
\* work is touched.
LEMMA ProcessBatchFlow ==
  ASSUME ActiveInv, FlowInv, NEW w \in BatchWorkers, processBatch(w), alive', ~Doomed'
  PROVE  \A k \in Queues : FlowOK(k)'
<1> DEFINE job == bw[w].job
           d == bw[w].job.d
           r == advanceQueue(run, d)
<1>1. /\ UNCHANGED <<gen, alive, pw, rd, toServer, toClient, batches>>
      /\ bw[w].stage = "work" /\ job.gen = gen /\ ~finalized
      /\ run' = [r EXCEPT !.err = FALSE]
      /\ bw' = [bw EXCEPT ![w] = IF r.err THEN [stage |-> "failing", job |-> job] ELSE Idle]
  BY ZenonT(30) DEF processBatch, commit, workVars, clientVars
<1>2. TypeOK /\ run \in RunState /\ bw \in [BatchWorkers -> BatchWorkerState]
  BY DEF ActiveInv, TypeOK
<1>3. d \in Batch /\ d.q \in Queues
  BY <1>1, <1>2, HolderTypes, ZenonT(30)
<1>4. run.queues[d.q].processing /\ run.queues[d.q].phase = "active" /\ ActiveCounted(run)
  BY <1>1, ZenonT(30) DEF ActiveInv, HolderIsBusy, Busy
<1>5. (\A v \in BatchWorkers \ {w} : bw'[v] = bw[v]) /\ bw[w].stage # "failing"
  BY <1>1, <1>2, ZenonT(30)
<1>6. \A k \in Queues : FlowOK(k)
  BY <1>1, <1>5, WorkerSound, Zenon
<1>7. ~r.err
  <2> SUFFICES ASSUME r.err PROVE FALSE
    OBVIOUS
  <2>1. bw'[w].stage = "failing" /\ bw'[w].job = job
    BY <1>1, <1>2, ZenonT(30)
  <2>2. bw'[w].job.gen = gen'
    BY <1>1, <2>1, ZenonT(30)
  <2> QED BY <2>1, <2>2, Zenon DEF Doomed
<1> HIDE DEF d, r
<1>8. /\ ~run.queues[d.q].pullQueued /\ ~run.queues[d.q].pullInFlight
      /\ ~run.queues[d.q].pullSent
  BY <1>3, <1>4, <1>6, FlowFlags, Zenon
<1>9. \A j \in Queues : run.queues[j].phase = "deferred" => Parked(run.queues[j])
  <2>1. \A j \in Queues : run.queues[j].phase = "deferred" => run.queues[j].phase # "active"
    BY ZenonT(30)
  <2> QED BY <1>6, <2>1, FlowFlags, Zenon
<1>10. r \in RunState
  BY <1>2, <1>3, <1>4, AdvanceFacts, ZenonT(30) DEF r
<1>11. run'.queues = r.queues /\ run'.pullRequests = r.pullRequests
  BY <1>1, <1>10, ZenonT(30) DEF RunState
<1>12. /\ Entries(run.pullRequests) \subseteq Entries(r.pullRequests)
       /\ \A j \in Queues \ {d.q} : Scheduled(run, r, j)
       /\ Requested(r, d.q) \/ Parked(r.queues[d.q])
  BY <1>2, <1>3, <1>4, <1>7, <1>8, <1>9, AdvanceFlow, ZenonT(30) DEF r
<1>13. ASSUME NEW k \in Queues, k # d.q PROVE FlowOK(k)'
  <2>1. Scheduled(run, run', k)
    <3>1. Scheduled(run, r, k)
      BY <1>12, <1>13, ZenonT(30)
    <3> QED BY <1>11, <3>1, ZenonT(30) DEF Scheduled, Requested
  <2>2. Entries(run.pullRequests) \subseteq Entries(run'.pullRequests)
    BY <1>11, <1>12, ZenonT(30)
  <2>3. PullIsInFlight(k) => PullIsInFlight(k)'
    BY <1>1, ZenonT(30) DEF PullIsInFlight
  <2>4. BatchIsProcessed(k) => BatchIsProcessed(k)'
    BY <1>1, <1>5, <1>13, ZenonT(30) DEF BatchIsProcessed, d
  <2> QED BY <1>1, <1>6, <2>1, <2>2, <2>3, <2>4, FlowScheduled, Zenon
<1>14. ASSUME NEW k \in Queues, k = d.q PROVE FlowOK(k)'
  <2>1. CASE Parked(r.queues[k])
    <3>1. Parked(run'.queues[k])
      BY <1>11, <2>1, ZenonT(30)
    <3> QED BY <3>1, ZenonT(30) DEF FlowOK, Parked
  <2>2. CASE Requested(r, k)
    <3>1. Requested(run', k)
      BY <1>11, <2>2, ZenonT(30) DEF Requested
    <3>2. PullIsQueued(k)'
      BY <3>1, Zenon DEF PullIsQueued, Requested
    <3> QED BY <3>1, <3>2, ZenonT(30) DEF FlowOK, Requested
  <2> QED BY <1>12, <1>14, <2>1, <2>2, ZenonT(30)
<1> QED BY <1>13, <1>14, ZenonT(30)

-----------------------------------------------------------------------------
(* The end of a run, and the theorems *)

LEMMA FlowStutters ==
  ASSUME FlowInv, UNCHANGED <<run, gen, alive, rd, pw, bw, batches, toClient, toServer>>
  PROVE  FlowInv'
<1> SUFFICES ASSUME alive', ~Doomed', NEW k \in Queues PROVE FlowOK(k)'
  BY DEF FlowInv
<1>1. alive
  OBVIOUS
<1>2. ~Doomed
  BY ZenonT(30) DEF Doomed
<1>3. FlowOK(k)
  BY <1>1, <1>2, Zenon DEF FlowInv
<1>4. BatchIsProcessed(k) => BatchIsProcessed(k)'
  BY ZenonT(30) DEF BatchIsProcessed
<1> QED BY <1>3, <1>4, JobFlow, Zenon

\* A new run starts with no queue; everything else here leaves the run that is up as
\* it is, or is no longer up.
LEMMA EndingFlow ==
  ASSUME ActiveInv, RestInv, FlowInv, Ending PROVE FlowInv'
<1>1. ASSUME fail \/ \E k \in Queues : pullResponseWatchdog(k) PROVE FlowInv'
  <2>1. alive' = FALSE
    BY <1>1, Zenon DEF fail, pullResponseWatchdog
  <2>2. ~alive'
    BY <2>1, ZenonT(30)
  <2> QED BY <2>2, Zenon DEF FlowInv
<1>2. ASSUME finalizeQueues PROVE FlowInv'
  <2>1. ~alive /\ alive' = alive
    BY <1>2, Zenon DEF finalizeQueues
  <2>2. ~alive'
    BY <2>1
  <2> QED BY <2>2, Zenon DEF FlowInv
<1>3. ASSUME nextRun PROVE FlowInv'
  <2>1. run' = run /\ run = newRun
    BY <1>3, Zenon DEF nextRun, RestInv
  <2>2. ASSUME NEW k \in Queues PROVE FlowOK(k)'
    <3>1. run'.queues[k] = newQueueState
      BY <2>1, ZenonT(30) DEF newRun
    <3>2. Parked(run'.queues[k])
      BY <3>1 DEF Parked, newQueueState
    <3> QED BY <3>2, ZenonT(30) DEF FlowOK, Parked
  <2> QED BY <2>2 DEF FlowInv
<1>4. ASSUME Close \/ finalizeClose PROVE FlowInv'
  <2>1. UNCHANGED <<run, gen, alive, rd, pw, bw, batches, toClient, toServer>>
    BY <1>4, ZenonT(30) DEF Close, finalizeClose
  <2> QED BY <2>1, FlowStutters, Zenon
<1>5. ASSUME drainBatchJobs PROVE FlowInv'
  <2>1. lifetime = "draining" /\ alive' = alive
    BY <1>5, Zenon DEF drainBatchJobs, workVars, clientVars
  <2>2. ~alive
    BY <2>1, Zenon DEF RestInv
  <2>3. ~alive'
    BY <2>1, <2>2, ZenonT(30)
  <2> QED BY <2>3, Zenon DEF FlowInv
<1> QED BY <1>1, <1>2, <1>3, <1>4, <1>5, Zenon DEF Ending

LEMMA FlowInit == Init => FlowInv
<1> SUFFICES ASSUME Init PROVE FlowInv
  OBVIOUS
<1>1. ~alive
  BY DEF Init
<1> QED BY <1>1, Zenon DEF FlowInv

\* Every step keeps the queues of a sound connection flowing.
LEMMA FlowStep == ActiveInv /\ RestInv /\ FlowInv /\ [Next]_vars => FlowInv'
<1> SUFFICES ASSUME ActiveInv, RestInv, FlowInv, [Next]_vars PROVE FlowInv'
  OBVIOUS
<1>1. TypeOK
  BY DEF ActiveInv
<1>2. CASE UNCHANGED vars
  <2>1. UNCHANGED <<run, gen, alive, rd, pw, bw, batches, toClient, toServer>>
    BY <1>2, Zenon DEF vars, clientVars
  <2> QED BY <2>1, FlowStutters, Zenon
<1>3. CASE Server
  BY <1>1, <1>3, ServerFlow, Zenon DEF FlowInv
<1>4. CASE Reader
  BY <1>4, ReaderFlow, Zenon DEF FlowInv
<1>5. ASSUME NEW w \in PullWorkers, pullWorker(w) PROVE FlowInv'
  BY <1>1, <1>5, PullingFlow, Zenon DEF pullWorker
<1>6. ASSUME NEW w \in BatchWorkers, batchWorker(w) PROVE FlowInv'
  <2>1. ASSUME alive', ~Doomed' PROVE \A k \in Queues : FlowOK(k)'
    BY <1>6, <2>1, BatchWorkerTakeFlow, ProcessMetaFlow, AbandonFlow, ProcessBatchFlow, Zenon
       DEF batchWorker
  <2> QED BY <2>1, Zenon DEF FlowInv
<1> QED BY <1>2, <1>3, <1>4, <1>5, <1>6, EndingFlow, Zenon DEF Next

\* On a connection that is up and will stay up, no active queue waits for something
\* that is not coming: its request is in the channel or in a pull worker's hands, its
\* pull is on the wire or being answered, or its page is held by readPump, the batch
\* channel or a batch worker (enqueuePullLocked, executePull, handleBatch, processBatch).
THEOREM NeverStranded == Spec => []NoQueueStranded
<1>1. FlowInv => NoQueueStranded
  BY ZenonT(30) DEF FlowInv, FlowOK, NoQueueStranded, QueuesIn
<1>2. Init => ActiveInv /\ RestInv /\ FlowInv
  BY ActiveInvInit, RestInit, FlowInit, Zenon
<1>3. ActiveInv /\ RestInv /\ FlowInv /\ [Next]_vars => (ActiveInv /\ RestInv /\ FlowInv)'
  BY ActiveInvStep, RestStep, FlowStep, Zenon
<1> QED BY <1>1, <1>2, <1>3, PTL DEF Spec

\* A pull in flight is watched: either its response timer runs (pullSent, which
\* pullResponseWatchdog looks for), or the pull worker that sends it is not done with it.
THEOREM PullsTimed == Spec => []PullIsTimed
<1>1. FlowInv => PullIsTimed
  BY ZenonT(30) DEF FlowInv, FlowOK, PullIsTimed, Sending
<1>2. Init => ActiveInv /\ RestInv /\ FlowInv
  BY ActiveInvInit, RestInit, FlowInit, Zenon
<1>3. ActiveInv /\ RestInv /\ FlowInv /\ [Next]_vars => (ActiveInv /\ RestInv /\ FlowInv)'
  BY ActiveInvStep, RestStep, FlowStep, Zenon
<1> QED BY <1>1, <1>2, <1>3, PTL DEF Spec
=============================================================================
