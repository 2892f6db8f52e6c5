--------------------------- MODULE QueueSyncCursor ---------------------------
(***************************************************************************)
(* The cursor of a queue never passes a message the client is not done     *)
(* with, and QueueSync implements Delivery, for every number of queues,    *)
(* workers, messages and connections.  The steps of the engine map to the  *)
(* steps of Delivery by the invariant of the cursor and by one more:       *)
(* nobody holds a page with messages that were not logged.                 *)
(***************************************************************************)
EXTENDS QueueSyncProofs, QueueDelivery

\* Messages 1..n of queue k are among those in H, a value of handled.
Through(H, k, n) == 1..n \subseteq H[k]

\* A page starts where the messages dealt with end, at the latest, and its NextKey
\* is the last message it carries.
PageOK(H, d) == d.lo <= d.hi /\ d.nextKey \in {0, d.hi} /\ Through(H, d.q, d.lo)

\* The cursors on their way to the server.
PullsOK ==
  /\ \A i \in 1..Len(toServer) : Through(handled, toServer[i].q, toServer[i].key)
  /\ \A w \in PullWorkers :
       pw[w].stage \in {"sending", "sent"} => Through(handled, pw[w].q, pw[w].key)

\* The pages on their way from the server to a batch worker.
PagesOK ==
  /\ \A i \in 1..Len(toClient) : toClient[i].type = "batch" => PageOK(handled, toClient[i])
  /\ rd.stage = "admit" => PageOK(handled, rd.d)
  /\ \A i \in 1..Len(batches) : PageOK(handled, batches[i].d)

\* A batch worker is done with the messages of its page up to done.
WorkOK ==
  \A w \in BatchWorkers : bw[w].stage = "work" =>
    /\ PageOK(handled, bw[w].job.d)
    /\ bw[w].done <= bw[w].job.d.hi
    /\ Through(handled, bw[w].job.d.q, bw[w].done)

CursorInv == CursorCoversHandled /\ PullsOK /\ PagesOK /\ WorkOK

-----------------------------------------------------------------------------
(* Lemmas *)

\* What was dealt with stays dealt with.
LEMMA ThroughGrows ==
  ASSUME NEW H, NEW G, \A k \in Queues : H[k] \subseteq G[k]
  PROVE  /\ \A k \in Queues : \A n : Through(H, k, n) => Through(G, k, n)
         /\ \A d \in Batch : PageOK(H, d) => PageOK(G, d)
<1>1. \A d \in Batch : d.q \in Queues
  BY DEF Batch
<1> QED BY <1>1 DEF Through, PageOK

\* Every element of a channel after a send was in it or is the new one.
LEMMA AppendElements ==
  ASSUME NEW S, NEW s \in Seq(S), NEW e \in S
  PROVE  \A i \in 1..Len(Append(s, e)) :
           Append(s, e)[i] = e \/ \E j \in 1..Len(s) : Append(s, e)[i] = s[j]
<1> SUFFICES ASSUME NEW i \in 1..Len(Append(s, e)), ~(i \in 1..Len(s))
             PROVE  Append(s, e)[i] = e
  OBVIOUS
<1> QED OBVIOUS

\* Every element left after a receive was in the channel, and the one received
\* is the first.
LEMMA TailElements ==
  ASSUME NEW S, NEW s \in Seq(S), s # <<>>
  PROVE  /\ \A i \in 1..Len(Tail(s)) : \E j \in 1..Len(s) : Tail(s)[i] = s[j]
         /\ 1 \in 1..Len(s) /\ Head(s) = s[1]
<1>1. ASSUME NEW i \in 1..Len(Tail(s)) PROVE i + 1 \in 1..Len(s) /\ Tail(s)[i] = s[i + 1]
  OBVIOUS
<1> QED BY <1>1

\* The types of what carries a cursor.
LEMMA CarrierTypes ==
  ASSUME TypeOK
  PROVE  /\ \A i \in 1..Len(toServer) : toServer[i].q \in Queues /\ toServer[i].key \in Nat
         /\ \A i \in 1..Len(toClient) : toClient[i].type = "batch" => toClient[i] \in Batch
         /\ \A w \in PullWorkers : pw[w].stage \in {"sending", "sent"} =>
              pw[w].q \in Queues /\ pw[w].key \in Nat
<1>1. \A p \in Pull : p.q \in Queues /\ p.key \in Nat
  BY DEF Pull
<1>2. \A f \in Frame : f.type = "batch" => f \in Batch
  BY DEF Frame, Notice, Invalid
<1>3. \A i \in 1..Len(toServer) : toServer[i] \in Pull
  BY DEF TypeOK
<1>4. \A i \in 1..Len(toClient) : toClient[i] \in Frame
  BY DEF TypeOK
<1>5. \A w \in PullWorkers : pw[w].stage \in {"sending", "sent"} =>
        pw[w].q \in Queues /\ pw[w].key \in Nat
  <2>1. \A s \in [stage : {"taken"}, q : Queues] : s.stage = "taken"
    OBVIOUS
  <2>2. \A s \in [stage : {"sending", "sent"}, q : Queues, key : Nat] :
          s.q \in Queues /\ s.key \in Nat
    OBVIOUS
  <2>3. Idle.stage = "idle" /\ Failing.stage = "failing"
    BY DEF Idle, Failing
  <2>4. \A w \in PullWorkers : pw[w] \in PullWorkerState
    BY DEF TypeOK
  <2> QED BY <2>1, <2>2, <2>3, <2>4 DEF PullWorkerState
<1> QED BY <1>1, <1>2, <1>3, <1>4, <1>5

\* The first state.
LEMMA CursorInit == Init => CursorInv
<1> SUFFICES ASSUME Init PROVE CursorInv
  OBVIOUS
<1>1. CursorCoversHandled
  <2>1. \A k \in Queues : run.queues[k].key = 0 /\ confirmed[k] = 0
    BY NewRunFacts DEF Init
  <2> QED BY <2>1 DEF CursorCoversHandled
<1>2. PullsOK /\ PagesOK /\ WorkOK
  BY DEF Init, PullsOK, PagesOK, WorkOK, Idle
<1> QED BY <1>1, <1>2 DEF CursorInv

\* A page of the server starts at the cursor it was asked for.
LEMMA PagesStart ==
  ASSUME TypeOK, NEW k \in Queues, NEW lo \in Nat, NEW d \in Pages(k, lo),
         Through(handled, k, lo)
  PROVE  PageOK(handled, d) /\ d \in Batch
<1>1. /\ d.q = k /\ d.lo = lo /\ d.hi \in lo..tail[k] /\ d.nextKey \in {0, d.hi}
  BY DEF Pages
<1>2. tail[k] \in Nat
  BY DEF TypeOK
<1> QED BY <1>1, <1>2, PagesType DEF PageOK

\* What the server does alone leaves every cursor behind what was handled.
LEMMA ServerCursor == ASSUME TypeOK, CursorInv, Server PROVE CursorInv'
<1>1. UNCHANGED <<run, rd, pw, bw, batches, handled>>
  BY ZenonT(30) DEF Server, ServerLog, ServerRepeat, ServerPush, ServerReply
<1>2. WorkOK'
  BY <1>1 DEF CursorInv, WorkOK
<1>3. toClient \in Seq(Frame) /\ toServer \in Seq(Pull) /\ confirmed \in [Queues -> Nat]
  BY DEF TypeOK
<1>4. ASSUME NEW f \in Frame, f.type = "batch" => PageOK(handled, f),
             toClient' = Append(toClient, f) \/ toClient' = toClient
      PROVE  PagesOK'
  <2>1. \A i \in 1..Len(toClient') : toClient'[i].type = "batch" => PageOK(handled, toClient'[i])
    BY <1>3, <1>4, AppendElements DEF CursorInv, PagesOK
  <2> QED BY <1>1, <2>1 DEF CursorInv, PagesOK
<1>5. ASSUME NEW k \in Queues, NEW w \in Weights, ServerLog(k, w) \/ ServerRepeat(k, w)
      PROVE  CursorInv'
  <2> DEFINE f == [type |-> "notice", q |-> k, weight |-> w]
  <2>1. f \in Frame /\ f.type # "batch"
    BY DEF Frame, Notice
  <2>2. /\ UNCHANGED <<toServer, confirmed>>
        /\ toClient' = Append(toClient, f) \/ toClient' = toClient
    BY <1>5 DEF ServerLog, ServerRepeat
  <2> HIDE DEF f
  <2>3. PagesOK'
    BY <1>4, <2>1, <2>2
  <2> QED BY <1>1, <1>2, <2>2, <2>3 DEF CursorInv, PullsOK, CursorCoversHandled
<1>6. ASSUME NEW k \in Queues, ServerPush(k) PROVE CursorInv'
  <2>1. PICK d \in Pages(k, confirmed[k]) : toClient' = Append(toClient, d)
    BY <1>6 DEF ServerPush
  <2>2. UNCHANGED <<toServer, confirmed>>
    BY <1>6 DEF ServerPush
  <2>3. Through(handled, k, confirmed[k])
    BY DEF CursorInv, CursorCoversHandled, Through
  <2>4. PageOK(handled, d) /\ d \in Frame
    BY <1>3, <2>3, PagesStart DEF Frame
  <2>5. PagesOK'
    BY <1>4, <2>1, <2>4
  <2> QED BY <1>1, <1>2, <2>2, <2>5 DEF CursorInv, PullsOK, CursorCoversHandled
<1>7. ASSUME ServerReply PROVE CursorInv'
  <2> DEFINE p == Head(toServer)
             lo == IF p.key = 0 THEN confirmed[p.q] ELSE p.key
  <2>1. /\ toServer # <<>> /\ toServer' = Tail(toServer)
        /\ \/ \E d \in Pages(p.q, lo) : toClient' = Append(toClient, d)
           \/ toClient' = Append(toClient, [type |-> "invalid"])
        /\ confirmed' = [confirmed EXCEPT ![p.q] = Max2(confirmed[p.q], p.key)]
    BY <1>7 DEF ServerReply
  <2>2. /\ \A i \in 1..Len(toServer') : \E j \in 1..Len(toServer) : toServer'[i] = toServer[j]
        /\ 1 \in 1..Len(toServer) /\ p = toServer[1]
    BY <1>3, <2>1, TailElements, ZenonT(30)
  <2>3. p.q \in Queues /\ p.key \in Nat /\ Through(handled, p.q, p.key)
    BY <2>2, CarrierTypes, ZenonT(30) DEF CursorInv, PullsOK
  <2>4. Through(handled, p.q, confirmed[p.q]) /\ confirmed[p.q] \in Nat
    BY <1>3, <2>3 DEF CursorInv, CursorCoversHandled, Through
  <2>5. lo \in Nat /\ Through(handled, p.q, lo)
    BY <2>3, <2>4
  <2> HIDE DEF p, lo
  <2>6. PagesOK'
    <3>1. ASSUME NEW d \in Pages(p.q, lo), toClient' = Append(toClient, d) PROVE PagesOK'
      <4>1. PageOK(handled, d) /\ d \in Frame
        BY <2>3, <2>5, PagesStart, ZenonT(30) DEF Frame
      <4> QED BY <1>4, <3>1, <4>1
    <3>2. ASSUME toClient' = Append(toClient, [type |-> "invalid"]) PROVE PagesOK'
      <4>1. [type |-> "invalid"] \in Frame /\ [type |-> "invalid"].type # "batch"
        BY DEF Frame, Invalid
      <4> QED BY <1>4, <3>2, <4>1, ZenonT(30)
    <3> QED BY <2>1, <3>1, <3>2
  <2>7. PullsOK'
    BY <1>1, <2>2 DEF CursorInv, PullsOK
  <2>8. CursorCoversHandled'
    <3>1. Through(handled, p.q, confirmed'[p.q])
      BY <1>3, <2>1, <2>3, <2>4, ZenonT(30) DEF Max2
    <3>2. \A k \in Queues : Through(handled, k, confirmed'[k])
      BY <1>3, <2>1, <2>3, <3>1, ZenonT(30) DEF CursorInv, CursorCoversHandled, Through
    <3> QED BY <1>1, <3>2 DEF CursorInv, CursorCoversHandled, Through
  <2> QED BY <1>2, <2>6, <2>7, <2>8, ZenonT(30) DEF CursorInv
<1> QED BY <1>5, <1>6, <1>7, ZenonT(30) DEF Server

\* A step that keeps cursors, pulls and work as they are and takes at most one frame.
LEMMA TakeFrame ==
  ASSUME TypeOK, CursorInv, UNCHANGED <<handled, confirmed, toServer, pw, bw, batches>>,
         \A k \in Queues : run'.queues[k].key \in {0, run.queues[k].key},
         toClient' = toClient \/ (toClient # <<>> /\ toClient' = Tail(toClient)),
         rd'.stage = "admit" => PageOK(handled, rd'.d)
  PROVE  CursorInv'
<1>1. CursorCoversHandled'
  <2>1. 1..0 = {}
    OBVIOUS
  <2>2. ASSUME NEW k \in Queues PROVE 1..run'.queues[k].key \subseteq handled[k]
    <3>1. run'.queues[k].key = 0 \/ run'.queues[k].key = run.queues[k].key
      OBVIOUS
    <3>2. 1..run.queues[k].key \subseteq handled[k]
      BY DEF CursorInv, CursorCoversHandled
    <3> QED BY <2>1, <3>1, <3>2, Zenon
  <2> QED BY <2>2 DEF CursorInv, CursorCoversHandled
<1>2. PullsOK' /\ WorkOK'
  BY DEF CursorInv, PullsOK, WorkOK
<1>3. \A i \in 1..Len(toClient') : toClient'[i].type = "batch" => PageOK(handled, toClient'[i])
  <2>1. toClient \in Seq(Frame)
    BY DEF TypeOK
  <2>2. \A i \in 1..Len(toClient) : toClient[i].type = "batch" => PageOK(handled, toClient[i])
    BY DEF CursorInv, PagesOK
  <2>3. CASE toClient # <<>> /\ toClient' = Tail(toClient)
    <3>1. \A i \in 1..Len(toClient') : \E j \in 1..Len(toClient) : toClient'[i] = toClient[j]
      BY <2>1, <2>3, TailElements, ZenonT(30)
    <3> QED BY <2>2, <3>1
  <2> QED BY <2>2, <2>3, ZenonT(30)
<1>4. PagesOK'
  BY <1>3 DEF CursorInv, PagesOK
<1> QED BY <1>1, <1>2, <1>4, ZenonT(30) DEF CursorInv

\* The steps of readPump.
LEMMA ReaderCursor == ASSUME TypeOK, CursorInv, Reader PROVE CursorInv'
<1>1. run \in RunState /\ toClient \in Seq(Frame) /\ batches \in Seq(Job)
  BY DEF TypeOK
<1>2. ASSUME startQueue PROVE CursorInv'
  <2> DEFINE f == Head(toClient)
  <2>1. /\ UNCHANGED <<handled, confirmed, toServer, pw, bw, batches>>
        /\ toClient # <<>> /\ toClient' = Tail(toClient) /\ f.type = "notice"
        /\ IF run.queues[f.q].phase = "unknown" THEN startNew(f) ELSE startKnown(f)
    BY <1>2 DEF startQueue, readVars, serverVars
  <2>2. f \in Notice
    <3>1. f \in Frame /\ f.type = "notice"
      BY <1>1, <2>1, FrameFacts, ZenonT(30)
    <3> QED BY <3>1 DEF Frame, Notice, Invalid, Batch
  <2> HIDE DEF f
  <2>3. /\ rd' \in {Idle, Failing}
        /\ \A k \in Queues : run'.queues[k].key \in {0, run.queues[k].key}
    <3>1. CASE run.queues[f.q].phase = "unknown"
      BY <2>1, <2>2, <3>1, StartNewFacts, ZenonT(30)
    <3>2. CASE run.queues[f.q].phase # "unknown"
      BY <2>1, <2>2, <3>2, StartKnownFacts, ZenonT(30) DEF Keeps
    <3> QED BY <3>1, <3>2, ZenonT(30)
  <2>4. rd'.stage # "admit"
    BY <2>3 DEF Idle, Failing
  <2> QED BY <2>1, <2>3, <2>4, TakeFrame, ZenonT(30)
<1>3. ASSUME NEW k \in Queues, NEW q,
             q = run.queues[k] \/ (q \in QueueState /\ q.key = run.queues[k].key),
             run' = [run EXCEPT !.queues[k] = q]
      PROVE  \A j \in Queues : run'.queues[j].key \in {0, run.queues[j].key}
  <2>1. run'.queues = [run.queues EXCEPT ![k] = q]
    BY <1>1, <1>3 DEF RunState
  <2>2. \A j \in Queues : run'.queues[j] = IF j = k THEN q ELSE run.queues[j]
    BY <1>1, <2>1 DEF RunState
  <2> QED BY <1>3, <2>2
<1>4. ASSUME handleBatchAccept PROVE CursorInv'
  <2> DEFINE d == Head(toClient)
             q == [run.queues[d.q] EXCEPT !.pullQueued = FALSE, !.pullInFlight = FALSE,
                                          !.pullSent = FALSE, !.processing = TRUE]
  <2>1. /\ UNCHANGED <<handled, confirmed, toServer, pw, bw, batches>>
        /\ toClient # <<>> /\ toClient' = Tail(toClient) /\ d.type = "batch" /\ rd = Idle
        /\ \/ run' = [run EXCEPT !.queues[d.q] = q] /\ rd' = [stage |-> "admit", d |-> d]
           \/ UNCHANGED <<run, rd>>
    BY <1>4 DEF handleBatchAccept, readVars, serverVars
  <2>2. 1 \in 1..Len(toClient) /\ d = toClient[1]
    BY <1>1, <2>1, TailElements, ZenonT(30)
  <2>3. d \in Batch /\ PageOK(handled, d)
    BY <2>1, <2>2, CarrierTypes DEF CursorInv, PagesOK
  <2> HIDE DEF d
  <2>4. d.q \in Queues
    BY <2>3 DEF Batch
  <2>5. q \in QueueState /\ q.key = run.queues[d.q].key
    BY <1>1, <2>4, ZenonT(60) DEF RunState, QueueState
  <2> HIDE DEF q
  <2>6. \A j \in Queues : run'.queues[j].key \in {0, run.queues[j].key}
    BY <1>3, <2>1, <2>4, <2>5
  <2>7. rd'.stage = "admit" => PageOK(handled, rd'.d)
    BY <2>1, <2>3 DEF Idle
  <2> QED BY <2>1, <2>6, <2>7, TakeFrame, ZenonT(30)
<1>5. ASSUME handleBatchEnqueue PROVE CursorInv'
  <2>1. /\ UNCHANGED <<run, handled, confirmed, toServer, toClient, pw, bw>>
        /\ rd.stage = "admit" /\ rd' = Idle
        /\ batches' = Append(batches, [gen |-> gen, d |-> rd.d])
    BY <1>5 DEF handleBatchEnqueue, readVars, serverVars
  <2>2. [gen |-> gen, d |-> rd.d] \in Job
    BY <2>1, HolderTypes, ZenonT(30) DEF TypeOK, Job
  <2>3. PageOK(handled, rd.d)
    BY <2>1 DEF CursorInv, PagesOK
  <2>4. \A i \in 1..Len(batches') : PageOK(handled, batches'[i].d)
    BY <1>1, <2>1, <2>2, <2>3, AppendElements, SMTT(30) DEF CursorInv, PagesOK
  <2>5. PagesOK'
    BY <2>1, <2>4 DEF CursorInv, PagesOK, Idle
  <2> QED BY <2>1, <2>5 DEF CursorInv, CursorCoversHandled, PullsOK, WorkOK
<1>6. ASSUME handleBatchReject PROVE CursorInv'
  <2> DEFINE k == rd.d.q
             q == [run.queues[k] EXCEPT !.processing = FALSE]
  <2>1. /\ UNCHANGED <<handled, confirmed, toServer, toClient, pw, bw, batches>>
        /\ rd.stage = "admit" /\ rd' \in {Idle, Failing}
        /\ run' = [run EXCEPT !.queues[k] = q]
    BY <1>6 DEF handleBatchReject, readVars, serverVars
  <2>2. k \in Queues
    BY <2>1, HolderTypes
  <2> HIDE DEF k
  <2>3. q \in QueueState /\ q.key = run.queues[k].key
    BY <1>1, <2>2, ZenonT(30) DEF RunState, QueueState
  <2> HIDE DEF q
  <2>4. \A j \in Queues : run'.queues[j].key \in {0, run.queues[j].key}
    BY <1>3, <2>1, <2>2, <2>3
  <2>5. rd'.stage # "admit"
    BY <2>1 DEF Idle, Failing
  <2> QED BY <2>1, <2>4, <2>5, TakeFrame, ZenonT(30)
<1>7. ASSUME dispatchInvalid \/ readerFails PROVE CursorInv'
  <2>1. /\ UNCHANGED <<run, handled, confirmed, toServer, pw, bw, batches>>
        /\ toClient' = toClient \/ (toClient # <<>> /\ toClient' = Tail(toClient))
        /\ rd' \in {Idle, Failing}
    BY <1>7 DEF dispatchInvalid, readerFails, readVars, serverVars
  <2>2. rd'.stage # "admit"
    BY <2>1 DEF Idle, Failing
  <2> QED BY <2>1, <2>2, TakeFrame
<1> QED BY <1>2, <1>4, <1>5, <1>6, <1>7, ZenonT(30) DEF Reader

\* The steps of a pull worker: it reads the cursor and sends it.
LEMMA PullWorkerCursor ==
  ASSUME TypeOK, CursorInv, NEW w \in PullWorkers, pullWorker(w) PROVE CursorInv'
<1>1. /\ run \in RunState /\ toServer \in Seq(Pull)
      /\ pw \in [PullWorkers -> PullWorkerState]
  BY ZenonT(30) DEF TypeOK
<1>2. UNCHANGED <<handled, confirmed, toClient, rd, bw, batches>>
  BY ZenonT(30) DEF pullWorker, pullWorkerTake, executePullBegin, sendPull, executePullSent,
         executePullError, pullWorkerFails, pullVars, serverVars
<1>3. \A j \in Queues : run'.queues[j].key = run.queues[j].key
  BY PullWorkerRun, ZenonT(30)
<1>4. CursorCoversHandled' /\ PagesOK' /\ WorkOK'
  BY <1>2, <1>3 DEF CursorInv, CursorCoversHandled, PagesOK, WorkOK
<1>5. PullsOK'
  <2>1. CASE executePullBegin(w)
    <3> DEFINE k == pw[w].q
               s == [stage |-> "sending", q |-> k, key |-> run.queues[k].key]
    <3>0. pw[w] \in PullWorkerState /\ pw[w].stage = "taken"
      BY <1>1, <2>1, ZenonT(30) DEF executePullBegin
    <3>1. k \in Queues
      BY <3>0 DEF PullWorkerState, Idle, Failing
    <3>2. Through(handled, k, run.queues[k].key)
      BY <3>1, ZenonT(30) DEF CursorInv, CursorCoversHandled, Through
    <3>3. /\ toServer' = toServer
          /\ pw' = [pw EXCEPT ![w] = Idle] \/ pw' = [pw EXCEPT ![w] = s]
      BY <2>1, ZenonT(30) DEF executePullBegin
    <3>4. pw'[w] = Idle \/ pw'[w] = s
      BY <1>1, <3>3
    <3>5. \A v \in PullWorkers \ {w} : pw'[v] = pw[v]
      BY <1>1, <3>3
    <3>6. pw'[w].stage \in {"sending", "sent"} => Through(handled, pw'[w].q, pw'[w].key)
      BY <3>2, <3>4 DEF Idle
    <3> QED BY <1>2, <3>3, <3>5, <3>6, ZenonT(30) DEF CursorInv, PullsOK
  <2>2. CASE sendPull(w)
    <3> DEFINE p == [q |-> pw[w].q, key |-> pw[w].key]
    <3>1. /\ pw[w].stage = "sending" /\ toServer' = Append(toServer, p)
          /\ pw' = [pw EXCEPT ![w].stage = "sent"]
      BY <2>2 DEF sendPull
    <3>2. p \in Pull /\ Through(handled, p.q, p.key)
      BY <3>1, CarrierTypes DEF CursorInv, PullsOK, Pull
    <3>3. \A i \in 1..Len(toServer') : Through(handled, toServer'[i].q, toServer'[i].key)
      BY <1>1, <3>1, <3>2, AppendElements DEF CursorInv, PullsOK
    <3>4. /\ \A v \in PullWorkers \ {w} : pw'[v] = pw[v]
          /\ pw'[w] = [pw[w] EXCEPT !.stage = "sent"]
      BY <1>1, <3>1
    <3>5. pw[w] \in [stage : {"sending", "sent"}, q : Queues, key : Nat]
      BY <1>1, <3>1 DEF PullWorkerState, Idle, Failing
    <3>6. pw'[w].q = p.q /\ pw'[w].key = p.key
      BY <3>4, <3>5, ZenonT(30)
    <3> QED BY <1>2, <3>2, <3>3, <3>4, <3>6, ZenonT(30) DEF CursorInv, PullsOK
  <2>3. ASSUME ~executePullBegin(w), ~sendPull(w) PROVE PullsOK'
    <3>1. /\ toServer' = toServer
          /\ \A v \in PullWorkers \ {w} : pw'[v] = pw[v]
      BY <1>1, <2>3, ZenonT(30) DEF pullWorker, pullWorkerTake, executePullSent, executePullError,
                        pullWorkerFails
    <3>2. pw'[w].stage \in {"taken", "idle", "failing"}
      BY <1>1, <2>3 DEF pullWorker, pullWorkerTake, executePullSent, executePullError,
                        pullWorkerFails, Idle, Failing
    <3> QED BY <1>2, <3>1, <3>2, ZenonT(30) DEF CursorInv, PullsOK
  <2> QED BY <2>1, <2>2, <2>3, ZenonT(30)
<1> QED BY <1>4, <1>5 DEF CursorInv

\* One message of a page is dealt with.
LEMMA ProcessMetaCursor ==
  ASSUME TypeOK, CursorInv, NEW w \in BatchWorkers, processMeta(w)
  PROVE  CursorInv'
<1> DEFINE k == bw[w].job.d.q
           m == bw[w].done + 1
<1>1. /\ UNCHANGED <<run, confirmed, toServer, toClient, pw, rd, batches>>
      /\ bw[w].stage = "work" /\ bw[w].done < bw[w].job.d.hi
      /\ bw' = [bw EXCEPT ![w].done = m] /\ handled' = [handled EXCEPT ![k] = @ \cup {m}]
  BY DEF processMeta, workVars, serverVars
<1>2. /\ bw[w].job \in Job /\ bw[w].job.d \in Batch /\ k \in Queues /\ bw[w].done \in Nat
      /\ bw[w].job.d.hi \in Nat
  <2>1. bw[w].job \in Job /\ bw[w].job.d \in Batch /\ k \in Queues /\ bw[w].done \in Nat
    BY <1>1, HolderTypes
  <2> QED BY <2>1 DEF Batch
<1>3. m \in Nat /\ m <= bw[w].job.d.hi
  BY <1>1, <1>2
<1>4. /\ handled \in [Queues -> SUBSET Nat] /\ bw \in [BatchWorkers -> BatchWorkerState]
  BY DEF TypeOK
<1>5. 1..m = (1..bw[w].done) \cup {m}
  BY <1>2
<1> HIDE DEF m, k
<1>6. \A j \in Queues : handled[j] \subseteq handled'[j]
  BY <1>1, <1>4
<1>7. handled'[k] = handled[k] \cup {m}
  BY <1>1, <1>2, <1>4, ZenonT(30)
<1>8. /\ \A j \in Queues : \A n : Through(handled, j, n) => Through(handled', j, n)
      /\ \A d \in Batch : PageOK(handled, d) => PageOK(handled', d)
  BY <1>6, ThroughGrows
<1>9. CursorCoversHandled'
  BY <1>1, <1>6, ZenonT(30) DEF CursorInv, CursorCoversHandled
<1>10. PullsOK'
  BY <1>1, <1>8, CarrierTypes, ZenonT(30) DEF CursorInv, PullsOK
<1>11. PagesOK'
  BY <1>1, <1>8, CarrierTypes, HolderTypes, ZenonT(30) DEF CursorInv, PagesOK
<1>12. WorkOK'
  <2>1. bw[w] \in [stage : {"work"}, job : Job, done : Nat]
    BY <1>1, <1>4 DEF BatchWorkerState, Idle
  <2>2. /\ bw'[w] = [bw[w] EXCEPT !.done = m]
        /\ \A v \in BatchWorkers \ {w} : bw'[v] = bw[v]
    BY <1>1, <1>4
  <2>3. bw'[w].job = bw[w].job /\ bw'[w].done = m
    BY <2>1, <2>2
  <2>4. Through(handled', k, m)
    <3>1. Through(handled, k, bw[w].done)
      BY <1>1 DEF CursorInv, WorkOK, k
    <3> QED BY <1>5, <1>7, <3>1, ZenonT(30) DEF Through
  <2>5. PageOK(handled', bw[w].job.d)
    BY <1>1, <1>2, <1>8, ZenonT(30) DEF CursorInv, WorkOK
  <2>6. \A v \in BatchWorkers \ {w} : bw[v].stage = "work" =>
          /\ PageOK(handled', bw[v].job.d)
          /\ bw[v].done <= bw[v].job.d.hi
          /\ Through(handled', bw[v].job.d.q, bw[v].done)
    BY <1>8, HolderTypes DEF CursorInv, WorkOK
  <2> QED BY <1>3, <2>2, <2>3, <2>4, <2>5, <2>6, ZenonT(60) DEF WorkOK, k
<1> QED BY <1>9, <1>10, <1>11, <1>12, ZenonT(30) DEF CursorInv

\* The page is done: only then does the cursor move, to the end of the page.
LEMMA ProcessBatchCursor ==
  ASSUME ActiveInv, CursorInv, NEW w \in BatchWorkers, processBatch(w) PROVE CursorInv'
<1> DEFINE d == bw[w].job.d
           r == advanceQueue(run, d)
<1>1. /\ UNCHANGED <<confirmed, toServer, toClient, pw, rd, batches, handled>>
      /\ bw[w].stage = "work" /\ bw[w].job.gen = gen /\ ~finalized /\ bw[w].done = d.hi
      /\ run' = [r EXCEPT !.err = FALSE]
      /\ bw' = [bw EXCEPT ![w] = IF r.err THEN [stage |-> "failing", job |-> bw[w].job] ELSE Idle]
  BY DEF processBatch, commit, workVars, serverVars
<1>2. TypeOK /\ run \in RunState /\ bw \in [BatchWorkers -> BatchWorkerState]
  BY DEF ActiveInv, TypeOK
<1>3. d \in Batch /\ d.q \in Queues
  BY <1>1, <1>2, HolderTypes, ZenonT(30)
<1>4. run.queues[d.q].phase = "active" /\ ActiveCounted(run)
  BY <1>1, ZenonT(30) DEF ActiveInv, HolderIsBusy, Busy
<1>5. PageOK(handled, d) /\ Through(handled, d.q, d.hi)
  BY <1>1, ZenonT(30) DEF CursorInv, WorkOK
<1> HIDE DEF d, r
<1>6. /\ r \in RunState
      /\ \A j \in Queues \ {d.q} : r.queues[j].key = run.queues[j].key
      /\ r.queues[d.q].key = IF d.nextKey # 0 THEN d.nextKey ELSE run.queues[d.q].key
  BY <1>2, <1>3, <1>4, AdvanceFacts, ZenonT(30) DEF r
<1>7. run'.queues = r.queues
  BY <1>1, <1>6, CommitFacts, ZenonT(30)
<1>8. CursorCoversHandled'
  <2>1. \A j \in Queues : Through(handled, j, run.queues[j].key)
    BY ZenonT(30) DEF CursorInv, CursorCoversHandled, Through
  <2>2. \A j \in Queues : Through(handled, j, r.queues[j].key)
    BY <1>5, <1>6, <2>1, ZenonT(30) DEF PageOK
  <2> QED BY <1>1, <1>7, <2>2, ZenonT(30) DEF CursorInv, CursorCoversHandled, Through
<1>9. WorkOK'
  <2>1. /\ bw'[w].stage # "work"
        /\ \A v \in BatchWorkers \ {w} : bw'[v] = bw[v]
    BY <1>1, <1>2, ZenonT(30) DEF Idle
  <2> QED BY <1>1, <2>1 DEF CursorInv, WorkOK
<1> QED BY <1>1, <1>8, <1>9 DEF CursorInv, PullsOK, PagesOK

\* A job is received, by a worker that keeps or drops it or by drainBatchJobs.
LEMMA ReceiveCursor ==
  ASSUME TypeOK, CursorInv,
         UNCHANGED <<run, confirmed, toServer, toClient, pw, rd, handled>>,
         batches # <<>>, batches' = Tail(batches),
         \/ bw' = bw
         \/ \E w \in BatchWorkers :
              bw' = [bw EXCEPT ![w] = [stage |-> "work", job |-> Head(batches),
                                       done |-> Head(batches).d.lo]]
  PROVE  CursorInv'
<1> DEFINE job == Head(batches)
<1>1. batches \in Seq(Job) /\ bw \in [BatchWorkers -> BatchWorkerState]
  BY DEF TypeOK
<1>2. /\ \A i \in 1..Len(batches') : \E j \in 1..Len(batches) : batches'[i] = batches[j]
      /\ 1 \in 1..Len(batches) /\ job = batches[1]
  BY <1>1, TailElements, SMTT(30)
<1>3. PagesOK'
  <2>1. \A i \in 1..Len(batches') : PageOK(handled, batches'[i].d)
    BY <1>2, ZenonT(30) DEF CursorInv, PagesOK
  <2> QED BY <2>1, ZenonT(30) DEF CursorInv, PagesOK
<1>4. job.d \in Batch /\ PageOK(handled, job.d)
  BY <1>2, HolderTypes, ZenonT(30) DEF CursorInv, PagesOK
<1> HIDE DEF job
<1>5. WorkOK'
  <2>1. ASSUME NEW w \in BatchWorkers,
               bw' = [bw EXCEPT ![w] = [stage |-> "work", job |-> job, done |-> job.d.lo]]
        PROVE  WorkOK'
    <3>1. /\ bw'[w].job = job /\ bw'[w].done = job.d.lo
          /\ \A v \in BatchWorkers \ {w} : bw'[v] = bw[v]
      BY <1>1, <2>1, ZenonT(30)
    <3>2. job.d.lo <= job.d.hi /\ Through(handled, job.d.q, job.d.lo)
      BY <1>4, ZenonT(30) DEF PageOK
    <3> QED BY <1>4, <3>1, <3>2, ZenonT(30) DEF CursorInv, WorkOK
  <2>2. CASE bw' = bw
    BY <2>2 DEF CursorInv, WorkOK
  <2> QED BY <2>1, <2>2, ZenonT(30) DEF job
<1> QED BY <1>3, <1>5, ZenonT(30) DEF CursorInv, CursorCoversHandled, PullsOK

\* The steps of the batch workers.
LEMMA BatchWorkerCursor ==
  ASSUME ActiveInv, CursorInv, NEW w \in BatchWorkers, batchWorker(w) PROVE CursorInv'
<1>1. TypeOK /\ bw \in [BatchWorkers -> BatchWorkerState]
  BY DEF ActiveInv, TypeOK
<1>2. CASE batchWorkerTake(w)
  <2>1. /\ UNCHANGED <<run, confirmed, toServer, toClient, pw, rd, handled>>
        /\ batches # <<>> /\ batches' = Tail(batches)
        /\ \/ bw' = bw
           \/ bw' = [bw EXCEPT ![w] = [stage |-> "work", job |-> Head(batches),
                                       done |-> Head(batches).d.lo]]
    BY <1>2, ZenonT(30) DEF batchWorkerTake, workVars, serverVars
  <2> QED BY <1>1, <2>1, ReceiveCursor, ZenonT(30)
<1>3. CASE processBatchAbandon(w) \/ batchWorkerFails(w)
  <2>1. /\ UNCHANGED <<run, confirmed, toServer, toClient, pw, rd, handled, batches>>
        /\ bw' = [bw EXCEPT ![w] = Idle]
    BY <1>3, ZenonT(30) DEF processBatchAbandon, batchWorkerFails, workVars, serverVars
  <2>2. /\ bw'[w].stage # "work"
        /\ \A v \in BatchWorkers \ {w} : bw'[v] = bw[v]
    BY <1>1, <2>1 DEF Idle
  <2>3. WorkOK'
    BY <2>1, <2>2 DEF CursorInv, WorkOK
  <2> QED BY <2>1, <2>3, ZenonT(30) DEF CursorInv, CursorCoversHandled, PullsOK, PagesOK
<1> QED BY <1>1, <1>2, <1>3, ProcessMetaCursor, ProcessBatchCursor, ZenonT(30) DEF batchWorker

\* The end of a run forgets its cursors; the next one starts from what was confirmed.
LEMMA EndingCursor == ASSUME TypeOK, CursorInv, Ending PROVE CursorInv'
<1>1. CASE fail \/ (\E k \in Queues : pullResponseWatchdog(k)) \/ Close \/ finalizeClose
  <2>1. UNCHANGED <<run, confirmed, toServer, toClient, pw, rd, bw, handled, batches>>
    BY <1>1 DEF fail, pullResponseWatchdog, Close, finalizeClose, serverVars
  <2> QED BY <2>1, ZenonT(30) DEF CursorInv, CursorCoversHandled, PullsOK, PagesOK, WorkOK
<1>2. CASE drainBatchJobs
  <2>1. /\ UNCHANGED <<run, confirmed, toServer, toClient, pw, rd, bw, handled>>
        /\ batches # <<>> /\ batches' = Tail(batches)
    BY <1>2, ZenonT(30) DEF drainBatchJobs, workVars, serverVars
  <2> QED BY <2>1, ReceiveCursor
<1>3. CASE finalizeQueues
  <2>1. UNCHANGED <<confirmed, toServer, toClient, pw, rd, bw, handled, batches>> /\ run' = newRun
    BY <1>3 DEF finalizeQueues, serverVars
  <2>2. \A k \in Queues : run'.queues[k].key = 0
    BY <2>1, NewRunFacts, ZenonT(30)
  <2>3. CursorCoversHandled'
    BY <2>1, <2>2, SMTT(30) DEF CursorInv, CursorCoversHandled
  <2> QED BY <2>1, <2>3, ZenonT(30) DEF CursorInv, PullsOK, PagesOK, WorkOK
<1>4. CASE nextRun
  <2>1. UNCHANGED <<run, confirmed, pw, rd, bw, handled, batches>> /\ toServer' = <<>>
    BY <1>4 DEF nextRun, serverVars
  <2>2. PICK s \in [1..Cardinality(unreadQueues) -> unreadQueues], w \in Weights :
          toClient' = [i \in DOMAIN s |-> [type |-> "notice", q |-> s[i], weight |-> w]]
    BY <1>4, ZenonT(30) DEF nextRun
  <2>3. Cardinality(unreadQueues) \in Nat
    <3>1. unreadQueues \subseteq Queues
      BY DEF unreadQueues
    <3> QED BY <3>1, FS_Subset, FS_CardinalityType, ConstantsAssumption
  <2>4. DOMAIN toClient' = 1..Cardinality(unreadQueues)
    BY <2>2
  <2>5. Len(toClient') = Cardinality(unreadQueues)
    <3>1. unreadQueues \subseteq Queues
      BY DEF unreadQueues
    <3>2. toClient' \in Seq(Frame)
      BY <2>2, <2>3, <3>1, UnreadNotices, ZenonT(30)
    <3> QED BY <2>3, <2>4, <3>2, SMTT(30)
  <2>6. \A i \in 1..Len(toClient') : toClient'[i].type # "batch"
    BY <2>2, <2>5
  <2>7. PagesOK'
    BY <2>1, <2>6 DEF CursorInv, PagesOK
  <2>8. PullsOK'
    BY <2>1 DEF CursorInv, PullsOK
  <2> QED BY <2>1, <2>7, <2>8, ZenonT(30) DEF CursorInv, CursorCoversHandled, WorkOK
<1> QED BY <1>1, <1>2, <1>3, <1>4, ZenonT(30) DEF Ending

\* Every step preserves the invariant.
LEMMA CursorStep == ActiveInv /\ CursorInv /\ [Next]_vars => CursorInv'
<1> SUFFICES ASSUME ActiveInv, CursorInv, [Next]_vars PROVE CursorInv'
  OBVIOUS
<1>1. TypeOK
  BY ZenonT(30) DEF ActiveInv
<1>2. CASE UNCHANGED vars
  BY <1>2 DEF CursorInv, CursorCoversHandled, PullsOK, PagesOK, WorkOK, vars, clientVars,
              serverVars
<1>3. CASE Next
  BY <1>1, <1>3, ServerCursor, ReaderCursor, PullWorkerCursor, BatchWorkerCursor, EndingCursor, ZenonT(30)
     DEF Next
<1> QED BY <1>2, <1>3

-----------------------------------------------------------------------------
(* Theorem *)

\* Neither the cursor of the client nor what the server takes as confirmed ever passes a
\* message that processMetas has not handed to the handler or dead-lettered.
THEOREM CursorSafe == Spec => []CursorCoversHandled
<1>1. Spec => []ActiveInv
  BY ActiveInvInit, ActiveInvStep, PTL DEF Spec
<1>2. CursorInv => CursorCoversHandled
  BY DEF CursorInv
<1> QED BY <1>1, <1>2, CursorInit, CursorStep, PTL DEF Spec

-----------------------------------------------------------------------------
(* The engine implements Delivery. *)

\* Page d is on its way, with readPump, in the batches channel or with a worker.
Held(d) ==
  \/ d.type = "batch" /\ \E i \in 1..Len(toClient) : toClient[i] = d
  \/ rd.stage = "admit" /\ rd.d = d
  \/ \E i \in 1..Len(batches) : batches[i].d = d
  \/ \E w \in BatchWorkers : bw[w].stage = "work" /\ bw[w].job.d = d

PagesLogged == \A d \in Batch : Held(d) => d.hi <= tail[d.q]

-----------------------------------------------------------------------------
(* Every page in the client came from the server. *)

\* A step that gets no new page.
LEMMA HeldLogged ==
  ASSUME TypeOK, PagesLogged, UNCHANGED tail, \A d \in Batch : Held(d)' => Held(d)
  PROVE  PagesLogged'
  BY DEF PagesLogged

\* The server sends pages of what it has logged.
LEMMA ServerLogged == ASSUME TypeOK, Server PROVE PagesLogged => PagesLogged'
<1> SUFFICES ASSUME PagesLogged PROVE PagesLogged'
  OBVIOUS
<1>1. toClient \in Seq(Frame) /\ tail \in [Queues -> Nat] /\ confirmed \in [Queues -> Nat]
  BY DEF TypeOK
<1>2. UNCHANGED <<rd, bw, batches>>
  BY ZenonT(30) DEF Server, ServerLog, ServerRepeat, ServerPush, ServerReply
<1>3. ASSUME NEW f \in Frame, toClient' = toClient \/ toClient' = Append(toClient, f),
             NEW d \in Batch, Held(d)'
      PROVE  Held(d) \/ d = f
  <2>1. ASSUME NEW i \in 1..Len(toClient'), toClient'[i] = d
        PROVE  d = f \/ \E j \in 1..Len(toClient) : toClient[j] = d
    <3>1. CASE toClient' = toClient
      BY <2>1, <3>1
    <3>2. CASE toClient' = Append(toClient, f)
      <4>1. toClient'[i] = f \/ \E j \in 1..Len(toClient) : toClient'[i] = toClient[j]
        BY <1>1, <2>1, <3>2, AppendElements, SMTT(30)
      <4> QED BY <2>1, <4>1, ZenonT(30)
    <3> QED BY <1>3, <3>1, <3>2
  <2> QED BY <1>2, <1>3, <2>1 DEF Held
<1>4. \A d \in Batch : d.q \in Queues /\ d.hi \in Nat /\ d.type = "batch"
  BY DEF Batch
<1>5. ASSUME NEW k \in Queues, NEW w \in Weights, ServerLog(k, w) \/ ServerRepeat(k, w)
      PROVE  PagesLogged'
  <2> DEFINE f == [type |-> "notice", q |-> k, weight |-> w]
  <2>1. f \in Frame /\ f.type # "batch"
    BY DEF Frame, Notice
  <2>2. toClient' = toClient \/ toClient' = Append(toClient, f)
    BY <1>5 DEF ServerLog, ServerRepeat
  <2>3. \A j \in Queues : tail'[j] \in Nat /\ tail[j] <= tail'[j]
    BY <1>1, <1>5 DEF ServerLog, ServerRepeat
  <2> HIDE DEF f
  <2>4. \A d \in Batch : Held(d)' => Held(d)
    BY <1>3, <1>4, <2>1, <2>2, ZenonT(30)
  <2> QED BY <1>1, <1>4, <2>3, <2>4, SMTT(30) DEF PagesLogged
<1>6. ASSUME NEW k \in Queues, NEW lo \in Nat, NEW f \in Pages(k, lo), UNCHANGED tail,
             toClient' = Append(toClient, f)
      PROVE  PagesLogged'
  <2>1. f \in Frame
    BY PagesType DEF Frame
  <2>2. f.q = k /\ f.hi \in lo..tail[k] /\ tail[k] \in Nat
    BY <1>1 DEF Pages
  <2>3. f.hi <= tail[f.q]
    BY <2>2
  <2> QED BY <1>3, <1>6, <2>1, <2>3, ZenonT(30) DEF PagesLogged
<1>7. ASSUME NEW k \in Queues, ServerPush(k) PROVE PagesLogged'
  BY <1>1, <1>6, <1>7, ZenonT(30) DEF ServerPush
<1>8. ASSUME ServerReply PROVE PagesLogged'
  <2> DEFINE p == Head(toServer)
             lo == IF p.key = 0 THEN confirmed[p.q] ELSE p.key
  <2>1. /\ UNCHANGED tail
        /\ \/ \E d \in Pages(p.q, lo) : toClient' = Append(toClient, d)
           \/ toClient' = Append(toClient, [type |-> "invalid"])
    BY <1>8 DEF ServerReply
  <2>2. p \in Pull
    BY <1>8 DEF ServerReply, TypeOK
  <2>3. p.q \in Queues /\ lo \in Nat
    BY <1>1, <2>2 DEF Pull
  <2> HIDE DEF p, lo
  <2>4. CASE toClient' = Append(toClient, [type |-> "invalid"])
    <3> DEFINE f == [type |-> "invalid"]
    <3>1. f \in Frame /\ f.type # "batch"
      BY DEF Frame, Invalid
    <3> HIDE DEF f
    <3>2. \A d \in Batch : Held(d)' => Held(d)
      BY <1>3, <1>4, <2>4, <3>1, ZenonT(30) DEF f
    <3> QED BY <2>1, <3>2, HeldLogged, ZenonT(30)
  <2> QED BY <1>6, <2>1, <2>3, <2>4, ZenonT(30)
<1> QED BY <1>5, <1>7, <1>8 DEF Server

\* readPump takes a page off the connection and passes it on or drops it.
LEMMA ReaderLogged == ASSUME TypeOK, PagesLogged, Reader PROVE PagesLogged'
<1>1. toClient \in Seq(Frame) /\ batches \in Seq(Job)
  BY ZenonT(30) DEF TypeOK
<1>2. UNCHANGED <<tail, bw>>
  BY DEF Reader, startQueue, handleBatchAccept, handleBatchEnqueue, handleBatchReject,
         dispatchInvalid, readerFails, readVars, serverVars
<1>3. ASSUME toClient # <<>>, NEW i \in 1..Len(Tail(toClient))
      PROVE  \E j \in 1..Len(toClient) : Tail(toClient)[i] = toClient[j]
  BY <1>1, <1>3, TailElements, ZenonT(30)
<1>4. CASE handleBatchEnqueue
  <2> DEFINE job == [gen |-> gen, d |-> rd.d]
  <2>1. /\ rd.stage = "admit" /\ rd' = Idle /\ toClient' = toClient
        /\ batches' = Append(batches, job)
    BY <1>4, ZenonT(30) DEF handleBatchEnqueue
  <2>2. job \in Job /\ job.d = rd.d
    BY <2>1, HolderTypes, ZenonT(30) DEF TypeOK, Job
  <2> HIDE DEF job
  <2>3. \A i \in 1..Len(batches') :
          batches'[i].d = rd.d \/ \E j \in 1..Len(batches) : batches'[i].d = batches[j].d
    BY <1>1, <2>1, <2>2, AppendElements, SMTT(30)
  <2>4. rd'.stage # "admit"
    BY <2>1 DEF Idle
  <2>5. \A d \in Batch : Held(d)' => Held(d)
    BY <1>2, <2>1, <2>3, <2>4, ZenonT(30) DEF Held
  <2> QED BY <1>2, <2>5, HeldLogged, ZenonT(30)
<1>5. CASE handleBatchAccept
  <2>1. /\ toClient # <<>> /\ Head(toClient).type = "batch" /\ rd = Idle
        /\ toClient' = Tail(toClient) /\ batches' = batches
        /\ rd' = rd \/ rd' = [stage |-> "admit", d |-> Head(toClient)]
    BY <1>5 DEF handleBatchAccept
  <2>2. 1 \in 1..Len(toClient) /\ Head(toClient) = toClient[1]
    BY <1>1, <2>1, TailElements, ZenonT(30)
  <2>3. rd'.stage = "admit" => rd'.d = toClient[1] /\ toClient[1].type = "batch"
    BY <2>1, <2>2, SMTT(30) DEF Idle
  <2>4. \A d \in Batch : Held(d)' => Held(d)
    BY <1>2, <1>3, <2>1, <2>2, <2>3, ZenonT(30) DEF Held
  <2> QED BY <1>2, <2>4, HeldLogged
<1>6. CASE startQueue \/ handleBatchReject \/ dispatchInvalid \/ readerFails
  <2>1. /\ toClient' = toClient \/ (toClient # <<>> /\ toClient' = Tail(toClient))
        /\ batches' = batches
    BY <1>6, ZenonT(30) DEF startQueue, handleBatchReject, dispatchInvalid, readerFails
  <2>2. rd' \in {Idle, Failing}
    BY <1>6, ZenonT(30)
       DEF startQueue, startNew, startKnown, handleBatchReject, dispatchInvalid, readerFails
  <2>3. rd'.stage # "admit"
    BY <2>2 DEF Idle, Failing
  <2>4. \A d \in Batch : Held(d)' => Held(d)
    BY <1>2, <1>3, <2>1, <2>3, ZenonT(30) DEF Held
  <2> QED BY <1>2, <2>4, HeldLogged
<1> QED BY <1>4, <1>5, <1>6, ZenonT(30) DEF Reader

\* A pull worker touches no page.
LEMMA PullWorkerLogged ==
  ASSUME TypeOK, PagesLogged, NEW w \in PullWorkers, pullWorker(w) PROVE PagesLogged'
<1>1. UNCHANGED <<tail, toClient, rd, bw, batches>>
  BY ZenonT(30) DEF pullWorker, pullWorkerTake, executePullBegin, sendPull, executePullSent,
         executePullError, pullWorkerFails, pullVars, serverVars
<1> QED BY <1>1, HeldLogged DEF Held

\* A job is received, by a worker that keeps or drops it or by drainBatchJobs.
LEMMA ReceiveLogged ==
  ASSUME TypeOK, PagesLogged, UNCHANGED <<tail, toClient, rd>>,
         batches # <<>>, batches' = Tail(batches),
         \/ bw' = bw
         \/ \E w \in BatchWorkers :
              bw' = [bw EXCEPT ![w] = [stage |-> "work", job |-> Head(batches),
                                       done |-> Head(batches).d.lo]]
  PROVE  PagesLogged'
<1>1. batches \in Seq(Job) /\ bw \in [BatchWorkers -> BatchWorkerState]
  BY DEF TypeOK
<1>2. /\ \A i \in 1..Len(batches') : \E j \in 1..Len(batches) : batches'[i] = batches[j]
      /\ 1 \in 1..Len(batches) /\ Head(batches) = batches[1]
  BY <1>1, TailElements
<1>3. \A v \in BatchWorkers : bw'[v] = bw[v] \/ bw'[v].job = batches[1]
  BY <1>1, <1>2, SMTT(30)
<1>4. \A d \in Batch : Held(d)' => Held(d)
  BY <1>2, <1>3 DEF Held
<1> QED BY <1>4, HeldLogged

\* A batch worker keeps its page or is done with it.
LEMMA BatchWorkerLogged ==
  ASSUME TypeOK, PagesLogged, NEW w \in BatchWorkers, batchWorker(w) PROVE PagesLogged'
<1>1. bw \in [BatchWorkers -> BatchWorkerState]
  BY ZenonT(30) DEF TypeOK
<1>2. UNCHANGED <<tail, toClient, rd>>
  BY ZenonT(30) DEF batchWorker, batchWorkerTake, processMeta, processBatchAbandon, processBatch,
         batchWorkerFails, workVars, serverVars
<1>3. CASE batchWorkerTake(w)
  <2>1. /\ batches # <<>> /\ batches' = Tail(batches)
        /\ \/ bw' = bw
           \/ bw' = [bw EXCEPT ![w] = [stage |-> "work", job |-> Head(batches),
                                       done |-> Head(batches).d.lo]]
    BY <1>3 DEF batchWorkerTake
  <2> QED BY <1>2, <2>1, ReceiveLogged
<1>4. ASSUME batches' = batches, \A v \in BatchWorkers \ {w} : bw'[v] = bw[v],
             bw'[w].stage = "work" => bw[w].stage = "work" /\ bw'[w].job = bw[w].job
      PROVE  PagesLogged'
  <2>1. \A d \in Batch : Held(d)' => Held(d)
    BY <1>2, <1>4 DEF Held
  <2> QED BY <1>2, <2>1, HeldLogged
<1>5. CASE processMeta(w)
  <2>1. /\ bw[w].stage = "work" /\ batches' = batches
        /\ bw' = [bw EXCEPT ![w].done = bw[w].done + 1]
    BY <1>5 DEF processMeta
  <2>2. bw[w] \in [stage : {"work"}, job : Job, done : Nat]
    BY <1>1, <2>1 DEF BatchWorkerState, Idle
  <2>3. /\ bw'[w] = [bw[w] EXCEPT !.done = bw[w].done + 1]
        /\ \A v \in BatchWorkers \ {w} : bw'[v] = bw[v]
    BY <1>1, <2>1
  <2>4. bw'[w].job = bw[w].job
    BY <2>2, <2>3
  <2> QED BY <1>4, <2>1, <2>3, <2>4, ZenonT(30)
<1>6. CASE processBatchAbandon(w) \/ processBatch(w) \/ batchWorkerFails(w)
  <2>1. /\ batches' = batches
        /\ \/ bw' = [bw EXCEPT ![w] = Idle]
           \/ bw' = [bw EXCEPT ![w] = [stage |-> "failing", job |-> bw[w].job]]
    BY <1>6, ZenonT(30) DEF processBatchAbandon, processBatch, batchWorkerFails
  <2>2. bw'[w].stage # "work" /\ \A v \in BatchWorkers \ {w} : bw'[v] = bw[v]
    BY <1>1, <2>1 DEF Idle
  <2> QED BY <1>4, <2>1, <2>2, ZenonT(30)
<1> QED BY <1>3, <1>5, <1>6, ZenonT(30) DEF batchWorker

\* A new connection starts without pages.
LEMMA EndingLogged == ASSUME TypeOK, PagesLogged, Ending PROVE PagesLogged'
<1>1. CASE drainBatchJobs
  <2>1. UNCHANGED <<tail, toClient, rd, bw>> /\ batches # <<>> /\ batches' = Tail(batches)
    BY <1>1 DEF drainBatchJobs, workVars, serverVars
  <2> QED BY <2>1, ReceiveLogged
<1>2. CASE nextRun
  <2>1. UNCHANGED <<tail, rd, bw, batches>>
    BY <1>2 DEF nextRun, serverVars
  <2>2. PICK s \in [1..Cardinality(unreadQueues) -> unreadQueues], w \in Weights :
          toClient' = [i \in DOMAIN s |-> [type |-> "notice", q |-> s[i], weight |-> w]]
    BY <1>2, ZenonT(30) DEF nextRun
  <2>3. unreadQueues \subseteq Queues
    BY DEF unreadQueues
  <2>4. Cardinality(unreadQueues) \in Nat
    BY <2>3, FS_Subset, FS_CardinalityType, ConstantsAssumption
  <2>5. toClient' \in Seq(Frame) /\ DOMAIN toClient' = 1..Cardinality(unreadQueues)
    BY <2>2, <2>3, <2>4, UnreadNotices, ZenonT(30)
  <2>6. Len(toClient') = Cardinality(unreadQueues)
    BY <2>4, <2>5
  <2>7. \A i \in 1..Len(toClient') : toClient'[i].type # "batch"
    BY <2>2, <2>6
  <2>8. \A d \in Batch : Held(d)' => Held(d)
    BY <2>1, <2>7 DEF Held
  <2> QED BY <2>1, <2>8, HeldLogged
<1>3. CASE ~drainBatchJobs /\ ~nextRun
  <2>1. UNCHANGED <<tail, toClient, rd, bw, batches>>
    BY <1>3 DEF Ending, fail, pullResponseWatchdog, finalizeQueues, Close, finalizeClose,
                serverVars
  <2> QED BY <2>1, HeldLogged, ZenonT(30) DEF Held
<1> QED BY <1>1, <1>2, <1>3

\* Every step preserves the invariant.
LEMMA LoggedStep == TypeOK /\ PagesLogged /\ [Next]_vars => PagesLogged'
<1> SUFFICES ASSUME TypeOK, PagesLogged, [Next]_vars PROVE PagesLogged'
  OBVIOUS
<1>1. CASE UNCHANGED vars
  <2>1. UNCHANGED <<tail, toClient, rd, bw, batches>>
    BY <1>1 DEF vars, serverVars
  <2> QED BY <2>1, HeldLogged, ZenonT(30) DEF Held
<1>2. CASE Next
  BY <1>2, ServerLogged, ReaderLogged, PullWorkerLogged, BatchWorkerLogged, EndingLogged, ZenonT(30)
     DEF Next
<1> QED BY <1>1, <1>2

\* The first state.
LEMMA LoggedInit == Init => PagesLogged
  BY DEF Init, PagesLogged, Held, Idle

-----------------------------------------------------------------------------
(* The refinement *)

\* The first state.
LEMMA DeliveryInit == Init => Abstract!Init
<1> SUFFICES ASSUME Init PROVE Abstract!Init
  OBVIOUS
<1>1. \A k \in Queues : run.queues[k].key = 0
  BY NewRunFacts DEF Init
<1>2. cursors = [k \in Queues |-> 0]
  BY <1>1 DEF cursors
<1> QED BY <1>2 DEF Init, Abstract!Init

\* A step that logs, handles and confirms nothing at most moves cursors.
LEMMA OnlyMoves ==
  ASSUME TypeOK', CursorInv', UNCHANGED <<tail, handled, confirmed>>
  PROVE  Abstract!Move
<1>1. \A k \in Queues : run'.queues[k].key \in Nat
  <2>1. run' \in RunState
    BY DEF TypeOK
  <2>2. \A k \in Queues : run'.queues[k] \in QueueState
    BY <2>1 DEF RunState
  <2> QED BY <2>2 DEF QueueState
<1>2. cursors' \in [Queues -> Nat] /\ \A k \in Queues : cursors'[k] = run'.queues[k].key
  BY <1>1 DEF cursors
<1>3. \A k \in Queues : 1..cursors'[k] \subseteq handled[k]
  BY <1>2 DEF CursorInv, CursorCoversHandled
<1> QED BY <1>2, <1>3 DEF Abstract!Move, Abstract!Covered

\* A message is logged.
LEMMA LogPublishes ==
  ASSUME NEW k \in Queues, NEW w \in Weights, ServerLog(k, w) PROVE Abstract!Publish(k)
  BY DEF ServerLog, Abstract!Publish, cursors

\* The answer to a pull confirms its cursor.
LEMMA ReplyConfirms == ASSUME TypeOK, TypeOK', CursorInv', ServerReply PROVE Abstract!Confirm
<1> DEFINE p == Head(toServer)
<1>1. /\ UNCHANGED <<tail, handled, run>>
      /\ confirmed' = [confirmed EXCEPT ![p.q] = Max2(confirmed[p.q], p.key)]
      /\ toServer # <<>>
  BY DEF ServerReply
<1>2. p.q \in Queues /\ p.key \in Nat
  <2>1. toServer \in Seq(Pull)
    BY DEF TypeOK
  <2>2. p \in Pull
    BY <1>1, <2>1, SMTT(30)
  <2> QED BY <2>2 DEF Pull
<1> HIDE DEF p
<1>3. confirmed \in [Queues -> Nat] /\ confirmed' \in [Queues -> Nat]
  BY DEF TypeOK
<1>4. \A k \in Queues : confirmed'[k] >= confirmed[k]
  BY <1>1, <1>2, <1>3, SMTT(30) DEF Max2
<1>5. \A k \in Queues : 1..confirmed'[k] \subseteq handled[k]
  BY <1>1 DEF CursorInv, CursorCoversHandled
<1> QED BY <1>1, <1>3, <1>4, <1>5, ZenonT(30) DEF Abstract!Confirm, Abstract!Covered, cursors

\* processMetas deals with the message after those it is done with.
LEMMA MetaDelivers ==
  ASSUME TypeOK, CursorInv, PagesLogged, NEW w \in BatchWorkers, processMeta(w)
  PROVE  \E k \in Queues : Abstract!Deliver(k)
<1> DEFINE d == bw[w].job.d
           m == bw[w].done + 1
<1>1. /\ UNCHANGED <<tail, confirmed, run>>
      /\ bw[w].stage = "work" /\ bw[w].done < d.hi
      /\ handled' = [handled EXCEPT ![d.q] = @ \cup {m}]
  BY ZenonT(30) DEF processMeta, workVars, serverVars
<1>2. d \in Batch /\ d.q \in Queues /\ bw[w].done \in Nat
  BY <1>1, HolderTypes, ZenonT(30)
<1>3. d.hi \in Nat
  BY <1>2, ZenonT(30) DEF Batch
<1>4. d.hi <= tail[d.q]
  BY <1>1, <1>2, ZenonT(30) DEF PagesLogged, Held
<1>5. tail[d.q] \in Nat
  BY <1>2, ZenonT(30) DEF TypeOK
<1>6. m \in 1..tail[d.q] /\ m - 1 = bw[w].done
  BY <1>1, <1>2, <1>3, <1>4, <1>5, SMTT(30)
<1>7. 1..(m - 1) \subseteq handled[d.q]
  BY <1>1, <1>6, ZenonT(30) DEF CursorInv, WorkOK, Through
<1> HIDE DEF d, m
<1>8. Abstract!Deliver(d.q)
  BY <1>1, <1>6, <1>7, ZenonT(30) DEF Abstract!Deliver, Abstract!Covered, cursors
<1> QED BY <1>2, <1>8, ZenonT(30)

\* Every step of the engine is a step of Delivery.
LEMMA DeliveryStep ==
  ASSUME TypeOK, CursorInv, PagesLogged, TypeOK', CursorInv', [Next]_vars
  PROVE  [Abstract!Next]_(Abstract!vars)
<1>1. ASSUME NEW k \in Queues, NEW w \in Weights, ServerLog(k, w) PROVE Abstract!Next
  BY <1>1, LogPublishes DEF Abstract!Next
<1>2. CASE ServerReply
  BY <1>2, ReplyConfirms, ZenonT(30) DEF Abstract!Next
<1>3. ASSUME NEW w \in BatchWorkers, processMeta(w) PROVE Abstract!Next
  BY <1>3, MetaDelivers DEF Abstract!Next
<1>4. ASSUME UNCHANGED <<tail, handled, confirmed>> PROVE Abstract!Next
  BY <1>4, OnlyMoves DEF Abstract!Next
<1>5. CASE Server
  <2>1. ASSUME NEW k \in Queues, NEW w \in Weights, ServerRepeat(k, w) PROVE Abstract!Next
    BY <1>4, <2>1, ZenonT(30) DEF ServerRepeat
  <2>2. ASSUME NEW k \in Queues, ServerPush(k) PROVE Abstract!Next
    BY <1>4, <2>2, ZenonT(30) DEF ServerPush
  <2> QED BY <1>1, <1>2, <1>5, <2>1, <2>2, ZenonT(30) DEF Server
<1>6. CASE Reader
  BY <1>4, <1>6, ZenonT(30) DEF Reader, startQueue, handleBatchAccept, handleBatchEnqueue,
       handleBatchReject, dispatchInvalid, readerFails, readVars, serverVars
<1>7. ASSUME NEW w \in PullWorkers, pullWorker(w) PROVE Abstract!Next
  BY <1>4, <1>7, ZenonT(60)
     DEF pullWorker, pullWorkerTake, executePullBegin, sendPull, executePullSent,
       executePullError, pullWorkerFails, pullVars, serverVars
<1>8. ASSUME NEW w \in BatchWorkers, batchWorker(w) PROVE Abstract!Next
  BY <1>3, <1>4, <1>8, ZenonT(30)
     DEF batchWorker, batchWorkerTake, processBatchAbandon, processBatch,
       batchWorkerFails, workVars, serverVars
<1>9. CASE Ending
  BY <1>4, <1>9 DEF Ending, fail, pullResponseWatchdog, finalizeQueues, nextRun, Close,
       finalizeClose, drainBatchJobs, workVars, serverVars
<1>10. CASE UNCHANGED vars
  BY <1>4, <1>10 DEF vars, serverVars
<1> QED BY <1>5, <1>6, <1>7, <1>8, <1>9, <1>10 DEF Next

\* The engine of sdk/queue.go hands the messages of every queue over in order and without
\* gaps, and neither its cursor nor the server's passes a message it is not done with.
THEOREM ImplementsDelivery == Spec => DeliveryInOrder
<1>1. Spec => []ActiveInv
  BY ActiveInvInit, ActiveInvStep, PTL DEF Spec
<1>2. Spec => []CursorInv
  BY <1>1, CursorInit, CursorStep, PTL DEF Spec
<1>3. ActiveInv => TypeOK
  BY DEF ActiveInv
<1>4. Spec => []PagesLogged
  BY <1>1, <1>3, LoggedInit, LoggedStep, PTL DEF Spec
<1>5. TypeOK /\ CursorInv /\ PagesLogged /\ TypeOK' /\ CursorInv' /\ [Next]_vars
        => [Abstract!Next]_(Abstract!vars)
  BY DeliveryStep
<1> QED BY <1>1, <1>2, <1>3, <1>4, <1>5, DeliveryInit, PTL DEF Spec, DeliveryInOrder, Abstract!Spec
=============================================================================
