------------------------------ MODULE QueueSync ------------------------------
(***************************************************************************)
(* The message synchronisation engine of a Client (sdk/queue.go).          *)
(*                                                                         *)
(* The server announces a queue with a NOTICE (or in an UNREAD list); the  *)
(* client pulls the queue page by page with SYNC requests carrying a       *)
(* cursor, hands every message of a page to the application's handler, and *)
(* only then advances the cursor.  At most MaxActiveQueues queues are      *)
(* pulled at a time, the others wait in a FIFO ring.                       *)
(*                                                                         *)
(* Goroutines: one readPump per connection (rd), a pool of pull workers    *)
(* per connection (pw), a pool of batch workers shared by all connections  *)
(* of the Client (bw).  Every action is one critical section of queueMu,   *)
(* one channel operation or one call of the handler.  The state of a       *)
(* connectionRun lives in run; a run is over when alive is FALSE, and its  *)
(* maps are gone when finalized is TRUE.  The next run starts only after   *)
(* that (see Lifecycle), so one copy of the run's state is enough; gen is  *)
(* the generation of the run the copy belongs to.                          *)
(***************************************************************************)
EXTENDS Integers, Sequences, FiniteSets

CONSTANTS
  Queues,               \* queue identities (AppKey, Name, Domain)
  PullWorkers,          \* the pullWorkerCount goroutines of a run
  BatchWorkers,         \* the HandlerConcurrency goroutines of the Client
  MaxActiveQueues,      \* maxActiveQueues
  PullRequestCapacity,  \* capacity of the pullRequests channel
  BatchCapacity,        \* capacity of the Client's batches channel
  Weights,              \* retained weights of a JID, in units of minQueueWeight
  QueueBudget,          \* connectionQueueBudgetBytes, in the same unit
  ProcessQueueBudget,   \* processQueueBudgetBytes, in the same unit
  BatchBudget,          \* the smaller of the client and process batch budgets
  MaxMessages,          \* bound: messages the server logs in each queue
  MaxGeneration,        \* bound: connections the Client makes
  MaxRepeats,           \* bound: announcements the server repeats
  MaxPushes             \* bound: SYNC batches no outstanding pull asked for

ASSUME ConstantsAssumption ==
  /\ IsFiniteSet(Queues)
  /\ MaxActiveQueues \in Nat \ {0}
  /\ PullRequestCapacity \in Nat
  /\ BatchCapacity \in Nat
  /\ Weights \subseteq Nat \ {0}
  /\ QueueBudget \in Nat
  /\ ProcessQueueBudget \in Nat
  /\ BatchBudget \in Nat
  /\ MaxMessages \in [Queues -> Nat]
  /\ MaxGeneration \in Nat
  /\ MaxRepeats \in Nat
  /\ MaxPushes \in Nat

VARIABLES
  run,         \* the queueMu-protected state of the current connectionRun
  gen,         \* Client.generation: the generation of that run
  alive,       \* r.ctx is not cancelled
  finalized,   \* finalizeQueues of that run has been executed
  lifetime,    \* "open", "closed" (lifetimeCtx cancelled), "draining" (in drainBatchJobs)
  processUsed, \* charges of this Client in processQueueBudget
  rd,          \* what readPump is doing
  pw,          \* what each pull worker is doing
  bw,          \* what each batch worker is doing
  batches,     \* the Client's batches channel
  batchUsed,   \* charges in the batch budgets
  toClient,    \* frames on their way to the client
  toServer,    \* SYNC requests on their way to the server
  tail,        \* server: number of messages in each queue
  confirmed,   \* server: the cursor up to which the client confirmed a queue
  repeats,     \* server: number of repeated announcements
  pushes,      \* server: number of batches sent without a pull
  handled      \* history: messages the client is done with

clientVars == <<gen, alive, finalized, lifetime>>
serverVars == <<tail, confirmed, repeats, pushes>>
vars == <<run, clientVars, processUsed, rd, pw, bw, batches, batchUsed,
          toClient, toServer, serverVars, handled>>

-----------------------------------------------------------------------------
(* Types *)

Phases == {"unknown", "idle", "deferred", "active"}

QueueState ==
  [phase : Phases, processing : BOOLEAN, noticePending : BOOLEAN,
   pullQueued : BOOLEAN, pullInFlight : BOOLEAN, pullSent : BOOLEAN,
   key : Nat, weight : Nat]

\* err is the error a "Locked" helper returns to the caller holding queueMu.
RunState ==
  [queues : [Queues -> QueueState], activeQueues : Nat, deferred : Seq(Queues),
   pullRequests : Seq(Queues), used : Nat, err : BOOLEAN]

Notice == [type : {"notice"}, q : Queues, weight : Weights]
Invalid == [type : {"invalid"}]
\* A page with the messages lo+1..hi of queue q.
Batch == [type : {"batch"}, q : Queues, lo : Nat, hi : Nat, nextKey : Nat, isLast : BOOLEAN]
Frame == Notice \cup Invalid \cup Batch
Pull == [q : Queues, key : Nat]

Job == [gen : Nat, d : Batch]
Idle == [stage |-> "idle"]
Failing == [stage |-> "failing"]
ReaderState == {Idle, Failing} \cup [stage : {"admit"}, d : Batch]
PullWorkerState ==
  {Idle, Failing} \cup [stage : {"taken"}, q : Queues]
    \cup [stage : {"sending", "sent"}, q : Queues, key : Nat]
BatchWorkerState ==
  {Idle} \cup [stage : {"work"}, job : Job, done : Nat] \cup [stage : {"failing"}, job : Job]

TypeOK ==
  /\ run \in RunState
  /\ gen \in Nat
  /\ alive \in BOOLEAN
  /\ finalized \in BOOLEAN
  /\ lifetime \in {"open", "closed", "draining"}
  /\ processUsed \in Int
  /\ rd \in ReaderState
  /\ pw \in [PullWorkers -> PullWorkerState]
  /\ bw \in [BatchWorkers -> BatchWorkerState]
  /\ batches \in Seq(Job)
  /\ batchUsed \in Int
  /\ toClient \in Seq(Frame)
  /\ toServer \in Seq(Pull)
  /\ tail \in [Queues -> Nat]
  /\ confirmed \in [Queues -> Nat]
  /\ repeats \in Nat
  /\ pushes \in Nat
  /\ handled \in [Queues -> SUBSET Nat]

-----------------------------------------------------------------------------
(* Helpers of queue.go that run with queueMu held: state in, state out *)

\* A queue that is not in r.queues.
newQueueState ==
  [phase |-> "unknown", processing |-> FALSE, noticePending |-> FALSE,
   pullQueued |-> FALSE, pullInFlight |-> FALSE, pullSent |-> FALSE,
   key |-> 0, weight |-> 0]

newRun ==
  [queues |-> [k \in Queues |-> newQueueState], activeQueues |-> 0, deferred |-> <<>>,
   pullRequests |-> <<>>, used |-> 0, err |-> FALSE]

\* Whether weight fits in the run's and in the process's queue budget.
reserveQueueLocked(r, weight) ==
  /\ r.used + weight <= QueueBudget
  /\ processUsed + weight <= ProcessQueueBudget

\* The sum of the weights of the queues in r.queues: each queue counts as many units
\* as it weighs.
tracked(r) ==
  Cardinality({u \in Queues \X (1..QueueBudget) : u[2] <= r.queues[u[1]].weight})

\* Put k on the pullRequests channel unless it has a pull or a batch already.
enqueuePullLocked(r, k) ==
  LET q == r.queues[k] IN
  IF q.phase # "active" \/ q.processing \/ q.pullQueued \/ q.pullInFlight THEN r
  ELSE IF Len(r.pullRequests) < PullRequestCapacity
    THEN [r EXCEPT !.queues[k].pullQueued = TRUE,
                   !.pullRequests = Append(@, k)]
    ELSE [r EXCEPT !.err = TRUE]

\* The ring has one slot for each minQueueWeight of the budget.
activateOrDeferLocked(r, k) ==
  IF r.activeQueues < MaxActiveQueues
    THEN enqueuePullLocked([r EXCEPT !.queues[k].phase = "active",
                                     !.activeQueues = @ + 1], k)
  ELSE IF Len(r.deferred) < QueueBudget
    THEN [r EXCEPT !.queues[k].phase = "deferred", !.deferred = Append(@, k)]
    ELSE [r EXCEPT !.queues[k].phase = "deferred", !.err = TRUE]

\* Mistake: the promoted queue is not counted.
promoteUncounted(r) ==
  LET k == Head(r.deferred) IN
  IF r.activeQueues >= MaxActiveQueues \/ r.deferred = <<>> THEN r
  ELSE enqueuePullLocked([r EXCEPT !.queues[k].phase = "active", !.deferred = Tail(@)], k)

\* Pop the ring up to the first entry that is still deferred, and activate it.
promoteDeferredLocked(r) ==
  LET waiting == {i \in 1..Len(r.deferred) : r.queues[r.deferred[i]].phase = "deferred"}
      first == CHOOSE i \in waiting : \A j \in waiting : i <= j
  IN
  IF r.activeQueues >= MaxActiveQueues THEN r
  ELSE IF waiting = {} THEN [r EXCEPT !.deferred = <<>>]
  ELSE enqueuePullLocked(
         [r EXCEPT !.queues[r.deferred[first]].phase = "active",
                   !.activeQueues = @ + 1,
                   !.deferred = SubSeq(@, first + 1, Len(@))],
         r.deferred[first])

\* The error is handed to the caller, it is not part of the run's state.
commit(r) == run' = [r EXCEPT !.err = FALSE]

batchWeight(d) == 1 + (d.hi - d.lo)

-----------------------------------------------------------------------------
(* The server, as the client's code assumes it *)

Max2(a, b) == IF a >= b THEN a ELSE b

\* The pages the server may answer with when asked for the messages after lo.
\* nextKey = 0 and isLast both tell the client that the page ends the queue.
Pages(k, lo) ==
  {d \in [type : {"batch"}, q : {k}, lo : {lo}, hi : lo..tail[k],
          nextKey : {0} \cup lo..tail[k], isLast : BOOLEAN] :
     /\ d.hi = lo => (lo = tail[k] /\ (d.isLast \/ d.nextKey = 0))
     /\ d.nextKey \in {0, d.hi}
     /\ (d.nextKey = 0 \/ d.isLast) => d.hi = tail[k]}

\* A new message: it is logged, and announced if the client is connected.
ServerLog(k, w) ==
  /\ tail[k] < MaxMessages[k]
  /\ tail' = [tail EXCEPT ![k] = @ + 1]
  /\ toClient' = IF alive THEN Append(toClient, [type |-> "notice", q |-> k, weight |-> w])
                 ELSE toClient
  /\ UNCHANGED <<run, clientVars, processUsed, rd, pw, bw, batches, batchUsed,
                 toServer, confirmed, repeats, pushes, handled>>

\* The answer to a pull.  A pull with cursor key confirms everything up to key;
\* key 0 asks for whatever has not been confirmed.
ServerReply ==
  /\ alive /\ toServer # <<>>
  /\ LET p == Head(toServer)
         lo == IF p.key = 0 THEN confirmed[p.q] ELSE p.key
     IN /\ \/ \E d \in Pages(p.q, lo) : toClient' = Append(toClient, d)
           \/ toClient' = Append(toClient, [type |-> "invalid"])
        /\ confirmed' = [confirmed EXCEPT ![p.q] = Max2(@, p.key)]
  /\ toServer' = Tail(toServer)
  /\ UNCHANGED <<run, clientVars, processUsed, rd, pw, bw, batches, batchUsed,
                 tail, repeats, pushes, handled>>

\* A repeated announcement: the answer to every heartbeat lists unread queues.
ServerRepeat(k, w) ==
  /\ alive /\ repeats < MaxRepeats /\ tail[k] > confirmed[k]
  /\ repeats' = repeats + 1
  /\ toClient' = Append(toClient, [type |-> "notice", q |-> k, weight |-> w])
  /\ UNCHANGED <<run, clientVars, processUsed, rd, pw, bw, batches, batchUsed,
                 toServer, tail, confirmed, pushes, handled>>

\* A page of the queue that no outstanding pull asked for.
ServerPush(k) ==
  /\ alive /\ pushes < MaxPushes
  /\ pushes' = pushes + 1
  /\ \E d \in Pages(k, confirmed[k]) : toClient' = Append(toClient, d)
  /\ UNCHANGED <<run, clientVars, processUsed, rd, pw, bw, batches, batchUsed,
                 toServer, tail, confirmed, repeats, handled>>

-----------------------------------------------------------------------------
(* readPump: it holds a frame from Read until the frame is dispatched *)

readVars == <<clientVars, pw, bw, toServer, serverVars, handled>>

\* Mistake: the growth of a JID is charged but not remembered in q.weight.
startKnownForgetsWeight(f) ==
  LET q == run.queues[f.q]
      delta == IF f.weight > q.weight THEN f.weight - q.weight ELSE 0
  IN /\ q.phase = "active"
     /\ reserveQueueLocked(run, delta)
     /\ run' = [run EXCEPT !.used = @ + delta, !.queues[f.q].noticePending = TRUE]
     /\ processUsed' = processUsed + delta
     /\ rd' = Idle

\* startQueue for a queue in r.queues: charge growth of the JID, then coalesce.
startKnown(f) ==
  LET q == run.queues[f.q]
      delta == IF f.weight > q.weight THEN f.weight - q.weight ELSE 0
      grown == [run EXCEPT !.queues[f.q].weight = @ + delta, !.used = @ + delta]
      r == CASE q.phase = "active" -> [grown EXCEPT !.queues[f.q].noticePending = TRUE]
             [] q.phase = "deferred" -> grown
             [] q.phase = "idle" -> activateOrDeferLocked(grown, f.q)
  IN IF delta > 0 /\ ~reserveQueueLocked(run, delta)
       THEN rd' = Failing /\ UNCHANGED <<run, processUsed>>
       ELSE /\ commit(r)
            /\ processUsed' = processUsed + delta
            /\ rd' = IF r.err THEN Failing ELSE Idle

\* startQueue for a new queue: reserve, insert, schedule, undo all if that fails.
startNew(f) ==
  LET inserted == [run EXCEPT !.queues[f.q] =
                                [newQueueState EXCEPT !.phase = "idle", !.weight = f.weight],
                              !.used = @ + f.weight]
      r == activateOrDeferLocked(inserted, f.q)
  IN IF ~reserveQueueLocked(run, f.weight) \/ r.err
       THEN rd' = Failing /\ UNCHANGED <<run, processUsed>>
       ELSE /\ commit(r)
            /\ processUsed' = processUsed + f.weight
            /\ rd' = Idle

\* A NOTICE, or one entry of an UNREAD list.
startQueue ==
  /\ ~finalized /\ rd = Idle /\ toClient # <<>> /\ Head(toClient).type = "notice"
  /\ toClient' = Tail(toClient)
  /\ LET f == Head(toClient) IN
       IF run.queues[f.q].phase = "unknown" THEN startNew(f) ELSE startKnown(f)
  /\ UNCHANGED <<readVars, batches, batchUsed>>

\* Mistake: the answer does not stop the response timer.
acceptKeepsTimer ==
  /\ ~finalized /\ rd = Idle /\ toClient # <<>> /\ Head(toClient).type = "batch"
  /\ run.queues[Head(toClient).q].phase = "active"
  /\ toClient' = Tail(toClient)
  /\ run' = [run EXCEPT !.queues[Head(toClient).q].pullInFlight = FALSE,
                        !.queues[Head(toClient).q].processing = TRUE]
  /\ rd' = [stage |-> "admit", d |-> Head(toClient)]
  /\ UNCHANGED <<readVars, processUsed, batches, batchUsed>>

\* handleBatch, first critical section: only an active queue that has no batch in
\* processing takes it, whether or not a pull is in flight.
handleBatchAccept ==
  /\ ~finalized /\ rd = Idle /\ toClient # <<>> /\ Head(toClient).type = "batch"
  /\ toClient' = Tail(toClient)
  /\ LET d == Head(toClient)
         q == run.queues[d.q]
     IN IF q.phase = "active" /\ ~q.processing
          THEN /\ run' = [run EXCEPT !.queues[d.q] =
                            [@ EXCEPT !.pullQueued = FALSE, !.pullInFlight = FALSE,
                                      !.pullSent = FALSE, !.processing = TRUE]]
               /\ rd' = [stage |-> "admit", d |-> d]
          ELSE UNCHANGED <<run, rd>>
  /\ UNCHANGED <<readVars, processUsed, batches, batchUsed>>

\* handleBatch after the critical section: charge the batch and enqueue the job
\* without blocking.  A run that is over may take the ctx.Done branch instead.
handleBatchEnqueue ==
  /\ rd.stage = "admit"
  /\ batchUsed + batchWeight(rd.d) <= BatchBudget
  /\ Len(batches) < BatchCapacity
  /\ batches' = Append(batches, [gen |-> gen, d |-> rd.d])
  /\ batchUsed' = batchUsed + batchWeight(rd.d)
  /\ rd' = Idle
  /\ UNCHANGED <<readVars, run, processUsed, toClient>>

handleBatchReject ==
  /\ rd.stage = "admit"
  /\ \/ batchUsed + batchWeight(rd.d) > BatchBudget
     \/ Len(batches) >= BatchCapacity
     \/ ~alive
  /\ run' = [run EXCEPT !.queues[rd.d.q] = [@ EXCEPT !.processing = FALSE]]
  /\ rd' = IF alive THEN Failing ELSE Idle
  /\ UNCHANGED <<readVars, processUsed, batches, batchUsed, toClient>>

\* A SYNC with an error status, or a NOTICE or SYNC with an invalid JID.
dispatchInvalid ==
  /\ ~finalized /\ rd = Idle /\ toClient # <<>> /\ Head(toClient).type = "invalid"
  /\ toClient' = Tail(toClient)
  /\ rd' = Failing
  /\ UNCHANGED <<readVars, run, processUsed, batches, batchUsed>>

\* The r.fail call at the end of the failing paths above.
readerFails ==
  /\ rd = Failing
  /\ rd' = Idle
  /\ alive' = FALSE
  /\ UNCHANGED <<run, gen, finalized, lifetime, processUsed, pw, bw, batches, batchUsed,
                 toClient, toServer, serverVars, handled>>

-----------------------------------------------------------------------------
(* Pull workers *)

pullVars == <<clientVars, processUsed, rd, bw, batches, batchUsed, toClient,
              serverVars, handled>>

\* pullWorker receives from pullRequests.
pullWorkerTake(w) ==
  /\ alive /\ pw[w] = Idle /\ run.pullRequests # <<>>
  /\ pw' = [pw EXCEPT ![w] = [stage |-> "taken", q |-> Head(run.pullRequests)]]
  /\ run' = [run EXCEPT !.pullRequests = Tail(@)]
  /\ UNCHANGED <<pullVars, toServer>>

\* Mistake: the pull asks for what is not confirmed, not for what follows the cursor.
pullWithoutCursor(w) ==
  /\ pw[w].stage = "taken"
  /\ LET k == pw[w].q
         q == run.queues[k]
         drop == ~alive \/ q.phase # "active" \/ ~q.pullQueued \/ q.processing \/ q.pullInFlight
     IN /\ run' = [run EXCEPT !.queues[k].pullQueued = FALSE,
                              !.queues[k].pullInFlight = IF drop THEN @ ELSE TRUE]
        /\ pw' = [pw EXCEPT ![w] = IF drop THEN Idle
                                   ELSE [stage |-> "sending", q |-> k, key |-> 0]]
  /\ UNCHANGED <<pullVars, toServer>>

\* executePull, first critical section: drop a request that no longer applies,
\* else remember the cursor and mark the pull in flight.
executePullBegin(w) ==
  /\ pw[w].stage = "taken"
  /\ LET k == pw[w].q
         q == run.queues[k]
         drop == ~alive \/ q.phase # "active" \/ ~q.pullQueued \/ q.processing \/ q.pullInFlight
     IN /\ run' = [run EXCEPT !.queues[k] =
                     [@ EXCEPT !.pullQueued = FALSE,
                               !.pullInFlight = IF drop THEN q.pullInFlight ELSE TRUE]]
        /\ pw' = [pw EXCEPT ![w] = IF drop THEN Idle
                                   ELSE [stage |-> "sending", q |-> k, key |-> q.key]]
  /\ UNCHANGED <<pullVars, toServer>>

\* sendFrame through writePump: the request reaches the wire.  The answer may
\* arrive before executePull runs again.
sendPull(w) ==
  /\ alive /\ pw[w].stage = "sending"
  /\ toServer' = Append(toServer, [q |-> pw[w].q, key |-> pw[w].key])
  /\ pw' = [pw EXCEPT ![w].stage = "sent"]
  /\ UNCHANGED <<pullVars, run>>

\* executePull, last critical section: start the response timer.
executePullSent(w) ==
  /\ pw[w].stage = "sent"
  /\ LET q == run.queues[pw[w].q] IN
       run' = [run EXCEPT !.queues[pw[w].q] =
                 [@ EXCEPT !.pullSent = IF q.pullInFlight /\ ~q.processing THEN TRUE
                                        ELSE q.pullSent]]
  /\ pw' = [pw EXCEPT ![w] = Idle]
  /\ UNCHANGED <<pullVars, toServer>>

\* Mistake: a pull that could not be sent is given up, the connection goes on.
executePullErrorIgnored(w) ==
  /\ pw[w].stage \in {"sending", "sent"}
  /\ run' = [run EXCEPT !.queues[pw[w].q] = [@ EXCEPT !.pullInFlight = FALSE,
                                                      !.pullSent = FALSE]]
  /\ pw' = [pw EXCEPT ![w] = Idle]
  /\ UNCHANGED <<pullVars, toServer>>

\* executePull when encoding, queueing or writing fails or times out; the request
\* may have reached the wire all the same.
executePullError(w) ==
  /\ pw[w].stage \in {"sending", "sent"}
  /\ run' = [run EXCEPT !.queues[pw[w].q] = [@ EXCEPT !.pullInFlight = FALSE,
                                                      !.pullSent = FALSE]]
  /\ pw' = [pw EXCEPT ![w] = IF alive THEN Failing ELSE Idle]
  /\ UNCHANGED <<pullVars, toServer>>

pullWorkerFails(w) ==
  /\ pw[w] = Failing
  /\ pw' = [pw EXCEPT ![w] = Idle]
  /\ alive' = FALSE
  /\ UNCHANGED <<run, gen, finalized, lifetime, processUsed, rd, bw, batches, batchUsed,
                 toClient, toServer, serverVars, handled>>

-----------------------------------------------------------------------------
(* Batch workers *)

workVars == <<clientVars, processUsed, rd, pw, toClient, toServer, serverVars>>

\* The context of the job's run is cancelled.
stale(job) == job.gen # gen \/ ~alive

\* Mistake: the job of a dead run is dropped with its reservation.
takeWithoutRelease(w) ==
  /\ lifetime = "open" /\ bw[w] = Idle /\ batches # <<>> /\ stale(Head(batches))
  /\ batches' = Tail(batches)
  /\ UNCHANGED <<workVars, run, bw, batchUsed, handled>>

\* batchWorker receives a job.  processBatchJob drops the job of a dead or
\* superseded run, or of a closed Client, and releases its reservation.
batchWorkerTake(w) ==
  /\ lifetime = "open" /\ bw[w] = Idle /\ batches # <<>>
  /\ batches' = Tail(batches)
  /\ LET job == Head(batches) IN
       IF stale(job)
         THEN /\ batchUsed' = batchUsed - batchWeight(job.d)
              /\ UNCHANGED bw
         ELSE /\ bw' = [bw EXCEPT ![w] = [stage |-> "work", job |-> job, done |-> job.d.lo]]
              /\ UNCHANGED batchUsed
  /\ UNCHANGED <<workVars, run, handled>>

\* Mistake: the messages of a page are gone through from the end.
processBackwards(w) ==
  /\ bw[w].stage = "work" /\ ~stale(bw[w].job) /\ bw[w].done < bw[w].job.d.hi
  /\ LET d == bw[w].job.d
     IN handled' = [handled EXCEPT ![d.q] = @ \cup {d.hi - (bw[w].done - d.lo)}]
  /\ bw' = [bw EXCEPT ![w].done = @ + 1]
  /\ UNCHANGED <<workVars, run, batches, batchUsed>>

\* One iteration of processMetas: the handler accepts the message within its
\* attempts, or the message is dead-lettered (it cannot be decoded, the handler
\* fails every attempt or panics).
processMeta(w) ==
  /\ bw[w].stage = "work" /\ ~stale(bw[w].job) /\ bw[w].done < bw[w].job.d.hi
  /\ LET k == bw[w].job.d.q
         m == bw[w].done + 1
     IN /\ handled' = [handled EXCEPT ![k] = @ \cup {m}]
        /\ bw' = [bw EXCEPT ![w].done = m]
  /\ UNCHANGED <<workVars, run, batches, batchUsed>>

\* processMetas or processBatch sees that its run is over and gives up.
processBatchAbandon(w) ==
  /\ bw[w].stage = "work" /\ stale(bw[w].job)
  /\ bw' = [bw EXCEPT ![w] = Idle]
  /\ batchUsed' = batchUsed - batchWeight(bw[w].job.d)
  /\ UNCHANGED <<workVars, run, batches, handled>>

\* Mistake: a NOTICE that arrived during the last page is forgotten.
advanceForgetsNotice(r, d) ==
  LET moved == [r EXCEPT !.queues[d.q].processing = FALSE,
                         !.queues[d.q].noticePending = FALSE,
                         !.queues[d.q].key = IF d.nextKey # 0 THEN d.nextKey ELSE @]
  IN IF d.isLast \/ d.nextKey = 0
       THEN promoteDeferredLocked([moved EXCEPT !.queues[d.q].phase = "idle",
                                                !.activeQueues = @ - 1])
       ELSE enqueuePullLocked(moved, d.q)

\* Mistake: the slot of a finished queue is not handed on.
advanceKeepsSlot(r, d) ==
  LET moved == [r EXCEPT !.queues[d.q].processing = FALSE,
                         !.queues[d.q].noticePending = FALSE,
                         !.queues[d.q].key = IF d.nextKey # 0 THEN d.nextKey ELSE @]
  IN IF (d.isLast \/ d.nextKey = 0) /\ ~r.queues[d.q].noticePending
       THEN [moved EXCEPT !.queues[d.q].phase = "idle", !.activeQueues = @ - 1]
       ELSE enqueuePullLocked(moved, d.q)

\* The state change of processBatch's critical section.
advanceQueue(r, d) ==
  LET q == [r.queues[d.q] EXCEPT !.processing = FALSE,
                                 !.key = IF d.nextKey # 0 THEN d.nextKey ELSE @]
  IN
  IF (d.isLast \/ d.nextKey = 0) /\ ~q.noticePending
    THEN promoteDeferredLocked([r EXCEPT !.queues[d.q] = [q EXCEPT !.phase = "idle"],
                                         !.activeQueues = @ - 1])
    ELSE enqueuePullLocked([r EXCEPT !.queues[d.q] = [q EXCEPT !.noticePending = FALSE]], d.q)

\* processBatch after the messages: move the cursor and schedule what is next.
\* The run may have died since the last check of its context, but its queues
\* must still be there.
processBatch(w) ==
  /\ bw[w].stage = "work" /\ bw[w].job.gen = gen /\ ~finalized
  /\ bw[w].done = bw[w].job.d.hi
  /\ LET d == bw[w].job.d
         r == advanceQueue(run, d)
     IN /\ commit(r)
        /\ bw' = [bw EXCEPT ![w] = IF r.err THEN [stage |-> "failing", job |-> bw[w].job]
                                   ELSE Idle]
        /\ batchUsed' = IF r.err THEN batchUsed ELSE batchUsed - batchWeight(d)
  /\ UNCHANGED <<workVars, batches, handled>>

\* r.fail(scheduleErr), then the deferred release.  fail closes the job's own run.
batchWorkerFails(w) ==
  /\ bw[w].stage = "failing"
  /\ bw' = [bw EXCEPT ![w] = Idle]
  /\ batchUsed' = batchUsed - batchWeight(bw[w].job.d)
  /\ alive' = IF bw[w].job.gen = gen THEN FALSE ELSE alive
  /\ UNCHANGED <<run, gen, finalized, lifetime, processUsed, rd, pw, batches,
                 toClient, toServer, serverVars, handled>>

-----------------------------------------------------------------------------
(* The end of a run, the next run, and the end of the Client *)

\* r.fail for any cause outside this module: a read or write error, the
\* heartbeat, a kick-off message, Logout.
fail ==
  /\ alive
  /\ alive' = FALSE
  /\ UNCHANGED <<run, gen, finalized, lifetime, processUsed, rd, pw, bw, batches,
                 batchUsed, toClient, toServer, serverVars, handled>>

\* The answer to a pull of queue k is overdue.
pullResponseWatchdog(k) ==
  /\ alive /\ run.queues[k].pullInFlight /\ run.queues[k].pullSent
  /\ alive' = FALSE
  /\ UNCHANGED <<run, gen, finalized, lifetime, processUsed, rd, pw, bw, batches,
                 batchUsed, toClient, toServer, serverVars, handled>>

\* After r.wg.Wait: readPump and the pull workers have returned.
finalizeQueues ==
  /\ ~alive /\ ~finalized
  /\ rd = Idle /\ \A w \in PullWorkers : pw[w] = Idle
  /\ finalized' = TRUE
  /\ processUsed' = processUsed - tracked(run)
  /\ run' = newRun
  /\ UNCHANGED <<gen, alive, lifetime, rd, pw, bw, batches, batchUsed,
                 toClient, toServer, serverVars, handled>>

\* What the UNREAD answer of a new connection lists: the queues with messages
\* the client has not confirmed.
unreadQueues == {k \in Queues : tail[k] > confirmed[k]}

\* dial, PROVISION and UNREAD of the next connection, as the monitor, reconnect
\* and Login arrange them once the previous run is finalized.  A Login or
\* reconnect that was under way when Close was called may still get this far; it
\* shuts the run down, and the finalizer of Close waits for that.
nextRun ==
  /\ finalized /\ lifetime # "draining" /\ gen < MaxGeneration
  /\ gen' = gen + 1
  /\ alive' = TRUE
  /\ finalized' = FALSE
  /\ toServer' = <<>>
  /\ \E s \in [1..Cardinality(unreadQueues) -> unreadQueues], w \in Weights :
       /\ \A i, j \in DOMAIN s : s[i] = s[j] => i = j
       /\ toClient' = [i \in DOMAIN s |-> [type |-> "notice", q |-> s[i], weight |-> w]]
  /\ UNCHANGED <<run, lifetime, processUsed, rd, pw, bw, batches, batchUsed,
                 serverVars, handled>>

\* Close cancels the lifetime of the Client; its finalizer shuts the run down.
Close ==
  /\ lifetime = "open"
  /\ lifetime' = "closed"
  /\ UNCHANGED <<run, gen, alive, finalized, processUsed, rd, pw, bw, batches,
                 batchUsed, toClient, toServer, serverVars, handled>>

\* finalizeClose has shut the last run down and no lifecycle operation is left.
finalizeClose ==
  /\ lifetime = "closed" /\ finalized
  /\ lifetime' = "draining"
  /\ UNCHANGED <<run, gen, alive, finalized, processUsed, rd, pw, bw, batches,
                 batchUsed, toClient, toServer, serverVars, handled>>

\* Mistake: the jobs are discarded without their reservations.
drainWithoutRelease ==
  /\ lifetime = "draining" /\ batches # <<>>
  /\ batches' = Tail(batches)
  /\ UNCHANGED <<workVars, run, bw, batchUsed, handled>>

\* One receive of drainBatchJobs.
drainBatchJobs ==
  /\ lifetime = "draining" /\ batches # <<>>
  /\ batches' = Tail(batches)
  /\ batchUsed' = batchUsed - batchWeight(Head(batches).d)
  /\ UNCHANGED <<workVars, run, bw, handled>>

-----------------------------------------------------------------------------
(* Specification *)

\* Before the first connection.
Init ==
  /\ run = newRun
  /\ gen = 0
  /\ alive = FALSE
  /\ finalized = TRUE
  /\ lifetime = "open"
  /\ processUsed = 0
  /\ rd = Idle
  /\ pw = [w \in PullWorkers |-> Idle]
  /\ bw = [w \in BatchWorkers |-> Idle]
  /\ batches = <<>>
  /\ batchUsed = 0
  /\ toClient = <<>>
  /\ toServer = <<>>
  /\ tail = [k \in Queues |-> 0]
  /\ confirmed = [k \in Queues |-> 0]
  /\ repeats = 0
  /\ pushes = 0
  /\ handled = [k \in Queues |-> {}]

Server ==
  \/ \E k \in Queues, w \in Weights : ServerLog(k, w) \/ ServerRepeat(k, w)
  \/ \E k \in Queues : ServerPush(k)
  \/ ServerReply

Reader ==
  \/ startQueue
  \/ handleBatchAccept
  \/ handleBatchEnqueue
  \/ handleBatchReject
  \/ dispatchInvalid
  \/ readerFails

pullWorker(w) ==
  \/ pullWorkerTake(w)
  \/ executePullBegin(w)
  \/ sendPull(w)
  \/ executePullSent(w)
  \/ executePullError(w)
  \/ pullWorkerFails(w)

batchWorker(w) ==
  \/ batchWorkerTake(w)
  \/ processMeta(w)
  \/ processBatchAbandon(w)
  \/ processBatch(w)
  \/ batchWorkerFails(w)

Ending ==
  \/ fail
  \/ \E k \in Queues : pullResponseWatchdog(k)
  \/ finalizeQueues
  \/ nextRun
  \/ Close
  \/ finalizeClose
  \/ drainBatchJobs

Next ==
  \/ Server
  \/ Reader
  \/ \E w \in PullWorkers : pullWorker(w)
  \/ \E w \in BatchWorkers : batchWorker(w)
  \/ Ending

Spec == Init /\ [][Next]_vars

-----------------------------------------------------------------------------
(* Safety *)

Entries(s) == {s[i] : i \in 1..Len(s)}
QueuesIn(phase) == {k \in Queues : run.queues[k].phase = phase}

\* A goroutine has left queueMu with an error and is about to call r.fail.
Doomed ==
  \/ rd = Failing
  \/ \E w \in PullWorkers : pw[w] = Failing
  \/ \E w \in BatchWorkers : bw[w].stage = "failing" /\ bw[w].job.gen = gen

\* The activeQueues counter that startQueue, processBatch and promoteDeferredLocked
\* each adjust by hand is the number of active queues, and never passes the limit.
ActiveCountExact ==
  /\ run.activeQueues = Cardinality(QueuesIn("active"))
  /\ run.activeQueues <= MaxActiveQueues

\* The FIFO ring holds every deferred queue exactly once and nothing else, and no
\* queue waits in it while an active slot is free: the slot a finished queue gives
\* up in processBatch is always handed on.
DeferredRingExact ==
  /\ Entries(run.deferred) = QueuesIn("deferred")
  /\ \A i, j \in 1..Len(run.deferred) : run.deferred[i] = run.deferred[j] => i = j
  /\ run.deferred # <<>> => run.activeQueues = MaxActiveQueues

\* The queue budgets are charged with exactly the weights of the queues in r.queues, so
\* that the one Release of finalizeQueues gives back what startQueue reserved piece by
\* piece, growth and rollback included; and neither budget is exceeded.
QueueChargesExact ==
  /\ run.used = tracked(run)
  /\ processUsed = run.used
  /\ run.used <= QueueBudget
  /\ processUsed <= ProcessQueueBudget
  /\ \A k \in Queues : run.queues[k].weight > 0 <=> run.queues[k].phase # "unknown"

\* The work an active queue k waits for is really under way somewhere: its request is in
\* the channel or in a worker's hands, its pull or the answer is on the wire, or its
\* batch is with readPump, in the batches channel or with a batch worker.
PullIsQueued(k) ==
  \/ k \in Entries(run.pullRequests)
  \/ \E w \in PullWorkers : pw[w] = [stage |-> "taken", q |-> k]

PullIsInFlight(k) ==
  \/ \E w \in PullWorkers : pw[w].stage = "sending" /\ pw[w].q = k
  \/ \E p \in Entries(toServer) : p.q = k
  \/ \E f \in Entries(toClient) : f.type = "invalid" \/ (f.type = "batch" /\ f.q = k)

BatchIsProcessed(k) ==
  \/ rd.stage = "admit" /\ rd.d.q = k
  \/ \E j \in Entries(batches) : j.gen = gen /\ j.d.q = k
  \/ \E w \in BatchWorkers : bw[w].stage = "work" /\ bw[w].job.gen = gen /\ bw[w].job.d.q = k

\* No active queue of a live connection is ever stranded: exactly one of pullQueued,
\* pullInFlight and processing is set, and the flag that is set is backed by work
\* under way.  enqueuePullLocked, executePull, handleBatch and processBatch pass the
\* queue on to each other through these flags, from four different goroutines.
NoQueueStranded ==
  alive /\ ~Doomed =>
    \A k \in QueuesIn("active") :
      LET q == run.queues[k] IN
      /\ q.pullQueued => PullIsQueued(k) /\ ~q.pullInFlight /\ ~q.processing
      /\ q.pullInFlight => PullIsInFlight(k) /\ ~q.processing
      /\ q.processing => BatchIsProcessed(k)
      /\ q.pullQueued \/ q.pullInFlight \/ q.processing

\* No announcement is lost: when a queue rests (idle, or not known) and no NOTICE for it
\* is on its way, every message the server has logged for it has been dealt with.
\* A NOTICE that meets an active queue is only remembered in noticePending, so
\* processBatch must not let the queue rest while that flag is set.
NoNoticeLost ==
  alive /\ ~Doomed =>
    \A k \in QueuesIn("idle") \cup QueuesIn("unknown") :
      \/ 1..tail[k] \subseteq handled[k]
      \/ \E f \in Entries(toClient) : f.type = "notice" /\ f.q = k

\* The cursor never passes a message that was not dealt with: everything up to the
\* client's cursor and up to what the server takes as confirmed was handed to the
\* handler or dead-lettered, across connection failures and stale jobs.
CursorCoversHandled ==
  \A k \in Queues :
    /\ 1..run.queues[k].key \subseteq handled[k]
    /\ 1..confirmed[k] \subseteq handled[k]

\* Every pull that waits for an answer is watched by pullResponseWatchdog once its
\* worker has left executePull, and no timer is left running without a pull.
PullIsTimed ==
  alive /\ ~Doomed =>
    \A k \in Queues :
      /\ run.queues[k].pullSent => run.queues[k].pullInFlight
      /\ run.queues[k].pullInFlight =>
           \/ run.queues[k].pullSent
           \/ \E w \in PullWorkers : pw[w].stage \in {"sending", "sent"} /\ pw[w].q = k

\* As long as the server sends no page it was not asked for, processMetas never goes
\* over a message the cursor has passed: the pull that a NOTICE during a batch causes
\* starts from the cursor that batch has moved.
NoReplayBelowCursor ==
  pushes = 0 =>
    \A w \in BatchWorkers :
      bw[w].stage = "work" /\ ~stale(bw[w].job) =>
        bw[w].job.d.lo >= run.queues[bw[w].job.d.q].key

-----------------------------------------------------------------------------
(* Liveness *)

\* The Go scheduler runs every goroutine that can take a step, handlers return
\* within their deadline (the MessageHandler contract), a run that failed is
\* finalized by the monitor, reconnect tries until it has a connection, and the
\* ticker of the watchdog keeps going.  Nothing is assumed of the server.
FairSpec ==
  /\ Spec
  /\ WF_vars(Reader)
  /\ \A w \in PullWorkers : WF_vars(pullWorker(w))
  /\ \A w \in BatchWorkers : WF_vars(batchWorker(w))
  /\ \A k \in Queues : WF_vars(pullResponseWatchdog(k))
  /\ WF_vars(finalizeQueues)
  /\ WF_vars(nextRun)
  /\ WF_vars(lifetime # "open" /\ fail)
  /\ WF_vars(finalizeClose)
  /\ WF_vars(drainBatchJobs)

\* Every message the server logs is eventually dealt with, unless the Client is closed
\* or has used up its connections: a queue never rests with messages on a connection
\* that stays up, and a silent server costs the connection (pullResponseWatchdog).
EveryMessageHandled ==
  \A k \in Queues : \A m \in 1..MaxMessages[k] :
    m <= tail[k] ~> \/ m \in handled[k]
                    \/ lifetime # "open"
                    \/ gen = MaxGeneration /\ ~alive

\* After Close every charge in the queue and batch budgets is given back, for good.
CloseReleasesAll ==
  lifetime = "closed" ~> [](batchUsed = 0 /\ processUsed = 0 /\ batches = <<>>)

=============================================================================
