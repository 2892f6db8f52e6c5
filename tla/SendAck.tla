------------------------------- MODULE SendAck -------------------------------
(***************************************************************************)
(* Client.Send on one connectionRun (sdk/queue.go, sdk/connection.go): the *)
(* table of pending sends, the writes channel and the write pump, the ACKs *)
(* that the read pump delivers, the deadline of each call, and the failure *)
(* of the connection at any point.                                         *)
(*                                                                         *)
(* A step is one critical section of pendingMu, one channel operation or   *)
(* one write of the socket.  Every call of Send has an ack channel of its  *)
(* own, so a channel is named by its call.                                 *)
(***************************************************************************)
EXTENDS Naturals, Sequences

CONSTANTS
  Calls,           \* calls of Send
  MessageOf,       \* the message of each call
  Follows,         \* the call whose message and id a call sends again, or None
  None,            \* nil
  MaxUint64,       \* the last ClientMessageID
  FirstCounters,   \* values that idCounter may have had so far
  WriteCapacity    \* writeQueueSize

Ids == 1..MaxUint64

Answers == {"ok", "error"}

\* An ACK for the call, on its way.
Reply == [call : Calls, answer : Answers]

ASSUME SendAssumption ==
  /\ None \notin Calls \cup Ids \cup Reply \cup Answers \cup {"unknown"}
  /\ Follows \in [Calls -> Calls \cup {None}]
  /\ \A s \in Calls : Follows[s] # None => MessageOf[Follows[s]] = MessageOf[s]
  /\ MaxUint64 \in Nat /\ FirstCounters \subseteq 0..MaxUint64
  /\ WriteCapacity \in Nat

VARIABLES
  conn,        \* "open", then the steps of fail(): "done" (r.done is closed),
               \* "shut" (the socket is closed), "cancelled" (cancelPending ran)
  pc,          \* of each call
  result,      \* of each call: "ok", "unknown" (ErrSendOutcomeUnknown) or "error"
  idCounter,   \* Client.idCounter
  id,          \* of each call: its ClientMessageID, or 0
  overlapping, \* calls registered while Send was ending for another one of that id
  pending,     \* r.pending: the call registered under each id
  ack,         \* of each call: what its ack channel holds
  wrote,       \* of each call: what the done channel of its writeRequest holds
  writes,      \* the writes channel
  writer,      \* the call whose frame the write pump has taken, or None
  pumping,     \* the write pump has not returned
  reader,      \* completeACK between its critical section and its send
  accepted,    \* server: calls whose message it accepted
  replies      \* server: ACKs on their way, one per frame it read

run == <<conn, writes, writer, pumping>>
server == <<accepted, replies>>
numbering == <<idCounter, id, overlapping>>
vars == <<run, pc, result, numbering, pending, ack, wrote, reader, server>>

Done == conn # "open"

\* The points of Send between the registration and the deferred delete.
Sending == {"enqueue", "writing", "waiting", "cleanup"}

Init ==
  /\ conn = "open"
  /\ pc = [s \in Calls |-> "idle"]
  /\ result = [s \in Calls |-> None]
  /\ idCounter \in FirstCounters /\ id = [s \in Calls |-> 0]
  /\ overlapping = {}
  /\ pending = [i \in Ids |-> None]
  /\ ack = [s \in Calls |-> None]
  /\ wrote = [s \in Calls |-> None]
  /\ writes = <<>> /\ writer = None /\ pumping = TRUE
  /\ reader = None
  /\ accepted = {} /\ replies = {}

Goto(s, next) == pc' = [pc EXCEPT ![s] = next]

\* Send returns r through its deferred functions.
Finish(s, r) ==
  /\ Goto(s, "cleanup")
  /\ result' = [result EXCEPT ![s] = r]

-----------------------------------------------------------------------------
(* Send and sendFrame.                                                     *)

Returns(s, r) ==
  /\ Goto(s, "returned")
  /\ result' = [result EXCEPT ![s] = r]

Retried(s) == Follows[s] # None /\ id[Follows[s]] # 0

\* Mistake: the counter is stored, not compared and swapped.
storeCounter(s) ==
  /\ pc[s] = "counting"
  /\ idCounter' = id[s] /\ Goto(s, "register")
  /\ UNCHANGED <<run, result, id, overlapping, pending, ack, wrote, reader, server>>

\* nextMessageID: the load, ...
LoadCounter(s) ==
  /\ pc[s] = "idle"
  /\ Follows[s] # None => pc[Follows[s]] = "returned" /\ ~Retried(s)
  /\ \/ /\ idCounter = MaxUint64
        /\ Returns(s, "error") /\ UNCHANGED id
     \/ /\ idCounter # MaxUint64
        /\ Goto(s, "counting") /\ id' = [id EXCEPT ![s] = idCounter + 1]
        /\ UNCHANGED result
  /\ UNCHANGED <<run, idCounter, overlapping, pending, ack, wrote, reader, server>>

\* ... and the compare-and-swap, which starts over when it fails.
SwapCounter(s) ==
  /\ pc[s] = "counting"
  /\ IF idCounter = id[s] - 1
     THEN idCounter' = id[s] /\ Goto(s, "register") /\ UNCHANGED id
     ELSE Goto(s, "idle") /\ id' = [id EXCEPT ![s] = 0] /\ UNCHANGED idCounter
  /\ UNCHANGED <<run, result, overlapping, pending, ack, wrote, reader, server>>

\* The ack channel is registered under the id of this call, or under the id
\* that the caller has from a message it sent, or is still sending.  The checks
\* passed while the run was connected; it may be over by now.
Register(s, i) ==
  /\ \/ pc[s] = "register" /\ i = id[s]
     \/ pc[s] = "idle" /\ Retried(s) /\ pc[Follows[s]] # "counting" /\ i = id[Follows[s]]
  /\ id' = [id EXCEPT ![s] = i]
  /\ \/ /\ pending[i] # None
        /\ Returns(s, "error") /\ UNCHANGED <<pending, overlapping>>
     \/ /\ pending[i] = None
        /\ Goto(s, "enqueue") /\ UNCHANGED result
        /\ pending' = [pending EXCEPT ![i] = s]
        /\ overlapping' = IF \E t \in Calls : pc[t] \in Sending /\ id[t] = i
                          THEN overlapping \cup {s} ELSE overlapping
  /\ UNCHANGED <<run, idCounter, ack, wrote, reader, server>>

\* sendTimeout may pass, or the caller's context be canceled, at any time: the
\* ctx.Done() case of every select below has no guard, and covers the r.done case
\* that returns an error of the same kind.

\* The first select of sendFrame; any ready case may be chosen.
Enqueue(s) ==
  /\ pc[s] = "enqueue"
  /\ \/ /\ Len(writes) < WriteCapacity
        /\ writes' = Append(writes, s)
        /\ Goto(s, "writing")
        /\ UNCHANGED result
     \/ Finish(s, "error") /\ UNCHANGED writes
  /\ UNCHANGED <<numbering, conn, writer, pumping, pending, ack, wrote, reader, server>>

\* The second one.  When the run is done a write that completed still counts.
AwaitWrite(s) ==
  /\ pc[s] = "writing"
  /\ \/ /\ wrote[s] # None
        /\ IF wrote[s] = "ok" THEN Goto(s, "waiting") /\ UNCHANGED result
           ELSE Finish(s, "error")
        /\ wrote' = [wrote EXCEPT ![s] = None]
     \/ Finish(s, "error") /\ UNCHANGED wrote
  /\ UNCHANGED <<numbering, run, pending, ack, reader, server>>

\* The select of Send.
AwaitAck(s) ==
  /\ pc[s] = "waiting"
  /\ \/ ack[s] # None /\ Finish(s, ack[s]) /\ ack' = [ack EXCEPT ![s] = None]
     \/ Finish(s, "unknown") /\ UNCHANGED ack
  /\ UNCHANGED <<numbering, run, pending, wrote, reader, server>>

\* Mistake: the entry of a Send that gave up stays in the table.
cleanupForgets(s) ==
  /\ pc[s] = "cleanup"
  /\ Goto(s, "returned")
  /\ UNCHANGED <<numbering, run, result, pending, ack, wrote, reader, server>>

\* The deferred delete removes the entry of the id, whoever registered it.
Cleanup(s) ==
  /\ pc[s] = "cleanup"
  /\ pending' = [pending EXCEPT ![id[s]] = None]
  /\ Goto(s, "returned")
  /\ UNCHANGED <<numbering, run, result, ack, wrote, reader, server>>

-----------------------------------------------------------------------------
(* The write pump, the read pump and the end of the connection.            *)

\* The select of writePump may take a request although the run is over.
WriterTakes ==
  /\ pumping /\ writer = None /\ writes # <<>>
  /\ writer' = Head(writes) /\ writes' = Tail(writes)
  /\ UNCHANGED <<numbering, conn, pumping, pc, result, pending, ack, wrote, reader, server>>

\* WriteMessage succeeds while the socket is open; the server reads the frame,
\* accepts or refuses the message, and answers.
WriterWrites(answer) ==
  /\ writer # None /\ conn \in {"open", "done"}
  /\ wrote' = [wrote EXCEPT ![writer] = "ok"]
  /\ accepted' = IF answer = "ok" THEN accepted \cup {writer} ELSE accepted
  /\ replies' = replies \cup {[call |-> writer, answer |-> answer]}
  /\ writer' = None
  /\ UNCHANGED <<numbering, conn, writes, pumping, pc, result, pending, ack, reader>>

\* The write fails or its deadline passes: the pump reports it, fails the run
\* and returns.
WriterFails ==
  /\ writer # None
  /\ wrote' = [wrote EXCEPT ![writer] = "error"]
  /\ writer' = None /\ pumping' = FALSE
  /\ conn' = IF conn = "open" THEN "done" ELSE conn
  /\ UNCHANGED <<numbering, writes, pc, result, pending, ack, reader, server>>

WriterExits ==
  /\ pumping /\ writer = None /\ Done
  /\ pumping' = FALSE
  /\ UNCHANGED <<numbering, conn, writes, writer, pc, result, pending, ack, wrote, reader, server>>

\* Mistake: an ACK with an error status is dropped.
completeDropsRefusal(m) ==
  /\ reader = None /\ conn \in {"open", "done"} /\ m \in replies
  /\ replies' = replies \ {m}
  /\ LET i == id[m.call]
         ch == pending[i]
     IN /\ pending' = [pending EXCEPT ![i] = None]
        /\ reader' = IF ch = None \/ m.answer = "error" THEN None
                     ELSE [call |-> ch, answer |-> m.answer]
  /\ UNCHANGED <<numbering, run, pc, result, ack, wrote, accepted>>

\* completeACK takes the channel out of the table, under the lock, ...
CompleteACK(m) ==
  /\ reader = None /\ conn \in {"open", "done"} /\ m \in replies
  /\ replies' = replies \ {m}
  /\ LET i == id[m.call]
         ch == pending[i]
     IN /\ pending' = [pending EXCEPT ![i] = None]
        /\ reader' = IF ch = None THEN None ELSE [call |-> ch, answer |-> m.answer]
  /\ UNCHANGED <<numbering, run, pc, result, ack, wrote, accepted>>

\* ... and sends on it after it released the lock.
DeliverACK ==
  /\ reader # None
  /\ ack[reader.call] = None
  /\ ack' = [ack EXCEPT ![reader.call] = reader.answer]
  /\ reader' = None
  /\ UNCHANGED <<numbering, run, pc, result, pending, wrote, server>>

\* fail(), called by whoever finds the connection broken.
Fail ==
  /\ conn = "open"
  /\ conn' = "done"
  /\ UNCHANGED <<numbering, writes, writer, pumping, pc, result, pending, ack, wrote, reader, server>>

\* No ACK can be read any more.
CloseSocket ==
  /\ conn = "done"
  /\ conn' = "shut"
  /\ replies' = {}
  /\ UNCHANGED <<numbering, writes, writer, pumping, pc, result, pending, ack, wrote, reader, accepted>>

\* cancelPending answers every registered call, holding pendingMu.
CancelPending ==
  /\ conn = "shut"
  /\ \A i \in Ids : pending[i] # None => ack[pending[i]] = None
  /\ conn' = "cancelled"
  /\ ack' = [s \in Calls |-> IF \E i \in Ids : pending[i] = s THEN "unknown" ELSE ack[s]]
  /\ pending' = [i \in Ids |-> None]
  /\ UNCHANGED <<numbering, writes, writer, pumping, pc, result, wrote, reader, server>>

StartStep(s) == LoadCounter(s) \/ SwapCounter(s) \/ (\E i \in Ids : Register(s, i))

SendStep(s) == Enqueue(s) \/ AwaitWrite(s) \/ AwaitAck(s) \/ Cleanup(s)

WriterStep ==
  WriterTakes \/ (\E a \in Answers : WriterWrites(a)) \/ WriterFails \/ WriterExits

FailStep == CloseSocket \/ CancelPending

ReaderStep == (\E m \in replies : CompleteACK(m)) \/ DeliverACK

Terminated ==
  /\ \A s \in Calls : pc[s] = "returned"
  /\ conn = "cancelled" /\ ~pumping
  /\ UNCHANGED vars

Next ==
  \/ \E s \in Calls : StartStep(s) \/ SendStep(s)
  \/ WriterStep \/ Fail \/ FailStep \/ ReaderStep
  \/ Terminated

Spec == Init /\ [][Next]_vars

-----------------------------------------------------------------------------
(* Properties.                                                             *)

InFlight(s) == pc[s] \in Sending \ {"cleanup"}

\* A Send in flight can be answered: its channel is in the table, or holds the
\* answer, or is about to get it - until the connection is over.  The exception
\* is a call that took over its id while the deferred delete of another call
\* was still to come, which removes the entry of the new one.
Answerable ==
  \A s \in Calls \ overlapping : InFlight(s) /\ conn # "cancelled" =>
    pending[id[s]] = s \/ ack[s] # None \/ (reader # None /\ reader.call = s)

\* The table holds calls that are still in Send and have no answer: no entry of
\* a call that returned keeps its id from being used again, and an ack channel
\* has room whenever completeACK or cancelPending sends on it, so that neither
\* the read pump nor fail(), which holds pendingMu, ever blocks.
PendingExact ==
  /\ reader # None => ack[reader.call] = None
  /\ \A i \in Ids : pending[i] # None =>
       /\ pc[pending[i]] \in Sending
       /\ ack[pending[i]] = None /\ (reader # None => reader.call # pending[i])

\* The calls that send the message of s.
Attempts(s) == {t \in Calls : MessageOf[t] = MessageOf[s]}

\* Send returns a result only when the server accepted its message, in this call
\* or in another attempt: an ACK never answers the call of another message,
\* because nextMessageID gives an id to one message only.
SuccessIsReal == \A s \in Calls : result[s] = "ok" => Attempts(s) \cap accepted # {}

=============================================================================
