---------------------------- MODULE SendAckProofs ----------------------------
(***************************************************************************)
(* For any number of calls of Send, any ids and any capacity of the writes *)
(* channel: the table of pending sends holds what it should, a call in     *)
(* flight can be answered, and a call that succeeds was accepted.          *)
(***************************************************************************)
EXTENDS SendAck, SequenceTheorems, TLAPS

PCs == {"idle", "counting", "register", "returned"} \cup Sending

Outcomes == Answers \cup {"unknown"}

TypeOK ==
  /\ conn \in {"open", "done", "shut", "cancelled"}
  /\ pc \in [Calls -> PCs]
  /\ result \in [Calls -> Outcomes \cup {None}]
  /\ idCounter \in 0..MaxUint64
  /\ id \in [Calls -> 0..MaxUint64]
  /\ overlapping \subseteq Calls
  /\ pending \in [Ids -> Calls \cup {None}]
  /\ ack \in [Calls -> Outcomes \cup {None}]
  /\ wrote \in [Calls -> Answers \cup {None}]
  /\ writes \in Seq(Calls)
  /\ writer \in Calls \cup {None}
  /\ reader \in Reply \cup {None}
  /\ accepted \subseteq Calls
  /\ replies \subseteq Reply

\* A call that has come to its table entry, and has an id.
Entered(s) == pc[s] \in Sending \cup {"returned"} /\ id[s] \in Ids

\* An id that is not being tried has been counted, and belongs to one message.
IdsCounted ==
  /\ \A s \in Calls : pc[s] = "idle" => id[s] = 0
  /\ \A s \in Calls : pc[s] \in {"counting", "register"} \cup Sending => id[s] \in Ids
  /\ \A s \in Calls : pc[s] # "counting" => id[s] <= idCounter
  /\ \A s, t \in Calls :
       pc[s] # "counting" /\ pc[t] # "counting" /\ id[s] = id[t] /\ id[s] # 0
       => MessageOf[s] = MessageOf[t]

\* An entry of the table belongs to the call whose id it is under; a call that
\* has not registered yet is neither there, nor answered, nor about to be.
TableExact ==
  /\ \A i \in Ids : pending[i] # None =>
       /\ pc[pending[i]] \in Sending /\ id[pending[i]] = i
       /\ ack[pending[i]] = None /\ (reader # None => reader.call # pending[i])
  /\ reader # None => ack[reader.call] = None /\ Entered(reader.call)
  /\ \A s \in Calls : ack[s] # None => Entered(s)

\* Whoever shares the id of a registered call was in Send when that one came.
LaterOverlaps ==
  \A s, t \in Calls :
    /\ s # t /\ pc[s] \in Sending /\ pc[t] \in Sending
    /\ id[s] = id[t] /\ pending[id[s]] = s
    => s \in overlapping

\* The frames on their way are of calls that entered, and what the server
\* answered is so.
AnswersReal ==
  /\ \A i \in 1..Len(writes) : Entered(writes[i])
  /\ writer # None => Entered(writer)
  /\ \A m \in replies : Entered(m.call) /\ (m.answer = "ok" => m.call \in accepted)
  /\ reader # None /\ reader.answer = "ok" => Attempts(reader.call) \cap accepted # {}
  /\ \A s \in Calls : ack[s] = "ok" => Attempts(s) \cap accepted # {}

SendInv ==
  TypeOK /\ IdsCounted /\ TableExact /\ LaterOverlaps /\ Answerable /\ AnswersReal /\ SuccessIsReal

-----------------------------------------------------------------------------
(* The steps keep the invariant.                                           *)

\* The counter and the ids are 64-bit numbers.
LEMMA Numbers ==
  ASSUME TypeOK
  PROVE  /\ MaxUint64 \in Nat /\ idCounter \in 0..MaxUint64
         /\ id \in [Calls -> 0..MaxUint64]
BY SendAssumption DEF TypeOK

\* nextMessageID loads the counter, or finds it used up.
LEMMA LoadCounterKeeps ==
  ASSUME NEW s \in Calls, SendInv, LoadCounter(s) PROVE SendInv'
<1> USE DEF SendInv
<1>1. /\ pc[s] = "idle" /\ id[s] = 0 /\ ack[s] = None
      /\ \A t \in Calls : t # s => pc'[t] = pc[t] /\ id'[t] = id[t] /\ result'[t] = result[t]
      /\ UNCHANGED <<conn, writes, writer, idCounter, overlapping, pending, ack, wrote, reader>>
      /\ UNCHANGED <<accepted, replies>>
  <2>1. pc[s] = "idle"
    BY DEF LoadCounter
  <2>2. id[s] = 0 /\ ack[s] = None
    BY <2>1 DEF IdsCounted, TableExact, Entered, Sending
  <2>3. \A t \in Calls : t # s => pc'[t] = pc[t] /\ id'[t] = id[t] /\ result'[t] = result[t]
    BY DEF LoadCounter, Goto, Returns, TypeOK
  <2>4. /\ UNCHANGED <<conn, writes, writer, idCounter, overlapping, pending, ack, wrote, reader>>
        /\ UNCHANGED <<accepted, replies>>
    BY DEF LoadCounter, run, server
  <2> QED  BY <2>1, <2>2, <2>3, <2>4
<1>2. \/ pc'[s] = "counting" /\ id'[s] \in Ids /\ result'[s] = result[s]
      \/ pc'[s] = "returned" /\ id'[s] = 0 /\ result'[s] = "error"
  BY <1>1, SendAssumption DEF LoadCounter, Goto, Returns, TypeOK, Ids
<1>3. /\ pc' \in [Calls -> PCs] /\ id' \in [Calls -> 0..MaxUint64]
      /\ result' \in [Calls -> Outcomes \cup {None}]
  <2>1. pc' \in [Calls -> PCs]
    BY DEF LoadCounter, Goto, Returns, TypeOK, PCs
  <2>2. id' \in [Calls -> 0..MaxUint64]
    <3>1. id' = id \/ (idCounter + 1 \in 0..MaxUint64 /\ id' = [id EXCEPT ![s] = idCounter + 1])
      BY Numbers DEF LoadCounter
    <3> QED  BY <3>1, Numbers
  <2>3. result' \in [Calls -> Outcomes \cup {None}]
    BY DEF LoadCounter, Returns, TypeOK, Outcomes, Answers
  <2> QED  BY <2>1, <2>2, <2>3
<1>4. TypeOK'
  BY <1>1, <1>3 DEF TypeOK
<1>5. \A t \in Calls : t # s => (Entered(t) <=> Entered(t)')
  BY <1>1 DEF Entered
<1>6. ~Entered(s)
  BY <1>1 DEF Entered, Sending
<1>7. IdsCounted'
  <2>1. \A t \in Calls : pc'[t] = "idle" => id'[t] = 0
    BY <1>1, <1>2 DEF IdsCounted
  <2>2. \A t \in Calls : pc'[t] \in {"counting", "register"} \cup Sending => id'[t] \in Ids
    BY <1>1, <1>2 DEF IdsCounted, Sending
  <2>3. \A t \in Calls : pc'[t] # "counting" => id'[t] <= idCounter'
    BY <1>1, <1>2 DEF IdsCounted, TypeOK
  <2>4. \A t, u \in Calls :
          pc'[t] # "counting" /\ pc'[u] # "counting" /\ id'[t] = id'[u] /\ id'[t] # 0
          => MessageOf[t] = MessageOf[u]
    BY <1>1, <1>2 DEF IdsCounted
  <2> QED  BY <2>1, <2>2, <2>3, <2>4 DEF IdsCounted
<1>8. TableExact'
  <2>1. \A i \in Ids : pending[i] # s
    BY <1>1, SendAssumption DEF TableExact, Sending
  <2>2. reader # None => reader.call \in Calls /\ reader.call # s
    BY <1>6 DEF TableExact, TypeOK, Reply
  <2> QED  BY <1>1, <1>5, <2>1, <2>2 DEF TableExact, TypeOK
<1>9. LaterOverlaps'
  BY <1>1, <1>2 DEF LaterOverlaps, Sending
<1>10. Answerable'
  BY <1>1, <1>2 DEF Answerable, InFlight, Sending
<1>11. AnswersReal'
  BY <1>1, <1>5, <1>6 DEF AnswersReal, TypeOK, Reply, Attempts
<1>12. SuccessIsReal'
  BY <1>1, <1>2 DEF SuccessIsReal, Attempts
<1> QED  BY <1>4, <1>7, <1>8, <1>9, <1>10, <1>11, <1>12

\* The compare-and-swap gives an id that no call has, or gives none.
LEMMA SwapCounterKeeps ==
  ASSUME NEW s \in Calls, SendInv, SwapCounter(s) PROVE SendInv'
<1> USE DEF SendInv
<1>1. /\ pc[s] = "counting" /\ id[s] \in Ids /\ ack[s] = None
      /\ \A t \in Calls : t # s => pc'[t] = pc[t] /\ id'[t] = id[t]
      /\ UNCHANGED <<conn, writes, writer, overlapping, pending, ack, wrote, reader>>
      /\ UNCHANGED <<accepted, replies, result>>
  <2>1. pc[s] = "counting"
    BY DEF SwapCounter
  <2>2. id[s] \in Ids /\ ack[s] = None
    BY <2>1 DEF IdsCounted, TableExact, Entered, Sending
  <2>3. \A t \in Calls : t # s => pc'[t] = pc[t] /\ id'[t] = id[t]
    BY DEF SwapCounter, Goto, TypeOK
  <2>4. /\ UNCHANGED <<conn, writes, writer, overlapping, pending, ack, wrote, reader>>
        /\ UNCHANGED <<accepted, replies, result>>
    BY DEF SwapCounter, run, server
  <2> QED  BY <2>1, <2>2, <2>3, <2>4
<1>2. \/ pc'[s] = "register" /\ id'[s] = id[s] /\ idCounter = id[s] - 1 /\ idCounter' = id[s]
      \/ pc'[s] = "idle" /\ id'[s] = 0 /\ idCounter' = idCounter
  BY <1>1, SendAssumption DEF SwapCounter, Goto, TypeOK
<1>3. /\ pc' \in [Calls -> PCs] /\ id' \in [Calls -> 0..MaxUint64]
      /\ idCounter' \in 0..MaxUint64
  <2>1. pc' \in [Calls -> PCs]
    BY DEF SwapCounter, Goto, TypeOK, PCs
  <2>2. id' \in [Calls -> 0..MaxUint64] /\ idCounter' \in 0..MaxUint64
    <3>1. id[s] \in 0..MaxUint64 /\ 0 \in 0..MaxUint64
      BY Numbers
    <3> QED  BY <3>1, Numbers DEF SwapCounter
  <2> QED  BY <2>1, <2>2
<1>4. TypeOK'
  BY <1>1, <1>3 DEF TypeOK
<1>5. \A t \in Calls : t # s => (Entered(t) <=> Entered(t)')
  BY <1>1 DEF Entered
<1>6. ~Entered(s)
  BY <1>1 DEF Entered, Sending
<1>7. IdsCounted'
  <2>1. \A t \in Calls : pc'[t] = "idle" => id'[t] = 0
    BY <1>1, <1>2 DEF IdsCounted
  <2>2. \A t \in Calls : pc'[t] \in {"counting", "register"} \cup Sending => id'[t] \in Ids
    BY <1>1, <1>2 DEF IdsCounted, Sending
  <2>3. \A t \in Calls : pc'[t] # "counting" => id'[t] <= idCounter'
    <3>1. \A t \in Calls : pc[t] # "counting" => id[t] <= idCounter
      BY DEF IdsCounted
    <3>2. idCounter <= idCounter' /\ (pc'[s] # "counting" => id'[s] <= idCounter')
      BY <1>1, <1>2, Numbers
    <3>3. idCounter' \in 0..MaxUint64
      BY <1>3
    <3> QED  BY <1>1, <3>1, <3>2, <3>3, Numbers
  <2>4. \A t \in Calls : t # s /\ pc[t] # "counting" /\ pc'[s] = "register" => id[t] < id'[s]
    BY <1>1, <1>2 DEF IdsCounted, TypeOK
  <2>5. ASSUME NEW t \in Calls, NEW u \in Calls,
               pc'[t] # "counting", pc'[u] # "counting", id'[t] = id'[u], id'[t] # 0
        PROVE  MessageOf[t] = MessageOf[u]
    <3>1. CASE t # s /\ u # s
      BY <1>1, <2>5, <3>1 DEF IdsCounted
    <3>2. CASE t = s \/ u = s
      BY <1>1, <1>2, <2>4, <2>5, <3>2 DEF TypeOK
    <3> QED  BY <3>1, <3>2
  <2> QED  BY <2>1, <2>2, <2>3, <2>5 DEF IdsCounted
<1>8. TableExact'
  <2>1. \A i \in Ids : pending[i] # s
    BY <1>1, SendAssumption DEF TableExact, Sending
  <2>2. reader # None => reader.call \in Calls /\ reader.call # s
    BY <1>6 DEF TableExact, TypeOK, Reply
  <2> QED  BY <1>1, <1>5, <2>1, <2>2 DEF TableExact, TypeOK
<1>9. LaterOverlaps'
  BY <1>1, <1>2 DEF LaterOverlaps, Sending
<1>10. Answerable'
  BY <1>1, <1>2 DEF Answerable, InFlight, Sending
<1>11. AnswersReal'
  BY <1>1, <1>5, <1>6 DEF AnswersReal, TypeOK, Reply, Attempts
<1>12. SuccessIsReal'
  BY <1>1 DEF SuccessIsReal, Attempts
<1> QED  BY <1>4, <1>7, <1>8, <1>9, <1>10, <1>11, <1>12

\* A call registers its channel, or finds the id taken.
LEMMA RegisterKeeps ==
  ASSUME NEW s \in Calls, NEW i \in Ids, SendInv, Register(s, i) PROVE SendInv'
<1> USE DEF SendInv
<1>1. pc[s] \in {"idle", "register"}
  BY DEF Register
<1>2. ~Entered(s) /\ ack[s] = None /\ ~(pc[s] \in Sending)
  BY <1>1 DEF TableExact, Entered, Sending
<1>3. \A j \in Ids : pending[j] # s
  BY <1>2, SendAssumption DEF TableExact
<1>4. reader # None => reader.call \in Calls /\ reader.call # s
  BY <1>2 DEF TableExact, TypeOK, Reply
<1>5. /\ UNCHANGED <<conn, writes, writer, idCounter, ack, wrote, reader, accepted, replies>>
      /\ \A t \in Calls : t # s => pc'[t] = pc[t] /\ id'[t] = id[t] /\ result'[t] = result[t]
      /\ id'[s] = i
  <2>1. UNCHANGED <<conn, writes, writer, idCounter, ack, wrote, reader, accepted, replies>>
    BY DEF Register, run, server
  <2>2. \A t \in Calls : t # s => pc'[t] = pc[t] /\ result'[t] = result[t]
    BY DEF Register, Goto, Returns, TypeOK
  <2>3. id'[s] = i /\ \A t \in Calls : t # s => id'[t] = id[t]
    BY Numbers DEF Register
  <2> QED  BY <2>1, <2>2, <2>3
<1>6. \/ /\ pc'[s] = "returned" /\ result'[s] = "error" /\ UNCHANGED <<pending, overlapping>>
      \/ /\ pc'[s] = "enqueue" /\ result'[s] = result[s] /\ pending[i] = None
         /\ pending' = [pending EXCEPT ![i] = s]
         /\ overlapping' = IF \E t \in Calls : pc[t] \in Sending /\ id[t] = i
                           THEN overlapping \cup {s} ELSE overlapping
  BY DEF Register, Goto, Returns, TypeOK
<1>7. TypeOK'
  <2>1. pc' \in [Calls -> PCs] /\ result' \in [Calls -> Outcomes \cup {None}]
    BY DEF Register, Goto, Returns, TypeOK, PCs, Sending, Outcomes, Answers
  <2>2. id' \in [Calls -> 0..MaxUint64]
    BY Numbers DEF Register, Ids
  <2>3. overlapping' \subseteq Calls /\ pending' \in [Ids -> Calls \cup {None}]
    BY <1>6 DEF TypeOK
  <2> QED  BY <1>5, <2>1, <2>2, <2>3 DEF TypeOK
<1>8. \A t \in Calls : Entered(t) => Entered(t)'
  BY <1>2, <1>5 DEF Entered
<1>9. i <= idCounter /\ \A t \in Calls : pc[t] # "counting" /\ id[t] = i => MessageOf[t] = MessageOf[s]
  <2>1. i # 0
    BY DEF Ids
  <2>2. PICK u \in Calls : pc[u] # "counting" /\ id[u] = i /\ MessageOf[u] = MessageOf[s]
    BY SendAssumption DEF Register, Retried
  <2> QED  BY <2>1, <2>2 DEF IdsCounted
<1>10. IdsCounted'
  <2>1. \A t \in Calls : pc'[t] = "idle" => id'[t] = 0
    BY <1>5, <1>6 DEF IdsCounted
  <2>2. \A t \in Calls : pc'[t] \in {"counting", "register"} \cup Sending => id'[t] \in Ids
    BY <1>5 DEF IdsCounted
  <2>3. \A t \in Calls : pc'[t] # "counting" => id'[t] <= idCounter'
    BY <1>5, <1>9 DEF IdsCounted
  <2>4. \A t, u \in Calls :
          pc'[t] # "counting" /\ pc'[u] # "counting" /\ id'[t] = id'[u] /\ id'[t] # 0
          => MessageOf[t] = MessageOf[u]
    BY <1>5, <1>9 DEF IdsCounted
  <2> QED  BY <2>1, <2>2, <2>3, <2>4 DEF IdsCounted
<1>11. TableExact'
  <2>1. ASSUME NEW j \in Ids, pending'[j] # None
        PROVE  /\ pc'[pending'[j]] \in Sending /\ id'[pending'[j]] = j
               /\ ack'[pending'[j]] = None /\ (reader' # None => reader'.call # pending'[j])
    <3>1. CASE pending'[j] = pending[j]
      BY <1>3, <1>5, <2>1, <3>1 DEF TableExact, TypeOK
    <3>2. CASE pending'[j] # pending[j]
      <4>1. j = i /\ pending'[j] = s /\ pc'[s] = "enqueue"
        BY <1>6, <3>2 DEF TypeOK
      <4> QED  BY <4>1, <1>2, <1>4, <1>5 DEF Sending
    <3> QED  BY <3>1, <3>2
  <2>2. (reader # None => ack[reader.call] = None /\ Entered(reader.call))'
    <3>1. reader # None => ack[reader.call] = None /\ Entered(reader.call)
      BY DEF TableExact
    <3> QED  BY <1>4, <1>5, <3>1 DEF Entered
  <2>3. \A t \in Calls : ack'[t] # None => Entered(t)'
    BY <1>5, <1>8 DEF TableExact
  <2> QED  BY <2>1, <2>2, <2>3 DEF TableExact
<1>12. LaterOverlaps'
  <2>1. CASE pc'[s] = "returned"
    BY <1>5, <1>6, <2>1 DEF LaterOverlaps, Sending
  <2>2. CASE pc'[s] # "returned"
    <3>1. pending'[i] = s /\ \A j \in Ids : j # i => pending'[j] = pending[j]
      BY <1>6, <2>2 DEF TypeOK
    <3>2. /\ overlapping \subseteq overlapping'
          /\ (\E t \in Calls : pc[t] \in Sending /\ id[t] = i) => s \in overlapping'
      BY <1>6, <2>2
    <3>3. \A t \in Calls : pc[t] \in Sending => id[t] \in Ids
      BY DEF IdsCounted
    <3> QED  BY <1>5, <3>1, <3>2, <3>3 DEF LaterOverlaps
  <2> QED  BY <2>1, <2>2
<1>13. Answerable'
  <2>1. \A t \in Calls : pc[t] \in Sending => id[t] \in Ids
    BY DEF IdsCounted
  <2>2. \A t \in Calls, j \in Ids : pending[j] = t => pending'[j] = t
    BY <1>6, SendAssumption DEF TypeOK
  <2>3. InFlight(s)' => pending'[i] = s
    BY <1>6 DEF InFlight, Sending, TypeOK
  <2>4. \A t \in Calls : t # s /\ InFlight(t)' => InFlight(t) /\ pc[t] \in Sending
    BY <1>5 DEF InFlight
  <2>5. overlapping \subseteq overlapping'
    BY <1>6
  <2> QED  BY <1>5, <2>1, <2>2, <2>3, <2>4, <2>5 DEF Answerable
<1>14. AnswersReal'
  BY <1>5, <1>8 DEF AnswersReal, TypeOK, Reply, Attempts
<1>15. SuccessIsReal'
  BY <1>5, <1>6 DEF SuccessIsReal, Attempts
<1> QED  BY <1>7, <1>10, <1>11, <1>12, <1>13, <1>14, <1>15

\* A call in flight goes on, and takes its answer only as it gives up the rest.
LEMMA Advance ==
  ASSUME NEW s \in Calls, NEW n \in Sending, SendInv,
         InFlight(s), Goto(s, n),
         ack' = ack \/ (ack' = [ack EXCEPT ![s] = None] /\ n = "cleanup"),
         UNCHANGED <<conn, numbering, pending, reader>>
  PROVE  /\ pc' \in [Calls -> PCs] /\ ack' \in [Calls -> Outcomes \cup {None}]
         /\ IdsCounted' /\ TableExact' /\ LaterOverlaps' /\ Answerable'
         /\ \A t \in Calls : Entered(t) => Entered(t)'
         /\ \A t \in Calls : ack'[t] = "ok" => ack[t] = "ok"
<1> USE DEF SendInv
<1>1. /\ UNCHANGED <<conn, idCounter, id, overlapping, pending, reader>>
      /\ pc[s] \in Sending /\ pc[s] # "cleanup" /\ pc'[s] = n
      /\ \A t \in Calls : t # s => pc'[t] = pc[t] /\ ack'[t] = ack[t]
  BY DEF numbering, InFlight, Goto, TypeOK
<1>2. \/ ack'[s] = ack[s]
      \/ ack'[s] = None /\ n = "cleanup"
  BY DEF TypeOK
<1>3. pc' \in [Calls -> PCs] /\ ack' \in [Calls -> Outcomes \cup {None}]
  BY DEF Goto, TypeOK, PCs
<1>4. \A t \in Calls : (pc'[t] \in Sending <=> pc[t] \in Sending) /\ (t # s => pc'[t] = pc[t])
  BY <1>1
<1>5. \A t \in Calls : Entered(t) => Entered(t)'
  BY <1>1, <1>4 DEF Entered
<1>6. IdsCounted'
  <2>1. \A t \in Calls : pc'[t] \in {"idle", "counting", "register"} => pc'[t] = pc[t]
    BY <1>1 DEF Sending
  <2>2. \A t \in Calls : pc'[t] # "counting" => pc[t] # "counting"
    BY <1>1 DEF Sending
  <2> QED  BY <1>1, <1>4, <2>1, <2>2 DEF IdsCounted
<1>7. TableExact'
  <2>1. reader # None => reader.call \in Calls
    BY DEF TypeOK, Reply
  <2>2. \A t \in Calls : ack[t] = None => ack'[t] = None
    BY <1>1, <1>2
  <2>3. (\A i \in Ids : pending[i] # None =>
          /\ pc[pending[i]] \in Sending /\ id[pending[i]] = i
          /\ ack[pending[i]] = None /\ (reader # None => reader.call # pending[i]))'
    BY <1>1, <1>4, <2>2 DEF TableExact, TypeOK
  <2>4. (reader # None => ack[reader.call] = None /\ Entered(reader.call))'
    BY <1>1, <1>4, <2>1, <2>2 DEF TableExact, Entered
  <2>5. (\A t \in Calls : ack[t] # None => Entered(t))'
    BY <1>5, <2>2 DEF TableExact
  <2> QED  BY <2>3, <2>4, <2>5 DEF TableExact
<1>8. LaterOverlaps'
  BY <1>1, <1>4 DEF LaterOverlaps
<1>9. Answerable'
  <2>1. \A t \in Calls : InFlight(t)' => InFlight(t) /\ (ack'[t] = ack[t])
    BY <1>1, <1>2 DEF InFlight
  <2> QED  BY <1>1, <2>1 DEF Answerable
<1>10. \A t \in Calls : ack'[t] = "ok" => ack[t] = "ok"
  BY <1>1, <1>2, SendAssumption DEF Answers
<1> QED  BY <1>3, <1>5, <1>6, <1>7, <1>8, <1>9, <1>10

\* A frame goes into the writes channel.
LEMMA EnqueueKeeps ==
  ASSUME NEW s \in Calls, SendInv, Enqueue(s) PROVE SendInv'
<1> USE DEF SendInv
<1>1. PICK n \in {"writing", "cleanup"} : Goto(s, n)
  BY DEF Enqueue, Finish
<1>2. /\ UNCHANGED <<conn, numbering, pending, reader, ack, wrote, writer, accepted, replies>>
      /\ InFlight(s)
  BY DEF Enqueue, InFlight, Sending, server
<1>3. /\ pc' \in [Calls -> PCs] /\ ack' \in [Calls -> Outcomes \cup {None}]
      /\ IdsCounted' /\ TableExact' /\ LaterOverlaps' /\ Answerable'
      /\ \A t \in Calls : Entered(t) => Entered(t)'
  BY <1>1, <1>2, Advance DEF Sending
<1>4. Entered(s)
  BY <1>2 DEF InFlight, IdsCounted, Entered
<1>5. /\ writes' \in Seq(Calls)
      /\ \A i \in 1..Len(writes') : Entered(writes'[i])
  <2>1. CASE writes' = writes
    BY <2>1 DEF TypeOK, AnswersReal
  <2>2. CASE writes' = Append(writes, s)
    BY <2>2, <1>4, AppendProperties DEF TypeOK, AnswersReal
  <2> QED  BY <2>1, <2>2 DEF Enqueue
<1>6. \A t \in Calls : result'[t] = result[t] \/ result'[t] = "error"
  BY DEF Enqueue, Finish, TypeOK
<1>7. TypeOK'
  <2>1. result' \in [Calls -> Outcomes \cup {None}]
    BY DEF Enqueue, Finish, TypeOK, Outcomes, Answers
  <2> QED  BY <1>2, <1>3, <1>5, <2>1 DEF TypeOK, numbering
<1>8. AnswersReal'
  <2>1. \A i \in 1..Len(writes') : writes'[i] \in Calls
    BY <1>5, ElementOfSeq
  <2>2. (\A i \in 1..Len(writes) : Entered(writes[i]))'
    BY <1>3, <1>5, <2>1 DEF Entered
  <2> QED  BY <1>2, <1>3, <2>2 DEF AnswersReal, TypeOK, Reply, Attempts
<1>9. SuccessIsReal'
  BY <1>2, <1>6 DEF SuccessIsReal, Attempts
<1> QED  BY <1>3, <1>7, <1>8, <1>9

\* The end of a write reaches the call.
LEMMA AwaitWriteKeeps ==
  ASSUME NEW s \in Calls, SendInv, AwaitWrite(s) PROVE SendInv'
<1> USE DEF SendInv
<1>1. PICK n \in {"waiting", "cleanup"} : Goto(s, n)
  BY DEF AwaitWrite, Finish
<1>2. /\ UNCHANGED <<conn, numbering, pending, reader, ack, writes, writer, accepted, replies>>
      /\ InFlight(s)
  BY DEF AwaitWrite, InFlight, Sending, server, run
<1>3. /\ pc' \in [Calls -> PCs] /\ ack' \in [Calls -> Outcomes \cup {None}]
      /\ IdsCounted' /\ TableExact' /\ LaterOverlaps' /\ Answerable'
      /\ \A t \in Calls : Entered(t) => Entered(t)'
  BY <1>1, <1>2, Advance DEF Sending
<1>4. \A t \in Calls : result'[t] = result[t] \/ result'[t] = "error"
  BY DEF AwaitWrite, Finish, TypeOK
<1>5. TypeOK'
  <2>1. /\ result' \in [Calls -> Outcomes \cup {None}]
        /\ wrote' \in [Calls -> Answers \cup {None}]
    BY DEF AwaitWrite, Finish, TypeOK, Outcomes, Answers
  <2> QED  BY <1>2, <1>3, <2>1 DEF TypeOK, numbering
<1>6. AnswersReal'
  BY <1>2, <1>3, ElementOfSeq DEF AnswersReal, TypeOK, Reply, Attempts
<1>7. SuccessIsReal'
  BY <1>2, <1>4 DEF SuccessIsReal, Attempts
<1> QED  BY <1>3, <1>5, <1>6, <1>7

\* The answer reaches the call, or it gives up.
LEMMA AwaitAckKeeps ==
  ASSUME NEW s \in Calls, SendInv, AwaitAck(s) PROVE SendInv'
<1> USE DEF SendInv
<1>1. Goto(s, "cleanup") /\ InFlight(s)
  BY DEF AwaitAck, Finish, InFlight, Sending
<1>2. /\ UNCHANGED <<conn, numbering, pending, reader, wrote, writes, writer, accepted, replies>>
      /\ ack' = ack \/ ack' = [ack EXCEPT ![s] = None]
  BY DEF AwaitAck, server, run
<1>3. /\ pc' \in [Calls -> PCs] /\ ack' \in [Calls -> Outcomes \cup {None}]
      /\ IdsCounted' /\ TableExact' /\ LaterOverlaps' /\ Answerable'
      /\ \A t \in Calls : Entered(t) => Entered(t)'
      /\ \A t \in Calls : ack'[t] = "ok" => ack[t] = "ok"
  BY <1>1, <1>2, Advance DEF Sending
<1>4. \A t \in Calls : result'[t] = "ok" => result[t] = "ok" \/ ack[t] = "ok"
  BY DEF AwaitAck, Finish, TypeOK
<1>5. TypeOK'
  <2>1. result' \in [Calls -> Outcomes \cup {None}]
    BY DEF AwaitAck, Finish, TypeOK, Outcomes
  <2> QED  BY <1>2, <1>3, <2>1 DEF TypeOK, numbering
<1>6. AnswersReal'
  BY <1>2, <1>3, ElementOfSeq DEF AnswersReal, TypeOK, Reply, Attempts
<1>7. SuccessIsReal'
  BY <1>2, <1>4 DEF SuccessIsReal, AnswersReal, Attempts
<1> QED  BY <1>3, <1>5, <1>6, <1>7

\* The deferred delete.
LEMMA CleanupKeeps ==
  ASSUME NEW s \in Calls, SendInv, Cleanup(s) PROVE SendInv'
<1> USE DEF SendInv, Cleanup, Goto, numbering, run, server, PCs, Sending, Outcomes, Answers
<1>1. TypeOK'  BY SendAssumption DEF TypeOK, Ids, Reply
<1>2. IdsCounted'  BY SendAssumption DEF TypeOK, IdsCounted, Ids
<1>3. TableExact'  BY SendAssumption DEF TypeOK, IdsCounted, TableExact, Entered, Reply
<1>4. LaterOverlaps'  BY SendAssumption DEF TypeOK, IdsCounted, TableExact, LaterOverlaps
<1>5. Answerable'  BY SendAssumption DEF TypeOK, IdsCounted, TableExact, LaterOverlaps, Answerable, InFlight, Reply
<1>6. AnswersReal'  BY SendAssumption DEF TypeOK, IdsCounted, AnswersReal, Attempts, Entered, Reply
<1>7. SuccessIsReal'  BY DEF TypeOK, AnswersReal, SuccessIsReal, Attempts
<1> QED  BY <1>1, <1>2, <1>3, <1>4, <1>5, <1>6, <1>7

\* The write pump takes a frame.
LEMMA WriterTakesKeeps ==
  ASSUME SendInv, WriterTakes PROVE SendInv'
<1> USE DEF SendInv, WriterTakes, numbering, server, PCs, Sending, Outcomes, Answers
<1>1. TypeOK'  BY SendAssumption DEF TypeOK, Ids, Reply
<1>2. IdsCounted'  BY SendAssumption DEF TypeOK, IdsCounted, Ids
<1>3. TableExact'  BY SendAssumption DEF TypeOK, IdsCounted, TableExact, Entered, Reply
<1>4. LaterOverlaps'  BY SendAssumption DEF TypeOK, IdsCounted, TableExact, LaterOverlaps
<1>5. Answerable'  BY SendAssumption DEF TypeOK, IdsCounted, TableExact, LaterOverlaps, Answerable, InFlight, Reply
<1>6. AnswersReal'
  <2>1. /\ writer' \in Calls /\ Entered(writer')
        /\ writes' \in Seq(Calls) /\ \A i \in 1..Len(writes') : Entered(writes'[i])
    BY HeadTailProperties, ElementOfSeq DEF TypeOK, AnswersReal
  <2>2. UNCHANGED <<pc, id, accepted, replies, reader, ack>>
    OBVIOUS
  <2> HIDE DEF WriterTakes
  <2> QED  BY <2>1, <2>2 DEF AnswersReal, Attempts, Entered
<1>7. SuccessIsReal'  BY DEF TypeOK, AnswersReal, SuccessIsReal, Attempts
<1> QED  BY <1>1, <1>2, <1>3, <1>4, <1>5, <1>6, <1>7

\* The server reads a frame and answers.
LEMMA WriterWritesKeeps ==
  ASSUME NEW a \in Answers, SendInv, WriterWrites(a) PROVE SendInv'
<1> USE DEF SendInv, WriterWrites, numbering, PCs, Sending, Outcomes, Answers
<1>1. TypeOK'  BY SendAssumption DEF TypeOK, Ids, Reply
<1>2. IdsCounted'  BY SendAssumption DEF TypeOK, IdsCounted, Ids
<1>3. TableExact'  BY SendAssumption DEF TypeOK, IdsCounted, TableExact, Entered, Reply
<1>4. LaterOverlaps'  BY SendAssumption DEF TypeOK, IdsCounted, TableExact, LaterOverlaps
<1>5. Answerable'  BY SendAssumption DEF TypeOK, IdsCounted, TableExact, LaterOverlaps, Answerable, InFlight, Reply
<1>6. AnswersReal'  BY SendAssumption DEF TypeOK, IdsCounted, AnswersReal, Attempts, Entered, Reply
<1>7. SuccessIsReal'  BY DEF TypeOK, AnswersReal, SuccessIsReal, Attempts
<1> QED  BY <1>1, <1>2, <1>3, <1>4, <1>5, <1>6, <1>7

\* A write fails.
LEMMA WriterFailsKeeps ==
  ASSUME SendInv, WriterFails PROVE SendInv'
<1> USE DEF SendInv, WriterFails, numbering, server, PCs, Sending, Outcomes, Answers
<1>1. TypeOK'  BY SendAssumption DEF TypeOK, Ids, Reply
<1>2. IdsCounted'  BY SendAssumption DEF TypeOK, IdsCounted, Ids
<1>3. TableExact'  BY SendAssumption DEF TypeOK, IdsCounted, TableExact, Entered, Reply
<1>4. LaterOverlaps'  BY SendAssumption DEF TypeOK, IdsCounted, TableExact, LaterOverlaps
<1>5. Answerable'  BY SendAssumption DEF TypeOK, IdsCounted, TableExact, LaterOverlaps, Answerable, InFlight, Reply
<1>6. AnswersReal'  BY SendAssumption DEF TypeOK, IdsCounted, AnswersReal, Attempts, Entered, Reply
<1>7. SuccessIsReal'  BY DEF TypeOK, AnswersReal, SuccessIsReal, Attempts
<1> QED  BY <1>1, <1>2, <1>3, <1>4, <1>5, <1>6, <1>7

\* completeACK takes the channel out of the table.
LEMMA CompleteACKKeeps ==
  ASSUME NEW m \in replies, SendInv, CompleteACK(m) PROVE SendInv'
<1> USE DEF SendInv
<1> DEFINE i == id[m.call]
<1> DEFINE ch == pending[i]
<1>1. /\ reader = None /\ replies' = replies \ {m}
      /\ pending' = [pending EXCEPT ![i] = None]
      /\ reader' = IF ch = None THEN None ELSE [call |-> ch, answer |-> m.answer]
      /\ UNCHANGED <<conn, writes, writer, pc, result, idCounter, id, overlapping, ack, wrote, accepted>>
  BY DEF CompleteACK, numbering, run
<1>2. /\ m.call \in Calls /\ m.answer \in Answers /\ Entered(m.call) /\ i \in Ids
      /\ m.answer = "ok" => m.call \in accepted
  BY DEF AnswersReal, TypeOK, Reply, Entered
<1>3. ch # None => /\ ch \in Calls /\ Entered(ch) /\ ack[ch] = None /\ id[ch] = i
                   /\ MessageOf[ch] = MessageOf[m.call]
  <2>1. ASSUME ch # None
        PROVE  ch \in Calls /\ pc[ch] \in Sending /\ id[ch] = i /\ ack[ch] = None
    BY <1>2, <2>1 DEF TableExact, TypeOK
  <2>2. ASSUME ch # None PROVE MessageOf[ch] = MessageOf[m.call]
    <3>1. pc[ch] # "counting" /\ pc[m.call] # "counting" /\ i # 0
      BY <1>2, <2>1, <2>2 DEF Entered, Sending, Ids
    <3> QED  BY <1>2, <2>1, <2>2, <3>1 DEF IdsCounted
  <2> QED  BY <1>2, <2>1, <2>2 DEF Entered
<1>4. /\ pending'[i] = None /\ \A j \in Ids : j # i => pending'[j] = pending[j]
      /\ pending' \in [Ids -> Calls \cup {None}]
  BY <1>1, <1>2 DEF TypeOK
<1>5. \/ ch = None /\ reader' = None
      \/ /\ ch # None /\ reader' # None /\ reader' \in Reply
         /\ reader'.call = ch /\ reader'.answer = m.answer
  BY <1>1, <1>2, <1>3, SendAssumption DEF Reply
<1> HIDE DEF i, ch
<1>6. TypeOK'
  BY <1>1, <1>4, <1>5 DEF TypeOK
<1>7. IdsCounted'
  BY <1>1 DEF IdsCounted
<1>8. TableExact'
  <2>1. (\A j \in Ids : pending[j] # None =>
          /\ pc[pending[j]] \in Sending /\ id[pending[j]] = j
          /\ ack[pending[j]] = None /\ (reader # None => reader.call # pending[j]))'
    <3> SUFFICES ASSUME NEW j \in Ids, pending'[j] # None
                 PROVE  /\ pc[pending[j]] \in Sending /\ id[pending[j]] = j
                        /\ ack[pending[j]] = None
                        /\ pending'[j] = pending[j] /\ (reader' # None => reader'.call # pending[j])
      BY <1>1
    <3>1. j # i /\ pending'[j] = pending[j]
      BY <1>4
    <3>2. id[pending[j]] = j /\ pc[pending[j]] \in Sending /\ ack[pending[j]] = None
      BY <3>1 DEF TableExact
    <3> QED  BY <1>3, <1>5, <3>1, <3>2
  <2>2. (reader # None => ack[reader.call] = None /\ Entered(reader.call))'
    BY <1>1, <1>3, <1>5 DEF Entered
  <2>3. (\A t \in Calls : ack[t] # None => Entered(t))'
    BY <1>1 DEF TableExact, Entered
  <2> QED  BY <2>1, <2>2, <2>3 DEF TableExact
<1>9. LaterOverlaps'
  <2>1. \A t \in Calls : pc[t] \in Sending /\ pending'[id[t]] = t => pending[id[t]] = t
    BY <1>4, SendAssumption DEF IdsCounted
  <2> QED  BY <1>1, <2>1 DEF LaterOverlaps
<1>10. Answerable'
  <2>1. \A t \in Calls : pc[t] \in Sending /\ pending[id[t]] = t
                        => pending'[id[t]] = t \/ (reader' # None /\ reader'.call = t)
    <3> SUFFICES ASSUME NEW t \in Calls, pc[t] \in Sending, pending[id[t]] = t
                 PROVE  pending'[id[t]] = t \/ (reader' # None /\ reader'.call = t)
      OBVIOUS
    <3>1. id[t] \in Ids /\ t # None
      BY SendAssumption DEF IdsCounted
    <3>2. CASE id[t] = i  BY <3>1, <3>2, <1>5 DEF ch
    <3>3. CASE id[t] # i  BY <3>1, <3>3, <1>4
    <3> QED  BY <3>2, <3>3
  <2> QED  BY <1>1, <2>1 DEF Answerable, InFlight
<1>11. AnswersReal'
  <2>1. (reader # None /\ reader.answer = "ok" => Attempts(reader.call) \cap accepted # {})'
    BY <1>1, <1>2, <1>3, <1>5 DEF Attempts
  <2>2. /\ (\A j \in 1..Len(writes) : Entered(writes[j]))'
        /\ (writer # None => Entered(writer))'
        /\ (\A n \in replies : Entered(n.call) /\ (n.answer = "ok" => n.call \in accepted))'
        /\ (\A s \in Calls : ack[s] = "ok" => Attempts(s) \cap accepted # {})'
    BY <1>1 DEF AnswersReal, Entered, Attempts
  <2> QED  BY <2>1, <2>2 DEF AnswersReal
<1>12. SuccessIsReal'
  BY <1>1 DEF SuccessIsReal, Attempts
<1> QED  BY <1>6, <1>7, <1>8, <1>9, <1>10, <1>11, <1>12

\* completeACK sends on the channel.
LEMMA DeliverACKKeeps ==
  ASSUME SendInv, DeliverACK PROVE SendInv'
<1> USE DEF SendInv, DeliverACK, numbering, run, server, PCs, Sending, Outcomes, Answers
<1>1. TypeOK'  BY SendAssumption DEF TypeOK, Ids, Reply
<1>2. IdsCounted'  BY SendAssumption DEF TypeOK, IdsCounted, Ids
<1>3. TableExact'  BY SendAssumption DEF TypeOK, IdsCounted, TableExact, Entered, Reply
<1>4. LaterOverlaps'  BY SendAssumption DEF TypeOK, IdsCounted, TableExact, LaterOverlaps
<1>5. Answerable'  BY SendAssumption DEF TypeOK, IdsCounted, TableExact, LaterOverlaps, Answerable, InFlight, Reply
<1>6. AnswersReal'  BY SendAssumption DEF TypeOK, IdsCounted, AnswersReal, Attempts, Entered, Reply
<1>7. SuccessIsReal'  BY DEF TypeOK, AnswersReal, SuccessIsReal, Attempts
<1> QED  BY <1>1, <1>2, <1>3, <1>4, <1>5, <1>6, <1>7

\* fail() closes the socket.
LEMMA CloseSocketKeeps ==
  ASSUME SendInv, CloseSocket PROVE SendInv'
<1> USE DEF SendInv, CloseSocket, numbering, PCs, Sending, Outcomes, Answers
<1>1. TypeOK'  BY SendAssumption DEF TypeOK, Ids, Reply
<1>2. IdsCounted'  BY SendAssumption DEF TypeOK, IdsCounted, Ids
<1>3. TableExact'  BY SendAssumption DEF TypeOK, IdsCounted, TableExact, Entered, Reply
<1>4. LaterOverlaps'  BY SendAssumption DEF TypeOK, IdsCounted, TableExact, LaterOverlaps
<1>5. Answerable'  BY SendAssumption DEF TypeOK, IdsCounted, TableExact, LaterOverlaps, Answerable, InFlight, Reply
<1>6. AnswersReal'  BY SendAssumption DEF TypeOK, IdsCounted, AnswersReal, Attempts, Entered, Reply
<1>7. SuccessIsReal'  BY DEF TypeOK, AnswersReal, SuccessIsReal, Attempts
<1> QED  BY <1>1, <1>2, <1>3, <1>4, <1>5, <1>6, <1>7

\* fail() answers every registered call.
LEMMA CancelPendingKeeps ==
  ASSUME SendInv, CancelPending PROVE SendInv'
<1> USE DEF SendInv, CancelPending, numbering, server, PCs, Sending, Outcomes, Answers
<1>1. TypeOK'  BY SendAssumption DEF TypeOK, Ids, Reply
<1>2. IdsCounted'  BY SendAssumption DEF TypeOK, IdsCounted, Ids
<1>3. TableExact'  BY SendAssumption DEF TypeOK, IdsCounted, TableExact, Entered, Reply
<1>4. LaterOverlaps'  BY SendAssumption DEF TypeOK, IdsCounted, TableExact, LaterOverlaps
<1>5. Answerable'  BY SendAssumption DEF TypeOK, IdsCounted, TableExact, LaterOverlaps, Answerable, InFlight, Reply
<1>6. AnswersReal'  BY SendAssumption DEF TypeOK, IdsCounted, AnswersReal, Attempts, Entered, Reply
<1>7. SuccessIsReal'  BY DEF TypeOK, AnswersReal, SuccessIsReal, Attempts
<1> QED  BY <1>1, <1>2, <1>3, <1>4, <1>5, <1>6, <1>7

-----------------------------------------------------------------------------
(* The theorems.                                                           *)

\* The invariant holds at first.
LEMMA InitSend == Init => SendInv
<1> SUFFICES ASSUME Init PROVE SendInv  OBVIOUS
<1> USE DEF Init
<1>1. TypeOK
  <2>1. 0 \in 0..MaxUint64 /\ idCounter \in 0..MaxUint64  BY SendAssumption
  <2> QED  BY <2>1 DEF TypeOK, PCs
<1>2. IdsCounted
  BY SendAssumption DEF IdsCounted, Sending
<1>3. TableExact /\ LaterOverlaps /\ Answerable /\ SuccessIsReal
  BY SendAssumption DEF TableExact, LaterOverlaps, Answerable, InFlight, SuccessIsReal, Sending, Answers
<1>4. AnswersReal
  BY SendAssumption DEF AnswersReal, Answers
<1> QED  BY <1>1, <1>2, <1>3, <1>4 DEF SendInv

\* No step changes what the invariant is about but those of the lemmas.
LEMMA IdleSteps ==
  ASSUME SendInv,
         UNCHANGED <<numbering, pc, result, pending, ack, wrote, writes, writer, reader, server>>,
         conn' \in {conn, "done"}, conn' # conn => conn = "open"
  PROVE  SendInv'
<1> USE DEF SendInv, numbering, server
<1>1. TypeOK'  BY DEF TypeOK
<1>2. IdsCounted' /\ LaterOverlaps' /\ SuccessIsReal'
  BY DEF IdsCounted, LaterOverlaps, SuccessIsReal, Attempts
<1>3. TableExact'  BY DEF TableExact, Entered
<1>4. Answerable'  BY DEF Answerable, InFlight
<1>5. AnswersReal'  BY DEF AnswersReal, Entered, Attempts
<1> QED  BY <1>1, <1>2, <1>3, <1>4, <1>5

LEMMA NextSend == SendInv /\ [Next]_vars => SendInv'
<1> SUFFICES ASSUME SendInv, [Next]_vars PROVE SendInv'  OBVIOUS
<1>1. ASSUME NEW s \in Calls, StartStep(s) PROVE SendInv'
  BY <1>1, LoadCounterKeeps, SwapCounterKeeps, RegisterKeeps DEF StartStep
<1>2. ASSUME NEW s \in Calls, SendStep(s) PROVE SendInv'
  BY <1>2, EnqueueKeeps, AwaitWriteKeeps, AwaitAckKeeps, CleanupKeeps DEF SendStep
<1>3. CASE WriterExits \/ Fail \/ UNCHANGED vars
  BY <1>3, IdleSteps DEF WriterExits, Fail, vars, run
<1>4. CASE WriterStep
  BY <1>3, <1>4, WriterTakesKeeps, WriterWritesKeeps, WriterFailsKeeps DEF WriterStep
<1>5. CASE FailStep
  BY <1>5, CloseSocketKeeps, CancelPendingKeeps DEF FailStep
<1>6. CASE ReaderStep
  BY <1>6, CompleteACKKeeps, DeliverACKKeeps DEF ReaderStep
<1>7. CASE Terminated
  BY <1>3, <1>7 DEF Terminated
<1> QED  BY <1>1, <1>2, <1>3, <1>4, <1>5, <1>6, <1>7 DEF Next

LEMMA SendInvariant == Spec => []SendInv
BY InitSend, NextSend, PTL DEF Spec

\* Whatever the interleaving of Send, the pumps and fail(), a Send in flight is
\* registered, answered or about to be answered until cancelPending has run,
\* unless it shares its id with a call whose deferred delete was to come.
THEOREM SendsAnswerable == Spec => []Answerable
<1>1. SendInv => Answerable  BY DEF SendInv
<1> QED  BY <1>1, SendInvariant, PTL

\* r.pending holds calls that are still in Send and have room in their ack
\* channel: completeACK and cancelPending never block on one.
THEOREM PendingTableExact == Spec => []PendingExact
<1>1. SendInv => PendingExact  BY DEF SendInv, TableExact, PendingExact
<1> QED  BY <1>1, SendInvariant, PTL

\* A Send that returns a result sent a message that the server accepted: the
\* compare-and-swap of nextMessageID gives an id to one message only, so that an
\* ACK never answers the call of another one.
THEOREM SuccessesReal == Spec => []SuccessIsReal
<1>1. SendInv => SuccessIsReal  BY DEF SendInv
<1> QED  BY <1>1, SendInvariant, PTL

=============================================================================
