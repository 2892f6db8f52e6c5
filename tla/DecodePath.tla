----------------------------- MODULE DecodePath -----------------------------
(***************************************************************************)
(* decodeAndDispatch (sdk/connection.go): the read pumps of several        *)
(* connections share the process's decode budget.  Each classifies the     *)
(* frame it has read, reserves what the class may take (Envelope,          *)
(* sdk/decode_admission.go), waits for it in Acquire (ByteBudget), unpacks *)
(* and decodes the frame (Envelope, FrameLimits), dispatches it and        *)
(* releases.  A connection also sends one PROVISION (EncodeProvision).     *)
(*                                                                         *)
(* A frame is given as a sequence of parts: the bytes of a field and what  *)
(* they say.  The code sees the bytes only (Raw); the properties compare   *)
(* what it makes of them with what the parts say.                          *)
(***************************************************************************)
EXTENDS ByteBudget, FrameLimits

CONSTANTS
  FramesOf,      \* the frames each connection may receive
  NativesOf(_),  \* what the native codec may make of an envelope
  ProvisionsOf,  \* the PROVISIONs the native codec may encode for each connection
  Impatient,     \* bound: the connections whose decodeAdmissionWait may end
  TinyInput, SmallInput, LargeInput,                   \* sizes of the classes
  TinyBytes, SmallBytes, LargeBytes, MaxBytes          \* what each of them may take

\* decodeAdmissionTinyBytes, decodeAdmissionSmallBytes, ...
Weights == {TinyBytes, SmallBytes, LargeBytes, MaxBytes}

ASSUME AdmissionAssumption == Weights = Amounts

VARIABLE job     \* what decodeAndDispatch of each connection has in hand

decodeVars == <<vars, job>>

\* The bytes of a frame.
Raw(frame) == FlattenSeq([i \in DOMAIN frame |-> frame[i].raw])

NoJob == [stage |-> "none"]
Stage(p) == job[p].stage
SetJob(p, j) == job' = [job EXCEPT ![p] = j]

-----------------------------------------------------------------------------
(* Admission                                                               *)

sizeClass(len) ==
  CASE len <= TinyInput  -> "Tiny"
    [] len > TinyInput /\ len <= SmallInput -> "Small"
    [] len > SmallInput /\ len <= LargeInput -> "Large"
    [] OTHER -> "Ambiguous"

\* Mistake: a compressed frame is classified by its size.
estimateBySize(data) ==
  LET e == scanEnvelope(data)
  IN IF Len(data) > MaxCodecInputBytes THEN Failed("limit")
     ELSE IF e.err # "nil" THEN e
     ELSE [err |-> "nil", class |-> sizeClass(Len(data))]

estimateDecodeAdmission(data) ==
  LET e == scanEnvelope(data)
  IN IF Len(data) > MaxCodecInputBytes THEN Failed("limit")
     ELSE IF e.err # "nil" THEN e
     ELSE IF e.compress = <<>> \/ e.compress[1].value = 0
       THEN [err |-> "nil", class |-> sizeClass(Len(data))]
     ELSE IF e.compress[1].value # 1 THEN [err |-> "nil", class |-> "Ambiguous"]
     ELSE IF e.payload = <<>> THEN Failed("bad")
     ELSE [err |-> "nil", class |-> "Compressed"]

decodeAdmissionWeight(class) ==
  CASE class = "Tiny"  -> TinyBytes
    [] class = "Small" -> SmallBytes
    [] class = "Large" -> LargeBytes
    [] class \in {"Compressed", "Ambiguous"} -> MaxBytes

-----------------------------------------------------------------------------
(* Actions                                                                 *)

DecodeInit == Init /\ job = [p \in Callers |-> NoJob]

\* The envelope of a PROVISION: its payload is made of the parts in inner.
Provision(v, inner) ==
  Raw(v.before) \o appendBytesField(<<>>, msyncPayloadField, Raw(inner)) \o Raw(v.after)

\* EncodeProvision: what the native codec makes, with action_version in it.
EncodeProvision(p, v) ==
  /\ Stage(p) = "none"
  /\ SetJob(p, [stage |-> "encoded", frame |-> v,
                out |-> withProvisionActionVersion(Provision(v, v.inner))])
  /\ UNCHANGED vars

\* A frame that cannot be classified fails the connection; nothing is reserved.
AdmissionFails(p, frame) ==
  /\ Stage(p) = "none" /\ estimateDecodeAdmission(Raw(frame)).err # "nil"
  /\ SetJob(p, [stage |-> "refused", frame |-> frame])
  /\ UNCHANGED vars

Admit(p, frame) ==
  LET estimate == estimateDecodeAdmission(Raw(frame))
  IN /\ Stage(p) = "none" /\ estimate.err = "nil"
     /\ Acquire(p, decodeAdmissionWeight(estimate.class))
     /\ SetJob(p, [stage |-> "received", frame |-> frame])

\* A step in Acquire.  A wait that is given up fails the connection, and with
\* it the frame is gone.
Wait(p) ==
  /\ AcquireStep(p)
  /\ SetJob(p, IF proc'[p] = "idle" THEN NoJob ELSE job[p])

\* decodeAdmissionWait is over, or the connection has failed.
Expire(p) == p \in Impatient /\ Cancel(p) /\ UNCHANGED job

\* DecodeFrame up to the native codec.
Unpack(p) ==
  /\ At(p, "holding") /\ Stage(p) = "received"
  /\ LET out == decompressEnvelopePayload(Raw(job[p].frame))
     IN SetJob(p, IF out.err # "nil" THEN [stage |-> "refused", frame |-> job[p].frame]
                  ELSE [stage |-> "unpacked", frame |-> job[p].frame, out |-> out.data])
  /\ UNCHANGED vars

\* The native codec parses the envelope, and decodeFrame copies what is in it.
Parse(p, native) ==
  /\ At(p, "holding") /\ Stage(p) = "unpacked"
  /\ SetJob(p, [stage |-> "parsed", native |-> native])
  /\ UNCHANGED vars

Copy(p) ==
  /\ At(p, "holding") /\ Stage(p) = "parsed"
  /\ SetJob(p, [stage |-> "decoded", native |-> job[p].native,
                err |-> decodeFrame(job[p].native)])
  /\ UNCHANGED vars

\* decodeAndDispatch returns, after dispatch or with an error that fails the
\* connection; the deferred Release runs either way.  Before Acquire there is
\* nothing to release, and a PROVISION is simply sent.
Return(p) ==
  /\ Stage(p) \in {"refused", "decoded", "encoded"}
  /\ IF At(p, "holding") THEN Release(p) ELSE UNCHANGED vars
  /\ SetJob(p, NoJob)

Work(p) ==
  \/ Unpack(p)
  \/ Stage(p) = "unpacked" /\ \E native \in NativesOf(job[p].out) : Parse(p, native)
  \/ Copy(p)
  \/ Return(p)

DecodeNext ==
  \E p \in Callers :
    \/ \E v \in ProvisionsOf[p] : EncodeProvision(p, v)
    \/ \E frame \in FramesOf[p] : AdmissionFails(p, frame) \/ Admit(p, frame)
    \/ Wait(p) \/ Expire(p)
    \/ Work(p)

DecodeSpec == DecodeInit /\ [][DecodeNext]_decodeVars

\* A goroutine in Acquire runs, and one that decodes returns, sooner or later.
\* No context is assumed to expire.
FairDecodeSpec ==
  /\ DecodeSpec
  /\ \A p \in Callers : WF_decodeVars(Wait(p)) /\ []<>~At(p, "holding")

-----------------------------------------------------------------------------
(* Properties.                                                             *)

Parts(frame, what) == {i \in DOMAIN frame : frame[i].what = what}

\* What the parts of a frame say, without reference to its bytes.
Compression(frame) ==
  IF Parts(frame, "compression") = {} THEN 0
  ELSE frame[CHOOSE i \in Parts(frame, "compression") : TRUE].value

Inflated(frame) == Inflate(frame[CHOOSE i \in Parts(frame, "payload") : TRUE].bytes)

Unpacked(frame) ==
  IF Compression(frame) = 0 THEN frame
  ELSE [i \in DOMAIN frame |->
          CASE frame[i].what = "compression" -> [raw |-> appendCompressionField(<<>>)]
            [] frame[i].what = "payload" ->
                 [raw |-> appendBytesField(<<>>, msyncPayloadField, Inflated(frame).data)]
            [] OTHER -> frame[i]]

Decodable(frame) ==
  /\ Parts(frame, "broken") = {} /\ Len(frame) <= MaxEnvelopeFields
  /\ Cardinality(Parts(frame, "compression")) <= 1 /\ Cardinality(Parts(frame, "payload")) <= 1
  /\ Len(Raw(frame)) <= MaxCodecInputBytes
  /\ Compression(frame) # 0 =>
       /\ Compression(frame) = 1 /\ Parts(frame, "payload") # {}
       /\ Inflated(frame).ok /\ Len(Inflated(frame).data) <= MaxCodecInputBytes
       /\ Len(Raw(Unpacked(frame))) <= MaxCodecInputBytes

\* The parts of a PROVISION with the version in the first part that has it.
Versioned(inner) ==
  LET old == Parts(inner, "version")
      new == [raw |-> appendBytesField(<<>>, provisionActionVersionField, ActionVersion)]
  IN IF old = {} THEN Append(inner, new)
     ELSE IF inner[Min(old)].bytes = ActionVersion THEN inner
     ELSE [inner EXCEPT ![Min(old)] = new]

\* The envelope that reaches the native codec, or the server, is the one that
\* arrived, or that the native codec made, with nothing changed but the fields
\* in question: a compressed payload is replaced by the inflated one and marked
\* as such, action_version gets its value.  Fields in any order, of unknown
\* numbers, with varints longer than they need be, stay as they are byte for
\* byte, and what is refused is what is broken or over a limit.
FrameExact ==
  \A p \in Callers :
    /\ Stage(p) = "unpacked" =>
         Decodable(job[p].frame) /\ job[p].out = Raw(Unpacked(job[p].frame))
    /\ Stage(p) = "refused" => ~Decodable(job[p].frame)
    /\ Stage(p) = "encoded" =>
         LET v == job[p].frame IN
         IF Parts(v.inner, "broken") # {} THEN job[p].out.err = "bad"
         ELSE job[p].out = [err |-> "nil", data |-> Provision(v, Versioned(v.inner))]

\* The bytes a decode has in memory: the frame, the inflated payload and the
\* frame that is built from it.
Memory(p) ==
  IF ~At(p, "holding") \/ Stage(p) \in {"parsed", "decoded"} THEN 0
  ELSE LET frame == job[p].frame
           inflated == IF Compression(frame) = 1 /\ Stage(p) # "received"
                       THEN Min({Len(Inflated(frame).data), MaxCodecInputBytes + 1}) ELSE 0
           out == IF inflated > 0 /\ Stage(p) = "unpacked" THEN Len(job[p].out) ELSE 0
       IN Len(Raw(frame)) + inflated + out

\* Whatever arrives, what the decodes in progress have in memory is covered by
\* what is reserved for them, and that by the limit of the process: the class
\* of a frame is decided before its payload is inflated, and a reservation
\* lasts until the frame is dispatched.
MemoryCovered == MapThenSumSet(Memory, Callers) <= used /\ used <= Limit

\* A frame is accepted exactly if it is within the limits as a whole: the
\* budgets of strings, payloads and users are spent piece by piece over all of
\* its messages, in one order, and the outcome does not depend on it
\* (decodeTracker, readSync).
LimitsExact ==
  \A p \in Callers : Stage(p) = "decoded" =>
    LET f == job[p].native
        jids == IF f.kind = "unread" THEN f.queues
                ELSE IF f.kind = "notice" THEN <<f.queue>>
                ELSE IF f.kind = "sync"
                  THEN <<f.queue>> \o FlattenSeq([i \in DOMAIN f.metas |->
                                                    <<f.metas[i].from, f.metas[i].to>>])
                ELSE <<>>
        metas == IF f.kind = "sync" THEN f.metas ELSE <<>>
        users == FlattenSeq([i \in DOMAIN metas |-> metas[i].users])
        status == FlattenSeq([i \in DOMAIN f.status |->
                                <<f.status[i].reason>> \o f.status[i].redirects])
        strings == status \o users \o FlattenSeq(jids)
                     \o (IF f.kind = "provision" THEN <<f.session>> ELSE <<>>)
    IN (job[p].err = "nil") <=>
         /\ Total(strings) <= MaxSyncStringBytes
         /\ Len(users) <= MaxSyncDirectedUsers /\ Len(metas) <= MaxSyncMetas
         /\ Total([i \in DOMAIN metas |-> metas[i].payload + metas[i].attributes])
              <= MaxSyncPayloadBytes
         /\ \A i \in DOMAIN jids :
              Total(jids[i]) <= MaxJIDBytes /\ \A n \in ToSet(jids[i]) : n <= MaxJIDComponentBytes
         /\ f.kind = "unread" => Len(f.queues) <= MaxFrameCollectionItems
         /\ f.kind = "provision" => f.token <= MaxCodecInputBytes
         /\ \A i \in DOMAIN f.status : Len(f.status[i].redirects) <= MaxFrameCollectionItems
         /\ f.kind = "sync" => retained(f) <= MaxSyncRetainedWeight
=============================================================================
