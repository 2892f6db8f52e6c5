---------------------------- MODULE FrameLimits ----------------------------
(***************************************************************************)
(* How Codec.DecodeFrame bounds what it copies out of a frame that the     *)
(* native codec has parsed (internal/protocol/nativecodec/codec.go), and   *)
(* the weight a SYNC is charged with while it is queued                    *)
(* (internal/protocol/model.go).                                           *)
(*                                                                         *)
(* A native frame is given by the sizes its accessors return.  Strings and *)
(* byte fields are numbers (their lengths), a JID the lengths of its four  *)
(* components, collections are sequences; an absent part is <<>>.          *)
(***************************************************************************)
EXTENDS Envelope

CONSTANTS
  MaxFrameCollectionItems,
  MaxSyncMetas,
  MaxSyncPayloadBytes,
  MaxSyncStringBytes,
  MaxSyncDirectedUsers,
  MaxSyncRetainedWeight,
  MaxJIDComponentBytes,
  MaxJIDBytes,
  SizeOf,                  \* unsafe.Sizeof of the structs of a Sync
  Quantum, Overhead, SafetyFactor, PageSize   \* retainedAllocationQuantum, ...

-----------------------------------------------------------------------------
(* What decodeFrame reads, in its order                                    *)

Read(what, n) == <<[what |-> what, n |-> n]>>

Each(what, s) == [i \in DOMAIN s |-> [what |-> what, n |-> s[i]]]

\* A JID that the accessor does not report is not read.
readJID(jid) == IF jid = <<>> THEN <<>> ELSE Read("jid", jid)

readStatus(f) ==
  IF f.status = <<>> THEN <<>>
  ELSE Read("string", f.status[1].reason) \o Read("items", Len(f.status[1].redirects))
         \o Each("string", f.status[1].redirects)

\* Mistake: the attributes of a message are copied without being charged.
readMetaUncharged(m) ==
  Read("payload", m.payload) \o Read("bytes", m.payload) \o Read("bytes", m.attributes)
    \o readJID(m.from) \o readJID(m.to)
    \o Read("users", Len(m.users)) \o Each("string", m.users)

\* One turn of readSync's loop; the attributes share the budget of payloads.
readMeta(m) ==
  Read("payload", m.payload) \o Read("bytes", m.payload)
    \o Read("payload", m.attributes) \o Read("bytes", m.attributes)
    \o readJID(m.from) \o readJID(m.to)
    \o Read("users", Len(m.users)) \o Each("string", m.users)

readSync(f) ==
  Read("metas", Len(f.metas)) \o readJID(f.queue)
    \o FlattenSeq([i \in DOMAIN f.metas |-> readMeta(f.metas[i])])

reads(f) ==
  readStatus(f) \o
  CASE f.kind = "provision" -> Read("string", f.session) \o Read("bytes", f.token)
    [] f.kind = "unread" -> Read("items", Len(f.queues)) \o Each("jid", f.queues)
    [] f.kind = "notice" -> readJID(f.queue)
    [] f.kind = "sync" -> readSync(f)
    [] OTHER -> <<>>

-----------------------------------------------------------------------------
(* decodeTracker                                                           *)

Total(s) == FoldLeft(LAMBDA x, y : x + y, 0, s)

\* What the reads before the i-th have charged to the budgets of the frame: a
\* JID is charged with its strings.
stringsCharged(rs, i) ==
  Total([j \in 1..(i - 1) |-> CASE rs[j].what = "string" -> rs[j].n
                                [] rs[j].what = "jid" -> Total(rs[j].n)
                                [] OTHER -> 0])
charged(rs, i, what) ==
  Total([j \in 1..(i - 1) |-> IF rs[j].what = what THEN rs[j].n ELSE 0])

\* readString, readJIDPointers and reserveStringBytes, addPayload,
\* addDirectedUsers, readBytes, and the checks of counts: the i-th read passes
\* its limit, compared with what is left.
overLimit(rs, i) ==
  LET n == rs[i].n
  IN CASE rs[i].what = "string"  -> n > MaxSyncStringBytes - stringsCharged(rs, i)
       [] rs[i].what = "jid"     -> \/ \E c \in DOMAIN n : n[c] > MaxJIDComponentBytes
                                    \/ Total(n) > MaxJIDBytes
                                    \/ Total(n) > MaxSyncStringBytes - stringsCharged(rs, i)
       [] rs[i].what = "payload" -> n > MaxSyncPayloadBytes - charged(rs, i, "payload")
       [] rs[i].what = "users"   -> n > MaxSyncDirectedUsers - charged(rs, i, "users")
       [] rs[i].what = "bytes"   -> n > MaxCodecInputBytes
       [] rs[i].what = "items"   -> n > MaxFrameCollectionItems
       [] rs[i].what = "metas"   -> n > MaxSyncMetas

-----------------------------------------------------------------------------
(* SyncRetainedWeight                                                      *)

RoundUp(n, quantum) == n + ((quantum - (n % quantum)) % quantum)

\* An allocation of size bytes; an empty one is not made.
allocation(size) == IF size = 0 THEN 0 ELSE RoundUp(size, Quantum) + Overhead

allocations(s) == Total([i \in DOMAIN s |-> allocation(s[i])])

\* The allocations of a message: byte slices, JIDs, the users and their slice.
metaWeight(m) ==
  allocation(m.payload) + allocation(m.attributes) + allocations(m.from) + allocations(m.to)
    + allocation(Len(m.users) * SizeOf.string) + allocations(m.users)

\* The charge of a Sync before the last check.  Additions that would overflow
\* are refused by the code; their sums are above MaxSyncRetainedWeight.
retained(f) ==
  LET status == IF f.status = <<>> THEN 0
                ELSE allocation(SizeOf.status) + allocation(f.status[1].reason)
                       + allocation(Len(f.status[1].redirects) * SizeOf.redirect)
                       + allocations(f.status[1].redirects)
      queue == IF f.queue = <<>> THEN 0 ELSE allocation(SizeOf.jid) + allocations(f.queue)
      metas == allocation(Len(f.metas) * SizeOf.meta)
                 + Total([i \in DOMAIN f.metas |-> metaWeight(f.metas[i])])
  IN RoundUp((allocation(SizeOf.sync) + status + queue + metas) * SafetyFactor, PageSize)

\* decodeFrame: nil, or the error of the first read that passes its limit.
decodeFrame(f) ==
  LET rs == reads(f)
  IN IF (\E i \in DOMAIN rs : overLimit(rs, i))
          \/ (f.kind = "sync" /\ retained(f) > MaxSyncRetainedWeight)
     THEN "limit" ELSE "nil"
=============================================================================
