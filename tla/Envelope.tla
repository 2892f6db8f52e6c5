------------------------------ MODULE Envelope ------------------------------
(***************************************************************************)
(* The wire-level adapter around the native codec                          *)
(* (internal/protocol/nativecodec/envelope.go and provision_action.go): it *)
(* cuts an MSync envelope into protobuf fields, replaces a compressed      *)
(* payload by its inflated form, and writes action_version into the        *)
(* PROVISION it sends.  A byte is a number below 256, a frame a sequence   *)
(* of bytes; offsets count from 0, as in the code.                         *)
(***************************************************************************)
EXTENDS Integers, Sequences, SequencesExt, FiniteSetsExt

CONSTANTS
  MaxCodecInputBytes,   \* protocol.MaxCodecInputBytes
  MaxEnvelopeFields,    \* maxEnvelopeFields
  MaxVarintLen,         \* binary.MaxVarintLen64: 10 bytes hold 9 * 7 + 1 bits
  ActionVersion,        \* protocol.ActionVersion, as bytes
  Inflate(_)            \* compress/zlib: [ok, data] of a compressed payload

msyncCompressField == 4
msyncPayloadField == 9
provisionActionVersionField == 17

wireVarint == 0
wireFixed64 == 1
wireBytes == 2
wireFixed32 == 5

\* err is "nil", "limit" (an error that wraps ErrLimitExceeded) or "bad".
Failed(err) == [err |-> err]

\* data[from:to]
Slice(data, from, to) == SubSeq(data, from + 1, to)

-----------------------------------------------------------------------------
(* Varints: groups of seven bits, the lowest first; the top bit of a byte  *)
(* says that another one follows.                                          *)

\* Mistake: the last byte of the longest varint may hold seven bits.
readVarintWide(data, offset) ==
  LET ends == {i \in 0..(MaxVarintLen - 1) :
                 offset + i < Len(data) /\ data[offset + i + 1] < 128}
      n == Min(ends)
  IN IF ends = {} THEN Failed("bad")
     ELSE [err |-> "nil", next |-> offset + n + 1,
           value |-> MapThenSumSet(LAMBDA i : (data[offset + i + 1] % 128) * 128^i, 0..n)]

\* Truncated, longer than MaxVarintLen, or above the range of a uint64: an error.
readVarint(data, offset) ==
  LET ends == {i \in 0..(MaxVarintLen - 1) :
                 offset + i < Len(data) /\ data[offset + i + 1] < 128}
      n == Min(ends)
  IN IF ends = {} \/ (n = MaxVarintLen - 1 /\ data[offset + n + 1] > 1) THEN Failed("bad")
     ELSE [err |-> "nil", next |-> offset + n + 1,
           value |-> MapThenSumSet(LAMBDA i : (data[offset + i + 1] % 128) * 128^i, 0..n)]

varintSize(value) == Min({n \in 1..MaxVarintLen : value < 128^n \/ n = MaxVarintLen})

appendVarint(dst, value) ==
  LET n == varintSize(value)
  IN dst \o [i \in 1..n |-> ((value \div 128^(i - 1)) % 128) + (IF i < n THEN 128 ELSE 0)]

appendKey(dst, number, wire) == appendVarint(dst, number * 8 + wire)

\* A length-delimited field: the payload of an envelope or a string.
appendBytesField(dst, number, bytes) ==
  appendVarint(appendKey(dst, number, wireBytes), Len(bytes)) \o bytes

bytesFieldSize(number, len) == varintSize(number * 8 + wireBytes) + varintSize(len) + len

appendCompressionField(dst) == appendVarint(appendKey(dst, msyncCompressField, wireVarint), 0)

-----------------------------------------------------------------------------
(* Fields                                                                  *)

\* The values of a field: a number or bytes, and the end of the field.  v is the
\* varint behind the tag.
varintValue(v) ==
  IF v.err # "nil" THEN v
  ELSE [err |-> "nil", value |-> v.value, bytes |-> <<>>, end |-> v.next]

bytesValue(data, v) ==
  IF v.err # "nil" \/ v.value > Len(data) - v.next THEN Failed("bad")
  ELSE [err |-> "nil", value |-> 0, end |-> v.next + v.value,
        bytes |-> Slice(data, v.next, v.next + v.value)]

fixedValue(data, offset, n) ==
  IF Len(data) - offset < n THEN Failed("bad")
  ELSE [err |-> "nil", value |-> 0, bytes |-> <<>>, end |-> offset + n]

\* The value of a field whose tag ends at offset.
skipField(data, offset, wire) ==
  CASE wire = wireVarint  -> varintValue(readVarint(data, offset))
    [] wire = wireBytes   -> bytesValue(data, readVarint(data, offset))
    [] wire = wireFixed64 -> fixedValue(data, offset, 8)
    [] wire = wireFixed32 -> fixedValue(data, offset, 4)
    [] OTHER -> Failed("bad")

\* The field that starts at start with the given tag.  tag is the error of its
\* tag, err that of its value.
tagged(data, start, tag) ==
  IF tag.err # "nil" THEN [tag |-> tag.err, err |-> tag.err]
  ELSE [tag |-> "nil", number |-> tag.value \div 8, wire |-> tag.value % 8, start |-> start]
         @@ skipField(data, tag.next, tag.value % 8)

\* One turn of the loops of scanEnvelope and upsertStringField.
fieldAt(data, start) == tagged(data, start, readVarint(data, start))

\* The fields of data in order, up to and with the first that is cut short.
fields(data) ==
  LET from[start \in 0..Len(data)] ==
        IF start = Len(data) THEN <<>>
        ELSE LET f == fieldAt(data, start)
             IN IF f.err # "nil" THEN <<f>> ELSE <<f>> \o from[f.end]
  IN from[0]

\* Mistake: a second payload replaces the first.
fieldErrorAgain(fs, i) ==
  IF fs[i].tag # "nil" \/ fs[i].number = 0 THEN "bad"
  ELSE IF i > MaxEnvelopeFields THEN "limit"
  ELSE IF fs[i].err # "nil"
            \/ (fs[i].number = msyncCompressField /\ fs[i].wire # wireVarint)
            \/ (fs[i].number = msyncPayloadField /\ fs[i].wire # wireBytes) THEN "bad"
  ELSE "nil"

\* The checks on the i-th field, in the order of the code, which decides between
\* an error of the protocol and one of its limits.
fieldError(fs, i) ==
  LET f == fs[i]
      repeated == /\ f.number \in {msyncCompressField, msyncPayloadField}
                  /\ \E j \in 1..(i - 1) : fs[j].number = f.number
  IN IF f.tag # "nil" \/ f.number = 0 THEN "bad"
     ELSE IF i > MaxEnvelopeFields \/ repeated THEN "limit"
     ELSE IF f.err # "nil"
               \/ (f.number = msyncCompressField /\ f.wire # wireVarint)
               \/ (f.number = msyncPayloadField /\ f.wire # wireBytes) THEN "bad"
     ELSE "nil"

\* envelopeScan: the value and the place of the two fields, <<>> when absent.
\* The first field with an error ends the scan.
scanned(fs) ==
  LET wrong == {i \in DOMAIN fs : fieldError(fs, i) # "nil"}
      the(number) == SelectSeq(fs, LAMBDA f : f.number = number)
  IN IF wrong # {} THEN Failed(fieldError(fs, Min(wrong)))
     ELSE [err |-> "nil", compress |-> the(msyncCompressField),
           payload |-> the(msyncPayloadField)]

scanEnvelope(data) == scanned(fields(data))

-----------------------------------------------------------------------------
(* Decompression                                                           *)

\* The length of the frame that decompression builds.  The lengths it adds are
\* at most MaxCodecInputBytes each, far from the end of a uint64.
rebuiltEnvelopeSize(inputLen, c, p, payloadLen) ==
  (inputLen - (c.end - c.start) - (p.end - p.start))
    + varintSize(msyncCompressField * 8 + wireVarint) + 1
    + bytesFieldSize(msyncPayloadField, payloadLen)

\* Mistake: the compression field is always written first.
rebuildInOrder(data, c, p, payload) ==
  LET first == IF p.start < c.start THEN p ELSE c
      second == IF p.start < c.start THEN c ELSE p
  IN appendCompressionField(Slice(data, 0, first.start)) \o Slice(data, first.end, second.start)
       \o appendBytesField(<<>>, msyncPayloadField, payload)
       \o Slice(data, second.end, Len(data))

\* The two fields are replaced where they stand, in whatever order.
rebuild(data, c, p, payload) ==
  LET first == IF p.start < c.start THEN p ELSE c
      second == IF p.start < c.start THEN c ELSE p
      put(dst, f) == IF f = p THEN appendBytesField(dst, msyncPayloadField, payload)
                     ELSE appendCompressionField(dst)
      head == put(Slice(data, 0, first.start), first)
  IN put(head \o Slice(data, first.end, second.start), second)
       \o Slice(data, second.end, Len(data))

\* The frame with the inflated payload z in the place of p.
withInflated(data, c, p, z) ==
  IF ~z.ok THEN Failed("bad")
  ELSE IF Len(z.data) > MaxCodecInputBytes
            \/ rebuiltEnvelopeSize(Len(data), c, p, Len(z.data)) > MaxCodecInputBytes
    THEN Failed("limit")
  ELSE [err |-> "nil", data |-> rebuild(data, c, p, z.data)]

decompressed(data, e) ==
  IF e.err # "nil" THEN e
  ELSE IF e.compress = <<>> \/ e.compress[1].value = 0 THEN [err |-> "nil", data |-> data]
  ELSE IF e.compress[1].value # 1 \/ e.payload = <<>> THEN Failed("bad")
  ELSE withInflated(data, e.compress[1], e.payload[1], Inflate(e.payload[1].bytes))

decompressEnvelopePayload(data) ==
  IF Len(data) > MaxCodecInputBytes THEN Failed("limit")
  ELSE decompressed(data, scanEnvelope(data))

-----------------------------------------------------------------------------
(* action_version of PROVISION                                             *)

\* Mistake: the rest of the message is dropped with the old value.
putTruncates(message, hits, number, value) ==
  IF hits = <<>> THEN [err |-> "nil", data |-> appendBytesField(message, number, value)]
  ELSE IF hits[1].err # "nil" \/ hits[1].wire # wireBytes THEN Failed("bad")
  ELSE [err |-> "nil",
        data |-> appendBytesField(Slice(message, 0, hits[1].start), number, value)]

\* The first field of that number gets the value; without one, it is appended.
putField(message, hits, number, value) ==
  IF hits = <<>> THEN [err |-> "nil", data |-> appendBytesField(message, number, value)]
  ELSE IF hits[1].err # "nil" \/ hits[1].wire # wireBytes THEN Failed("bad")
  ELSE IF hits[1].bytes = value THEN [err |-> "nil", data |-> message]
  ELSE [err |-> "nil",
        data |-> appendBytesField(Slice(message, 0, hits[1].start), number, value)
                   \o Slice(message, hits[1].end, Len(message))]

\* What follows the first hit, a broken field or one of that number, is not
\* looked at.
upsertStringField(message, number, value) ==
  putField(message, SelectSeq(fields(message), LAMBDA f : f.err # "nil" \/ f.number = number),
           number, value)

\* The envelope with the payload new in the place of old.
withPayload(data, old, new) ==
  LET out == appendBytesField(Slice(data, 0, old.start), msyncPayloadField, new.data)
               \o Slice(data, old.end, Len(data))
  IN IF new.err # "nil" THEN new
     ELSE IF new.data = old.bytes THEN [err |-> "nil", data |-> data]
     ELSE IF Len(out) > MaxCodecInputBytes THEN Failed("limit")
     ELSE [err |-> "nil", data |-> out]

withVersion(data, e) ==
  IF e.err # "nil" THEN e
  ELSE IF e.payload = <<>> THEN Failed("bad")
  ELSE withPayload(data, e.payload[1],
                   upsertStringField(e.payload[1].bytes, provisionActionVersionField,
                                     ActionVersion))

withProvisionActionVersion(data) ==
  IF data = <<>> THEN [err |-> "nil", data |-> data]
  ELSE withVersion(data, scanEnvelope(data))
=============================================================================
