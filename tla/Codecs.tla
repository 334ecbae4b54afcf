------------------------------- MODULE Codecs -------------------------------
(***************************************************************************)
(* The byte codecs of the WAL and of the value log's log records, as pure *)
(* operators: ChunkPosition.Encode, EncodeFixedSize and                    *)
(* DecodeChunkPosition (src/unnamed/part_001), and encodeLogRecord and     *)
(* decodeLogRecord (src/lotusdb/structs.go), over Go's binary.PutUvarint,  *)
(* Uvarint, PutVarint and Varint.  A byte is a number in 0 .. 255 and a    *)
(* byte slice a sequence of them.  TLC's integers stop below 2^31, so the  *)
(* field values checked are the uint32 values below it; on them the        *)
(* conversions uint64(.), uint32(.) and int64(.) of the code are the       *)
(* identity.                                                               *)
(***************************************************************************)
EXTENDS Integers, Sequences

CONSTANTS
  PosValues,   \* field values of the ChunkPositions checked, each below 2^31
  BatchIds,    \* LogRecord.BatchID values checked
  RecordBytes  \* keys and values (byte sequences) of the LogRecords checked

ASSUME PosValues \subseteq 0 .. 2147483647 /\ BatchIds \subseteq 0 .. 2147483647

MaxVarintLen32 == 5
MaxVarintLen64 == 10

\* part_001:43: "uin32 + uint32 + int64 + uin32".
maxLen == MaxVarintLen32 * 3 + MaxVarintLen64

\* structs.go:28: type, batch id, key size, value size.
maxLogRecordHeaderSize == MaxVarintLen32 * 2 + MaxVarintLen64 + 1

LogRecordNormal == 0
LogRecordDeleted == 1
LogRecordBatchFinished == 2

-----------------------------------------------------------------------------
(* encoding/binary.  PutUvarint writes x seven bits at a time, the low    *)
(* group first, setting 0x80 on every byte but the last.                  *)
RECURSIVE PutUvarintOffByOne(_)
PutUvarintOffByOne(x) ==
  IF x > 128 THEN <<(x % 128) + 128>> \o PutUvarintOffByOne(x \div 128) ELSE <<x>>

RECURSIVE PutUvarint(_)
PutUvarint(x) ==
  IF x >= 128 THEN <<(x % 128) + 128>> \o PutUvarint(x \div 128) ELSE <<x>>

\* Uvarint from byte k of buf, x the value of bytes 1 .. k-1 and m = 128^(k-1):
\* n is the number of bytes read, 0 when buf ends first and -k when the
\* value overflows 64 bits.
RECURSIVE UvarintFrom(_, _, _, _)
UvarintFrom(buf, k, x, m) ==
  IF k > Len(buf) THEN [val |-> 0, n |-> 0]
  ELSE IF k > MaxVarintLen64 THEN [val |-> 0, n |-> -k]
  ELSE IF buf[k] < 128
       THEN IF k = MaxVarintLen64 /\ buf[k] > 1 THEN [val |-> 0, n |-> -k]
            ELSE [val |-> x + buf[k] * m, n |-> k]
  ELSE UvarintFrom(buf, k + 1, x + (buf[k] - 128) * m, m * 128)

Uvarint(buf) == UvarintFrom(buf, 1, 0, 1)

\* PutVarint zig-zags: ux = x << 1, complemented when x < 0.
PutVarint(x) == PutUvarint(IF x < 0 THEN -2 * x - 1 ELSE 2 * x)

ZigZag(u) == [val |-> IF u.val % 2 = 0 THEN u.val \div 2 ELSE -(u.val \div 2) - 1, n |-> u.n]

Varint(buf) == ZigZag(Uvarint(buf))

\* buf[index:] in Go, for a count index of bytes already read.
From(buf, index) == SubSeq(buf, index + 1, Len(buf))

-----------------------------------------------------------------------------
(* ChunkPosition.encode(shrink): the five fields as uvarints into a buffer *)
(* of maxLen bytes; PutUvarint indexes past its end, a panic, when they    *)
(* do not fit.  Encode returns buf[:index], EncodeFixedSize all of buf.    *)
PositionBytes(cp) ==
  PutUvarint(cp.SegmentId) \o PutUvarint(cp.BlockNumber) \o PutUvarint(cp.ChunkOffset)
    \o PutUvarint(cp.ChunkSize) \o PutUvarint(cp.ValueNum)

EncodeBuf(bytes, shrink) ==
  [panic |-> Len(bytes) > maxLen,
   buf |-> IF shrink THEN bytes ELSE bytes \o [i \in 1 .. maxLen - Len(bytes) |-> 0]]

Encode(cp) == EncodeBuf(PositionBytes(cp), TRUE)

EncodeFixedSize(cp) == EncodeBuf(PositionBytes(cp), FALSE)

\* DecodeChunkPosition: nil for an empty buf, else five uvarints in turn.
RECURSIVE DecodeFields(_, _, _), DecodeFieldsWith(_, _, _, _)
DecodeFields(buf, index, vals) ==
  IF Len(vals) = 5 THEN vals
  ELSE DecodeFieldsWith(buf, index, vals, Uvarint(From(buf, index)))

DecodeFieldsWith(buf, index, vals, u) == DecodeFields(buf, index + u.n, Append(vals, u.val))

AsPosition(v) ==
  [SegmentId |-> v[1], BlockNumber |-> v[2], ChunkOffset |-> v[3], ChunkSize |-> v[4],
   ValueNum |-> v[5]]

DecodeChunkPosition(buf) ==
  IF buf = <<>> THEN [nil |-> TRUE, pos |-> AsPosition(<<0, 0, 0, 0, 0>>)]
  ELSE [nil |-> FALSE, pos |-> AsPosition(DecodeFields(buf, 0, <<>>))]

-----------------------------------------------------------------------------
(* encodeLogRecord: the type byte, the batch id as a uvarint, the key and *)
(* value lengths as varints, then the key and the value.                  *)
LogRecordHeader(r) == <<r.Type>> \o PutUvarint(r.BatchID) \o PutVarint(Len(r.Key)) \o PutVarint(Len(r.Value))

EncodeLogRecord(r) == LogRecordHeader(r) \o r.Key \o r.Value

\* decodeLogRecord: the key is buf[index : index+keySize], then index
\* moves past it and the value is buf[index : index+valueSize].
DecodeBody(buf, t, batchID, keySize, valueSize, index) ==
  [Type |-> t, BatchID |-> batchID,
   Key |-> SubSeq(buf, index + 1, index + keySize),
   Value |-> SubSeq(buf, index + keySize + 1, index + keySize + valueSize)]

DecodeValueSize(buf, t, batchID, keySize, index, v) ==
  DecodeBody(buf, t, batchID, keySize, v.val, index + v.n)

DecodeKeySize(buf, t, batchID, index, k) ==
  DecodeValueSize(buf, t, batchID, k.val, index + k.n, Varint(From(buf, index + k.n)))

DecodeBatchID(buf, index, b) ==
  DecodeKeySize(buf, buf[1], b.val, index + b.n, Varint(From(buf, index + b.n)))

DecodeLogRecord(buf) == DecodeBatchID(buf, 1, Uvarint(From(buf, 1)))

-----------------------------------------------------------------------------
(* The reference: x's base-128 digits, least significant first, 0x80 set  *)
(* on all but the last, for x below 2^35.                                 *)
NDigits(x) == CHOOSE k \in 1 .. MaxVarintLen32 : \A j \in 1 .. k : (x \div 128^(j - 1) < 128) = (j = k)

RefUvarint(x) ==
  [i \in 1 .. NDigits(x) |-> ((x \div 128^(i - 1)) % 128) + (IF i < NDigits(x) THEN 128 ELSE 0)]

Positions ==
  [SegmentId : PosValues, BlockNumber : PosValues, ChunkOffset : PosValues,
   ChunkSize : PosValues, ValueNum : PosValues]

LogRecords ==
  [Type : {LogRecordNormal, LogRecordDeleted, LogRecordBatchFinished}, BatchID : BatchIds,
   Key : RecordBytes, Value : RecordBytes]

\* Encode and EncodeFixedSize of cp stay within the maxLen buffer, write
\* the reference digits, and DecodeChunkPosition of either gives cp back,
\* the zero padding after the last field ignored.
PositionRoundTrips(cp) ==
  /\ ~Encode(cp).panic /\ ~EncodeFixedSize(cp).panic
  /\ Encode(cp).buf = RefUvarint(cp.SegmentId) \o RefUvarint(cp.BlockNumber)
       \o RefUvarint(cp.ChunkOffset) \o RefUvarint(cp.ChunkSize) \o RefUvarint(cp.ValueNum)
  /\ Len(EncodeFixedSize(cp).buf) = maxLen
  /\ DecodeChunkPosition(Encode(cp).buf) = [nil |-> FALSE, pos |-> cp]
  /\ DecodeChunkPosition(EncodeFixedSize(cp).buf) = [nil |-> FALSE, pos |-> cp]

\* encodeLogRecord's header fits maxLogRecordHeaderSize and decodeLogRecord
\* gives r back.
LogRecordRoundTrips(r) ==
  /\ Len(LogRecordHeader(r)) <= maxLogRecordHeaderSize
  /\ DecodeLogRecord(EncodeLogRecord(r)) = r

\* Both over every input of the model's sets (constant: evaluated once).
CodecsRoundTrip ==
  /\ \A cp \in Positions : PositionRoundTrips(cp)
  /\ \A r \in LogRecords : LogRecordRoundTrips(r)

=============================================================================
