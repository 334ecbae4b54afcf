---------------------------- MODULE MC_Segment ----------------------------
(* Small blocks keep every framing case reachable: with an 8-byte block   *)
(* and a 3-byte header a payload of 5 fills a block exactly, 2 leaves      *)
(* exactly a header's worth of padding, 4 leaves 1 byte of padding, 0 is a *)
(* header-only chunk and 11 is First + Middle + Last.                      *)
EXTENDS Segment, Codecs

(* Codec inputs: every varint length boundary below 2^31 (1, 2, 3, 4 and 5 *)
(* bytes), and keys and values empty, of one byte and of two.              *)
MCPosValues == {0, 127, 128, 16384, 268435456, 2147483647}
MCBatchIds == {0, 128, 2147483647}
MCRecordBytes == {<<>>, <<7>>, <<200, 1>>}

MCLens == {0, 2, 4, 5, 11}

\* A position segment.Write returned, as a ChunkPosition of segment 1
\* before the WAL stamps ValueNum.
AckedChunkPosition(p) ==
  [SegmentId |-> 1, BlockNumber |-> p.blockNumber, ChunkOffset |-> p.chunkOffset,
   ChunkSize |-> p.chunkSize, ValueNum |-> 0]

(***************************************************************************)
(* ChunkPosition.Encode/EncodeFixedSize and DecodeChunkPosition, and        *)
(* encodeLogRecord and decodeLogRecord, are inverse: every position        *)
(* segment.Write has returned, and every position with uint32 fields at    *)
(* the varint length boundaries up to 2^31 - 1, encodes without overrunning *)
(* maxLen and decodes back to itself; every LogRecord decodes back to      *)
(* itself.                                                                 *)
(***************************************************************************)
CodecRoundTrip ==
  /\ CodecsRoundTrip
  /\ \A i \in DOMAIN acked : PositionRoundTrips(AckedChunkPosition(acked[i].pos))
==========================================================================
