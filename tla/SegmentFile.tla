---------------------------- MODULE SegmentFile ----------------------------
(***************************************************************************)
(* The on-disk framing of one segment file (src/unnamed/part_001, the      *)
(* wal package): the chunk writer writeToBuffer and the chunk-chain reader *)
(* readInternal, as pure operators over an abstract file.                  *)
(*                                                                         *)
(* A file is a sequence of items, each occupying `len` consecutive bytes:  *)
(* a chunk (header + payload) of type Full/First/Middle/Last, the zero     *)
(* padding written at a block's tail, or the torn prefix left by a write   *)
(* that failed part-way.  A payload byte is the pair <<record, index>>, so *)
(* two reads return equal data exactly when they return the same bytes.   *)
(* CRC32 is abstracted to "valid iff the bytes at this offset are an       *)
(* intact chunk written there": a header parsed anywhere else (padding, a  *)
(* torn tail, the middle of another chunk) fails the checksum.             *)
(***************************************************************************)
EXTENDS Naturals, Sequences, SequencesExt

CONSTANTS
  BlockSize,    \* blockSize (32 KiB in the code)
  HeaderSize    \* chunkHeaderSize (7 bytes in the code)

ASSUME HeaderSize \in Nat \ {0} /\ BlockSize \in Nat /\ BlockSize > HeaderSize

ChunkTypes == {"Full", "First", "Middle", "Last"}

Chunk(type, payload) ==
  [type |-> type, len |-> HeaderSize + Len(payload), payload |-> payload]

Padding(k) == [type |-> "Pad", len |-> k, payload |-> <<>>]

TornBytes(k) == [type |-> "Torn", len |-> k, payload |-> <<>>]

\* The data of the r-th record submitted, L bytes long.
Data(r, L) == [i \in 1 .. L |-> <<r, i>>]

MinOf(a, b) == IF a <= b THEN a ELSE b

\* Byte offset at which item i of file starts, and the file's length.
ItemOffset(file, i) == FoldLeft(LAMBDA acc, it : acc + it.len, 0, SubSeq(file, 1, i - 1))
FileLen(file) == ItemOffset(file, Len(file) + 1)

\* Index of the item that starts at byte a, 0 when no item starts there.
ItemAt(file, a) ==
  LET S == {i \in 1 .. Len(file) : ItemOffset(file, i) = a /\ file[i].len > 0}
  IN IF S = {} THEN 0 ELSE CHOOSE i \in S : TRUE

\* A bug of the loop below: the header is not subtracted from the room left.
RECURSIVE SplitChunksNoHeader(_, _, _)
SplitChunksNoHeader(data, leftSize, currBlockSize) ==
  IF leftSize = 0 THEN <<>>
  ELSE
    LET dataSize  == Len(data)
        chunkSize == MinOf(BlockSize - currBlockSize, leftSize)
        chunkType == CASE leftSize = dataSize  -> "First"
                       [] leftSize = chunkSize -> "Last"
                       [] OTHER                -> "Middle"
        from      == dataSize - leftSize
    IN <<Chunk(chunkType, SubSeq(data, from + 1, from + chunkSize))>>
       \o SplitChunksNoHeader(data, leftSize - chunkSize,
                              (currBlockSize + chunkSize + HeaderSize) % BlockSize)

(***************************************************************************)
(* segment.writeToBuffer: the loop that splits data that does not fit the  *)
(* current block into First, Middle* and Last chunks.                      *)
(***************************************************************************)
RECURSIVE SplitChunks(_, _, _)
SplitChunks(data, leftSize, currBlockSize) ==
  IF leftSize = 0 THEN <<>>
  ELSE
    LET dataSize  == Len(data)
        chunkSize == MinOf(BlockSize - currBlockSize - HeaderSize, leftSize)
        chunkType == CASE leftSize = dataSize  -> "First"
                       [] leftSize = chunkSize -> "Last"
                       [] OTHER                -> "Middle"
        from      == dataSize - leftSize
    IN <<Chunk(chunkType, SubSeq(data, from + 1, from + chunkSize))>>
       \o SplitChunks(data, leftSize - chunkSize,
                      (currBlockSize + chunkSize + HeaderSize) % BlockSize)

(* Bugs of writeToBuffer below, one each: the block-tail test off by one;   *)
(* the position taken before the padding step; the cursor not wrapped when *)
(* a record ends exactly at a block boundary.                              *)
WriteToBufferPadOffByOne(blockNumber, blockSize, data) ==
  LET pad       == blockSize + HeaderSize > BlockSize /\ blockSize < BlockSize
      bn        == IF pad THEN blockNumber + 1 ELSE blockNumber
      bs        == IF pad THEN 0 ELSE blockSize
      chunks    == IF bs + Len(data) + HeaderSize <= BlockSize
                   THEN <<Chunk("Full", data)>>
                   ELSE SplitChunks(data, Len(data), bs)
      chunkSize == Len(chunks) * HeaderSize + Len(data)
      nbs       == bs + chunkSize
  IN [buf         |-> (IF pad THEN <<Padding(BlockSize - blockSize)>> ELSE <<>>) \o chunks,
      pos         |-> [blockNumber |-> bn, chunkOffset |-> bs, chunkSize |-> chunkSize],
      blockNumber |-> IF nbs >= BlockSize THEN bn + nbs \div BlockSize ELSE bn,
      blockSize   |-> IF nbs >= BlockSize THEN nbs % BlockSize ELSE nbs]

WriteToBufferPosBeforePad(blockNumber, blockSize, data) ==
  LET pad       == blockSize + HeaderSize >= BlockSize /\ blockSize < BlockSize
      bn        == IF pad THEN blockNumber + 1 ELSE blockNumber
      bs        == IF pad THEN 0 ELSE blockSize
      chunks    == IF bs + Len(data) + HeaderSize <= BlockSize
                   THEN <<Chunk("Full", data)>>
                   ELSE SplitChunks(data, Len(data), bs)
      chunkSize == Len(chunks) * HeaderSize + Len(data)
      nbs       == bs + chunkSize
  IN [buf         |-> (IF pad THEN <<Padding(BlockSize - blockSize)>> ELSE <<>>) \o chunks,
      pos         |-> [blockNumber |-> blockNumber, chunkOffset |-> blockSize, chunkSize |-> chunkSize],
      blockNumber |-> IF nbs >= BlockSize THEN bn + nbs \div BlockSize ELSE bn,
      blockSize   |-> IF nbs >= BlockSize THEN nbs % BlockSize ELSE nbs]

WriteToBufferNoWrap(blockNumber, blockSize, data) ==
  LET pad       == blockSize + HeaderSize >= BlockSize /\ blockSize < BlockSize
      bn        == IF pad THEN blockNumber + 1 ELSE blockNumber
      bs        == IF pad THEN 0 ELSE blockSize
      chunks    == IF bs + Len(data) + HeaderSize <= BlockSize
                   THEN <<Chunk("Full", data)>>
                   ELSE SplitChunks(data, Len(data), bs)
      chunkSize == Len(chunks) * HeaderSize + Len(data)
      nbs       == bs + chunkSize
  IN [buf         |-> (IF pad THEN <<Padding(BlockSize - blockSize)>> ELSE <<>>) \o chunks,
      pos         |-> [blockNumber |-> bn, chunkOffset |-> bs, chunkSize |-> chunkSize],
      blockNumber |-> IF nbs > BlockSize THEN bn + nbs \div BlockSize ELSE bn,
      blockSize   |-> IF nbs > BlockSize THEN nbs % BlockSize ELSE nbs]

(***************************************************************************)
(* segment.writeToBuffer: the bytes appended to the chunk buffer for one   *)
(* record, the position returned, and the segment's new in-memory cursor   *)
(* (currentBlockNumber, currentBlockSize).                                 *)
(***************************************************************************)
WriteToBuffer(blockNumber, blockSize, data) ==
  LET pad       == blockSize + HeaderSize >= BlockSize /\ blockSize < BlockSize
      bn        == IF pad THEN blockNumber + 1 ELSE blockNumber
      bs        == IF pad THEN 0 ELSE blockSize
      chunks    == IF bs + Len(data) + HeaderSize <= BlockSize
                   THEN <<Chunk("Full", data)>>
                   ELSE SplitChunks(data, Len(data), bs)
      chunkSize == Len(chunks) * HeaderSize + Len(data)
      nbs       == bs + chunkSize
  IN [buf         |-> (IF pad THEN <<Padding(BlockSize - blockSize)>> ELSE <<>>) \o chunks,
      pos         |-> [blockNumber |-> bn, chunkOffset |-> bs, chunkSize |-> chunkSize],
      blockNumber |-> IF nbs >= BlockSize THEN bn + nbs \div BlockSize ELSE bn,
      blockSize   |-> IF nbs >= BlockSize THEN nbs % BlockSize ELSE nbs]

(***************************************************************************)
(* segment.writeAll: writeToBuffer for each record of a batch, threading   *)
(* the cursor; positions come back in batch order.                         *)
(***************************************************************************)
RECURSIVE WriteAllToBuffer(_, _, _)
WriteAllToBuffer(blockNumber, blockSize, datas) ==
  IF datas = <<>>
  THEN [buf |-> <<>>, pos |-> <<>>, blockNumber |-> blockNumber, blockSize |-> blockSize]
  ELSE LET w    == WriteToBuffer(blockNumber, blockSize, Head(datas))
           rest == WriteAllToBuffer(w.blockNumber, w.blockSize, Tail(datas))
       IN [rest EXCEPT !.buf = w.buf \o @, !.pos = <<w.pos>> \o @]

\* segment.Size: the segment's size as the in-memory cursor counts it.
SegSize(blockNumber, blockSize) == blockNumber * BlockSize + blockSize

\* The first k bytes of buf, as a failed fd.Write leaves them on disk:
\* whole items stay intact, the item cut by the k-th byte becomes torn.
WrittenPrefix(buf, k) ==
  LET whole == {i \in 0 .. Len(buf) : ItemOffset(buf, i + 1) <= k}
      n     == CHOOSE i \in whole : \A j \in whole : j <= i
      rest  == k - ItemOffset(buf, n + 1)
  IN SubSeq(buf, 1, n) \o (IF rest > 0 THEN <<TornBytes(rest)>> ELSE <<>>)

(***************************************************************************)
(* The values writeAll stores in currentBlockNumber and currentBlockSize   *)
(* while it frames datas from (blockNumber, blockSize), before fd.Write:   *)
(* per record the padding step's new block, the unwrapped sum of          *)
(* "currentBlockSize += position.ChunkSize", and the wrapped cursor.       *)
(***************************************************************************)
RECURSIVE StoredCursors(_, _, _)
StoredCursors(blockNumber, blockSize, datas) ==
  IF datas = <<>> THEN [bns |-> {blockNumber}, bss |-> {blockSize}]
  ELSE LET w    == WriteToBuffer(blockNumber, blockSize, Head(datas))
           rest == StoredCursors(w.blockNumber, w.blockSize, Tail(datas))
       IN [bns |-> {blockNumber, w.pos.blockNumber} \cup rest.bns,
           bss |-> {blockSize, w.pos.chunkOffset, w.pos.chunkOffset + w.pos.chunkSize}
                     \cup rest.bss]

(***************************************************************************)
(* segment.readInternal: follow the chunk chain from (blockNumber,         *)
(* chunkOffset), reading only within segSize bytes.  fd.ReadAt of a block  *)
(* range the file does not fully hold returns io.EOF.  Returns the payload *)
(* and the position of the chunk that follows, or err "EOF" / "CRC".      *)
(***************************************************************************)
RECURSIVE ReadChain(_, _, _, _, _)
ReadChain(file, segSize, blockNumber, chunkOffset, result) ==
  LET offset      == blockNumber * BlockSize
      size        == IF BlockSize + offset > segSize THEN segSize - offset ELSE BlockSize
      i           == ItemAt(file, offset + chunkOffset)
      checksumEnd == chunkOffset + file[i].len
  IN IF chunkOffset >= size THEN [err |-> "EOF"]
     ELSE IF offset + size > FileLen(file) THEN [err |-> "EOF"]
     ELSE IF i = 0 \/ file[i].type \notin ChunkTypes \/ checksumEnd > size
     THEN [err |-> "CRC"]
     ELSE IF file[i].type \in {"Full", "Last"}
     THEN [err  |-> "None",
           data |-> result \o file[i].payload,
           next |-> IF checksumEnd + HeaderSize >= BlockSize
                    THEN [blockNumber |-> blockNumber + 1, chunkOffset |-> 0]
                    ELSE [blockNumber |-> blockNumber, chunkOffset |-> checksumEnd]]
     ELSE ReadChain(file, segSize, blockNumber + 1, 0, result \o file[i].payload)

=============================================================================
