------------------------------ MODULE Segment ------------------------------
(***************************************************************************)
(* One segment file and its in-memory cursor (src/unnamed/part_001: type   *)
(* segment, Write, writeAll, writeChunkBuffer, segmentReader.Next, Close). *)
(*                                                                         *)
(* A write is two steps.  writeToBuffer frames the records into a chunk   *)
(* buffer and moves the in-memory cursor as it goes; then writeChunkBuffer *)
(* appends the buffer with one fd.Write on a file opened O_APPEND.  If     *)
(* that call fails after k bytes, the deferred rollback restores the       *)
(* cursor, but the k bytes stay in the file.  One sequential reader        *)
(* (segment.NewReader) walks the file without a lock, so its Next may run  *)
(* between the two steps and inside the fd.Write: it reads the two cursor  *)
(* fields (a data race, so any value each field held) and whatever prefix  *)
(* of the buffer the file shows.                                           *)
(***************************************************************************)
EXTENDS SegmentFile

CONSTANTS
  Lens,         \* payload lengths a caller may write
  MaxRecords,   \* bound on the records submitted
  MaxBatch,     \* bound on the records of one writeAll
  MaxFailures   \* bound on the fd.Write calls that fail part-way

VARIABLES
  file,                 \* the bytes on disk, as items
  currentBlockNumber,   \* segment.currentBlockNumber
  currentBlockSize,     \* segment.currentBlockSize
  closed,               \* segment.closed
  inflight,             \* the write between writeToBuffer and the end of fd.Write
  acked,                \* history: data and position of every write that returned one
  submitted,            \* history: the records handed to Write/writeAll so far
  failures,             \* fd.Write calls that failed so far
  reader                \* the segmentReader: its cursor and the records it returned

vars == <<file, currentBlockNumber, currentBlockSize, closed, inflight, acked,
          submitted, failures, reader>>

Size == SegSize(currentBlockNumber, currentBlockSize)

AckedData == [i \in DOMAIN acked |-> acked[i].data]

\* No write in flight: the Write or writeAll locals are gone.
Idle == [busy |-> FALSE, datas |-> <<>>, buf |-> <<>>, pos |-> <<>>,
         originBlockNumber |-> 0, originBlockSize |-> 0]

Init ==
  /\ file = <<>>
  /\ currentBlockNumber = 0
  /\ currentBlockSize = 0
  /\ closed = FALSE
  /\ inflight = Idle
  /\ acked = <<>>
  /\ submitted = 0
  /\ failures = 0
  /\ reader = [blockNumber |-> 0, chunkOffset |-> 0, out |-> <<>>]

\* The records of a batch of the given lengths, numbered after those submitted.
Batch(lens) == [i \in DOMAIN lens |-> Data(submitted + i, lens[i])]

(***************************************************************************)
(* segment.writeAll (segment.Write is the batch of one) up to fd.Write:    *)
(* save the cursor for the rollback, frame every record with              *)
(* writeToBuffer, which leaves the cursor past the batch.  The caller (the *)
(* WAL, under wal.mu) runs one write at a time.                            *)
(***************************************************************************)
WriteAll(lens) ==
  LET datas == Batch(lens)
      w     == WriteAllToBuffer(currentBlockNumber, currentBlockSize, datas)
  IN /\ ~closed
     /\ ~inflight.busy
     /\ submitted + Len(lens) <= MaxRecords
     /\ inflight' = [busy |-> TRUE, datas |-> datas, buf |-> w.buf, pos |-> w.pos,
                     originBlockNumber |-> currentBlockNumber,
                     originBlockSize |-> currentBlockSize]
     /\ currentBlockNumber' = w.blockNumber
     /\ currentBlockSize' = w.blockSize
     /\ submitted' = submitted + Len(lens)
     /\ UNCHANGED <<file, closed, acked, failures, reader>>

\* writeChunkBuffer's fd.Write succeeds: the call returns the positions.
WriteChunkBuffer ==
  /\ inflight.busy
  /\ file' = file \o inflight.buf
  /\ acked' = acked \o [i \in DOMAIN inflight.datas |->
                         [data |-> inflight.datas[i], pos |-> inflight.pos[i]]]
  /\ inflight' = Idle
  /\ UNCHANGED <<currentBlockNumber, currentBlockSize, closed, submitted, failures, reader>>

(***************************************************************************)
(* fd.Write fails after k bytes: the deferred function restores the        *)
(* cursor; the k bytes remain on disk.                                     *)
(***************************************************************************)
WriteChunkBufferFails ==
  /\ inflight.busy
  /\ failures < MaxFailures
  /\ \E k \in 0 .. FileLen(inflight.buf) - 1 : file' = file \o WrittenPrefix(inflight.buf, k)
  /\ currentBlockNumber' = inflight.originBlockNumber
  /\ currentBlockSize' = inflight.originBlockSize
  /\ failures' = failures + 1
  /\ inflight' = Idle
  /\ UNCHANGED <<closed, acked, submitted, reader>>

(***************************************************************************)
(* What one unlocked segmentReader.Next can observe: with no write in      *)
(* flight, the file and Size; during one, a Size made of any value each    *)
(* cursor field held, and the file with some prefix of the buffer written. *)
(* Only a read that succeeds changes state, and one that succeeds on a     *)
(* prefix succeeds, with the same chain, on the whole buffer (the chain's  *)
(* items are intact there and fd.ReadAt finds at least as many bytes), so  *)
(* the views kept are the whole buffer under every torn Size.             *)
(***************************************************************************)
Views ==
  IF ~inflight.busy THEN {[file |-> file, size |-> Size]}
  ELSE LET c == StoredCursors(inflight.originBlockNumber, inflight.originBlockSize,
                              inflight.datas)
       IN {[file |-> file \o inflight.buf, size |-> z] :
             z \in {SegSize(bn, bs) : bn \in c.bns, bs \in c.bss}}

\* readInternal at the reader's cursor in view v.
ReadView(v) == ReadChain(v.file, v.size, reader.blockNumber, reader.chunkOffset, <<>>)

(***************************************************************************)
(* segmentReader.Next: read the chain at the reader's cursor and advance   *)
(* the cursor to the following chunk.  EOF and CRC errors return without   *)
(* moving the cursor (a stuttering step).                                  *)
(***************************************************************************)
ReaderNext ==
  /\ ~closed
  /\ \E v \in Views :
       LET r == ReadView(v)
       IN /\ r.err = "None"
          /\ reader' = [blockNumber |-> r.next.blockNumber,
                        chunkOffset |-> r.next.chunkOffset,
                        out |-> Append(reader.out, r.data)]
  /\ UNCHANGED <<file, currentBlockNumber, currentBlockSize, closed, inflight, acked,
                 submitted, failures>>

\* segment.Close (by the WAL, under the lock its writes hold): later writes
\* and reads return ErrClosed.
Close ==
  /\ ~closed
  /\ ~inflight.busy
  /\ closed' = TRUE
  /\ UNCHANGED <<file, currentBlockNumber, currentBlockSize, inflight, acked, submitted,
                 failures, reader>>

\* segment.Write: the same framing and append for a single record.
Write(L) == WriteAll(<<L>>)

\* Every step when no fd.Write fails.
Run ==
  \/ \E L \in Lens : Write(L)
  \/ \E n \in 2 .. MaxBatch : \E lens \in [1 .. n -> Lens] : WriteAll(lens)
  \/ WriteChunkBuffer
  \/ ReaderNext
  \/ Close

Next == Run \/ WriteChunkBufferFails

RunSpec == Init /\ [][Run]_vars

Spec == Init /\ [][Next]_vars

-----------------------------------------------------------------------------
TypeOK ==
  /\ file \in Seq([type : ChunkTypes \cup {"Pad", "Torn"}, len : Nat, payload : Seq(Nat \X Nat)])
  /\ currentBlockNumber \in Nat /\ currentBlockSize \in 0 .. BlockSize - 1
  /\ closed \in BOOLEAN
  /\ inflight.busy \in BOOLEAN /\ Len(inflight.datas) = Len(inflight.pos)
  /\ submitted \in 0 .. MaxRecords /\ failures \in 0 .. MaxFailures
  /\ reader \in [blockNumber : Nat, chunkOffset : 0 .. BlockSize - 1, out : Seq(Seq(Nat \X Nat))]

(***************************************************************************)
(* Round trip (spec P1/P2): every position returned by a successful write  *)
(* reads back, through readInternal, exactly the data written, however     *)
(* later writes padded, split and advanced the cursor.  segment.Read is    *)
(* called by WAL.Read under wal.mu.RLock, which no write holds the lock    *)
(* beside, so it is checked when no write is in flight.                    *)
(***************************************************************************)
ReadsBack(a) ==
  LET r == ReadChain(file, Size, a.pos.blockNumber, a.pos.chunkOffset, <<>>)
  IN r.err = "None" /\ r.data = a.data

RoundTrip == ~inflight.busy => \A i \in DOMAIN acked : ReadsBack(acked[i])

(***************************************************************************)
(* Spec 4.1 and 7: a read never returns wrong data silently.  Reading an    *)
(* acknowledged position either fails (CRC, EOF) or returns exactly the    *)
(* record written there, whatever a failed write left behind.              *)
(***************************************************************************)
NoSilentCorruption ==
  \A i \in DOMAIN acked :
    LET r == ReadChain(file, Size, acked[i].pos.blockNumber, acked[i].pos.chunkOffset, <<>>)
    IN r.err = "None" => r.data = acked[i].data

(***************************************************************************)
(* Iteration (spec P3) with Next racing the writes: whatever torn cursor   *)
(* and half-appended file an unlocked segmentReader.Next observed, the     *)
(* records it returned are the written ones in write order (the last may  *)
(* belong to the write still in flight), and every failed observation left *)
(* the cursor where it was: once no write is in flight, the chunk at the   *)
(* cursor passes the CRC, and Next reports io.EOF only after every         *)
(* acknowledged record.  The io.EOF and CRC errors a reader meets inside a *)
(* write are transient at this level; Reader.Next of the WAL is not.       *)
(***************************************************************************)
AtCursor == ReadView([file |-> file, size |-> Size])

ReaderSeesWritten ==
  /\ IsPrefix(reader.out, AckedData \o inflight.datas)
  /\ ~inflight.busy =>
       /\ AtCursor.err /= "CRC"
       /\ AtCursor.err = "EOF" => reader.out = AckedData

(***************************************************************************)
(* No chunk straddles a block (spec P5): every chunk the writer framed     *)
(* starts and ends inside one block of the file.                           *)
(***************************************************************************)
NoStraddle ==
  \A i \in 1 .. Len(file) :
    file[i].type \in ChunkTypes =>
      ItemOffset(file, i) \div BlockSize = (ItemOffset(file, i) + file[i].len - 1) \div BlockSize

=============================================================================
