-------------------------------- MODULE WAL --------------------------------
(***************************************************************************)
(* One WAL instance (src/lotusdb/wal/wal.go with the segment and nonce     *)
(* file of src/unnamed/part_001): an active segment, older segments, one   *)
(* nonce file, the pending-write buffer, rotation, the sync policy, and a  *)
(* machine crash followed by Open.                                         *)
(*                                                                         *)
(* The WAL object and the files it owns are one record `w`, so that each  *)
(* exported method is one action composed of the helpers it calls         *)
(* (rotateActiveSegment, segment.writeAll, nonceFile.writeAll, Sync, ...). *)
(* Every method holds wal.mu for its whole duration, so each is atomic.   *)
(*                                                                         *)
(* The record submitted n-th has data Data(n, L) and nonce n (the random   *)
(* nonce of the value log is unique per record).  The nonce file is bytes: *)
(* byte i of nonce x is <<x, i>>, so a partial fd.Write or a torn tail     *)
(* leaves a prefix of a nonce.  Each file keeps `durable`, the length made *)
(* stable by its last fsync; a crash keeps any prefix of a file at least   *)
(* that long.                                                              *)
(***************************************************************************)
EXTENDS SegmentFile, FiniteSets

CONSTANTS
  SegmentSize,        \* Options.SegmentSize
  NonceSize,          \* nonceSize (12 bytes in the code)
  SyncOption,         \* Options.Sync
  BytesPerSync,       \* Options.BytesPerSync
  CallerSyncs,        \* whether the caller uses WAL.Sync (the value log does)
  Lens,               \* payload lengths a caller may write
  MaxRecords,         \* bound on the records submitted
  MaxBatch,           \* bound on the pending writes of one batch
  MaxSegments,        \* bound on segment ids (rotations)
  MaxCrashes,         \* bound on machine crashes
  MaxWriteNonceFailures,  \* bound on nonce writes failing inside Write
  MaxBatchNonceFailures,  \* bound on nonce writes failing inside WriteAll
  NilNonceRecords         \* records whose caller passes a nil nonce

ASSUME SyncOption \in BOOLEAN /\ CallerSyncs \in BOOLEAN /\ BytesPerSync \in Nat
ASSUME 0 \notin Lens /\ NonceSize \in Nat \ {0}
ASSUME NilNonceRecords \subseteq 1 .. MaxRecords

VARIABLES
  w,          \* the WAL struct and its files
  acked,      \* history: data, nonce and position of each acknowledged record
  submitted,  \* history: records handed to the WAL so far
  crashes,    \* machine crashes so far
  nonceFails  \* nonce-file writes that failed so far, in Write and in WriteAll

vars == <<w, acked, submitted, crashes, nonceFails>>

initialSegmentFileID == 1

EmptySegment == [file |-> <<>>, durable |-> 0, blockNumber |-> 0, blockSize |-> 0]

\* Open on an empty directory: segment 1 is created and is the active one.
Init ==
  /\ w = [segments     |-> (initialSegmentFileID :> EmptySegment),
          active       |-> initialSegmentFileID,
          nonces       |-> <<>>,
          nonceDurable |-> 0,
          curNum       |-> 0,
          bytesWrite   |-> 0,
          pendingWrites      |-> <<>>,
          pendingNonceWrites |-> <<>>,
          pendingSize  |-> 0]
  /\ acked = <<>>
  /\ submitted = 0
  /\ crashes = 0
  /\ nonceFails = [write |-> 0, batch |-> 0]

-----------------------------------------------------------------------------
(* Helpers, each one function or method of the code.                      *)

\* The nonce the caller passes with record r: nil (no bytes) for the records
\* of NilNonceRecords, as examples/main.go passes, else the record's own.
NoNonce == 0
NonceOf(r) == IF r \in NilNonceRecords THEN NoNonce ELSE r

NonceBytes(x) == [i \in 1 .. NonceSize |-> <<x, i>>]

\* What one fd.Write of a nonce appends: a nil nonce writes zero bytes.
NonceFileBytes(x) == IF x = NoNonce THEN <<>> ELSE NonceBytes(x)

\* What the fd.Write calls put in the nonce file for the first n nonces of a batch.
WrittenNonces(nonces, n) == FoldLeft(LAMBDA acc, x : acc \o NonceFileBytes(x), <<>>, SubSeq(nonces, 1, n))

\* The first k bytes of nonce n + 1 of a batch, as an fd.Write that failed
\* after k bytes leaves them.
TornNonce(nonces, n, k) == IF n < Len(nonces) THEN SubSeq(NonceFileBytes(nonces[n + 1]), 1, k) ELSE <<>>

\* nonceSize bytes that are not one nonce written whole.
Garbled == -1

(***************************************************************************)
(* nonceFile.fd.ReadAt(nonce, num * nonceSize) as Read and Reader.Next use *)
(* it: short when the file ends first; else the bytes there, which are a   *)
(* nonce only when one was written whole at that offset.                   *)
(***************************************************************************)
NonceAt(nonces, num) ==
  IF (num + 1) * NonceSize > Len(nonces) THEN [short |-> TRUE, nonce |-> NoNonce]
  ELSE LET b == SubSeq(nonces, num * NonceSize + 1, (num + 1) * NonceSize)
       IN [short |-> FALSE, nonce |-> IF b = NonceBytes(b[1][1]) THEN b[1][1] ELSE Garbled]

ActiveSize(v) == SegSize(v.segments[v.active].blockNumber, v.segments[v.active].blockSize)

\* WAL.maxDataWriteSize: the bound on the bytes one record may take.
MaxDataWriteSize(size) == HeaderSize + size + (size \div BlockSize + 1) * HeaderSize

\* WAL.isFull
IsFull(v, delta) == ActiveSize(v) + MaxDataWriteSize(delta) > SegmentSize

\* segment.Sync of the active segment and nonceFile.Sync
SyncActive(v) == [v EXCEPT !.segments[v.active].durable = FileLen(v.segments[v.active].file)]
SyncNonce(v) == [v EXCEPT !.nonceDurable = Len(v.nonces)]

\* OpenNewActiveSegment's body: sync both files, open segment active+1.
NewActive(v) ==
  LET s == SyncNonce(SyncActive(v))
  IN [s EXCEPT !.segments = s.segments @@ (s.active + 1 :> EmptySegment),
               !.active = s.active + 1]

\* rotateActiveSegment: the same, and bytesWrite is reset.
RotateActiveSegment(v) == [NewActive(v) EXCEPT !.bytesWrite = 0]

\* segment.writeAll on the active segment: the new WAL value and the
\* positions (SegmentId set, ValueNum not yet stamped).
SegmentWriteAll(v, datas) ==
  LET a == v.segments[v.active]
      b == WriteAllToBuffer(a.blockNumber, a.blockSize, datas)
  IN [wal |-> [v EXCEPT !.segments[v.active] =
                 [a EXCEPT !.file = a.file \o b.buf,
                           !.blockNumber = b.blockNumber,
                           !.blockSize = b.blockSize]],
      pos |-> [i \in DOMAIN b.pos |-> b.pos[i] @@ [segmentId |-> v.active, valueNum |-> 0]]]

\* A bug of the same loop: ValueNum is stamped after curNum moves on.
NonceWriteAllOffByOne(v, nonces, positions, n, k) ==
  [wal |-> [v EXCEPT !.nonces = v.nonces \o WrittenNonces(nonces, n) \o TornNonce(nonces, n, k),
                     !.curNum = v.curNum + n],
   pos |-> [i \in DOMAIN positions |->
              IF i <= n THEN [positions[i] EXCEPT !.valueNum = v.curNum + i]
              ELSE positions[i]]]

\* nonceFile.writeAll when the first n of the nonces get written and the
\* write of the next one fails after k bytes: nonce i is appended (zero
\* bytes when nil) and position i gets ValueNum = curNum before curNum
\* moves on, whether or not the nonce was nil.
NonceWriteAll(v, nonces, positions, n, k) ==
  [wal |-> [v EXCEPT !.nonces = v.nonces \o WrittenNonces(nonces, n) \o TornNonce(nonces, n, k),
                     !.curNum = v.curNum + n],
   pos |-> [i \in DOMAIN positions |->
              IF i <= n THEN [positions[i] EXCEPT !.valueNum = v.curNum + i - 1]
              ELSE positions[i]]]

\* nonceFile.Write, its fd.Write writing k bytes: a nil nonce returns at
\* once; otherwise append the nonce, then stamp ValueNum = curNum and
\* advance curNum; when fd.Write fails (k < nonceSize) its k bytes stay and
\* nothing is stamped.
NonceWrite(v, nonce, pos, k) ==
  IF nonce = NoNonce THEN [wal |-> v, pos |-> pos]
  ELSE IF k = NonceSize
  THEN [wal |-> [v EXCEPT !.nonces = @ \o NonceBytes(nonce), !.curNum = @ + 1],
        pos |-> [pos EXCEPT !.valueNum = v.curNum]]
  ELSE [wal |-> [v EXCEPT !.nonces = @ \o SubSeq(NonceBytes(nonce), 1, k)], pos |-> pos]

\* A bug in the clearing of the two parallel buffers: the nonces are kept.
ClearPendingKeepNonces(v) == [v EXCEPT !.pendingSize = 0, !.pendingWrites = <<>>]

\* ClearPendingWrites
ClearPending(v) ==
  [v EXCEPT !.pendingSize = 0, !.pendingWrites = <<>>, !.pendingNonceWrites = <<>>]

\* A successful write makes a history entry.
Acks(datas, nonces, positions) ==
  [i \in DOMAIN datas |-> [data |-> datas[i], nonce |-> nonces[i], pos |-> positions[i],
                           synced |-> FALSE]]

\* Every acknowledged record is covered by a sync the caller saw return.
MarkSynced(h) == [i \in DOMAIN h |-> [h[i] EXCEPT !.synced = TRUE]]

CanRotate(v) == v.active < MaxSegments

-----------------------------------------------------------------------------
(***************************************************************************)
(* The end of WAL.Write once nonceFile.Write returned n (full: the write   *)
(* rotated first): sync both files when Options.Sync or the BytesPerSync   *)
(* threshold asks.  When the nonce write failed Write returns its error,   *)
(* and the record stays in the segment.                                    *)
(***************************************************************************)
WriteDone(L, nonceOk, full, n) ==
  LET r        == submitted + 1
      written  == [n.wal EXCEPT !.bytesWrite = @ + n.pos.chunkSize]
      needSync == SyncOption \/ (BytesPerSync > 0 /\ written.bytesWrite >= BytesPerSync)
      before   == IF full THEN MarkSynced(acked) ELSE acked
  IN IF nonceOk
     THEN /\ w' = IF needSync THEN [SyncNonce(SyncActive(written)) EXCEPT !.bytesWrite = 0]
                  ELSE written
          /\ acked' = LET h == before \o Acks(<<Data(r, L)>>, <<NonceOf(r)>>, <<n.pos>>)
                      IN IF needSync THEN MarkSynced(h) ELSE h
          /\ UNCHANGED nonceFails
     ELSE /\ nonceFails.write < MaxWriteNonceFailures
          /\ w' = n.wal
          /\ acked' = before
          /\ nonceFails' = [nonceFails EXCEPT !.write = @ + 1]

\* WAL.Write after segment.Write returned s: nonceFile.Write, which writes
\* k bytes, stamps ValueNum.
WriteNonce(L, k, full, s) ==
  WriteDone(L, k = NonceSize, full, NonceWrite(s.wal, NonceOf(submitted + 1), s.pos[1], k))

(***************************************************************************)
(* WAL.Write(data, nonce): reject data that cannot fit a segment, rotate   *)
(* when isFull, segment.Write, then the nonce write and sync above.  With  *)
(* k < nonceSize the nonce's fd.Write fails after k bytes.                 *)
(***************************************************************************)
WriteFrom(L, k, full) ==
  /\ submitted < MaxRecords
  /\ L + HeaderSize <= SegmentSize
  /\ full => CanRotate(w)
  /\ k < NonceSize => NonceOf(submitted + 1) /= NoNonce
  /\ submitted' = submitted + 1
  /\ WriteNonce(L, k, full,
                SegmentWriteAll(IF full THEN RotateActiveSegment(w) ELSE w,
                                <<Data(submitted + 1, L)>>))
  /\ UNCHANGED crashes

Write(L, k) == WriteFrom(L, k, IsFull(w, L))

\* WAL.PendingWrites: buffer one record under pendingWritesLock.
PendingWrites(L) ==
  LET r == submitted + 1
  IN /\ submitted < MaxRecords
     /\ Len(w.pendingWrites) < MaxBatch
     /\ w' = [w EXCEPT !.pendingSize = @ + MaxDataWriteSize(L),
                       !.pendingWrites = Append(@, Data(r, L)),
                       !.pendingNonceWrites = Append(@, NonceOf(r))]
     /\ submitted' = r
     /\ UNCHANGED <<acked, crashes, nonceFails>>

\* The end of WAL.WriteAll once nonceFile.writeAll returned n.
WriteAllDone(nOk, full, n) ==
  /\ nOk < Len(w.pendingWrites) => nonceFails.batch < MaxBatchNonceFailures
  /\ w' = ClearPending(n.wal)
  /\ acked' = (IF full THEN MarkSynced(acked) ELSE acked)
                \o Acks(w.pendingWrites, w.pendingNonceWrites, n.pos)
  /\ nonceFails' = IF nOk < Len(w.pendingWrites) THEN [nonceFails EXCEPT !.batch = @ + 1]
                   ELSE nonceFails

\* WAL.WriteAll after segment.writeAll returned s: nonceFile.writeAll.
WriteAllSeg(nOk, k, full, s) ==
  WriteAllDone(nOk, full, NonceWriteAll(s.wal, w.pendingNonceWrites, s.pos, nOk, k))

(***************************************************************************)
(* WAL.WriteAll: an empty buffer returns at once; otherwise, under wal.mu, *)
(* reject a buffer larger than a segment, rotate if the active segment     *)
(* cannot take pendingSize more bytes, segment.writeAll, then             *)
(* nonceFile.writeAll, whose error is ignored; the deferred                *)
(* ClearPendingWrites runs on every path.  nOk nonces get written, and    *)
(* when that is not all, the write of the next fails after k bytes.        *)
(***************************************************************************)
WriteAllFrom(nOk, k, full) ==
  /\ w.pendingWrites /= <<>>
  /\ nOk < Len(w.pendingNonceWrites) => w.pendingNonceWrites[nOk + 1] /= NoNonce
  /\ IF w.pendingSize > SegmentSize
     THEN /\ w' = ClearPending(w)
          /\ UNCHANGED <<acked, nonceFails>>
     ELSE /\ full => CanRotate(w)
          /\ WriteAllSeg(nOk, k, full,
                         SegmentWriteAll(IF full THEN RotateActiveSegment(w) ELSE w,
                                         w.pendingWrites))
  /\ UNCHANGED <<submitted, crashes>>

WriteAll(nOk, k) == WriteAllFrom(nOk, k, ActiveSize(w) + w.pendingSize > SegmentSize)

\* WAL.ClearPendingWrites, as the caller's error path calls it.
ClearPendingWrites ==
  /\ w.pendingWrites /= <<>>
  /\ w' = ClearPending(w)
  /\ UNCHANGED <<acked, submitted, crashes, nonceFails>>

\* WAL.OpenNewActiveSegment: forced rotation; bytesWrite is not reset.
OpenNewActiveSegment ==
  /\ CanRotate(w)
  /\ w' = NewActive(w)
  /\ acked' = MarkSynced(acked)
  /\ UNCHANGED <<submitted, crashes, nonceFails>>

\* WAL.Sync: only the active segment file is synced.
Sync ==
  /\ CallerSyncs
  /\ w' = SyncActive(w)
  /\ acked' = MarkSynced(acked)
  /\ UNCHANGED <<submitted, crashes, nonceFails>>

(***************************************************************************)
(* A machine crash, then Open on the same directories: each file keeps a   *)
(* prefix at least as long as its durable length; Open lists the segment   *)
(* files, makes the highest id active, sets every cursor from the file     *)
(* size (openSegmentFile) and curNum = size / nonceSize, rounded down     *)
(* (openNonceFile), although O_APPEND appends at the size itself.  The    *)
(* history keeps only records a returned sync covered: nothing is promised *)
(* of the others.                                                          *)
(***************************************************************************)
Keeps ==
  LET Kept(id) == w.segments[id].durable .. FileLen(w.segments[id].file)
  IN {f \in [DOMAIN w.segments -> UNION {Kept(id) : id \in DOMAIN w.segments}] :
        \A id \in DOMAIN w.segments : f[id] \in Kept(id)}

CrashAndOpen ==
  /\ crashes < MaxCrashes
  /\ \E keep \in Keeps, nKeep \in w.nonceDurable .. Len(w.nonces) :
       LET files == [id \in DOMAIN w.segments |-> WrittenPrefix(w.segments[id].file, keep[id])]
          IN w' = [segments     |-> [id \in DOMAIN w.segments |->
                                       [file        |-> files[id],
                                        durable     |-> keep[id],
                                        blockNumber |-> keep[id] \div BlockSize,
                                        blockSize   |-> keep[id] % BlockSize]],
                   active       |-> w.active,
                   nonces       |-> SubSeq(w.nonces, 1, nKeep),
                   nonceDurable |-> nKeep,
                   curNum       |-> nKeep \div NonceSize,
                   bytesWrite   |-> 0,
                   pendingWrites      |-> <<>>,
                   pendingNonceWrites |-> <<>>,
                   pendingSize  |-> 0]
  /\ acked' = SelectSeq(acked, LAMBDA a : a.synced)
  /\ crashes' = crashes + 1
  /\ UNCHANGED <<submitted, nonceFails>>

\* Every step of the running process when no nonce write fails.
Run ==
  \/ \E L \in Lens : Write(L, NonceSize)
  \/ \E L \in Lens : PendingWrites(L)
  \/ WriteAll(Len(w.pendingNonceWrites), 0)
  \/ ClearPendingWrites
  \/ OpenNewActiveSegment
  \/ Sync

\* A nonce fd.Write failing after k bytes, in Write and in WriteAll.
NonceFaults ==
  \/ \E L \in Lens, k \in 0 .. NonceSize - 1 : Write(L, k)
  \/ \E nOk \in 0 .. Len(w.pendingNonceWrites) - 1, k \in 0 .. NonceSize - 1 : WriteAll(nOk, k)

Next == Run \/ NonceFaults \/ CrashAndOpen

RunSpec == Init /\ [][Run]_vars

Spec == Init /\ [][Next]_vars

(***************************************************************************)
(* What an unlocked Reader.Next can observe inside a WAL.Write or WriteAll *)
(* of datas on v (after any rotation), up to its first nonce fd.Write: the *)
(* active segment's two cursor fields at any value writeToBuffer stored    *)
(* in them (a data race), any prefix of the chunk buffer appended, and     *)
(* the nonce file as it was.  A reader uses the two fields only through    *)
(* Size, so each torn Size is kept once.                                   *)
(***************************************************************************)
InFlightViews(v, datas) ==
  LET a == v.segments[v.active]
      b == WriteAllToBuffer(a.blockNumber, a.blockSize, datas)
      c == StoredCursors(a.blockNumber, a.blockSize, datas)
  IN {[v EXCEPT !.segments[v.active] =
         [a EXCEPT !.file = a.file \o WrittenPrefix(b.buf, k), !.blockNumber = z \div BlockSize,
                   !.blockSize = z % BlockSize]] :
        k \in 0 .. FileLen(b.buf), z \in {SegSize(bn, bs) : bn \in c.bns, bs \in c.bss}}

\* The same for the Write of a record of length L and for WriteAll.
WriteInFlight(L) ==
  InFlightViews(IF IsFull(w, L) THEN RotateActiveSegment(w) ELSE w, <<Data(submitted + 1, L)>>)

WriteAllInFlight ==
  IF w.pendingSize > SegmentSize THEN {}
  ELSE InFlightViews(IF ActiveSize(w) + w.pendingSize > SegmentSize THEN RotateActiveSegment(w)
                     ELSE w, w.pendingWrites)

-----------------------------------------------------------------------------
(***************************************************************************)
(* WAL.Read(pos): find the segment (active or older), read the nonceSize  *)
(* bytes at ValueNum * nonceSize (an error unless all are there), then     *)
(* segment.Read.                                                           *)
(***************************************************************************)
WalRead(v, pos) ==
  IF pos.segmentId \notin DOMAIN v.segments THEN [err |-> "SegmentNotFound"]
  ELSE IF NonceAt(v.nonces, pos.valueNum).short THEN [err |-> "ShortNonce"]
  ELSE LET seg == v.segments[pos.segmentId]
           r   == ReadChain(seg.file, SegSize(seg.blockNumber, seg.blockSize),
                            pos.blockNumber, pos.chunkOffset, <<>>)
       IN IF r.err /= "None" THEN [err |-> r.err]
          ELSE [err |-> "None", data |-> r.data, nonce |-> NonceAt(v.nonces, pos.valueNum).nonce]

\* The records of one segment file in file order, as a segment reader
\* returns them until EOF or a CRC error.
RECURSIVE ScanSegment(_, _, _)
ScanSegment(seg, blockNumber, chunkOffset) ==
  LET r == ReadChain(seg.file, SegSize(seg.blockNumber, seg.blockSize), blockNumber, chunkOffset, <<>>)
  IN IF r.err /= "None" THEN <<>>
     ELSE <<r.data[1][1]>> \o ScanSegment(seg, r.next.blockNumber, r.next.chunkOffset)

\* The record numbers of all segments in segment-id order, then file order.
SegmentOrder ==
  FoldLeft(LAMBDA acc, id : acc \o ScanSegment(w.segments[id], 0, 0), <<>>,
           SetToSortSeq(DOMAIN w.segments, <))

-----------------------------------------------------------------------------
TypeOK ==
  /\ DOMAIN w.segments = 1 .. w.active
  /\ \A id \in DOMAIN w.segments :
       /\ w.segments[id].durable \in 0 .. FileLen(w.segments[id].file)
       /\ w.segments[id].blockSize \in 0 .. BlockSize - 1
  /\ w.nonceDurable \in 0 .. Len(w.nonces)
  /\ w.curNum \in 0 .. MaxRecords
  /\ Len(w.pendingWrites) \in 0 .. MaxBatch
  /\ Len(w.pendingNonceWrites) = Len(w.pendingWrites)
  /\ submitted \in 0 .. MaxRecords /\ crashes \in 0 .. MaxCrashes

(***************************************************************************)
(* Read your writes (spec P1, P2, P6, P7): every position a Write or       *)
(* WriteAll returned, still covered by the history, reads back the         *)
(* record's data and its own nonce, across later writes, rotations, forced *)
(* rotations and, for records a returned sync covered, crashes and Open.   *)
(***************************************************************************)
ReadYourWrites ==
  \A i \in DOMAIN acked :
    WalRead(w, acked[i].pos) = [err |-> "None", data |-> acked[i].data, nonce |-> acked[i].nonce]

(***************************************************************************)
(* Nonce ordinal alignment (spec 4.2, 4.3): the nonce file holds, in       *)
(* order, the nonces of the records the segments hold in segment-id and    *)
(* file order: the N-th record a Reader returns has its nonce at N times  *)
(* nonceSize.  Reader.Next relies on this: it never consults a record's    *)
(* own ValueNum.                                                           *)
(***************************************************************************)
NonceOrdinalAlignment == w.nonces = WrittenNonces(SegmentOrder, Len(SegmentOrder))

(***************************************************************************)
(* Spec boundary scenario 5: rotation happens before a segment exceeds     *)
(* Options.SegmentSize.                                                    *)
(***************************************************************************)
SegmentSizeBound ==
  \A id \in DOMAIN w.segments : FileLen(w.segments[id].file) <= SegmentSize

-----------------------------------------------------------------------------
(***************************************************************************)
(* The WAL as a Log: the records the segments hold, as the Full and First  *)
(* chunks in segment-id then file order (the order a Reader returns them   *)
(* while no torn bytes lie in the files), each paired with the nonce at   *)
(* its ordinal (0 when the nonce file is short, Garbled when the bytes    *)
(* there are not one whole nonce); the pending buffer                      *)
(* paired the same way with pendingNonceWrites.                            *)
(***************************************************************************)
StartsRecord(it) == it.type \in {"Full", "First"}

RecordIds(v) ==
  LET chunks(id) == SelectSeq(v.segments[id].file, StartsRecord)
  IN FoldLeft(LAMBDA acc, id : acc \o [i \in DOMAIN chunks(id) |-> chunks(id)[i].payload[1][1]],
              <<>>, [i \in 1 .. v.active |-> i])

LogEntries ==
  LET recs == RecordIds(w)
  IN [i \in DOMAIN recs |-> <<recs[i], NonceAt(w.nonces, i - 1).nonce>>]

PendingEntries ==
  [i \in DOMAIN w.pendingWrites |->
     <<w.pendingWrites[i][1][1],
       IF i <= Len(w.pendingNonceWrites) THEN w.pendingNonceWrites[i] ELSE 0>>]

AbstractLog == INSTANCE Log WITH log <- LogEntries, pending <- PendingEntries,
                                 Entries <- {<<r, r>> : r \in 1 .. MaxRecords}

(***************************************************************************)
(* Refinement: every behaviour of the WAL (Write, PendingWrites, WriteAll, *)
(* ClearPendingWrites, rotations, Sync) is a behaviour of the Log: a write *)
(* appends its record with its own nonce, a batch lands whole and in       *)
(* buffer order, a rejected batch lands not at all, the rest changes       *)
(* nothing a reader can see.                                               *)
(***************************************************************************)
WALImplementsLog == AbstractLog!Spec

=============================================================================
