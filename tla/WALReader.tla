----------------------------- MODULE WALReader -----------------------------
(***************************************************************************)
(* The WAL's iterator (src/lotusdb/wal/wal.go: Reader, NewReaderWithMax,   *)
(* NewReader, NewReaderWithStart, Reader.Next, SkipCurrentSegment) running *)
(* beside the WAL of module WAL.                                           *)
(*                                                                         *)
(* A Reader holds one segmentReader per segment that existed when it was  *)
(* created, in id order; only the current one has moved, the later ones   *)
(* are still at (0, 0), so the model keeps the current one's cursor.      *)
(* Reader.Next reads the live segment (its Size at the time of the call)  *)
(* and the nonce at valueNum * 12, numbering records by counting them.    *)
(* NewReaderWithStart runs its seek loop under wal.mu.RLock, so its turns *)
(* are steps between which the WAL's locked methods cannot run.  A crash  *)
(* ends the process, and the reader with it.                              *)
(***************************************************************************)
EXTENDS WAL

CONSTANT MaxReaders   \* bound on the readers created

VARIABLES
  rd,       \* the Reader: segment ids, current reader, its cursor, valueNum
  readers   \* readers created so far

NoReader ==
  [segs |-> <<>>, cur |-> 1, bn |-> 0, off |-> 0, valueNum |-> 0,
   out |-> <<>>, start |-> 0, from |-> [segmentId |-> 0, blockNumber |-> 0, chunkOffset |-> 0],
   status |-> "none"]

\* The records of segment ids segs, in id order then file order.
RecordsOf(v, segs) ==
  FoldLeft(LAMBDA acc, id : acc \o ScanSegment(v.segments[id], 0, 0), <<>>, segs)

\* Segment reader k of r read at its cursor: the current one at r's
\* cursor, a later one (not yet moved) at (0, 0).
ReadAt(v, r, k) ==
  LET seg == v.segments[r.segs[k]]
  IN ReadChain(seg.file, SegSize(seg.blockNumber, seg.blockSize),
               IF k = r.cur THEN r.bn ELSE 0, IF k = r.cur THEN r.off ELSE 0, <<>>)

\* The least of the live segment readers, or one past the last.
LeastOr(live, none) == IF live = {} THEN none ELSE CHOOSE k \in live : \A j \in live : k <= j

\* The first segment reader, from the current one on, not at io.EOF.
FirstLive(v, r) ==
  LeastOr({k \in r.cur .. Len(r.segs) : ReadAt(v, r, k).err /= "EOF"}, Len(r.segs) + 1)

\* The reader moved on to segment reader k, which starts at (0, 0).
MoveTo(r, k) == IF k = r.cur THEN r ELSE [r EXCEPT !.cur = k, !.bn = 0, !.off = 0]

\* A bug of Reader.Next below: valueNum is not advanced after a record.
StepReadNoCount(v, r, c) ==
  LET r1 == [r EXCEPT !.bn = c.next.blockNumber, !.off = c.next.chunkOffset]
  IN CASE c.err = "CRC" -> [rd |-> r, res |-> "Panic"]
       [] NonceAt(v.nonces, r.valueNum).short -> [rd |-> r1, res |-> "EOF"]
       [] OTHER -> [rd |-> r1, res |-> "Rec",
                    item |-> [rec |-> c.data[1][1], nonce |-> NonceAt(v.nonces, r.valueNum).nonce,
                              valueNum |-> r.valueNum]]

(***************************************************************************)
(* Reader.Next once a segment reader returned something other than         *)
(* io.EOF (c): on an error the code sets ValueNum on a nil position (a     *)
(* panic); a short nonce read returns io.EOF after the segment reader has  *)
(* moved on; else the record, its nonce at valueNum, and valueNum + 1.     *)
(***************************************************************************)
StepRead(v, r, c) ==
  LET r1 == [r EXCEPT !.bn = c.next.blockNumber, !.off = c.next.chunkOffset]
  IN CASE c.err = "CRC" -> [rd |-> r, res |-> "Panic"]
       [] NonceAt(v.nonces, r.valueNum).short -> [rd |-> r1, res |-> "EOF"]
       [] OTHER -> [rd |-> [r1 EXCEPT !.valueNum = @ + 1], res |-> "Rec",
                    item |-> [rec |-> c.data[1][1], nonce |-> NonceAt(v.nonces, r.valueNum).nonce,
                              valueNum |-> r.valueNum]]

\* Reader.Next from segment reader k on, k the first not at io.EOF.
StepFrom(v, r, k) ==
  IF k > Len(r.segs) THEN [rd |-> MoveTo(r, k), res |-> "EOF"]
  ELSE StepRead(v, MoveTo(r, k), ReadAt(v, MoveTo(r, k), k))

(***************************************************************************)
(* Reader.Next: past the last segment reader, io.EOF; on a segment         *)
(* reader's io.EOF move to the next one and call Next again, so the first  *)
(* segment reader not at io.EOF is read.                                   *)
(***************************************************************************)
ReaderStep(v, r) ==
  IF r.cur > Len(r.segs) THEN [rd |-> r, res |-> "EOF"]
  ELSE StepFrom(v, r, FirstLive(v, r))

\* The seek loop after its call of Next returned s.
SeekAfter(r, s) ==
  CASE s.res = "EOF"   -> [s.rd EXCEPT !.status = "ok"]
    [] s.res = "Panic" -> [r EXCEPT !.status = "panic"]
    [] OTHER           -> s.rd

(***************************************************************************)
(* One turn of the loop of NewReaderWithStart: skip (SkipCurrentSegment,   *)
(* which leaves valueNum alone) a reader of a lower segment id, where      *)
(* CurrentSegmentId indexes past the last reader if none is left; stop     *)
(* when the cursor's block and offset are both >= the start's; else call   *)
(* Next and drop its record, stopping on io.EOF.                           *)
(***************************************************************************)
SeekStep(v, r, start) ==
  IF r.cur > Len(r.segs) THEN [r EXCEPT !.status = "panic"]
  ELSE IF r.segs[r.cur] < start.segmentId
  THEN [r EXCEPT !.cur = @ + 1, !.bn = 0, !.off = 0]
  ELSE IF r.bn >= start.blockNumber /\ r.off >= start.chunkOffset THEN [r EXCEPT !.status = "ok"]
  ELSE SeekAfter(r, ReaderStep(v, r))

\* NewReaderWithMax(0): one segment reader per segment, sorted by id.
FreshReader(v) == [NoReader EXCEPT !.segs = SetToSortSeq(DOMAIN v.segments, <),
                                   !.status = "ok"]

NewReader ==
  /\ rd.status /= "seek"
  /\ readers < MaxReaders
  /\ rd' = FreshReader(w)
  /\ readers' = readers + 1
  /\ UNCHANGED <<w, acked, submitted, crashes, nonceFails>>

(***************************************************************************)
(* NewReaderWithStart from a position a write returned: the reader is      *)
(* created and its seek loop runs under wal.mu.RLock, so no write, batch   *)
(* or rotation (each under wal.mu.Lock) happens until the loop is done.    *)
(***************************************************************************)
NewReaderWithStart(a) ==
  /\ rd.status /= "seek"
  /\ readers < MaxReaders
  /\ rd' = [FreshReader(w) EXCEPT !.start = a.data[1][1], !.status = "seek",
                                  !.from = [segmentId |-> a.pos.segmentId,
                                            blockNumber |-> a.pos.blockNumber,
                                            chunkOffset |-> a.pos.chunkOffset]]
  /\ readers' = readers + 1
  /\ UNCHANGED <<w, acked, submitted, crashes, nonceFails>>

\* One turn of the seek loop.
ReaderSeek ==
  /\ rd.status = "seek"
  /\ rd' = SeekStep(w, rd, rd.from)
  /\ UNCHANGED <<w, acked, submitted, crashes, nonceFails, readers>>

\* The reader after a call of Next that returned s.
AfterNext(s) ==
  CASE s.res = "Rec"   -> [s.rd EXCEPT !.out = Append(@, s.item)]
    [] s.res = "Panic" -> [s.rd EXCEPT !.status = "panic"]
    [] OTHER           -> [s.rd EXCEPT !.status = "eof"]

\* Reader.Next, called until it returns io.EOF, as every caller's loop does.
ReaderNext ==
  /\ rd.status = "ok"
  /\ rd' = AfterNext(ReaderStep(w, rd))
  /\ UNCHANGED <<w, acked, submitted, crashes, nonceFails, readers>>

(***************************************************************************)
(* Reader.Next racing a WAL.Write or WriteAll (Next takes no lock): the    *)
(* call runs on one of the states the write passes through before its      *)
(* nonce write (InFlightViews), and the write then completes.  One call    *)
(* per write is enough: in those states a call that returns a record       *)
(* returns one the write has not touched (the write's own records have no  *)
(* nonce yet), as the same call just before the write would; a call that   *)
(* does not return a record stops the caller's loop.                       *)
(***************************************************************************)
ReaderNextInWrite ==
  /\ rd.status = "ok"
  /\ \/ \E L \in Lens : Write(L, NonceSize) /\ \E v \in WriteInFlight(L) : rd' = AfterNext(ReaderStep(v, rd))
     \/ WriteAll(Len(w.pendingNonceWrites), 0) /\ \E v \in WriteAllInFlight : rd' = AfterNext(ReaderStep(v, rd))
  /\ UNCHANGED readers

ReaderInit == Init /\ rd = NoReader /\ readers = 0

ReaderNextAll ==
  \/ (Run /\ rd.status /= "seek" /\ UNCHANGED <<rd, readers>>)
  \/ ReaderNextInWrite
  \/ NewReader
  \/ \E i \in DOMAIN acked : NewReaderWithStart(acked[i])
  \/ ReaderSeek
  \/ ReaderNext

ReaderSpec == ReaderInit /\ [][ReaderNextAll]_<<vars, rd, readers>>

\* The same, with machine crashes followed by Open.
ReaderCrashNext == ReaderNextAll \/ (CrashAndOpen /\ rd' = NoReader /\ UNCHANGED readers)

ReaderCrashSpec == ReaderInit /\ [][ReaderCrashNext]_<<vars, rd, readers>>

-----------------------------------------------------------------------------
OutRecs == [k \in DOMAIN rd.out |-> rd.out[k].rec]

OwnNonces == \A k \in DOMAIN rd.out : rd.out[k].nonce = rd.out[k].rec

\* What the reader should return: every record of its segments, or for a
\* reader from NewReaderWithStart, those from its start record on.
Expected(v, r) ==
  LET recs == RecordsOf(v, r.segs)
  IN IF r.start = 0 THEN recs
     ELSE SubSeq(recs, CHOOSE k \in DOMAIN recs : recs[k] = r.start, Len(recs))

(***************************************************************************)
(* Iteration order (spec P3, 4.3): a reader returns the records of its     *)
(* segments in id then file order, from the start record on, and a reader *)
(* from NewReader gives each its own nonce, however writes and rotations   *)
(* interleave with the calls to Next.                                      *)
(***************************************************************************)
ReaderSeesWal ==
  rd.status \in {"ok", "eof"} =>
    /\ IsPrefix(OutRecs, Expected(w, rd))
    /\ rd.start = 0 => OwnNonces

(***************************************************************************)
(* The reader's contract (spec 4.3, 7, P3): Reader.Next and               *)
(* NewReaderWithStart never crash the process (a CRC mismatch halts        *)
(* iteration with an error); every record a reader returns carries the    *)
(* nonce at its own ordinal, which valueNum is back-stamped to, for a      *)
(* reader from NewReader and from NewReaderWithStart alike; and the call   *)
(* of Next that returns io.EOF comes only after every record of the        *)
(* reader's segments acknowledged before the call, from the start record   *)
(* on, has been returned.                                                  *)
(***************************************************************************)
EofMeansComplete ==
  [][(rd.status = "ok" /\ rd'.status = "eof" /\ rd'.start = rd.start)
       => rd'.out = rd.out /\ OutRecs = Expected(w, rd)]_<<vars, rd, readers>>

=============================================================================
