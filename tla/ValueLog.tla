------------------------------ MODULE ValueLog ------------------------------
(***************************************************************************)
(* valueLog.writeBatch (src/lotusdb/vlog.go): one batch of records split   *)
(* by key partition, one errgroup goroutine per non-empty partition, each  *)
(* buffering its records into its WAL (PendingWrites), flushing them      *)
(* (WriteAll) and sending its positions on posChan; the caller waits for  *)
(* the group, then drains posChan partitionNum times.                     *)
(*                                                                         *)
(* Each partition's WAL is seen through its Log abstraction (module Log,  *)
(* which WAL implements): a pending buffer and the records flushed.  A     *)
(* WriteAll either lands the whole buffer or fails; both empty the buffer. *)
(* errgroup.WithContext cancels ctx when the first goroutine fails.        *)
(*                                                                         *)
(* A record is encoded as encodeValueLogRecord does (structs.go): a        *)
(* 4-byte little-endian key length, the key, the value, sealed by AES-GCM  *)
(* under a fresh nonce; the WAL entry is the sealed buffer with its nonce, *)
(* and vlog.read decodes an entry with decodeValueLogRecord.              *)
(***************************************************************************)
EXTENDS Naturals, Sequences, FiniteSets, TLC

CONSTANTS
  Records,        \* the records of the batch
  KV,             \* each record's key and value, as byte sequences
  PartitionNum,   \* valueLogOptions.partitionNum
  MaxWalFailures  \* bound on the WriteAll calls that fail

Partitions == 1 .. PartitionNum

VARIABLES
  partOf,     \* getKeyPartition of each record's key
  pending,    \* per partition: the WAL's pendingWrites
  logs,       \* per partition: the records its WAL holds
  tpc,        \* per partition: where its goroutine is
  tidx,       \* per partition: records buffered so far
  tpos,       \* per partition: the positions WriteAll returned
  cancelled,  \* ctx.Done() is closed
  groupErr,   \* the errgroup holds an error
  posChan,    \* the buffered channel's contents
  closed,     \* posChan has been closed
  mpc,        \* where writeBatch's own goroutine is
  received,   \* receives done from posChan
  returned,   \* the positions collected for the caller
  failures    \* WriteAll calls that failed so far

vars == <<partOf, pending, logs, tpc, tidx, tpos, cancelled, groupErr, posChan,
          closed, mpc, received, returned, failures>>

-----------------------------------------------------------------------------
(* The value log record codec (structs.go).                                *)

\* binary.LittleEndian.PutUint32 and Uint32 on a 4-byte slice.
PutUint32LE(n) == [i \in 1 .. 4 |-> (n \div (256 ^ (i - 1))) % 256]
Uint32LE(b) == b[1] + 256 * b[2] + 65536 * b[3] + 16777216 * b[4]

\* aesgcm.Seal and aesgcm.Open: an authenticated box that opens (ok) only
\* under the nonce it was sealed with.
Seal(nonce, buf) == [nonce |-> nonce, plain |-> buf]
GcmOpen(nonce, box) == [ok |-> box.nonce = nonce, plain |-> box.plain]

\* encodeValueLogRecord: the sealed buffer and its nonce.  The nonce of
\* io.ReadFull(rand.Reader) is fresh for each record: here, its number.
EncodeValueLogRecord(r) ==
  <<Seal(r, PutUint32LE(Len(KV[r].key)) \o KV[r].key \o KV[r].value), r>>

\* A bug of the decoding below: the value starts one byte early.
DecodeFromEarly(buf) ==
  LET keyLen == Uint32LE(SubSeq(buf, 1, 4))
  IN [key |-> SubSeq(buf, 5, 4 + keyLen), value |-> SubSeq(buf, 4 + keyLen, Len(buf))]

\* The key and value of an opened buffer.
DecodeFrom(buf) ==
  LET keyLen == Uint32LE(SubSeq(buf, 1, 4))
  IN [key |-> SubSeq(buf, 5, 4 + keyLen), value |-> SubSeq(buf, 5 + keyLen, Len(buf))]

\* decodeValueLogRecord: it panics when Open fails.
DecodeValueLogRecord(bufEnc, nonce) ==
  [panic |-> ~GcmOpen(nonce, bufEnc).ok] @@ DecodeFrom(GcmOpen(nonce, bufEnc).plain)

\* The records of partition p in batch order (partitionRecords[p]).
RecordsOf(p) ==
  LET S == {r \in Records : partOf[r] = p}
  IN [i \in 1 .. Cardinality(S) |-> CHOOSE r \in S : Cardinality({q \in S : q < r}) = i - 1]

\* A bug of the channel below: it is made unbuffered.
PosChanCapUnbuffered == 0

\* make(chan []*KeyPosition, partitionNum)
PosChanCap == PartitionNum

(***************************************************************************)
(* Grouping by partition and g.Go for each non-empty partition; an empty   *)
(* partition gets no goroutine.                                            *)
(***************************************************************************)
Init ==
  /\ partOf \in [Records -> Partitions]
  /\ pending = [p \in Partitions |-> <<>>]
  /\ logs = [p \in Partitions |-> <<>>]
  /\ tpc = [p \in Partitions |-> IF \E r \in Records : partOf[r] = p THEN "buffer" ELSE "exit"]
  /\ tidx = [p \in Partitions |-> 0]
  /\ tpos = [p \in Partitions |-> <<>>]
  /\ cancelled = FALSE
  /\ groupErr = FALSE
  /\ posChan = <<>>
  /\ closed = FALSE
  /\ mpc = "wait"
  /\ received = 0
  /\ returned = <<>>
  /\ failures = 0

\* A goroutine returning an error: errgroup keeps the first and cancels ctx.
Fail == groupErr' = TRUE /\ cancelled' = TRUE

\* A bug of the loop below: the cancelled path returns without the
\* deferred ClearPendingWrites.
TaskBufferNoClear(p) ==
  LET recs == RecordsOf(p)
  IN /\ tpc[p] = "buffer"
     /\ IF tidx[p] = Len(recs)
        THEN /\ tpc' = [tpc EXCEPT ![p] = "writeAll"]
             /\ UNCHANGED <<pending, tidx, cancelled, groupErr>>
        ELSE IF cancelled
        THEN /\ tpc' = [tpc EXCEPT ![p] = "exit"]
             /\ Fail
             /\ UNCHANGED <<pending, tidx>>
        ELSE /\ pending' = [pending EXCEPT ![p] = Append(@, EncodeValueLogRecord(recs[tidx[p] + 1]))]
             /\ tidx' = [tidx EXCEPT ![p] = @ + 1]
             /\ UNCHANGED <<tpc, cancelled, groupErr>>
     /\ UNCHANGED <<partOf, logs, tpos, posChan, closed, mpc, received, returned, failures>>

(***************************************************************************)
(* One turn of the buffering loop: the select takes ctx.Done() when it is  *)
(* closed, returning ctx.Err() through the deferred ClearPendingWrites;    *)
(* otherwise the default case encodes the record and calls PendingWrites.  *)
(* After the last record the loop ends and WriteAll is next.               *)
(***************************************************************************)
TaskBuffer(p) ==
  LET recs == RecordsOf(p)
  IN /\ tpc[p] = "buffer"
     /\ IF tidx[p] = Len(recs)
        THEN /\ tpc' = [tpc EXCEPT ![p] = "writeAll"]
             /\ UNCHANGED <<pending, tidx, cancelled, groupErr>>
        ELSE IF cancelled
        THEN /\ pending' = [pending EXCEPT ![p] = <<>>]
             /\ tpc' = [tpc EXCEPT ![p] = "exit"]
             /\ Fail
             /\ UNCHANGED tidx
        ELSE /\ pending' = [pending EXCEPT ![p] = Append(@, EncodeValueLogRecord(recs[tidx[p] + 1]))]
             /\ tidx' = [tidx EXCEPT ![p] = @ + 1]
             /\ UNCHANGED <<tpc, cancelled, groupErr>>
     /\ UNCHANGED <<partOf, logs, tpos, posChan, closed, mpc, received, returned, failures>>

\* The KeyPositions of the n positions WriteAll returned after the k entries
\* the log held: record i of the partition gets the i-th position.
KeyPositions(p, k, n) ==
  [i \in 1 .. n |-> [key |-> KV[RecordsOf(p)[i]].key, partition |-> p, position |-> k + i]]

(***************************************************************************)
(* WriteAll on the partition's WAL, which empties its buffer on every      *)
(* path: on success the buffer lands in the log and its positions are      *)
(* kept; on failure the goroutine returns the error.                       *)
(***************************************************************************)
TaskWriteAll(p, ok) ==
  /\ tpc[p] = "writeAll"
  /\ pending' = [pending EXCEPT ![p] = <<>>]
  /\ IF ok
     THEN /\ logs' = [logs EXCEPT ![p] = @ \o pending[p]]
          /\ tpos' = [tpos EXCEPT ![p] = KeyPositions(p, Len(logs[p]), Len(pending[p]))]
          /\ tpc' = [tpc EXCEPT ![p] = "send"]
          /\ UNCHANGED <<cancelled, groupErr, failures>>
     ELSE /\ failures < MaxWalFailures
          /\ tpc' = [tpc EXCEPT ![p] = "exit"]
          /\ Fail
          /\ failures' = failures + 1
          /\ UNCHANGED <<logs, tpos>>
  /\ UNCHANGED <<partOf, tidx, posChan, closed, mpc, received, returned>>

\* posChan <- keyPositions, blocking while the channel is full; then return nil.
TaskSend(p) ==
  /\ tpc[p] = "send"
  /\ Len(posChan) < PosChanCap
  /\ posChan' = Append(posChan, tpos[p])
  /\ tpc' = [tpc EXCEPT ![p] = "exit"]
  /\ UNCHANGED <<partOf, pending, logs, tidx, tpos, cancelled, groupErr, closed,
                 mpc, received, returned, failures>>

(***************************************************************************)
(* g.Wait returns once every goroutine has returned: with the first error  *)
(* writeBatch returns it; otherwise posChan is closed.                     *)
(***************************************************************************)
MainWait ==
  /\ mpc = "wait"
  /\ \A p \in Partitions : tpc[p] = "exit"
  /\ mpc' = IF groupErr THEN "done" ELSE "collect"
  /\ closed' = ~groupErr
  /\ UNCHANGED <<partOf, pending, logs, tpc, tidx, tpos, cancelled, groupErr,
                 posChan, received, returned, failures>>

\* A bug of the loop below: it receives partitionNum - 1 times.
MainReceiveShort ==
  /\ mpc = "collect"
  /\ IF received < PartitionNum - 1
     THEN /\ received' = received + 1
          /\ IF posChan /= <<>>
             THEN /\ returned' = returned \o Head(posChan)
                  /\ posChan' = Tail(posChan)
             ELSE UNCHANGED <<returned, posChan>>
          /\ UNCHANGED mpc
     ELSE /\ mpc' = "done"
          /\ UNCHANGED <<received, returned, posChan>>
  /\ UNCHANGED <<partOf, pending, logs, tpc, tidx, tpos, cancelled, groupErr,
                 closed, failures>>

(***************************************************************************)
(* One turn of the collecting loop (partitionNum turns): a receive takes   *)
(* the oldest list, or nil from the closed, drained channel.               *)
(***************************************************************************)
MainReceive ==
  /\ mpc = "collect"
  /\ IF received < PartitionNum
     THEN /\ received' = received + 1
          /\ IF posChan /= <<>>
             THEN /\ returned' = returned \o Head(posChan)
                  /\ posChan' = Tail(posChan)
             ELSE UNCHANGED <<returned, posChan>>
          /\ UNCHANGED mpc
     ELSE /\ mpc' = "done"
          /\ UNCHANGED <<received, returned, posChan>>
  /\ UNCHANGED <<partOf, pending, logs, tpc, tidx, tpos, cancelled, groupErr,
                 closed, failures>>

Task(p) == TaskBuffer(p) \/ (\E ok \in BOOLEAN : TaskWriteAll(p, ok)) \/ TaskSend(p)

Next ==
  \/ \E p \in Partitions : Task(p)
  \/ MainWait
  \/ MainReceive

(***************************************************************************)
(* Goroutines are scheduled fairly by the Go runtime: a goroutine that can *)
(* take its next step keeps being able to until it does.                   *)
(***************************************************************************)
Fairness ==
  /\ \A p \in Partitions : WF_vars(Task(p))
  /\ WF_vars(MainWait)
  /\ WF_vars(MainReceive)

Spec == Init /\ [][Next]_vars /\ Fairness

-----------------------------------------------------------------------------
\* vlog.read: WAL.Read of the position in the partition's WAL (its data and
\* the nonce at its ordinal), then decodeValueLogRecord.
VlogRead(kp) ==
  DecodeValueLogRecord(logs[kp.partition][kp.position][1], logs[kp.partition][kp.position][2])

\* The keys returned for partition p, in the order returned.
ReturnedFrom(p) ==
  LET kps == SelectSeq(returned, LAMBDA kp : kp.partition = p)
  IN [i \in DOMAIN kps |-> kps[i].key]

\* The keys of partition p's records in batch order.
KeysOf(p) == [i \in DOMAIN RecordsOf(p) |-> KV[RecordsOf(p)[i]].key]

(***************************************************************************)
(* writeBatch returns (spec 4.4): however the partitions' goroutines, their *)
(* WriteAll failures and the cancellation interleave, g.Wait and the       *)
(* partitionNum receives from posChan all complete.                        *)
(***************************************************************************)
Termination == <>(mpc = "done")

(***************************************************************************)
(* Spec 4.4 step 3 and 7 (cancellation): when writeBatch returns, on       *)
(* success or error, no partition's WAL still buffers a record of the      *)
(* batch, so the next batch's WriteAll cannot flush it.                    *)
(***************************************************************************)
NoStaleBuffer == mpc = "done" => \A p \in Partitions : pending[p] = <<>>

(***************************************************************************)
(* Spec 4.4 step 4: a batch that succeeds returns a position for every     *)
(* record exactly once, each partition's in batch order, and each is in    *)
(* its partition's WAL.                                                    *)
(***************************************************************************)
PositionsComplete ==
  (mpc = "done" /\ ~groupErr) =>
    /\ Len(returned) = Cardinality(Records)
    /\ \A p \in Partitions :
         /\ ReturnedFrom(p) = KeysOf(p)
         /\ logs[p] = [i \in DOMAIN RecordsOf(p) |-> EncodeValueLogRecord(RecordsOf(p)[i])]

(***************************************************************************)
(* Spec 4.4 and the index's use of the value log: reading any KeyPosition  *)
(* a successful writeBatch returned, with vlog.read, opens and decodes to  *)
(* a record whose key is the KeyPosition's key and whose value is the one *)
(* written with it.                                                        *)
(***************************************************************************)
ReadBack ==
  (mpc = "done" /\ ~groupErr) =>
    \A i \in DOMAIN returned :
      \E r \in Records :
        /\ KV[r].key = returned[i].key
        /\ VlogRead(returned[i]) = [panic |-> FALSE, key |-> KV[r].key, value |-> KV[r].value]

=============================================================================
