------------------------------ MODULE WALLocks ------------------------------
(***************************************************************************)
(* The WAL's sync.RWMutex wal.mu (src/lotusdb/wal/wal.go) as its callers  *)
(* take it: reader goroutines calling Read, NewReader and                  *)
(* NewReaderWithStart, which hold it shared, beside the single writer      *)
(* (spec 4.2: one writer, many readers) whose Write, WriteAll, Sync and    *)
(* OpenNewActiveSegment hold it exclusively.  What the methods do under    *)
(* the lock is modules WAL and WALReader; here only the lock steps are.    *)
(*                                                                         *)
(* sync.RWMutex: Lock first announces the writer, after which every new    *)
(* RLock blocks, then waits for the readers holding the lock to leave;     *)
(* Unlock lets the readers that blocked meanwhile in, all at once.         *)
(***************************************************************************)
EXTENDS Naturals, Sequences, FiniteSets

CONSTANTS
  Readers,     \* reader goroutines
  ReaderOps,   \* the WAL methods each reader goroutine calls, in order
  MaxWrites    \* bound on the writer's locked calls

VARIABLES
  readHolds,   \* RLocks held and not yet released
  writer,      \* "none", "pending" (announced) or "held"
  blocked,     \* reader goroutines parked in RLock
  op,          \* per reader: index of the method it is in
  step,        \* per reader: index of its next lock step in that method
  writes       \* locked calls the writer has completed

vars == <<readHolds, writer, blocked, op, step, writes>>

(***************************************************************************)
(* The lock steps of each method: Read and NewReaderWithMax (NewReader)    *)
(* RLock with a deferred RUnlock; NewReaderWithStart RLocks, then calls    *)
(* NewReader, which RLocks again and releases on return, and releases its *)
(* own when its seek loop is done.                                         *)
(***************************************************************************)
LockSteps(m) ==
  CASE m = "NewReaderWithStart" -> <<"RLock", "RLock", "RUnlock", "RUnlock">>
    [] m = "Read"               -> <<"RLock", "RUnlock">>
    [] OTHER                    -> <<"RLock", "RUnlock">>

Done(r) == op[r] > Len(ReaderOps)

\* The reader's position after its current lock step.
Advance(r) ==
  IF step[r] = Len(LockSteps(ReaderOps[op[r]]))
  THEN [op |-> op[r] + 1, step |-> 1]
  ELSE [op |-> op[r], step |-> step[r] + 1]

Init ==
  /\ readHolds = 0
  /\ writer = "none"
  /\ blocked = {}
  /\ op = [r \in Readers |-> 1]
  /\ step = [r \in Readers |-> 1]
  /\ writes = 0

(***************************************************************************)
(* A reader's next lock step.  RLock succeeds unless a writer has          *)
(* announced itself or holds the lock, and then parks the goroutine;       *)
(* RUnlock releases one hold.                                              *)
(***************************************************************************)
ReaderStep(r) ==
  LET a == Advance(r)
  IN /\ ~Done(r)
     /\ r \notin blocked
     /\ IF LockSteps(ReaderOps[op[r]])[step[r]] = "RLock" /\ writer /= "none"
        THEN /\ blocked' = blocked \cup {r}
             /\ UNCHANGED <<readHolds, op, step>>
        ELSE /\ readHolds' = IF LockSteps(ReaderOps[op[r]])[step[r]] = "RLock"
                             THEN readHolds + 1 ELSE readHolds - 1
             /\ op' = [op EXCEPT ![r] = a.op]
             /\ step' = [step EXCEPT ![r] = a.step]
             /\ UNCHANGED blocked
     /\ UNCHANGED <<writer, writes>>

\* wal.mu.Lock() at the head of a writing method: the writer announces itself.
WriterLock ==
  /\ writer = "none"
  /\ writes < MaxWrites
  /\ writer' = "pending"
  /\ UNCHANGED <<readHolds, blocked, op, step, writes>>

\* Lock returns once the readers that held the lock have all released it.
WriterAcquire ==
  /\ writer = "pending"
  /\ readHolds = 0
  /\ writer' = "held"
  /\ UNCHANGED <<readHolds, blocked, op, step, writes>>

\* The deferred wal.mu.Unlock(): the parked readers get their RLock.
WriterUnlock ==
  /\ writer = "held"
  /\ writer' = "none"
  /\ writes' = writes + 1
  /\ readHolds' = readHolds + Cardinality(blocked)
  /\ op' = [r \in Readers |-> IF r \in blocked THEN Advance(r).op ELSE op[r]]
  /\ step' = [r \in Readers |-> IF r \in blocked THEN Advance(r).step ELSE step[r]]
  /\ blocked' = {}

Writer == WriterLock \/ WriterAcquire \/ WriterUnlock

Next == (\E r \in Readers : ReaderStep(r)) \/ Writer

(***************************************************************************)
(* The Go scheduler runs every goroutine that is not parked: each is       *)
(* weakly fair.                                                            *)
(***************************************************************************)
Spec == Init /\ [][Next]_vars /\ (\A r \in Readers : WF_vars(ReaderStep(r))) /\ WF_vars(Writer)

-----------------------------------------------------------------------------
(***************************************************************************)
(* Spec 4.2 (one writer, many readers under a shared lock) and spec 5     *)
(* (lock acquisition is the only other suspension point): every reader's  *)
(* calls and the writer's calls all return, however they interleave on     *)
(* wal.mu.                                                                 *)
(***************************************************************************)
AllReturn == <>((\A r \in Readers : Done(r)) /\ writes = MaxWrites /\ writer = "none")

=============================================================================
