---------------------------- MODULE WALLifecycle ----------------------------
(***************************************************************************)
(* The lifecycle of one WAL (src/lotusdb/wal/wal.go: Open, Close, Delete,  *)
(* RenameFileExt, OpenNewActiveSegment and rotateActiveSegment, with       *)
(* segment.Close/Remove/Sync and nonceFile.Close/Remove of                 *)
(* src/unnamed/part_001) at the level of files and file handles: record    *)
(* contents are left out.                                                  *)
(*                                                                         *)
(* The directory is a set of file names <<id, ext>>: segment id's file     *)
(* "%09d"+ext, and for id 0 the nonce file "nonce"+ext (segment ids start  *)
(* at 1, so 0 names no segment).  A handle keeps the extension its file    *)
(* was opened with, as fd.Name() does: a later os.Rename does not change   *)
(* it.  Every method holds wal.mu for its whole duration, so each is one   *)
(* step.  Any I/O call may fail, up to MaxIOFaults times.  A Go map is     *)
(* iterated in any order.                                                  *)
(***************************************************************************)
EXTENDS Naturals, Sequences, SequencesExt, FiniteSets

CONSTANTS
  Exts,          \* segment file extensions, each starting with "."
  BadExt,        \* an extension without the leading "."
  MaxSegments,   \* bound on segment ids
  MaxRenameIds,  \* bound on the length of renameIds
  MaxIOFaults,   \* bound on I/O calls that fail
  NoWAL          \* a model value: no *WAL is held

ASSUME BadExt \notin Exts /\ MaxSegments \in Nat \ {0}

NonceId == 0

VARIABLES
  disk,    \* the file names in the WAL and nonce directories
  h,       \* the *WAL the program holds, or NoWAL
  owned,   \* history: the segment ids the held WAL has opened
  faults,  \* I/O calls failed so far
  last     \* the method the last step ran and its outcome

vars == <<disk, h, owned, faults, last>>

Outcomes == {"ok", "err", "panic"}

\* A file handle: the extension its name had at open time, and `closed`.
Handle(ext) == [name |-> ext, closed |-> FALSE]

\* Open on an empty directory, before any WAL is held.
Init ==
  /\ disk = {}
  /\ h = NoWAL
  /\ owned = {}
  /\ faults = 0
  /\ last = [op |-> "none", res |-> "ok"]

-----------------------------------------------------------------------------
(* Helpers.  Each returns the new handle state `h`, the directory `files`  *)
(* where it changes it, `ok` (the method returned nil) and `faulted` (an   *)
(* I/O call failed).                                                       *)

\* The fault positions a call may meet: 0 for none, k for the k-th of its
\* n I/O points.
FaultPoints(n) == IF faults < MaxIOFaults THEN 0 .. n ELSE {0}

\* segment.Close and nonceFile.Close: nil at once when closed; otherwise
\* closed = true, then fd.Close, which fails when fail.
CloseFile(s, fail) ==
  IF s.closed THEN [s |-> s, ok |-> TRUE, faulted |-> FALSE]
  ELSE [s |-> [s EXCEPT !.closed = TRUE], ok |-> ~fail, faulted |-> fail]

\* segment.Remove and nonceFile.Remove: close if not closed, then
\* os.Remove(fd.Name()), which fails when that name is gone (ENOENT).
RemoveFile(files, id, s, fail) ==
  LET name == <<id, s.name>>
  IN [s |-> [s EXCEPT !.closed = TRUE],
      files |-> IF fail THEN files ELSE files \ {name},
      ok |-> ~fail /\ name \in files,
      faulted |-> fail]

\* The loop of Close over olderSegments in map order ids: close each and
\* append its id to renameIds, returning at the first error.
RECURSIVE CloseOlder(_, _, _)
CloseOlder(hh, ids, fault) ==
  IF ids = <<>> THEN [h |-> hh, ok |-> TRUE, faulted |-> FALSE]
  ELSE LET c == CloseFile(hh.seg[Head(ids)], fault = 1)
       IN IF c.ok
          THEN CloseOlder([hh EXCEPT !.seg[Head(ids)] = c.s,
                                     !.renameIds = Append(@, Head(ids))],
                          Tail(ids), fault - 1)
          ELSE [h |-> [hh EXCEPT !.seg[Head(ids)] = c.s], ok |-> FALSE, faulted |-> TRUE]

\* The loop of Delete over olderSegments in map order ids.
RECURSIVE RemoveOlder(_, _, _, _)
RemoveOlder(files, hh, ids, fault) ==
  IF ids = <<>> THEN [files |-> files, h |-> hh, ok |-> TRUE, faulted |-> FALSE]
  ELSE LET x == RemoveFile(files, Head(ids), hh.seg[Head(ids)], fault = 1)
           h1 == [hh EXCEPT !.seg[Head(ids)] = x.s]
       IN IF x.ok THEN RemoveOlder(x.files, h1, Tail(ids), fault - 1)
          ELSE [files |-> x.files, h |-> h1, ok |-> FALSE, faulted |-> x.faulted]

\* olderSegments = nil: the map and the handles in it are dropped.
DropOlder(hh) ==
  [hh EXCEPT !.older = {}, !.olderNil = TRUE,
             !.seg = [i \in {hh.active, NonceId} |-> hh.seg[i]]]

\* The loop of RenameFileExt over renameIds: os.Rename of each id's file
\* from ext `from` to `to` (replacing any file of that name), returning at
\* the first error; a missing source fails with ENOENT.
RECURSIVE RenameAll(_, _, _, _, _)
RenameAll(files, ids, from, to, fault) ==
  IF ids = <<>> THEN [files |-> files, ok |-> TRUE, faulted |-> FALSE]
  ELSE IF fault = 1 \/ <<Head(ids), from>> \notin files
       THEN [files |-> files, ok |-> FALSE, faulted |-> fault = 1]
       ELSE RenameAll((files \ {<<Head(ids), from>>}) \cup {<<Head(ids), to>>},
                      Tail(ids), from, to, fault - 1)

\* The end of a method: its new handle state, directory and outcome.
Done(op, files, r) ==
  /\ disk' = files
  /\ h' = r.h
  /\ faults' = faults + (IF r.faulted THEN 1 ELSE 0)
  /\ last' = [op |-> op, res |-> IF r.ok THEN "ok" ELSE "err"]

\* A call rejected by validation: an error and no change.
Rejected(op) ==
  /\ last' = [op |-> op, res |-> "err"]
  /\ UNCHANGED <<disk, h, owned, faults>>

-----------------------------------------------------------------------------
(***************************************************************************)
(* Open(options): the extension must start with "."; openNonceFile        *)
(* creates "nonce"+ext (O_CREATE); the segment ids are the file names of   *)
(* the directory that parse as "%d"+ext; on none, segment 1 is created,    *)
(* otherwise the largest id is the active segment and the others are     *)
(* olderSegments.                                                          *)
(***************************************************************************)
OpenIds(e) == {i \in 1 .. MaxSegments : <<i, e>> \in disk}

OpenWith(e, ids, act) ==
  /\ disk' = disk \cup {<<NonceId, e>>, <<act, e>>}
  /\ h' = [ext |-> e, active |-> act, older |-> ids \ {act}, olderNil |-> FALSE,
           seg |-> [i \in ids \cup {act, NonceId} |-> Handle(e)], renameIds |-> <<>>]
  /\ owned' = ids \cup {act}
  /\ last' = [op |-> "Open", res |-> "ok"]
  /\ UNCHANGED faults

Open(e) ==
  /\ h = NoWAL
  /\ IF e = BadExt THEN Rejected("Open")
     ELSE OpenWith(e, OpenIds(e), IF OpenIds(e) = {} THEN 1 ELSE Max(OpenIds(e)))

(***************************************************************************)
(* OpenNewActiveSegment, and rotateActiveSegment inside Write and          *)
(* WriteAll: sync the active segment and the nonce file (nil when         *)
(* closed), openSegmentFile(active + 1), which creates the file, then     *)
(* olderSegments[active.id] = active, a panic when Close or Delete has set *)
(* the map to nil.  The panic ends the program.                            *)
(***************************************************************************)
OpenNewActiveSegment ==
  /\ h /= NoWAL
  /\ h.active < MaxSegments
  /\ disk' = disk \cup {<<h.active + 1, h.ext>>}
  /\ IF h.olderNil
     THEN /\ h' = NoWAL
          /\ owned' = {}
          /\ last' = [op |-> "OpenNewActiveSegment", res |-> "panic"]
     ELSE /\ h' = [h EXCEPT !.older = @ \cup {h.active}, !.active = h.active + 1,
                            !.seg = h.seg @@ (h.active + 1 :> Handle(h.ext))]
          /\ owned' = owned \cup {h.active + 1}
          /\ last' = [op |-> "OpenNewActiveSegment", res |-> "ok"]
  /\ UNCHANGED faults

(***************************************************************************)
(* Close: close each older segment and append its id to renameIds; set    *)
(* olderSegments to nil; append the active id; close the active segment,  *)
(* then the nonce file.  Each step returns at the first error.             *)
(***************************************************************************)
CloseRest(hh, fault) ==
  LET a == CloseFile(hh.seg[hh.active], fault = 1)
      n == CloseFile(hh.seg[NonceId], fault = 2)
      h1 == [hh EXCEPT !.renameIds = Append(@, hh.active), !.seg[hh.active] = a.s]
  IN IF a.ok THEN [h |-> [h1 EXCEPT !.seg[NonceId] = n.s], ok |-> n.ok, faulted |-> n.faulted]
     ELSE [h |-> h1, ok |-> FALSE, faulted |-> TRUE]

CloseFrom(r, fault) == Done("Close", disk, IF r.ok THEN CloseRest(DropOlder(r.h), fault) ELSE r)

Close ==
  /\ h /= NoWAL
  /\ Len(h.renameIds) + Cardinality(h.older) + 1 <= MaxRenameIds
  /\ \E ids \in SetToSeqs(h.older), f \in FaultPoints(Cardinality(h.older) + 2) :
       CloseFrom(CloseOlder(h, ids, f), f - Len(ids))
  /\ UNCHANGED owned

(***************************************************************************)
(* Delete: segment.Remove of each older segment; olderSegments = nil;     *)
(* Remove of the active segment, then of the nonce file.                   *)
(***************************************************************************)
DeleteRest(files, hh, fault) ==
  LET a == RemoveFile(files, hh.active, hh.seg[hh.active], fault = 1)
      n == RemoveFile(a.files, NonceId, hh.seg[NonceId], fault = 2)
      h1 == [hh EXCEPT !.seg[hh.active] = a.s]
  IN IF a.ok THEN Done("Delete", n.files, [h |-> [h1 EXCEPT !.seg[NonceId] = n.s],
                                          ok |-> n.ok, faulted |-> n.faulted])
     ELSE Done("Delete", a.files, [h |-> h1, ok |-> FALSE, faulted |-> a.faulted])

DeleteFrom(r, fault) ==
  IF r.ok THEN DeleteRest(r.files, DropOlder(r.h), fault) ELSE Done("Delete", r.files, r)

Delete ==
  /\ h /= NoWAL
  /\ \E ids \in SetToSeqs(h.older), f \in FaultPoints(Cardinality(h.older) + 2) :
       DeleteFrom(RemoveOlder(disk, h, ids, f), f - Len(ids))
  /\ UNCHANGED owned

(***************************************************************************)
(* RenameFileExt(ext): the extension must start with "."; under wal.mu,   *)
(* rename every id of renameIds, then the nonce file, from the current    *)
(* extension to ext, returning at the first error; then                    *)
(* options.SegmentFileExt = ext.                                           *)
(***************************************************************************)
RenameFrom(e, r, fault) ==
  IF r.ok
  THEN LET n == RenameAll(r.files, <<NonceId>>, h.ext, e, fault)
       IN Done("RenameFileExt", n.files,
               [h |-> IF n.ok THEN [h EXCEPT !.ext = e] ELSE h, ok |-> n.ok, faulted |-> n.faulted])
  ELSE Done("RenameFileExt", r.files, [h |-> h, ok |-> FALSE, faulted |-> r.faulted])

RenameFileExt(e) ==
  /\ h /= NoWAL
  /\ IF e = BadExt THEN Rejected("RenameFileExt")
     ELSE /\ \E f \in FaultPoints(Len(h.renameIds) + 1) :
               RenameFrom(e, RenameAll(disk, h.renameIds, h.ext, e, f), f - Len(h.renameIds))
          /\ UNCHANGED owned

(***************************************************************************)
(* Sync: segment.Sync of the active segment, nil at once when it is        *)
(* closed, otherwise fd.Sync, which may fail.  File contents are not       *)
(* modelled, so only the outcome changes.                                  *)
(***************************************************************************)
Sync ==
  /\ h /= NoWAL
  /\ \E f \in IF h.seg[h.active].closed THEN {0} ELSE FaultPoints(1) :
       Done("Sync", disk, [h |-> h, ok |-> f = 0, faulted |-> f = 1])
  /\ UNCHANGED owned

\* The program drops the WAL: it exits or the machine crashes.  File
\* contents are not modelled, so both leave the directory as it is.
Exit ==
  /\ h /= NoWAL
  /\ h' = NoWAL
  /\ owned' = {}
  /\ last' = [op |-> "Exit", res |-> "ok"]
  /\ UNCHANGED <<disk, faults>>

Next ==
  \/ \E e \in Exts \cup {BadExt} : Open(e) \/ RenameFileExt(e)
  \/ OpenNewActiveSegment
  \/ Close
  \/ Delete
  \/ Sync
  \/ Exit

Spec == Init /\ [][Next]_vars

-----------------------------------------------------------------------------
TypeOK ==
  /\ disk \subseteq (0 .. MaxSegments) \X Exts
  /\ h = NoWAL \/ (h.active \in 1 .. MaxSegments /\ h.older \subseteq 1 .. h.active - 1
                   /\ Len(h.renameIds) <= MaxRenameIds)
  /\ faults \in 0 .. MaxIOFaults
  /\ last.res \in Outcomes

\* The files of the held WAL under extension e.
WALFiles(e) == {<<i, e>> : i \in owned} \cup {<<NonceId, e>>}

\* Close or Delete has returned: the map is nil and every handle closed.
WALClosed(hh) == hh /= NoWAL /\ hh.olderNil /\ \A i \in DOMAIN hh.seg : hh.seg[i].closed

(***************************************************************************)
(* The lifecycle contract (spec 3, 4.4, 7, P8): Close a second time is a   *)
(* no-op; Delete returning nil has unlinked every file of the WAL, and a  *)
(* Delete that meets no I/O fault, on a WAL whose files are all present   *)
(* under its current extension, unlinks them all (segment.Remove and      *)
(* nonceFile.Remove unlink fd.Name(), which a rename makes stale);        *)
(* RenameFileExt returning nil has renamed every segment file and the     *)
(* nonce file to the new extension; and a call on a closed WAL surfaces   *)
(* an error, never a panic: Sync once Close has closed the active segment *)
(* returns the closed error (spec 4.1, 7).                                 *)
(***************************************************************************)
LifecycleContract ==
  [][/\ last'.res /= "panic"
     /\ (last'.op = "Sync" /\ WALClosed(h)) => last'.res = "err"
     /\ (last'.op = "Close" /\ WALClosed(h)) => h' = h
     /\ (last'.op = "Delete" /\ last'.res = "ok") => WALFiles(h.ext) \cap disk' = {}
     /\ (last'.op = "Delete" /\ faults' = faults /\ WALFiles(h.ext) \subseteq disk) =>
          WALFiles(h.ext) \cap disk' = {}
     /\ (last'.op = "RenameFileExt" /\ last'.res = "ok") =>
          /\ WALFiles(h'.ext) \subseteq disk'
          /\ h.ext /= h'.ext => WALFiles(h.ext) \cap disk' = {}]_vars

====
