-------------------------------- MODULE Log --------------------------------
(***************************************************************************)
(* What one WAL promises its caller (spec 4.3, P1-P3, 4.2): an append-only *)
(* log of (record, nonce) entries, read back in the order they entered,    *)
(* beside a buffer of entries waiting for one batch flush.  A single      *)
(* write appends one entry; a flush appends the whole buffer at once, in   *)
(* buffer order; a discard empties the buffer and appends nothing.        *)
(***************************************************************************)
EXTENDS Sequences

CONSTANT Entries   \* the (record, nonce) pairs a caller may hand in

VARIABLES
  log,       \* the entries readable in the log, in order
  pending    \* the entries buffered for the next flush

Init == log = <<>> /\ pending = <<>>

AppendEntry(e) == log' = Append(log, e) /\ UNCHANGED pending

Buffer(e) == pending' = Append(pending, e) /\ UNCHANGED log

Flush == pending /= <<>> /\ log' = log \o pending /\ pending' = <<>>

Discard == pending /= <<>> /\ pending' = <<>> /\ UNCHANGED log

Next ==
  \/ \E e \in Entries : AppendEntry(e) \/ Buffer(e)
  \/ Flush
  \/ Discard

Spec == Init /\ [][Next]_<<log, pending>>

=============================================================================
