------------------------------- MODULE MC_WAL -------------------------------
(* An 8-byte block with a 3-byte header: a 2-byte record leaves exactly a  *)
(* header's worth of block tail (padded), a 7-byte record splits into     *)
(* First + Last.  A 26-byte segment holds two 7-byte records before        *)
(* isFull rotates.                                                         *)
EXTENDS WAL

MCLens == {2, 7}
=============================================================================
