--------------------------- MODULE MC_WALLifecycle ---------------------------
(* Two valid extensions (the value log's ".VLOG.%d" and the one Merge      *)
(* renames to), three segment ids: two older segments and an active one,   *)
(* so the Go map has two iteration orders.                                 *)
EXTENDS WALLifecycle, TLC

CONSTANTS E1, E2, Bad

MCExts == {E1, E2}

MCSymmetry == Permutations(MCExts)
=============================================================================
