----------------------------- MODULE MCSurface -----------------------------
(* The sessions of Surface are alike. *)
EXTENDS Surface, TLC

Alike == Permutations(Sessions)
=============================================================================
