------------------------------ MODULE MCTaint ------------------------------
(* Sessions are alike. *)
EXTENDS Taint, TLC

Alike == Permutations(Ids)
=============================================================================
