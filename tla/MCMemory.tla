------------------------------ MODULE MCMemory ------------------------------
(* Both runners belong to the first process; which of the two starts is     *)
(* nobody's business.                                                       *)
EXTENDS Memory, TLC
OneHome == [r \in Runners |-> CHOOSE p \in Procs : TRUE]
Symmetry == Permutations(Runners)
=============================================================================
