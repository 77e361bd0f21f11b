--------------------------- MODULE MCChangeTasks ---------------------------
(* Model-checking instances of ChangeTasks. *)
EXTENDS ChangeTasks, TLC

Symmetry == Permutations(Workers) \cup Permutations(Calls)
=============================================================================
