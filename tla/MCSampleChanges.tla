-------------------------- MODULE MCSampleChanges --------------------------
(* Model-checking instance of the change service on its own. *)
EXTENDS SampleChanges, TLC

Symmetry == Permutations(Changes) \cup Permutations(Actors) \cup Permutations(UserKeys)
              \cup Permutations(Calls)
=============================================================================
