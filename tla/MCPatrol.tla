------------------------------ MODULE MCPatrol ------------------------------
EXTENDS Patrol, TLC

Symmetry == Permutations(Members) \cup Permutations(Workers) \cup Permutations(MutationKeys)
=============================================================================
