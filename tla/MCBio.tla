------------------------------- MODULE MCBio -------------------------------
(* A small buffer cache for TLC; processes, blocks and values are alike. *)
EXTENDS Bio, TLC

Symmetry == Permutations(Process) \cup Permutations(Block) \cup Permutations(Value)
=============================================================================
