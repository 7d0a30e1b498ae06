----------------------------- MODULE MCContent -----------------------------
(* A small disk for TLC; the processes are alike. *)
EXTENDS Content, TLC

Symmetry == Permutations(Process) \cup Permutations(Name)
=============================================================================
