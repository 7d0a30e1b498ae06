------------------------------- MODULE MCPipe -------------------------------
(* Small pipes for TLC; the writers, and the readers, are interchangeable. *)
EXTENDS Pipe, TLC

Symmetry == Permutations(Writer) \cup Permutations(Reader)
=============================================================================
