------------------------------ MODULE MCVirtio ------------------------------
(* A small disk for TLC; buffers, blocks and values are interchangeable. *)
EXTENDS Virtio, TLC

Symmetry == Permutations(Buf) \cup Permutations(Block) \cup Permutations(Value)
=============================================================================
