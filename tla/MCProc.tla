------------------------------- MODULE MCProc -------------------------------
(* A small process table for TLC: init and three other slots.              *)
EXTENDS Proc

\* The process that kill() is called for.  fork() takes any free slot, so this
\* one comes to be the shell, a child or a grandchild of it, and an orphan.
OnePid == {initproc + 1}
=============================================================================
