------------------------------ MODULE MCSched -------------------------------
(* Machines for TLC: one CPU with three processes that may call schedset(), *)
(* and two CPUs with two processes that do not.                             *)
EXTENDS Sched

Machines == {[cpus |-> {1}, nproc |-> 3, scheds |-> {"rr", "mlfq"}],
             [cpus |-> {1, 2}, nproc |-> 2, scheds |-> {}]}
=============================================================================
