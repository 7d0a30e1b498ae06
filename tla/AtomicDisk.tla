----------------------------- MODULE AtomicDisk -----------------------------
(***************************************************************************)
(* What the log of kernel/log.c promises to the file-system calls: the     *)
(* writes made between begin_op() and end_op() reach the disk all together *)
(* or not at all, whatever the moment of a crash.  The calls that overlap  *)
(* form one transaction: the durable contents change only when no call is  *)
(* in progress, and then to exactly what the calls have written.           *)
(***************************************************************************)
CONSTANTS Proc, Block, Val

VARIABLES
    durable,   \* the contents a restart would find
    volatile,  \* the contents the running system shows
    active     \* the calls between begin_op() and end_op()

vars == <<durable, volatile, active>>

Init ==
    /\ durable \in [Block -> Val]
    /\ volatile = durable
    /\ active = {}

Begin(p) ==
    /\ active' = active \cup {p}
    /\ UNCHANGED <<durable, volatile>>

Write(p, b, v) ==
    /\ p \in active
    /\ volatile' = [volatile EXCEPT ![b] = v]
    /\ UNCHANGED <<durable, active>>

End(p) ==
    /\ p \in active
    /\ active' = active \ {p}
    /\ UNCHANGED <<durable, volatile>>

Commit ==
    /\ active = {}
    /\ durable' = volatile
    /\ UNCHANGED <<volatile, active>>

Crash ==
    /\ volatile' = durable
    /\ active' = {}
    /\ UNCHANGED durable

Next ==
    \/ \E p \in Proc : Begin(p) \/ End(p)
    \/ \E p \in Proc, b \in Block, v \in Val : Write(p, b, v)
    \/ Commit
    \/ Crash

Spec == Init /\ [][Next]_vars
=============================================================================
