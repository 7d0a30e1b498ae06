-------------------------------- MODULE Proc --------------------------------
(***************************************************************************)
(* The life of processes in kernel/proc.c: fork(), exit(), wait(), kill(), *)
(* sleep() and wakeup(), with init as user/init.c programs it and the      *)
(* check of p->killed in usertrap() (kernel/trap.c).                       *)
(*                                                                         *)
(* Every process that is RUNNING takes steps, as if each had a processor;  *)
(* preemption, and which of the RUNNABLE processes runs, is Sched.  A      *)
(* section of code under one spin lock is one action, except where p->lock *)
(* is handed over: sleep() and exit() take it and the scheduler releases   *)
(* it once the process is off its kernel stack.  The pid of a process is   *)
(* its slot.                                                               *)
(***************************************************************************)
EXTENDS Naturals

CONSTANTS
    NPROC,      \* slots of the process table
    KillPids    \* arguments that kill() is called with

ASSUME ProcAssumption == NPROC \in Nat \ {0, 1} /\ KillPids \subseteq 1 .. NPROC

Slot == 1 .. NPROC
initproc == 1
None == 0

VARIABLES
    state, parent, killed, chan,   \* fields of struct proc
    lock,       \* p->lock is held by p until the scheduler releases it
    wait_lock,  \* the process that holds wait_lock
    pc,         \* where the process is in the kernel, or "user"
    i,          \* loop variable of wait()
    np,         \* the child fork() is making
    shell,      \* the child init waits for (pid in init.c)
    panicked    \* panic("init exiting")

ptable == <<state, parent, killed, chan>>
locals == <<i, np>>
vars == <<state, parent, killed, chan, lock, wait_lock, pc, i, np, shell, panicked>>

Goto(p, l) == pc' = [pc EXCEPT ![p] = l]
At(p, l) == ~panicked /\ state[p] = "RUNNING" /\ pc[p] = l

\* userinit()
Init ==
    /\ state = [p \in Slot |-> IF p = initproc THEN "RUNNABLE" ELSE "UNUSED"]
    /\ parent = [p \in Slot |-> None]
    /\ killed = [p \in Slot |-> FALSE]
    /\ chan = [p \in Slot |-> None]
    /\ lock = [p \in Slot |-> FALSE]
    /\ wait_lock = None
    /\ pc = [p \in Slot |-> IF p = initproc THEN "user" ELSE "none"]
    /\ i = [p \in Slot |-> 1]
    /\ np = [p \in Slot |-> None]
    /\ shell = None
    /\ panicked = FALSE

-----------------------------------------------------------------------------
\* The scheduler, as far as a process sees it

\* From the acquire in the scheduler to the release in forkret() or sleep().
dispatch(p) ==
    /\ ~panicked
    /\ state[p] = "RUNNABLE" /\ ~lock[p]
    /\ state' = [state EXCEPT ![p] = "RUNNING"]
    /\ chan' = [chan EXCEPT ![p] = None]
    /\ UNCHANGED <<parent, killed, lock, wait_lock, pc, locals, shell, panicked>>

\* After swtch() from sched(): the process is off its stack.
sched_release(p) ==
    /\ ~panicked
    /\ lock[p] /\ state[p] # "RUNNING"
    /\ lock' = [lock EXCEPT ![p] = FALSE]
    /\ IF pc[p] = "zombie" THEN Goto(p, "none") ELSE UNCHANGED pc
    /\ UNCHANGED <<ptable, wait_lock, locals, shell, panicked>>

-----------------------------------------------------------------------------
\* fork().  A killed process does not get past the check in usertrap().

\* init.c forks when it has no shell, and exits when that fails.
MayFork(p) == At(p, "user") /\ ~killed[p] /\ (p = initproc => shell = None)

\* The search takes the slots' locks one by one while others come and go, so
\* what it finds is some free slot.
allocproc(q) ==
    /\ state[q] = "UNUSED" /\ ~lock[q]
    /\ state' = [state EXCEPT ![q] = "USED"]

\* Up to the first release(&np->lock)
fork(p, q) ==
    /\ MayFork(p)
    /\ allocproc(q)
    /\ np' = [np EXCEPT ![p] = q]
    /\ Goto(p, "fork_parent")
    /\ UNCHANGED <<parent, killed, chan, lock, wait_lock, i, shell, panicked>>

\* No free slot, or no memory: only init does not go on.
fork_fails ==
    /\ MayFork(initproc)
    /\ panicked' = TRUE
    /\ UNCHANGED <<ptable, lock, wait_lock, pc, locals, shell>>

fork_parent(p) ==
    /\ At(p, "fork_parent")
    /\ wait_lock = None
    /\ parent' = [parent EXCEPT ![np[p]] = p]
    /\ Goto(p, "fork_run")
    /\ UNCHANGED <<state, killed, chan, lock, wait_lock, locals, shell, panicked>>

fork_run(p) ==
    /\ At(p, "fork_run")
    /\ ~lock[np[p]]
    /\ state' = [state EXCEPT ![np[p]] = "RUNNABLE"]
    /\ pc' = [pc EXCEPT ![p] = "user", ![np[p]] = "user"]
    /\ np' = [np EXCEPT ![p] = None]
    /\ shell' = IF p = initproc THEN np[p] ELSE shell
    /\ UNCHANGED <<parent, killed, chan, lock, wait_lock, i, panicked>>

-----------------------------------------------------------------------------
\* exit(), by choice or because usertrap() finds p->killed

exit(p) ==
    /\ At(p, "user")
    /\ IF p = initproc
         THEN killed[p] /\ panicked' = TRUE /\ UNCHANGED pc
         ELSE Goto(p, "exit") /\ UNCHANGED panicked
    /\ UNCHANGED <<ptable, lock, wait_lock, locals, shell>>

exit_lock(p) ==
    /\ At(p, "exit")
    /\ wait_lock = None
    /\ wait_lock' = p
    /\ Goto(p, "reparent")
    /\ UNCHANGED <<ptable, lock, i, np, shell, panicked>>

First(S) == CHOOSE q \in S : \A r \in S : q <= r

\* The children that reparent() hands to init; mutant: those that can still run
orphans_running(p) == {q \in Slot : parent[q] = p /\ state[q] # "ZOMBIE"}
orphans(p) == {q \in Slot : parent[q] = p}

\* reparent()'s loop up to its next call of wakeup(initproc), or up to its end
\* and the call of wakeup(p->parent): p->parent of no process changes meanwhile,
\* for p holds wait_lock.
reparent(p) ==
    /\ At(p, "reparent")
    /\ IF orphans(p) = {} THEN Goto(p, "exit_wakeup") /\ UNCHANGED parent
       ELSE /\ parent' = [parent EXCEPT ![First(orphans(p))] = initproc]
            /\ Goto(p, "reparent_wakeup")
    /\ UNCHANGED <<state, killed, chan, lock, wait_lock, locals, shell, panicked>>

(***************************************************************************)
(* wakeup(c), which takes the lock of every other slot in turn.  p holds   *)
(* wait_lock, without which no process goes to sleep or takes its p->lock  *)
(* for longer than a step, so the loop is one step, as soon as the locks   *)
(* that were held before are released.                                     *)
(***************************************************************************)
wakeup(p, c, from, next) ==
    /\ At(p, from)
    /\ \A q \in Slot \ {p} : ~lock[q]
    /\ state' = [q \in Slot |-> IF q # p /\ state[q] = "SLEEPING" /\ chan[q] = c
                                  THEN "RUNNABLE" ELSE state[q]]
    /\ Goto(p, next)
    /\ UNCHANGED <<parent, killed, chan, lock, wait_lock, locals, shell, panicked>>

\* Mutant: init is not woken for its new child.
reparent_no_wakeup(p) == wakeup(p, None, "reparent_wakeup", "reparent")

reparent_wakeup(p) == wakeup(p, initproc, "reparent_wakeup", "reparent")
exit_wakeup(p) == wakeup(p, parent[p], "exit_wakeup", "exit_zombie")

\* acquire(&p->lock) to sched()
exit_zombie(p) ==
    /\ At(p, "exit_zombie")
    /\ ~lock[p]
    /\ lock' = [lock EXCEPT ![p] = TRUE]
    /\ state' = [state EXCEPT ![p] = "ZOMBIE"]
    /\ wait_lock' = None
    /\ Goto(p, "zombie")
    /\ UNCHANGED <<parent, killed, chan, locals, shell, panicked>>

-----------------------------------------------------------------------------
\* wait().  init.c waits as long as it has a shell.

wait_acquire(p) ==
    /\ wait_lock = None
    /\ wait_lock' = p
    /\ Goto(p, "scan")
    /\ UNCHANGED <<ptable, lock, locals, shell, panicked>>

wait(p) ==
    /\ At(p, "user") /\ ~killed[p]
    /\ p = initproc => shell # None
    /\ wait_acquire(p)

\* Mutant: wait() returns the child without freeproc().
freeproc_left_out(q) == UNCHANGED ptable

freeproc(q) ==
    /\ state' = [state EXCEPT ![q] = "UNUSED"]
    /\ parent' = [parent EXCEPT ![q] = None]
    /\ killed' = [killed EXCEPT ![q] = FALSE]
    /\ chan' = [chan EXCEPT ![q] = None]

\* acquire(&pp->lock) of a child, "make sure the child isn't still in exit()
\* or swtch()".
child_lock(p, q) == ~lock[q]

\* The turns of the scan up to the next child; copyout() may fail, and then the
\* child stays.  Again p->parent of no process changes meanwhile.

next_slot(q) == q + 1

Unscanned(p) == {q \in i[p] .. NPROC : parent[q] = p}

wait_scan(p) ==
    LET q == First(Unscanned(p)) IN
    /\ At(p, "scan") /\ Unscanned(p) # {}
    /\ child_lock(p, q)
    /\ IF state[q] = "ZOMBIE"
         THEN /\ wait_lock' = None
              /\ Goto(p, "user")
              /\ i' = [i EXCEPT ![p] = 1]
              /\ \/ /\ freeproc(q)
                    /\ shell' = IF p = initproc /\ q = shell THEN None ELSE shell
                 \/ /\ p # initproc
                    /\ UNCHANGED <<ptable, shell>>
         ELSE /\ i' = [i EXCEPT ![p] = next_slot(q)]
              /\ UNCHANGED <<ptable, pc, wait_lock, shell>>
    /\ UNCHANGED <<lock, np, panicked>>

\* After the scan: init.c exits when wait() returns -1.
havekids(p) == \E q \in Slot : parent[q] = p

wait_decide(p) ==
    /\ At(p, "scan") /\ Unscanned(p) = {}
    /\ ~lock[p]
    /\ i' = [i EXCEPT ![p] = 1]
    /\ IF ~havekids(p) \/ killed[p]
         THEN /\ wait_lock' = None
              /\ Goto(p, "user")
              /\ panicked' = (p = initproc)
         ELSE /\ Goto(p, "sleep")
              /\ UNCHANGED <<wait_lock, panicked>>
    /\ UNCHANGED <<ptable, lock, np, shell>>

\* sleep(p, &wait_lock), from acquire(&p->lock) to sched(): with both locks
\* held, nobody sees a state in between.
sleep(p) ==
    /\ At(p, "sleep")
    /\ ~lock[p]
    /\ lock' = [lock EXCEPT ![p] = TRUE]
    /\ wait_lock' = None
    /\ chan' = [chan EXCEPT ![p] = p]
    /\ state' = [state EXCEPT ![p] = "SLEEPING"]
    /\ Goto(p, "awake")
    /\ UNCHANGED <<parent, killed, locals, shell, panicked>>

\* sleep() takes wait_lock again and the scan starts over.
wait_again(p) == At(p, "awake") /\ wait_acquire(p)

-----------------------------------------------------------------------------
\* kill(pid) for the pid of a process.  The search holds one lock at a time.
\* (kill(0), whose search ends at the first free slot, is left out.)

kill(p, q) ==
    /\ At(p, "user") /\ ~killed[p] /\ p # initproc
    /\ state[q] # "UNUSED" /\ ~lock[q]
    /\ killed' = [killed EXCEPT ![q] = TRUE]
    /\ state' = IF state[q] = "SLEEPING" THEN [state EXCEPT ![q] = "RUNNABLE"] ELSE state
    /\ UNCHANGED <<parent, chan, lock, wait_lock, pc, locals, shell, panicked>>

Step(p) ==
    \/ fork_parent(p) \/ fork_run(p)
    \/ exit_lock(p) \/ reparent(p) \/ reparent_wakeup(p) \/ exit_wakeup(p) \/ exit_zombie(p)
    \/ wait_scan(p) \/ wait_decide(p) \/ sleep(p) \/ wait_again(p)

\* panic() loops for ever
panic == panicked /\ UNCHANGED vars

Next ==
    \/ \E p \in Slot : dispatch(p) \/ sched_release(p) \/ Step(p) \/ exit(p) \/ wait(p)
    \/ \E p, q \in Slot : fork(p, q)
    \/ \E p \in Slot, q \in KillPids : kill(p, q)
    \/ fork_fails \/ panic

Spec == Init /\ [][Next]_vars

-----------------------------------------------------------------------------
(* Fairness.  The scheduler comes back to every RUNNABLE process and the    *)
(* kernel code runs on; a process in user space traps at the next timer     *)
(* interrupt; init.c calls wait() and fork() again and again.  Whoever asks *)
(* for wait_lock or p->lock gets it some time although others keep taking   *)
(* it (the amoswap in acquire() is tried for ever): strong fairness.        *)
FairSpec ==
    /\ Spec
    /\ \A p \in Slot : WF_vars(dispatch(p) \/ sched_release(p)) /\ SF_vars(Step(p))
    /\ \A p \in KillPids : WF_vars(killed[p] /\ exit(p))
    /\ SF_vars(wait(initproc))
    /\ WF_vars(fork_fails \/ \E q \in Slot : fork(initproc, q))

-----------------------------------------------------------------------------
\* Types of the variables.
TypeOK ==
    /\ state \in [Slot -> {"UNUSED", "USED", "SLEEPING", "RUNNABLE", "RUNNING", "ZOMBIE"}]
    /\ parent \in [Slot -> Slot \cup {None}]
    /\ killed \in [Slot -> BOOLEAN]
    /\ chan \in [Slot -> Slot \cup {None}]
    /\ lock \in [Slot -> BOOLEAN]
    /\ wait_lock \in Slot \cup {None}
    /\ pc \in [Slot -> {"none", "user", "fork_parent", "fork_run", "exit", "reparent",
                        "reparent_wakeup", "exit_wakeup", "exit_zombie", "zombie", "scan",
                        "sleep", "awake"}]
    /\ i \in [Slot -> 1 .. NPROC + 1]
    /\ np \in [Slot -> Slot \cup {None}]
    /\ shell \in Slot \cup {None}
    /\ panicked \in BOOLEAN

Live(p) == state[p] \notin {"UNUSED", "ZOMBIE"}

\* Whenever wait_lock is free, a process that can run, or has run, has a
\* parent that is neither dead nor a free slot: exit() hands its children to
\* init before it becomes a ZOMBIE, and no fork() slips in behind it.
ParentIsLive ==
    wait_lock = None =>
        \A q \in Slot \ {initproc} :
            state[q] \notin {"UNUSED", "USED"} => parent[q] # None /\ Live(parent[q])

\* A process asleep in wait() has a child that still lives, or somebody holds
\* wait_lock and is about to wake it: no exit() falls between the scan of
\* wait() and its sleep(), and no sleeper is left with dead children only.
WaiterHasLiveChild ==
    wait_lock = None =>
        \A p \in Slot : state[p] = "SLEEPING" =>
            /\ \E q \in Slot : parent[q] = p /\ Live(q)
            /\ ~\E q \in Slot : parent[q] = p /\ state[q] = "ZOMBIE"

\* A slot that fork() can take is one whose last process has left its kernel
\* stack: wait() frees a child only under the lock that exit() passes to the
\* scheduler.
FreeIsOffStack ==
    \A q \in Slot : state[q] \in {"UNUSED", "USED"} => ~lock[q] /\ pc[q] = "none"

\* A child of init that calls exit(), or a ZOMBIE that init inherits, is reaped
\* in the end, unless init itself dies: what exit() waits for (wait_lock, the
\* locks that wakeup() takes under it) is not held for ever, and init is woken,
\* or had not gone to sleep.  The scan of wait() starts at slot 1 every time,
\* so only a ZOMBIE in a lower slot, and always a new one, can keep a ZOMBIE
\* from being reaped.
ExitReaped ==
    \A q \in Slot \ {initproc} :
        (parent[q] = initproc /\ (pc[q] = "exit" \/ state[q] = "ZOMBIE"))
            ~> \/ state[q] = "UNUSED" \/ panicked
               \/ \E r \in Slot : r < q /\ state[r] = "ZOMBIE" /\ parent[r] = initproc

\* The process table at rest: every process has a living parent, and a free
\* slot's kernel stack is nobody's.  (exit, reparent, wait, freeproc)
SlotsSound == TypeOK /\ ParentIsLive /\ FreeIsOffStack
=============================================================================
