------------------------------- MODULE Sched -------------------------------
(***************************************************************************)
(* The schedulers of kernel/proc.c: scheduler(), rr_scheduler() and        *)
(* mlfq_scheduler() on every CPU, sched(), yield() and the hand-over of    *)
(* p->lock through swtch(); the timer interrupts of kernel/trap.c that     *)
(* call yield(), and schedset().                                           *)
(*                                                                         *)
(* myproc() is c->proc; which thread a CPU really executes is run, which   *)
(* the code has no variable for.  A section under p->lock is one action    *)
(* where nothing outside the lock can see into it.  The loop at the head   *)
(* of sched() takes no lock: its loads and stores are steps of their own.  *)
(* Why a process sleeps and who wakes it is Proc.                          *)
(***************************************************************************)
EXTENDS Integers

CONSTANTS
    NCPU, NPROC,    \* the most that any machine has
    MAX_PRIO, PROM_TIME,
    Machine,        \* which CPUs run (cpus), how many slots the table has
                    \* (nproc) and what schedset() is called with (scheds)
    Booted          \* the defaults that sched_pointer is compiled with

ASSUME SchedAssumption ==
    /\ NCPU \in Nat \ {0} /\ NPROC \in Nat \ {0}
    /\ MAX_PRIO \in Nat /\ PROM_TIME \in Nat \ {0}
    /\ Machine \subseteq [cpus : SUBSET (1 .. NCPU), nproc : 1 .. NPROC,
                           scheds : SUBSET {"rr", "mlfq"}]
    /\ Booted \subseteq {"rr", "mlfq"}

Cpu == 1 .. NCPU
Slot == 1 .. NPROC
None == 0

\* A promotion_timer below 0 counts on down and never meets 0 again.
Missed == -1

VARIABLES
    machine,        \* the member of Machine this is
    state, priority, promotion_timer,   \* fields of struct proc
    lock,           \* the CPU that holds p->lock
    mode,           \* where the process executes: "user" or "syscall"
    sched_pointer,
    proc, intena,   \* fields of struct cpu
    intr,           \* the CPU takes interrupts (in the scheduler)
    run,            \* the process whose thread the CPU executes, or None
    at,             \* where the CPU is: in the scheduler, in the process, or
                    \* in yield() and sched()
    sp, idx,        \* where its scheduler is: the loop and the loop's p
    high_avail,
    k, loaded       \* the loop of sched(): its p, the timer it has read

cpuvars == <<proc, intena, intr, run>>
loop == <<sp, idx, high_avail>>
scan == <<k, loaded>>
vars == <<machine, state, priority, promotion_timer, lock, mode, sched_pointer, proc, intena,
          intr, run, at, sp, idx, high_avail, k, loaded>>

Set(f, c, v) == [f EXCEPT ![c] = v]

Init ==
    /\ machine \in Machine
    /\ state = [p \in Slot |-> IF p <= machine.nproc THEN "RUNNABLE" ELSE "UNUSED"]
    /\ priority = [p \in Slot |-> 0] /\ promotion_timer = [p \in Slot |-> 0]
    /\ lock = [p \in Slot |-> None]
    /\ mode = [p \in Slot |-> "user"]
    /\ sched_pointer \in Booted
    /\ proc = [c \in Cpu |-> None] /\ intena = [c \in Cpu |-> FALSE]
    /\ intr = [c \in Cpu |-> FALSE]
    /\ run = [c \in Cpu |-> None]
    /\ at = [c \in Cpu |-> IF c \in machine.cpus THEN "scheduler" ELSE "off"]
    /\ sp = [c \in Cpu |-> "top"] /\ idx = [c \in Cpu |-> 1]
    /\ high_avail = [c \in Cpu |-> FALSE]
    /\ k = [c \in Cpu |-> 1] /\ loaded = [c \in Cpu |-> 0]

-----------------------------------------------------------------------------
\* scheduler() and the two it calls

In(c, l) == at[c] = "scheduler" /\ sp[c] = l

\* (*sched_pointer)(), up to the first loop
scheduler(c) ==
    /\ In(c, "top")
    /\ proc' = Set(proc, c, None)
    /\ intr' = Set(intr, c, TRUE)
    /\ sp' = Set(sp, c, IF sched_pointer = "rr" THEN "rr" ELSE "high")
    /\ idx' = Set(idx, c, 1)
    /\ high_avail' = Set(high_avail, c, FALSE)
    /\ UNCHANGED <<state, priority, promotion_timer, lock, mode, sched_pointer, intena, run, at, scan>>

\* The acquire(&p->lock) of the loops: the lock is free.
Free(p) == lock[p] = None

\* The same in the three loops of the schedulers; mutant: it is left out.
acquire_not(p) == TRUE
acquire(p) == Free(p)

\* p->state = RUNNING to the release(&p->lock) in forkret(), yield() or sleep()
dispatch(c, p) ==
    /\ state' = Set(state, p, "RUNNING")
    /\ proc' = Set(proc, c, p)
    /\ run' = Set(run, c, p)
    /\ at' = Set(at, c, "process")
    /\ intr' = Set(intr, c, FALSE)
    /\ UNCHANGED <<priority, promotion_timer, lock, mode, sched_pointer, intena, sp, idx, scan>>

Goto(c, l, n) ==
    /\ sp' = Set(sp, c, l)
    /\ idx' = Set(idx, c, n)
    /\ UNCHANGED <<state, priority, promotion_timer, lock, mode, sched_pointer, cpuvars, at, scan>>

rr_scheduler(c) ==
    LET p == idx[c] IN
    /\ In(c, "rr")
    /\ UNCHANGED high_avail
    /\ \/ p > machine.nproc /\ Goto(c, "top", 1)
       \/ /\ p <= machine.nproc /\ acquire(p)
          /\ IF state[p] = "RUNNABLE" THEN dispatch(c, p) ELSE Goto(c, "rr", p + 1)

\* mlfq_scheduler(): the loop on high priority ...
mlfq_high(c) ==
    LET p == idx[c] IN
    /\ In(c, "high")
    /\ \/ /\ p > machine.nproc
          /\ high_avail' = Set(high_avail, c, FALSE)
          /\ Goto(c, IF high_avail[c] THEN "high" ELSE "low", 1)
       \/ /\ p <= machine.nproc /\ acquire(p)
          /\ IF priority[p] = 0 /\ state[p] = "RUNNABLE"
               THEN high_avail' = Set(high_avail, c, TRUE) /\ dispatch(c, p)
               ELSE UNCHANGED high_avail /\ Goto(c, "high", p + 1)

\* ... and the one on low priority
mlfq_low(c) ==
    LET p == idx[c] IN
    /\ In(c, "low")
    /\ UNCHANGED high_avail
    /\ \/ p > machine.nproc /\ Goto(c, "top", 1)
       \/ /\ p <= machine.nproc /\ acquire(p)
          /\ IF state[p] # "RUNNABLE" THEN Goto(c, "low", p + 1)
             ELSE IF priority[p] = 0 THEN Goto(c, "top", 1)
             ELSE dispatch(c, p)

-----------------------------------------------------------------------------
\* The process: system calls, and the ways to give up the CPU

Executes(c, m) == at[c] = "process" /\ mode[proc[c]] = m

syscall(c) ==
    /\ Executes(c, "user")
    /\ mode' = Set(mode, proc[c], "syscall")
    /\ UNCHANGED <<state, priority, promotion_timer, lock, sched_pointer, cpuvars, at, loop, scan>>

usertrapret(c) ==
    /\ Executes(c, "syscall")
    /\ mode' = Set(mode, proc[c], "user")
    /\ UNCHANGED <<state, priority, promotion_timer, lock, sched_pointer, cpuvars, at, loop, scan>>

schedset(c, s) ==
    /\ Executes(c, "syscall")
    /\ sched_pointer' = s
    /\ UNCHANGED <<state, priority, promotion_timer, lock, mode, cpuvars, at, loop, scan>>

\* Into sched() with p->lock held and a new state
give_up(c, s, on, next) ==
    /\ Free(proc[c])
    /\ lock' = Set(lock, proc[c], c)
    /\ state' = Set(state, proc[c], s)
    /\ intena' = Set(intena, c, on)
    /\ at' = Set(at, c, next)
    /\ UNCHANGED <<promotion_timer, mode, sched_pointer, proc, intr, run, loop, scan>>

\* The next priority down
lower(p) == IF priority[p] + 1 > MAX_PRIO THEN priority[p] ELSE priority[p] + 1

\* usertrap(): yield(YIELD_TIMER), up to its store of the priority
yield_timer(c) ==
    LET p == proc[c] IN
    /\ Executes(c, "user")
    /\ give_up(c, "RUNNABLE", FALSE, "demote")
    /\ priority' = Set(priority, p, lower(p))

\* ... and its store of the timer
demote(c) ==
    /\ at[c] = "demote"
    /\ promotion_timer' = Set(promotion_timer, proc[c], PROM_TIME)
    /\ at' = Set(at, c, "sched")
    /\ UNCHANGED <<state, priority, lock, mode, sched_pointer, cpuvars, loop, scan>>

\* kerneltrap() on a timer interrupt, in a process or in the scheduler
kerneltrap(c) ==
    /\ Executes(c, "syscall") \/ (at[c] = "scheduler" /\ intr[c])
    /\ proc[c] # None /\ state[proc[c]] = "RUNNING"
    /\ give_up(c, "RUNNABLE", FALSE, "sched")
    /\ UNCHANGED priority

\* sleep(): in a system call, where interrupts were on before the first lock
sleep(c) ==
    /\ Executes(c, "syscall")
    /\ give_up(c, "SLEEPING", TRUE, "sched")
    /\ UNCHANGED priority

wakeup(p) ==
    /\ Free(p) /\ state[p] = "SLEEPING"
    /\ state' = Set(state, p, "RUNNABLE")
    /\ UNCHANGED <<priority, promotion_timer, lock, mode, sched_pointer, cpuvars, at, loop, scan>>

-----------------------------------------------------------------------------
\* sched()

sched_next(c) == k' = Set(k, c, k[c] + 1) /\ loaded' = Set(loaded, c, 0)

\* The processes the loop counts down for; mutant: it stops one slot short.
waiting_but_last(p) == priority[p] > 0 /\ p # machine.nproc
waiting(p) == priority[p] > 0

\* p->priority > 0 && the load of --p->promotion_timer
sched_load(c) ==
    /\ at[c] = "sched" /\ k[c] <= machine.nproc
    /\ IF waiting(k[c])
         THEN /\ loaded' = Set(loaded, c, promotion_timer[k[c]])
              /\ at' = Set(at, c, "decrement")
              /\ UNCHANGED k
         ELSE sched_next(c) /\ UNCHANGED at
    /\ UNCHANGED <<state, priority, promotion_timer, lock, mode, sched_pointer, cpuvars, loop>>

\* ... its store
sched_store(c) ==
    /\ at[c] = "decrement"
    /\ promotion_timer' = Set(promotion_timer, k[c], IF loaded[c] > 0 THEN loaded[c] - 1 ELSE Missed)
    /\ IF loaded[c] = 1
         THEN at' = Set(at, c, "promote") /\ UNCHANGED scan
         ELSE at' = Set(at, c, "sched") /\ sched_next(c)
    /\ UNCHANGED <<state, priority, lock, mode, sched_pointer, cpuvars, loop>>

\* ... and p->priority = 0
sched_promote(c) ==
    /\ at[c] = "promote"
    /\ priority' = Set(priority, k[c], 0)
    /\ at' = Set(at, c, "sched")
    /\ sched_next(c)
    /\ UNCHANGED <<state, promotion_timer, lock, mode, sched_pointer, cpuvars, loop>>

\* Mutant: the check is left out.
WrongScheduler_never(c) == FALSE

\* "check if we are still the right scheduler"
WrongScheduler(c) == sp[c] # "rr" /\ sched_pointer # "mlfq"

\* swtch() to the scheduler, and there to release(&p->lock) and the next turn
\* of the loop, or the return.  What happens when the CPU did not execute the
\* process is left open: the contexts are then those of other threads.
swtch(c) ==
    /\ at[c] = "sched" /\ k[c] > machine.nproc
    /\ run[c] = proc[c]
    /\ run' = Set(run, c, None)
    /\ at' = Set(at, c, "scheduler")
    /\ k' = Set(k, c, 1)
    /\ lock' = Set(lock, proc[c], None)
    /\ intr' = Set(intr, c, intena[c])
    /\ intena' = Set(intena, c, FALSE)
    /\ IF WrongScheduler(c)
         THEN sp' = Set(sp, c, "top") /\ idx' = Set(idx, c, 1) /\ UNCHANGED proc
         ELSE idx' = Set(idx, c, idx[c] + 1) /\ proc' = Set(proc, c, None) /\ UNCHANGED sp
    /\ UNCHANGED <<state, priority, promotion_timer, mode, sched_pointer, high_avail, loaded>>

-----------------------------------------------------------------------------
Kernel(c) ==
    \/ scheduler(c) \/ rr_scheduler(c) \/ mlfq_high(c) \/ mlfq_low(c)
    \/ demote(c) \/ sched_load(c) \/ sched_store(c) \/ sched_promote(c) \/ swtch(c)

timer(c) == yield_timer(c) \/ kerneltrap(c)

Next ==
    /\ \/ \E c \in Cpu : Kernel(c) \/ timer(c) \/ syscall(c) \/ usertrapret(c) \/ sleep(c)
       \/ \E c \in Cpu, s \in machine.scheds : schedset(c, s)
       \/ \E p \in Slot : wakeup(p)
    /\ UNCHANGED machine

Spec == Init /\ [][Next]_vars

-----------------------------------------------------------------------------
(* Fairness.  A CPU executes its kernel code and gets timer interrupts (the  *)
(* timer of each hart is armed again by timervec), and an acquire(), which   *)
(* other CPUs may be in the way of again and again, succeeds some time.      *)
(* Nothing is assumed of processes: they may never make a system call,       *)
(* sleep or be woken.  Progress is claimed of machines with one CPU, and     *)
(* fairness is assumed only there.                                           *)
OneCpu == machine.cpus = {1}
FairSpec == /\ Spec
            /\ SF_vars(OneCpu /\ Kernel(1) /\ UNCHANGED machine)
            /\ SF_vars(OneCpu /\ timer(1) /\ UNCHANGED machine)

-----------------------------------------------------------------------------
\* Types of the variables.
TypeOK ==
    /\ machine \in Machine
    /\ state \in [Slot -> {"UNUSED", "SLEEPING", "RUNNABLE", "RUNNING"}]
    /\ priority \in [Slot -> 0 .. MAX_PRIO]
    /\ promotion_timer \in [Slot -> Missed .. PROM_TIME]
    /\ lock \in [Slot -> Cpu \cup {None}]
    /\ mode \in [Slot -> {"user", "syscall"}]
    /\ sched_pointer \in {"rr", "mlfq"}
    /\ proc \in [Cpu -> Slot \cup {None}] /\ run \in [Cpu -> Slot \cup {None}]
    /\ intena \in [Cpu -> BOOLEAN] /\ intr \in [Cpu -> BOOLEAN]
    /\ at \in [Cpu -> {"off", "scheduler", "process", "demote", "sched", "decrement", "promote"}]
    /\ sp \in [Cpu -> {"top", "rr", "high", "low"}] /\ idx \in [Cpu -> 1 .. NPROC + 1]
    /\ high_avail \in [Cpu -> BOOLEAN]
    /\ k \in [Cpu -> 1 .. NPROC + 1] /\ loaded \in [Cpu -> Missed .. PROM_TIME]

\* No two CPUs execute the same process (they would share its kernel stack):
\* p->lock is held from yield()'s store of RUNNABLE until the process is off
\* its stack.
OneCpuPerProc ==
    \A c, d \in Cpu : c # d /\ run[c] # None => run[c] # run[d]

\* The process that a CPU executes is its c->proc, and is RUNNING as long as
\* it has not itself gone into yield() or sleep(): nobody else gives up the
\* CPU in its name.
ExecutingIsRunning ==
    \A c \in Cpu : run[c] # None =>
        /\ proc[c] = run[c]
        /\ lock[run[c]] # c => state[run[c]] = "RUNNING"

\* Each CPU has its process for itself.
CpusApart == TypeOK /\ OneCpuPerProc /\ ExecutingIsRunning

\* Every RUNNABLE process runs some time, under either scheduler and whatever
\* schedset() does: sched() promotes what the queue of high priority keeps
\* waiting.  Only on one CPU: two in sched() may both miss the timer's 0.
NoStarvation ==
    \A p \in Slot : OneCpu /\ state[p] = "RUNNABLE" ~> state[p] = "RUNNING"

\* A call of schedset() reaches the CPU, unless another call comes after it:
\* mlfq_scheduler(), which goes on as long as there is work of high priority,
\* looks at sched_pointer after every process.
SchedsetReachesCpu ==
    /\ OneCpu /\ sched_pointer = "rr" ~> (sp[1] = "rr" \/ sched_pointer # "rr")
    /\ OneCpu /\ sched_pointer = "mlfq" ~> (sp[1] \in {"high", "low"} \/ sched_pointer # "mlfq")
=============================================================================
