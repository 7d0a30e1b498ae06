---------------------------- MODULE SchedProofs -----------------------------
(***************************************************************************)
(* Proofs about Sched, for any number of CPUs, slots and priorities and    *)
(* under either scheduler: CpusApart, on machines where schedset() is not  *)
(* called or which have one CPU.  With two CPUs and schedset() it does not *)
(* hold: mlfq_scheduler() may return without clearing c->proc.             *)
(***************************************************************************)
EXTENDS Sched, TLAPS

\* schedset() is called on machines with one CPU only.
SchedsetOnOneCpu == \A m \in Machine : m.scheds = {} \/ \A c, d \in m.cpus : c = d

\* The types of the variables, without the Boolean ones.
Types ==
    /\ machine \in Machine
    /\ state \in [Slot -> {"UNUSED", "SLEEPING", "RUNNABLE", "RUNNING"}]
    /\ priority \in [Slot -> 0 .. MAX_PRIO]
    /\ promotion_timer \in [Slot -> Missed .. PROM_TIME]
    /\ lock \in [Slot -> Cpu \cup {None}]
    /\ mode \in [Slot -> {"user", "syscall"}]
    /\ sched_pointer \in {"rr", "mlfq"}
    /\ proc \in [Cpu -> Slot \cup {None}] /\ run \in [Cpu -> Slot \cup {None}]
    /\ at \in [Cpu -> {"off", "scheduler", "process", "demote", "sched", "decrement", "promote"}]
    /\ sp \in [Cpu -> {"top", "rr", "high", "low"}] /\ idx \in [Cpu -> 1 .. NPROC + 1]
    /\ k \in [Cpu -> 1 .. NPROC + 1] /\ loaded \in [Cpu -> Missed .. PROM_TIME]

Booleans ==
    intena \in [Cpu -> BOOLEAN] /\ intr \in [Cpu -> BOOLEAN] /\ high_avail \in [Cpu -> BOOLEAN]

\* In yield() or sleep(), from its store of p->state on.
Leaving == {"demote", "sched", "decrement", "promote"}

\* A CPU that has left its scheduler executes its c->proc, in which no other
\* CPU is; the process is RUNNING with its lock free, or the CPU is on its way
\* out with the lock held.  Nobody else has a process's lock.
RunInv ==
    /\ \A c \in Cpu : at[c] = "off" <=> c \notin machine.cpus
    /\ \A c \in Cpu :
         /\ at[c] \in {"off", "scheduler"} <=> run[c] = None
         /\ run[c] # None => proc[c] = run[c]
         /\ at[c] = "process" => state[run[c]] = "RUNNING"
         /\ at[c] \in Leaving => lock[run[c]] = c /\ state[run[c]] # "RUNNING"
    /\ \A p \in Slot : lock[p] # None => at[lock[p]] \in Leaving /\ run[lock[p]] = p
    /\ OneCpuPerProc

\* A scheduler that still has a c->proc is about to clear it, and no other CPU
\* can have made that process RUNNING.
ProcInv ==
    \A c \in Cpu : run[c] = None /\ proc[c] # None =>
        /\ sp[c] = "top" /\ state[proc[c]] # "RUNNING"
        /\ \A d \in machine.cpus : d = c

\* Where schedset() is not called, every CPU is in the scheduler that
\* sched_pointer names; a process is dispatched from a loop.
LoopInv ==
    /\ machine.scheds = {} =>
         \A c \in Cpu : /\ sp[c] = "rr" => sched_pointer = "rr"
                        /\ sp[c] \in {"high", "low"} => sched_pointer = "mlfq"
    /\ \A c \in Cpu : run[c] # None => sp[c] # "top" /\ idx[c] <= machine.nproc
    /\ \A c \in Cpu : at[c] \in {"decrement", "promote"} => k[c] <= machine.nproc

IInv == Types /\ Booleans /\ RunInv /\ ProcInv /\ LoopInv

-----------------------------------------------------------------------------
\* The constants of the model.
LEMMA Constants ==
    /\ None \notin Slot /\ None \notin Cpu /\ 1 \in 1 .. NPROC + 1
    /\ 0 \in Missed .. PROM_TIME /\ PROM_TIME \in Missed .. PROM_TIME /\ Missed \in Missed .. PROM_TIME
  BY SchedAssumption DEF None, Slot, Cpu, Missed

\* The table of a machine is a part of the slots.
LEMMA MachineIs ==
    ASSUME NEW m \in Machine
    PROVE  /\ m.nproc \in 1 .. NPROC /\ m.cpus \subseteq Cpu /\ m.scheds \subseteq {"rr", "mlfq"}
           /\ \A n \in 1 .. NPROC + 1 : n <= m.nproc => n \in Slot /\ n + 1 \in 1 .. NPROC + 1
<1>1. m.nproc \in 1 .. NPROC /\ m.cpus \subseteq Cpu /\ m.scheds \subseteq {"rr", "mlfq"}
  BY SchedAssumption DEF Cpu
<1> QED
  BY <1>1, SchedAssumption DEF Slot

\* The CPUs start in their schedulers.
LEMMA InitInv == Init => IInv
<1> SUFFICES ASSUME Init PROVE IInv
  OBVIOUS
<1> USE Constants, SchedAssumption DEF Init
<1>1. Types
  BY DEF Types
<1>2. Booleans
  BY Zenon DEF Booleans
<1>3. RunInv
  BY DEF RunInv, Leaving, OneCpuPerProc
<1>4. ProcInv /\ LoopInv
  BY DEF ProcInv, LoopInv
<1> QED
  BY <1>1, <1>2, <1>3, <1>4 DEF IInv

\* (*sched_pointer)() is called with c->proc cleared.
LEMMA SchedulerStep ==
    ASSUME IInv, NEW c \in Cpu, scheduler(c), UNCHANGED machine
    PROVE  IInv'
<1> USE Constants DEF IInv, scheduler, In, Set, scan
<1>0. run[c] = None
  BY DEF RunInv
<1>1. Types'
  BY DEF Types
<1>2. Booleans'
  BY Zenon DEF Booleans
<1>3. RunInv'
  BY <1>0 DEF RunInv, OneCpuPerProc, Types
<1>4. ProcInv'
  BY DEF ProcInv, Types
<1>5. LoopInv'
  BY <1>0 DEF LoopInv, Types
<1> QED
  BY <1>1, <1>2, <1>3, <1>4, <1>5

\* A process is dispatched under its lock: no CPU executes it, for then it is
\* RUNNING or its lock is held.
LEMMA DispatchStep ==
    ASSUME IInv, NEW c \in Cpu, at[c] = "scheduler", sp[c] # "top", idx[c] <= machine.nproc,
           Free(idx[c]), state[idx[c]] = "RUNNABLE", dispatch(c, idx[c]),
           high_avail' \in [Cpu -> BOOLEAN], UNCHANGED machine
    PROVE  IInv'
<1> DEFINE p == idx[c]
<1>0. p \in Slot /\ run[c] = None /\ c \in machine.cpus
  BY MachineIs DEF IInv, Types, RunInv
<1> HIDE DEF p
<1>a. /\ state' = [state EXCEPT ![p] = "RUNNING"] /\ proc' = [proc EXCEPT ![c] = p]
      /\ run' = [run EXCEPT ![c] = p] /\ at' = [at EXCEPT ![c] = "process"]
      /\ intr' = [intr EXCEPT ![c] = FALSE]
      /\ UNCHANGED <<priority, promotion_timer, lock, mode, sched_pointer, intena, sp, idx, k, loaded>>
      /\ lock[p] = None /\ state[p] = "RUNNABLE"
  BY DEF dispatch, Set, scan, Free, p
<1> USE Constants, <1>0, <1>a DEF IInv
<1>1. Types'
  BY DEF Types
<1>2. Booleans'
  BY Zenon DEF Booleans
<1>3. \A d \in Cpu : run[d] # p
  BY DEF RunInv, Types, Leaving
<1>4. RunInv'
  <2>1. \A d \in Cpu : at'[d] = "off" <=> d \notin machine'.cpus
    BY DEF RunInv, Types
  <2>2. \A d \in Cpu :
         /\ at'[d] \in {"off", "scheduler"} <=> run'[d] = None
         /\ run'[d] # None => proc'[d] = run'[d]
         /\ at'[d] = "process" => state'[run'[d]] = "RUNNING"
         /\ at'[d] \in Leaving => lock'[run'[d]] = d /\ state'[run'[d]] # "RUNNING"
    BY <1>3 DEF RunInv, Types, Leaving
  <2>3. \A q \in Slot : lock'[q] # None => at'[lock'[q]] \in Leaving /\ run'[lock'[q]] = q
    BY DEF RunInv, Types, Leaving
  <2>4. OneCpuPerProc'
    BY <1>3 DEF RunInv, Types, OneCpuPerProc
  <2> QED
    BY <2>1, <2>2, <2>3, <2>4 DEF RunInv
<1>5. ProcInv'
  BY DEF ProcInv, Types
<1>6. LoopInv'
  BY DEF LoopInv, Types, p
<1> QED
  BY <1>1, <1>2, <1>4, <1>5, <1>6

\* A turn of a loop that dispatches nobody, or its end
LEMMA GotoStep ==
    ASSUME IInv, NEW c \in Cpu, at[c] = "scheduler", sp[c] # "top",
           NEW n \in 1 .. NPROC + 1, NEW l \in {"top", "rr", "high", "low"}, Goto(c, l, n),
           l = "rr" => sp[c] = "rr", l \in {"high", "low"} => sp[c] \in {"high", "low"},
           high_avail' \in [Cpu -> BOOLEAN], UNCHANGED machine
    PROVE  IInv'
<1> USE Constants DEF IInv, Goto, Set, cpuvars, scan
<1>0. run[c] = None /\ proc[c] = None
  BY DEF RunInv, ProcInv
<1>1. Types'
  BY DEF Types
<1>2. Booleans'
  BY Zenon DEF Booleans
<1>3. RunInv'
  BY DEF RunInv, OneCpuPerProc
<1>4. ProcInv'
  BY <1>0 DEF ProcInv, Types
<1>5. LoopInv'
  BY <1>0 DEF LoopInv, Types
<1> QED
  BY <1>1, <1>2, <1>3, <1>4, <1>5

\* The loops of rr_scheduler() and mlfq_scheduler()
LEMMA LoopStep ==
    ASSUME IInv, NEW c \in Cpu, rr_scheduler(c) \/ mlfq_high(c) \/ mlfq_low(c), UNCHANGED machine
    PROVE  IInv'
<1> DEFINE p == idx[c]
<1>0. /\ at[c] = "scheduler" /\ sp[c] # "top" /\ p \in 1 .. NPROC + 1
      /\ p <= machine.nproc => p + 1 \in 1 .. NPROC + 1
  BY MachineIs, Zenon DEF IInv, Types, rr_scheduler, mlfq_high, mlfq_low, In
<1>1. high_avail' \in [Cpu -> BOOLEAN]
  BY Zenon DEF IInv, Booleans, rr_scheduler, mlfq_high, mlfq_low, Set
<1>2. CASE p <= machine.nproc /\ Free(p) /\ state[p] = "RUNNABLE" /\ dispatch(c, p)
  BY <1>0, <1>1, <1>2, DispatchStep
<1>3. CASE Goto(c, "top", 1)
  BY <1>0, <1>1, <1>3, Constants, GotoStep
<1>4. CASE sp[c] = "rr" /\ p <= machine.nproc /\ Goto(c, "rr", p + 1)
  BY <1>0, <1>1, <1>4, GotoStep
<1>5. CASE sp[c] \in {"high", "low"} /\ p <= machine.nproc /\ \E l \in {"high", "low"} : Goto(c, l, p + 1)
  BY <1>0, <1>1, <1>5, GotoStep
<1>6. CASE sp[c] = "high" /\ \E l \in {"high", "low"} : Goto(c, l, 1)
  BY <1>0, <1>1, <1>6, Constants, GotoStep
<1>7. CASE rr_scheduler(c)
  BY <1>2, <1>3, <1>4, <1>7 DEF rr_scheduler, In, acquire
<1>8. CASE mlfq_high(c)
  BY <1>2, <1>5, <1>6, <1>8, Zenon DEF mlfq_high, In, acquire
<1>9. CASE mlfq_low(c)
  BY <1>2, <1>3, <1>5, <1>9 DEF mlfq_low, In, acquire
<1> QED
  BY <1>7, <1>8, <1>9

\* A process gives up its own CPU, with its lock held.
LEMMA GiveUpStep ==
    ASSUME IInv, NEW c \in Cpu, at[c] = "process",
           NEW s \in {"RUNNABLE", "SLEEPING"}, NEW on \in BOOLEAN, NEW next \in {"demote", "sched"},
           give_up(c, s, on, next), priority' \in [Slot -> 0 .. MAX_PRIO], UNCHANGED machine
    PROVE  IInv'
<1> DEFINE p == proc[c]
<1>0. p \in Slot /\ run[c] = p /\ state[p] = "RUNNING"
  BY DEF IInv, RunInv, Types
<1> HIDE DEF p
<1>a. /\ lock[p] = None /\ lock' = [lock EXCEPT ![p] = c] /\ state' = [state EXCEPT ![p] = s]
      /\ intena' = [intena EXCEPT ![c] = on] /\ at' = [at EXCEPT ![c] = next]
      /\ UNCHANGED <<promotion_timer, mode, sched_pointer, proc, intr, run, sp, idx, high_avail, k, loaded>>
  BY DEF give_up, Set, scan, loop, Free, p
<1> USE Constants, <1>0, <1>a DEF IInv
<1>1. Types'
  BY DEF Types
<1>2. Booleans'
  BY Zenon DEF Booleans
<1>3. \A d \in Cpu : d # c => run[d] # p
  BY DEF RunInv, OneCpuPerProc
<1>4. RunInv'
  <2>1. \A d \in Cpu : at'[d] = "off" <=> d \notin machine'.cpus
    BY DEF RunInv, Types
  <2>2. \A d \in Cpu :
         /\ at'[d] \in {"off", "scheduler"} <=> run'[d] = None
         /\ run'[d] # None => proc'[d] = run'[d]
         /\ at'[d] = "process" => state'[run'[d]] = "RUNNING"
         /\ at'[d] \in Leaving => lock'[run'[d]] = d /\ state'[run'[d]] # "RUNNING"
    BY <1>3 DEF RunInv, Types, Leaving
  <2>3. \A q \in Slot : lock'[q] # None => at'[lock'[q]] \in Leaving /\ run'[lock'[q]] = q
    BY DEF RunInv, Types, Leaving
  <2>4. OneCpuPerProc'
    BY DEF RunInv, OneCpuPerProc
  <2> QED
    BY <2>1, <2>2, <2>3, <2>4 DEF RunInv
<1>5. ProcInv'
  BY DEF ProcInv, Types
<1>6. LoopInv'
  BY DEF LoopInv, Types
<1> QED
  BY <1>1, <1>2, <1>4, <1>5, <1>6

\* yield(YIELD_TIMER), yield() in the kernel and sleep().  A timer interrupt in
\* the scheduler finds no c->proc that is RUNNING.
LEMMA YieldStep ==
    ASSUME IInv, NEW c \in Cpu, yield_timer(c) \/ kerneltrap(c) \/ sleep(c), UNCHANGED machine
    PROVE  IInv'
<1>1. CASE yield_timer(c)
  <2>1. at[c] = "process" /\ give_up(c, "RUNNABLE", FALSE, "demote")
    BY <1>1, Zenon DEF yield_timer, Executes
  <2>2. proc[c] \in Slot
    BY <2>1 DEF IInv, RunInv, Types
  <2>3. priority[proc[c]] \in 0 .. MAX_PRIO /\ lower(proc[c]) \in 0 .. MAX_PRIO
    BY <2>2, SchedAssumption DEF IInv, Types, lower
  <2>4. priority' \in [Slot -> 0 .. MAX_PRIO]
    BY <1>1, <2>2, <2>3 DEF IInv, Types, yield_timer, Set
  <2> QED
    BY <2>1, <2>4, GiveUpStep, Zenon
<1>2. CASE kerneltrap(c)
  <2>1. at[c] = "process"
    BY <1>2 DEF kerneltrap, Executes, IInv, RunInv, ProcInv
  <2>2. priority' \in [Slot -> 0 .. MAX_PRIO] /\ give_up(c, "RUNNABLE", FALSE, "sched")
    BY <1>2, Zenon DEF kerneltrap, IInv, Types
  <2> QED
    BY <2>1, <2>2, GiveUpStep, Zenon
<1>3. CASE sleep(c)
  <2>1. at[c] = "process" /\ give_up(c, "SLEEPING", TRUE, "sched")
    BY <1>3, Zenon DEF sleep, Executes
  <2>2. priority' \in [Slot -> 0 .. MAX_PRIO]
    BY <1>3 DEF sleep, IInv, Types
  <2> QED
    BY <2>1, <2>2, GiveUpStep, Zenon
<1> QED
  BY <1>1, <1>2, <1>3

\* System calls, schedset() among them
LEMMA SyscallStep ==
    ASSUME IInv, NEW c \in Cpu, UNCHANGED machine,
           syscall(c) \/ usertrapret(c) \/ \E s \in machine.scheds : schedset(c, s)
    PROVE  IInv'
<1>0. /\ mode' \in [Slot -> {"user", "syscall"}]
      /\ sched_pointer' \in {"rr", "mlfq"} /\ (machine.scheds = {} => sched_pointer' = sched_pointer)
      /\ UNCHANGED <<state, priority, promotion_timer, lock, proc, intena, intr, run, at, sp, idx,
                     high_avail, k, loaded>>
  BY MachineIs DEF syscall, usertrapret, schedset, IInv, Types, Set, cpuvars, loop, scan
<1> USE <1>0 DEF IInv
<1>1. Types'
  BY DEF Types
<1>2. Booleans'
  BY Zenon DEF Booleans
<1>3. RunInv' /\ ProcInv' /\ LoopInv'
  BY DEF RunInv, OneCpuPerProc, ProcInv, LoopInv
<1> QED
  BY <1>1, <1>2, <1>3

\* A process that sleeps is executed by no CPU once its lock is free.
LEMMA WakeupStep ==
    ASSUME IInv, NEW p \in Slot, wakeup(p), UNCHANGED machine
    PROVE  IInv'
<1> USE Constants DEF IInv, wakeup, Set, Free, cpuvars, loop, scan
<1>1. Types'
  BY DEF Types
<1>2. Booleans'
  BY Zenon DEF Booleans
<1>3. RunInv'
  BY DEF RunInv, OneCpuPerProc, Types
<1>4. ProcInv' /\ LoopInv'
  BY DEF ProcInv, LoopInv, Types
<1> QED
  BY <1>1, <1>2, <1>3, <1>4

\* Where the loop of sched() is: in the table, or past its end.
LEMMA LoopPlace ==
    ASSUME IInv, NEW c \in Cpu
    PROVE  /\ k[c] \in 1 .. NPROC + 1
           /\ k[c] <= machine.nproc => k[c] \in Slot /\ k[c] + 1 \in 1 .. NPROC + 1
           /\ at[c] \in {"decrement", "promote"} => k[c] <= machine.nproc
<1>1. machine \in Machine /\ k[c] \in 1 .. NPROC + 1
  BY DEF IInv, Types
<1>2. at[c] \in {"decrement", "promote"} => k[c] <= machine.nproc
  BY Zenon DEF IInv, LoopInv
<1> QED
  BY <1>1, <1>2, MachineIs

\* A step of yield() or of the loop in sched(), with p->lock held, keeps the
\* invariant when it leaves alone all but the priorities, the timers and the
\* CPU's own place.
LEMMA LeavingKept ==
    ASSUME IInv, NEW c \in Cpu, UNCHANGED machine,
           at[c] \in Leaving, NEW l \in Leaving, at' = [at EXCEPT ![c] = l],
           l \in {"decrement", "promote"} => k'[c] <= machine.nproc,
           UNCHANGED <<state, lock, mode, sched_pointer, proc, intena, intr, run, sp, idx, high_avail>>,
           k' \in [Cpu -> 1 .. NPROC + 1], \A d \in Cpu : d # c => k'[d] = k[d],
           loaded' \in [Cpu -> Missed .. PROM_TIME],
           priority' \in [Slot -> 0 .. MAX_PRIO], promotion_timer' \in [Slot -> Missed .. PROM_TIME]
    PROVE  IInv'
<1>1. at \in [Cpu -> {"off", "scheduler", "process", "demote", "sched", "decrement", "promote"}]
  BY DEF IInv, Types
<1>2. \A d \in Cpu : at'[d] = IF d = c THEN l ELSE at[d]
  BY <1>1
<1>3. Types'
  <2>1. at' \in [Cpu -> {"off", "scheduler", "process", "demote", "sched", "decrement", "promote"}]
    BY <1>1 DEF Leaving
  <2> QED
    BY <2>1, Zenon DEF IInv, Types
<1>4. Booleans'
  BY Zenon DEF IInv, Booleans
<1>5. RunInv'
  <2>1. at[c] \notin {"off", "scheduler", "process"} /\ l \notin {"off", "scheduler", "process"}
    BY DEF Leaving
  <2>2. \A d \in Cpu : /\ at'[d] \in Leaving <=> at[d] \in Leaving
                       /\ at'[d] = "off" <=> at[d] = "off"
                       /\ at'[d] = "process" <=> at[d] = "process"
                       /\ at'[d] \in {"off", "scheduler"} <=> at[d] \in {"off", "scheduler"}
    BY <1>2, <2>1
  <2>3. \A p \in Slot : lock[p] # None => lock[p] \in Cpu
    BY DEF IInv, Types
  <2>4. RunInv /\ OneCpuPerProc' = OneCpuPerProc
    BY Zenon DEF IInv, OneCpuPerProc
  <2> QED
    BY <2>2, <2>3, <2>4 DEF RunInv
<1>6. ProcInv'
  BY Zenon DEF IInv, ProcInv
<1>7. LoopInv'
  <2>1. \A d \in Cpu : at'[d] \in {"decrement", "promote"} => k'[d] <= machine'.nproc
    BY <1>2 DEF IInv, LoopInv
  <2> QED
    BY <2>1, Zenon DEF IInv, LoopInv
<1> QED
  BY <1>3, <1>4, <1>5, <1>6, <1>7, Zenon DEF IInv

\* The steps of yield() and of the loop in sched()
LEMMA LeavingStep ==
    ASSUME IInv, NEW c \in Cpu, UNCHANGED machine,
           demote(c) \/ sched_load(c) \/ sched_store(c) \/ sched_promote(c)
    PROVE  IInv'
<1> USE Constants, SchedAssumption DEF Leaving
<1>1. /\ k \in [Cpu -> 1 .. NPROC + 1] /\ loaded \in [Cpu -> Missed .. PROM_TIME]
      /\ priority \in [Slot -> 0 .. MAX_PRIO] /\ promotion_timer \in [Slot -> Missed .. PROM_TIME]
      /\ k[c] \in 1 .. NPROC + 1
      /\ k[c] <= machine.nproc => k[c] \in Slot /\ k[c] + 1 \in 1 .. NPROC + 1
      /\ at[c] \in {"decrement", "promote"} => k[c] <= machine.nproc
  BY LoopPlace DEF IInv, Types
<1>2. CASE demote(c)
  <2>1. /\ at[c] = "demote" /\ at' = [at EXCEPT ![c] = "sched"]
        /\ promotion_timer' = [promotion_timer EXCEPT ![proc[c]] = PROM_TIME]
        /\ UNCHANGED <<state, lock, mode, sched_pointer, proc, intena, intr, run, sp, idx, high_avail>>
        /\ UNCHANGED <<k, loaded, priority>>
    BY <1>2, Zenon DEF demote, Set, cpuvars, loop, scan
  <2>2. promotion_timer' \in [Slot -> Missed .. PROM_TIME]
    BY <1>1, <2>1, Zenon
  <2> QED
    BY <1>1, <2>1, <2>2, LeavingKept, Zenon
<1>3. CASE sched_load(c)
  <2>1. /\ at[c] = "sched" /\ k[c] <= machine.nproc
        /\ \/ /\ at' = [at EXCEPT ![c] = "decrement"] /\ k' = k
              /\ loaded' = [loaded EXCEPT ![c] = promotion_timer[k[c]]]
           \/ /\ at' = at
              /\ k' = [k EXCEPT ![c] = k[c] + 1] /\ loaded' = [loaded EXCEPT ![c] = 0]
        /\ UNCHANGED <<state, lock, mode, sched_pointer, proc, intena, intr, run, sp, idx, high_avail>>
        /\ UNCHANGED <<priority, promotion_timer>>
    BY <1>3, Zenon DEF sched_load, sched_next, Set, cpuvars, loop
  <2>2. k' \in [Cpu -> 1 .. NPROC + 1] /\ \A d \in Cpu : d # c => k'[d] = k[d]
    BY <1>1, <2>1
  <2>3. loaded' \in [Cpu -> Missed .. PROM_TIME]
    BY <1>1, <2>1
  <2>4. CASE at' = [at EXCEPT ![c] = "decrement"] /\ k' = k
    BY <1>1, <2>1, <2>2, <2>3, <2>4, LeavingKept, Zenon
  <2>5. CASE at' = at
    <3>1. at' = [at EXCEPT ![c] = "sched"]
      BY <2>1, <2>5 DEF IInv, Types
    <3> QED
      BY <1>1, <2>1, <2>2, <2>3, <3>1, LeavingKept, Zenon
  <2> QED
    BY <2>1, <2>4, <2>5
<1>4. CASE sched_store(c)
  <2>1. /\ at[c] = "decrement"
        /\ promotion_timer' =
             [promotion_timer EXCEPT ![k[c]] = IF loaded[c] > 0 THEN loaded[c] - 1 ELSE Missed]
        /\ \/ /\ at' = [at EXCEPT ![c] = "promote"] /\ k' = k /\ loaded' = loaded
           \/ /\ at' = [at EXCEPT ![c] = "sched"]
              /\ k' = [k EXCEPT ![c] = k[c] + 1] /\ loaded' = [loaded EXCEPT ![c] = 0]
        /\ UNCHANGED <<state, lock, mode, sched_pointer, proc, intena, intr, run, sp, idx, high_avail>>
        /\ UNCHANGED priority
    BY <1>4, Zenon DEF sched_store, sched_next, Set, cpuvars, loop, scan
  <2>2. k' \in [Cpu -> 1 .. NPROC + 1] /\ \A d \in Cpu : d # c => k'[d] = k[d]
    BY <1>1, <2>1
  <2>3. loaded' \in [Cpu -> Missed .. PROM_TIME]
    BY <1>1, <2>1
  <2>4. promotion_timer' \in [Slot -> Missed .. PROM_TIME]
    <3>1. (IF loaded[c] > 0 THEN loaded[c] - 1 ELSE Missed) \in Missed .. PROM_TIME
      BY <1>1 DEF Missed
    <3> QED
      BY <1>1, <2>1, <3>1
  <2>5. CASE at' = [at EXCEPT ![c] = "promote"] /\ k' = k
    BY <1>1, <2>1, <2>2, <2>3, <2>4, <2>5, LeavingKept, Zenon
  <2>6. CASE at' = [at EXCEPT ![c] = "sched"]
    BY <1>1, <2>1, <2>2, <2>3, <2>4, <2>6, LeavingKept, Zenon
  <2> QED
    BY <2>1, <2>5, <2>6
<1>5. CASE sched_promote(c)
  <2>1. /\ at[c] = "promote" /\ at' = [at EXCEPT ![c] = "sched"]
        /\ priority' = [priority EXCEPT ![k[c]] = 0]
        /\ k' = [k EXCEPT ![c] = k[c] + 1] /\ loaded' = [loaded EXCEPT ![c] = 0]
        /\ UNCHANGED <<state, lock, mode, sched_pointer, proc, intena, intr, run, sp, idx, high_avail>>
        /\ UNCHANGED promotion_timer
    BY <1>5, Zenon DEF sched_promote, sched_next, Set, cpuvars, loop
  <2>2. k' \in [Cpu -> 1 .. NPROC + 1] /\ \A d \in Cpu : d # c => k'[d] = k[d]
    BY <1>1, <2>1
  <2>3. loaded' \in [Cpu -> Missed .. PROM_TIME] /\ priority' \in [Slot -> 0 .. MAX_PRIO]
    BY <1>1, <2>1
  <2> QED
    BY <1>1, <2>1, <2>2, <2>3, LeavingKept, Zenon
<1> QED
  BY <1>2, <1>3, <1>4, <1>5

\* swtch() to the scheduler: the lock goes when the process is off its stack.
\* mlfq_scheduler() returns with c->proc set only where no other CPU is.
LEMMA SwtchStep ==
    ASSUME SchedsetOnOneCpu, IInv, NEW c \in Cpu, swtch(c), UNCHANGED machine
    PROVE  IInv'
<1> DEFINE p == proc[c]
<1> USE Constants DEF IInv
<1>0. /\ at[c] = "sched" /\ p \in Slot /\ run[c] = p /\ lock[p] = c /\ state[p] # "RUNNING"
      /\ c \in machine.cpus
  BY DEF swtch, RunInv, Types, Leaving
<1> HIDE DEF p
<1>1. /\ run' = [run EXCEPT ![c] = None] /\ at' = [at EXCEPT ![c] = "scheduler"]
      /\ k' = [k EXCEPT ![c] = 1] /\ lock' = [lock EXCEPT ![p] = None]
      /\ intr' = [intr EXCEPT ![c] = intena[c]] /\ intena' = [intena EXCEPT ![c] = FALSE]
      /\ UNCHANGED <<state, priority, promotion_timer, mode, sched_pointer, high_avail, loaded>>
  BY Zenon DEF swtch, Set, p
<1>2. \/ /\ WrongScheduler(c) /\ proc' = proc
         /\ sp' = [sp EXCEPT ![c] = "top"] /\ idx' = [idx EXCEPT ![c] = 1]
      \/ /\ proc' = [proc EXCEPT ![c] = None] /\ sp' = sp /\ idx' = [idx EXCEPT ![c] = idx[c] + 1]
  BY Zenon DEF swtch, Set
<1>3. WrongScheduler(c) => \A d \in machine.cpus : d = c
  BY <1>0 DEF WrongScheduler, LoopInv, Types, SchedsetOnOneCpu
<1>4. idx[c] + 1 \in 1 .. NPROC + 1
  BY <1>0, MachineIs DEF LoopInv, Types
<1>5. Types'
  BY <1>0, <1>1, <1>2, <1>4 DEF Types
<1>6. Booleans'
  BY <1>1, Zenon DEF Booleans
<1>7. \A d \in Cpu : d # c => run[d] # p
  BY <1>0, Zenon DEF RunInv, OneCpuPerProc
<1>8. RunInv'
  <2>1. \A d \in Cpu : at'[d] = "off" <=> d \notin machine'.cpus
    BY <1>0, <1>1 DEF RunInv, Types
  <2>2. \A d \in Cpu :
         /\ at'[d] \in {"off", "scheduler"} <=> run'[d] = None
         /\ run'[d] # None => proc'[d] = run'[d]
         /\ at'[d] = "process" => state'[run'[d]] = "RUNNING"
         /\ at'[d] \in Leaving => lock'[run'[d]] = d /\ state'[run'[d]] # "RUNNING"
    BY <1>1, <1>2, <1>7 DEF RunInv, Types, Leaving
  <2>3. \A q \in Slot : lock'[q] # None => at'[lock'[q]] \in Leaving /\ run'[lock'[q]] = q
    BY <1>0, <1>1 DEF RunInv, Types, Leaving
  <2>4. OneCpuPerProc'
    BY <1>1 DEF RunInv, OneCpuPerProc, Types
  <2> QED
    BY <2>1, <2>2, <2>3, <2>4, Zenon DEF RunInv
<1>9. ProcInv'
  BY <1>0, <1>1, <1>2, <1>3 DEF ProcInv, Types, p
<1>10. LoopInv'
  BY <1>1, <1>2 DEF LoopInv, Types
<1> QED
  BY <1>5, <1>6, <1>8, <1>9, <1>10

\* Every step preserves the invariant.
LEMMA StepInv == ASSUME SchedsetOnOneCpu, IInv, [Next]_vars PROVE IInv'
<1>1. CASE UNCHANGED vars
  <2> USE <1>1 DEF vars, IInv
  <2>1. Types'
    BY Zenon DEF Types
  <2>2. Booleans'
    BY Zenon DEF Booleans
  <2>3. RunInv'
    BY Zenon DEF RunInv, OneCpuPerProc
  <2>4. ProcInv' /\ LoopInv'
    BY Zenon DEF ProcInv, LoopInv
  <2> QED
    BY <2>1, <2>2, <2>3, <2>4
<1>2. ASSUME NEW c \in Cpu, UNCHANGED machine, Kernel(c) PROVE IInv'
  BY <1>2, SchedulerStep, LoopStep, LeavingStep, SwtchStep DEF Kernel
<1>3. ASSUME NEW c \in Cpu, UNCHANGED machine, timer(c) \/ sleep(c) PROVE IInv'
  BY <1>3, YieldStep DEF timer
<1>4. ASSUME NEW c \in Cpu, UNCHANGED machine,
             syscall(c) \/ usertrapret(c) \/ \E s \in machine.scheds : schedset(c, s)
      PROVE  IInv'
  BY <1>4, SyscallStep
<1>5. ASSUME NEW p \in Slot, UNCHANGED machine, wakeup(p) PROVE IInv'
  BY <1>5, WakeupStep
<1> QED
  BY <1>1, <1>2, <1>3, <1>4, <1>5, Zenon DEF Next

\* No two CPUs are ever on the same kernel stack, and a process that a CPU
\* executes is its c->proc and RUNNING until it gives up the CPU itself: on any
\* number of CPUs under either scheduler, and with schedset() on one CPU.
\* (dispatch, yield, sleep, sched, kerneltrap, scheduler)
THEOREM SchedulersCorrect ==
    ASSUME SchedsetOnOneCpu
    PROVE  Spec => []CpusApart
<1>1. IInv /\ [Next]_vars => IInv'
  BY StepInv
<1>2. IInv => CpusApart
  <2> SUFFICES ASSUME IInv PROVE CpusApart
    OBVIOUS
  <2> USE Constants DEF IInv
  <2>1. TypeOK
    BY Zenon DEF Types, Booleans, TypeOK
  <2>2. OneCpuPerProc /\ ExecutingIsRunning
    BY DEF RunInv, ExecutingIsRunning, Types, Leaving
  <2> QED
    BY <2>1, <2>2 DEF CpusApart
<1> QED
  BY <1>1, <1>2, InitInv, PTL DEF Spec
=============================================================================
