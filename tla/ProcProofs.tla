----------------------------- MODULE ProcProofs -----------------------------
(***************************************************************************)
(* Proofs about Proc, for any number of slots and any set of pids that     *)
(* kill() is called with: SlotsSound and WaiterHasLiveChild.  The second   *)
(* is the absence of a lost wakeup between wait() and exit(); it rests on  *)
(* what wait_lock protects, which is said for every place of the code      *)
(* where a process holds it.                                               *)
(***************************************************************************)
EXTENDS Proc, Integers, WellFoundedInduction, TLAPS

\* The types of the variables, without the Boolean ones.
Types ==
    /\ state \in [Slot -> {"UNUSED", "USED", "SLEEPING", "RUNNABLE", "RUNNING", "ZOMBIE"}]
    /\ parent \in [Slot -> Slot \cup {None}]
    /\ chan \in [Slot -> Slot \cup {None}]
    /\ wait_lock \in Slot \cup {None}
    /\ pc \in [Slot -> {"none", "user", "fork_parent", "fork_run", "exit", "reparent",
                        "reparent_wakeup", "exit_wakeup", "exit_zombie", "zombie", "scan",
                        "sleep", "awake"}]
    /\ i \in [Slot -> 1 .. NPROC + 1]
    /\ np \in [Slot -> Slot \cup {None}]
    /\ shell \in Slot \cup {None}

Booleans ==
    killed \in [Slot -> BOOLEAN] /\ lock \in [Slot -> BOOLEAN] /\ panicked \in BOOLEAN

\* What the state of a slot says of where its process is, and who has its lock.
PlaceInv ==
    \A p \in Slot :
        /\ state[p] \in {"UNUSED", "USED"} => pc[p] = "none" /\ ~lock[p]
        /\ state[p] = "ZOMBIE" /\ lock[p] => pc[p] = "zombie"
        /\ state[p] = "ZOMBIE" /\ ~lock[p] => pc[p] = "none"
        /\ pc[p] \in {"none", "zombie"} => state[p] \in {"UNUSED", "USED", "ZOMBIE"}
        /\ state[p] = "SLEEPING" => pc[p] = "awake" /\ chan[p] = p
        /\ state[p] = "RUNNABLE" => pc[p] \in {"user", "awake"}
        /\ lock[p] => state[p] \in {"SLEEPING", "ZOMBIE"}

\* The places where a process holds wait_lock.
Holding == {"reparent", "reparent_wakeup", "exit_wakeup", "exit_zombie", "scan", "sleep"}

\* wait_lock is held by the one process that is at such a place.
LockInv == \A p \in Slot : wait_lock = p <=> pc[p] \in Holding

\* init does not exit (it panics first), and is nobody's child.
InitprocInv ==
    /\ parent[initproc] = None
    /\ pc[initproc] \notin {"none", "exit", "reparent", "reparent_wakeup", "exit_wakeup",
                            "exit_zombie", "zombie"}

\* The slot fork() is filling belongs to it alone.
ForkInv ==
    \A p \in Slot :
        /\ np[p] # None <=> pc[p] \in {"fork_parent", "fork_run"}
        /\ np[p] # None => state[np[p]] = "USED"
        /\ \A r \in Slot : np[p] = np[r] /\ np[p] # None => p = r
        /\ pc[p] = "fork_parent" => parent[np[p]] = None
        /\ pc[p] = "fork_run" => parent[np[p]] = p

\* A process that is past reparent() is nobody's parent.
Childless == {"exit_wakeup", "exit_zombie", "zombie", "none"}

ParentInv ==
    /\ \A q \in Slot : state[q] = "UNUSED" => parent[q] = None
    /\ \A q \in Slot \ {initproc} : state[q] \notin {"UNUSED", "USED"} => parent[q] # None
    /\ \A p, q \in Slot : pc[p] \in Childless => parent[q] # p

\* What wait() has seen is still so while it holds wait_lock, up to its sleep.
ScanInv ==
    /\ \A p \in Slot : pc[p] # "scan" => i[p] = 1
    /\ \A p, q \in Slot :
         pc[p] = "scan" /\ parent[q] = p /\ q < i[p] => state[q] # "ZOMBIE"
    /\ \A p, q \in Slot : pc[p] = "sleep" /\ parent[q] = p => state[q] # "ZOMBIE"

\* A sleeper keeps a child, and if it has a dead one it is init and the process
\* that handed the child over is about to wake it.
SleepInv ==
    /\ \A p \in Slot : pc[p] = "sleep" \/ state[p] = "SLEEPING" => havekids(p)
    /\ \A p, q \in Slot :
         state[p] = "SLEEPING" /\ parent[q] = p /\ state[q] = "ZOMBIE" =>
            p = initproc /\ \E h \in Slot : pc[h] = "reparent_wakeup"

\* A process that is about to be a ZOMBIE has woken its parent.
WokenInv == \A q \in Slot : pc[q] = "exit_zombie" => state[parent[q]] # "SLEEPING"

IInv ==
    /\ Types /\ Booleans /\ PlaceInv /\ LockInv /\ InitprocInv /\ ForkInv /\ ParentInv
    /\ ScanInv /\ SleepInv /\ WokenInv

-----------------------------------------------------------------------------
\* The constants of the model.
LEMMA Constants ==
    None \notin Slot /\ initproc \in Slot /\ KillPids \subseteq Slot /\ Slot \subseteq Nat
  BY ProcAssumption DEF None, initproc, Slot

\* First(S) is the least element of S.
LEMMA FirstIs ==
    ASSUME NEW S \in SUBSET Nat, S # {}
    PROVE  First(S) \in S /\ \A r \in S : First(S) <= r
<1>1. PICK x \in S : \A y \in S : ~(<<y, x>> \in OpToRel(<, Nat))
  BY WFMin, NatLessThanWellFounded, Zenon
<1>2. \A y \in S : ~(y < x)
  BY <1>1, Zenon DEF OpToRel
<1>3. \A y \in S : x <= y
  BY <1>2
<1> QED
  BY <1>3, Zenon DEF First

\* A process in exit() is not init and has a parent.
LEMMA ExitersParent ==
    ASSUME IInv
    PROVE  \A q \in Slot : pc[q] = "exit_zombie" => parent[q] \in Slot
<1> SUFFICES ASSUME NEW q \in Slot, pc[q] = "exit_zombie" PROVE parent[q] \in Slot
  OBVIOUS
<1>1. q # initproc /\ state[q] \notin {"UNUSED", "USED"}
  BY DEF IInv, InitprocInv, PlaceInv
<1> QED
  BY <1>1 DEF IInv, ParentInv, Types

\* What TypeOK says, in the form the invariant has it.
LEMMA TypesAre == Types /\ Booleans => TypeOK
  BY DEF Types, Booleans, TypeOK

\* The process table starts with the first process alone.
LEMMA InitInv == Init => IInv
<1> SUFFICES ASSUME Init PROVE IInv
  OBVIOUS
<1> USE Constants DEF Init
<1>1. Types
  BY ProcAssumption DEF Types
<1>2. Booleans
  BY Zenon DEF Booleans
<1>3. PlaceInv /\ InitprocInv
  BY DEF PlaceInv, InitprocInv
<1>4. LockInv
  BY DEF LockInv, Holding
<1>5. ForkInv /\ ParentInv
  BY DEF ForkInv, ParentInv
<1>6. ScanInv /\ SleepInv /\ WokenInv
  BY DEF ScanInv, SleepInv, WokenInv
<1> QED
  BY <1>1, <1>2, <1>3, <1>4, <1>5, <1>6 DEF IInv

\* dispatch(): only the state and the channel of a RUNNABLE process change.
LEMMA DispatchStep ==
    ASSUME NEW p \in Slot, IInv, dispatch(p)
    PROVE  IInv'
<1> USE Constants DEF IInv, dispatch, Goto, At, ptable, locals
<1>1. Types'
  BY DEF Types
<1>2. Booleans'
  BY Zenon DEF Booleans
<1>3. PlaceInv'
  BY DEF Types, PlaceInv
<1>4. LockInv'
  BY DEF Types, LockInv, Holding
<1>5. InitprocInv'
  BY DEF Types, InitprocInv, ForkInv, PlaceInv
<1>6. ForkInv'
  BY DEF Types, ForkInv, PlaceInv
<1>7. ParentInv'
  BY DEF Types, ParentInv, ForkInv, InitprocInv, PlaceInv, Childless
<1>8. ScanInv'
  BY DEF Types, ScanInv, LockInv, Holding, PlaceInv
<1>9. SleepInv'
  BY DEF Types, SleepInv, LockInv, Holding, PlaceInv, ForkInv, havekids
<1>10. WokenInv'
  BY ExitersParent DEF Types, WokenInv, LockInv, Holding
<1> QED
  BY <1>1, <1>2, <1>3, <1>4, <1>5, <1>6, <1>7, <1>8, <1>9, <1>10

\* The scheduler releases the lock that sleep() or exit() has passed to it.
LEMMA ReleaseStep ==
    ASSUME NEW p \in Slot, IInv, sched_release(p)
    PROVE  IInv'
<1> USE Constants DEF IInv, sched_release, Goto, At, ptable, locals
<1>1. Types'
  BY DEF Types
<1>2. Booleans'
  BY Zenon DEF Booleans
<1>3. PlaceInv'
  BY DEF Types, Booleans, PlaceInv
<1>4. LockInv'
  BY DEF Types, LockInv, Holding
<1>5. InitprocInv'
  BY DEF Types, InitprocInv, ForkInv, PlaceInv
<1>6. ForkInv'
  BY DEF Types, ForkInv, PlaceInv
<1>7. ParentInv'
  BY DEF Types, ParentInv, ForkInv, InitprocInv, PlaceInv, Childless
<1>8. ScanInv'
  BY DEF Types, ScanInv, LockInv, Holding, PlaceInv
<1>9. SleepInv'
  BY DEF Types, SleepInv, LockInv, Holding, PlaceInv, ForkInv, havekids
<1>10. WokenInv'
  BY ExitersParent DEF Types, WokenInv, LockInv, Holding
<1> QED
  BY <1>1, <1>2, <1>3, <1>4, <1>5, <1>6, <1>7, <1>8, <1>9, <1>10

\* fork() takes a free slot, which nobody else is filling.
LEMMA ForkStep ==
    ASSUME NEW p \in Slot, NEW q \in Slot, IInv, fork(p, q)
    PROVE  IInv'
<1> USE Constants DEF IInv, fork, MayFork, allocproc, Goto, At, ptable, locals
<1>1. Types'
  BY DEF Types
<1>2. Booleans'
  BY Zenon DEF Booleans
<1>3. PlaceInv'
  BY DEF Types, PlaceInv
<1>4. LockInv'
  BY DEF Types, LockInv, Holding
<1>5. InitprocInv'
  BY DEF Types, InitprocInv, ForkInv, PlaceInv
<1>6. ForkInv'
  BY DEF Types, ForkInv, PlaceInv, ParentInv
<1>7. ParentInv'
  BY DEF Types, ParentInv, ForkInv, InitprocInv, PlaceInv, Childless
<1>8. ScanInv'
  BY DEF Types, ScanInv, LockInv, Holding, PlaceInv
<1>9. SleepInv'
  BY DEF Types, SleepInv, LockInv, Holding, PlaceInv, ForkInv, havekids
<1>10. WokenInv'
  BY ExitersParent DEF Types, WokenInv, LockInv, Holding
<1> QED
  BY <1>1, <1>2, <1>3, <1>4, <1>5, <1>6, <1>7, <1>8, <1>9, <1>10

\* fork() enters the parent while nobody holds wait_lock.
LEMMA ForkParentStep ==
    ASSUME NEW p \in Slot, IInv, fork_parent(p)
    PROVE  IInv'
<1> USE Constants DEF IInv, fork_parent, Goto, At, ptable, locals
<1>1. Types'
  BY Zenon DEF Types
<1>2. Booleans'
  BY Zenon DEF Booleans
<1>3. PlaceInv'
  BY DEF Types, PlaceInv
<1>4. LockInv'
  BY DEF Types, LockInv, Holding
<1>5. InitprocInv'
  BY DEF Types, InitprocInv, ForkInv, PlaceInv
<1>6. ForkInv'
  BY DEF Types, ForkInv, PlaceInv
<1>7. ParentInv'
  BY DEF Types, ParentInv, ForkInv, InitprocInv, PlaceInv, Childless
<1>8. ScanInv'
  BY DEF Types, ScanInv, LockInv, Holding, PlaceInv
<1>9. SleepInv'
  BY DEF Types, SleepInv, LockInv, Holding, PlaceInv, ForkInv, havekids
<1>10. WokenInv'
  BY ExitersParent DEF Types, WokenInv, LockInv, Holding
<1> QED
  BY <1>1, <1>2, <1>3, <1>4, <1>5, <1>6, <1>7, <1>8, <1>9, <1>10

\* fork() lets its child run.
LEMMA ForkRunStep ==
    ASSUME NEW p \in Slot, IInv, fork_run(p)
    PROVE  IInv'
<1> USE Constants DEF IInv, fork_run, Goto, At, ptable, locals
<1>1. Types'
  BY Zenon DEF Types
<1>2. Booleans'
  BY Zenon DEF Booleans
<1>3. PlaceInv'
  BY DEF Types, PlaceInv
<1>4. LockInv'
  BY DEF Types, LockInv, Holding, PlaceInv, ForkInv
<1>5. InitprocInv'
  BY DEF Types, InitprocInv, ForkInv, PlaceInv
<1>6. ForkInv'
  BY DEF Types, ForkInv, PlaceInv
<1>7. ParentInv'
  BY DEF Types, ParentInv, ForkInv, InitprocInv, PlaceInv, Childless
<1>8. ScanInv'
  BY DEF Types, ScanInv, PlaceInv, ForkInv
<1>9. SleepInv'
  BY DEF Types, SleepInv, LockInv, Holding, PlaceInv, ForkInv, havekids
<1>10. WokenInv'
  BY ExitersParent DEF Types, WokenInv, LockInv, Holding
<1> QED
  BY <1>1, <1>2, <1>3, <1>4, <1>5, <1>6, <1>7, <1>8, <1>9, <1>10

\* exit() begins, or init panics.
LEMMA ExitStep ==
    ASSUME NEW p \in Slot, IInv, exit(p)
    PROVE  IInv'
<1> USE Constants DEF IInv, exit, Goto, At, ptable, locals
<1>1. Types'
  BY DEF Types
<1>2. Booleans'
  BY Zenon DEF Booleans
<1>3. PlaceInv'
  BY DEF Types, PlaceInv
<1>4. LockInv'
  BY DEF Types, LockInv, Holding
<1>5. InitprocInv'
  BY DEF Types, InitprocInv, ForkInv, PlaceInv
<1>6. ForkInv'
  BY DEF Types, ForkInv, PlaceInv
<1>7. ParentInv'
  BY DEF Types, ParentInv, ForkInv, InitprocInv, PlaceInv, Childless
<1>8. ScanInv'
  BY DEF Types, ScanInv, LockInv, Holding, PlaceInv
<1>9. SleepInv'
  BY DEF Types, SleepInv, LockInv, Holding, PlaceInv, ForkInv, havekids
<1>10. WokenInv'
  BY ExitersParent DEF Types, WokenInv, LockInv, Holding
<1> QED
  BY <1>1, <1>2, <1>3, <1>4, <1>5, <1>6, <1>7, <1>8, <1>9, <1>10

\* exit() takes wait_lock.
LEMMA ExitLockStep ==
    ASSUME NEW p \in Slot, IInv, exit_lock(p)
    PROVE  IInv'
<1> USE Constants DEF IInv, exit_lock, Goto, At, ptable, locals
<1>1. Types'
  BY DEF Types
<1>2. Booleans'
  BY Zenon DEF Booleans
<1>3. PlaceInv'
  BY DEF Types, PlaceInv
<1>4. LockInv'
  BY DEF Types, LockInv, Holding
<1>5. InitprocInv'
  BY DEF Types, InitprocInv, ForkInv, PlaceInv
<1>6. ForkInv'
  BY DEF Types, ForkInv, PlaceInv
<1>7. ParentInv'
  BY DEF Types, ParentInv, ForkInv, InitprocInv, PlaceInv, Childless
<1>8. ScanInv'
  BY DEF Types, ScanInv, LockInv, Holding, PlaceInv
<1>9. SleepInv'
  BY DEF Types, SleepInv, LockInv, Holding, PlaceInv, ForkInv, havekids
<1>10. WokenInv'
  BY ExitersParent DEF Types, WokenInv, LockInv, Holding
<1> QED
  BY <1>1, <1>2, <1>3, <1>4, <1>5, <1>6, <1>7, <1>8, <1>9, <1>10

\* reparent() hands one child to init, or finds none.
LEMMA ReparentStep ==
    ASSUME NEW p \in Slot, IInv, reparent(p)
    PROVE  IInv'
<1> DEFINE r == First(orphans(p))
<1> USE Constants DEF IInv, Goto, At, locals
<1>0. orphans(p) # {} => r \in Slot /\ parent[r] = p
  BY FirstIs DEF orphans
<1> HIDE DEF r
<1>1. CASE orphans(p) = {}
  <2> USE <1>1 DEF reparent
  <2>1. Types'
    BY DEF Types
  <2>2. Booleans'
    BY Zenon DEF Booleans
  <2>3. PlaceInv' /\ LockInv' /\ InitprocInv' /\ ForkInv'
    BY DEF Types, PlaceInv, LockInv, Holding, InitprocInv, ForkInv
  <2>4. ParentInv'
    BY DEF Types, ParentInv, PlaceInv, Childless, orphans
  <2>5. ScanInv' /\ SleepInv' /\ WokenInv'
    BY DEF Types, ScanInv, SleepInv, WokenInv, LockInv, Holding, PlaceInv, havekids
  <2> QED
    BY <2>1, <2>2, <2>3, <2>4, <2>5
<1>2. CASE orphans(p) # {}
  <2>0. /\ state[p] = "RUNNING" /\ pc[p] = "reparent" /\ parent' = [parent EXCEPT ![r] = initproc]
        /\ pc' = [pc EXCEPT ![p] = "reparent_wakeup"]
        /\ UNCHANGED <<state, killed, chan, lock, wait_lock, i, np, shell, panicked>>
        /\ r \in Slot /\ parent[r] = p
    BY <1>0, <1>2 DEF reparent, r
  <2> USE <2>0
  <2>1. Types'
    BY DEF Types
  <2>2. Booleans'
    BY Zenon DEF Booleans
  <2>3. PlaceInv' /\ LockInv' /\ InitprocInv'
    BY DEF Types, PlaceInv, LockInv, Holding, InitprocInv
  <2>4. ForkInv'
    BY DEF Types, ForkInv, PlaceInv
  <2>5. ParentInv'
    BY DEF Types, ParentInv, InitprocInv, PlaceInv, Childless
  <2>6. ScanInv' /\ WokenInv'
    BY DEF Types, ScanInv, WokenInv, LockInv, Holding, PlaceInv
  <2>7. SleepInv'
    BY DEF Types, SleepInv, LockInv, Holding, PlaceInv, havekids
  <2> QED
    BY <2>1, <2>2, <2>3, <2>4, <2>5, <2>6, <2>7
<1> QED
  BY <1>1, <1>2

\* reparent() wakes init, which may have got a dead child.
LEMMA ReparentWakeupStep ==
    ASSUME NEW p \in Slot, IInv, reparent_wakeup(p)
    PROVE  IInv'
<1> USE Constants DEF IInv, reparent_wakeup, wakeup, Goto, At, ptable, locals
<1>1. Types'
  BY DEF Types
<1>2. Booleans'
  BY Zenon DEF Booleans
<1>3. PlaceInv'
  BY DEF Types, PlaceInv
<1>4. LockInv'
  BY DEF Types, LockInv, Holding
<1>5. InitprocInv'
  BY DEF Types, InitprocInv, ForkInv, PlaceInv
<1>6. ForkInv'
  BY DEF Types, ForkInv, PlaceInv
<1>7. ParentInv'
  BY DEF Types, ParentInv, ForkInv, InitprocInv, PlaceInv, Childless
<1>8. ScanInv'
  BY DEF Types, ScanInv, LockInv, Holding, PlaceInv
<1>9. SleepInv'
  BY DEF Types, SleepInv, LockInv, Holding, PlaceInv, ForkInv, havekids
<1>10. WokenInv'
  BY ExitersParent DEF Types, WokenInv, LockInv, Holding
<1> QED
  BY <1>1, <1>2, <1>3, <1>4, <1>5, <1>6, <1>7, <1>8, <1>9, <1>10

\* exit() wakes its parent, which cannot go back to sleep before the ZOMBIE is there.
LEMMA ExitWakeupStep ==
    ASSUME NEW p \in Slot, IInv, exit_wakeup(p)
    PROVE  IInv'
<1> USE Constants DEF IInv, exit_wakeup, wakeup, Goto, At, ptable, locals
<1>1. Types'
  BY DEF Types
<1>2. Booleans'
  BY Zenon DEF Booleans
<1>3. PlaceInv'
  BY DEF Types, PlaceInv
<1>4. LockInv'
  BY DEF Types, LockInv, Holding
<1>5. InitprocInv'
  BY DEF Types, InitprocInv, ForkInv, PlaceInv
<1>6. ForkInv'
  BY DEF Types, ForkInv, PlaceInv
<1>7. ParentInv'
  BY DEF Types, ParentInv, ForkInv, InitprocInv, PlaceInv, Childless
<1>8. ScanInv'
  BY DEF Types, ScanInv, LockInv, Holding, PlaceInv
<1>9. SleepInv'
  BY DEF Types, SleepInv, LockInv, Holding, PlaceInv, ForkInv, havekids
<1>10. WokenInv'
  <2>1. p # initproc /\ state[p] = "RUNNING" /\ parent[p] \in Slot
    BY DEF Types, ParentInv, InitprocInv
  <2>2. state'[parent[p]] # "SLEEPING"
    BY <2>1, Zenon DEF PlaceInv
  <2>3. \A q \in Slot : pc'[q] = "exit_zombie" => q = p
    BY DEF Types, LockInv, Holding
  <2> QED
    BY <2>2, <2>3 DEF WokenInv
<1> QED
  BY <1>1, <1>2, <1>3, <1>4, <1>5, <1>6, <1>7, <1>8, <1>9, <1>10

\* exit() becomes a ZOMBIE and lets wait_lock go.
LEMMA ExitZombieStep ==
    ASSUME NEW p \in Slot, IInv, exit_zombie(p)
    PROVE  IInv'
<1> USE Constants DEF IInv, exit_zombie, Goto, At, ptable, locals
<1>1. Types'
  BY DEF Types
<1>2. Booleans'
  BY Zenon DEF Booleans
<1>3. PlaceInv'
  BY DEF Types, Booleans, PlaceInv
<1>4. LockInv'
  BY DEF Types, LockInv, Holding
<1>5. InitprocInv'
  BY DEF Types, InitprocInv, ForkInv, PlaceInv
<1>6. ForkInv'
  BY DEF Types, ForkInv, PlaceInv
<1>7. ParentInv'
  BY DEF Types, ParentInv, ForkInv, InitprocInv, PlaceInv, Childless
<1>8. ScanInv'
  BY DEF Types, ScanInv, LockInv, Holding, PlaceInv
<1>9. SleepInv'
  BY DEF Types, SleepInv, WokenInv, LockInv, Holding, PlaceInv, havekids
<1>10. WokenInv'
  BY ExitersParent DEF Types, WokenInv, LockInv, Holding
<1> QED
  BY <1>1, <1>2, <1>3, <1>4, <1>5, <1>6, <1>7, <1>8, <1>9, <1>10

\* wait() takes wait_lock, at its start and after sleep().
LEMMA WaitAcquireStep ==
    ASSUME NEW p \in Slot, IInv, wait(p) \/ wait_again(p)
    PROVE  IInv'
<1> USE Constants DEF IInv, wait, wait_again, wait_acquire, Goto, At, ptable, locals
<1>1. Types'
  BY DEF Types
<1>2. Booleans'
  BY Zenon DEF Booleans
<1>3. PlaceInv'
  BY DEF Types, PlaceInv
<1>4. LockInv'
  BY DEF Types, LockInv, Holding
<1>5. InitprocInv'
  BY DEF Types, InitprocInv, ForkInv, PlaceInv
<1>6. ForkInv'
  BY DEF Types, ForkInv, PlaceInv
<1>7. ParentInv'
  BY DEF Types, ParentInv, ForkInv, InitprocInv, PlaceInv, Childless
<1>8. ScanInv'
  <2>1. \A q \in Slot : ~(q < 1)
    BY DEF Slot
  <2>2. i[p] = 1
    BY DEF ScanInv
  <2> QED
    BY <2>1, <2>2 DEF Types, ScanInv
<1>9. SleepInv'
  BY DEF Types, SleepInv, LockInv, Holding, PlaceInv, ForkInv, havekids
<1>10. WokenInv'
  BY ExitersParent DEF Types, WokenInv, LockInv, Holding
<1> QED
  BY <1>1, <1>2, <1>3, <1>4, <1>5, <1>6, <1>7, <1>8, <1>9, <1>10

\* wait() looks at its next child and reaps it if it is a ZOMBIE.
LEMMA WaitScanStep ==
    ASSUME NEW p \in Slot, IInv, wait_scan(p)
    PROVE  IInv'
<1> DEFINE q == First(Unscanned(p))
<1> USE Constants DEF IInv
<1>1. q \in Slot /\ parent[q] = p /\ \A r \in Slot : parent[r] = p /\ r < q => r < i[p]
  <2>1. i[p] \in Nat /\ Unscanned(p) \subseteq Slot /\ Unscanned(p) # {}
    BY ProcAssumption DEF Types, Unscanned, Slot, wait_scan
  <2>2. q \in Unscanned(p) /\ \A r \in Unscanned(p) : q <= r
    BY <2>1, FirstIs, Zenon
  <2>3. \A r \in Slot : parent[r] = p /\ r >= i[p] => r \in Unscanned(p)
    BY <2>1, ProcAssumption DEF Unscanned, Slot
  <2> QED
    <3>1. q \in Slot /\ parent[q] = p
      BY <2>1, <2>2, Zenon DEF Unscanned
    <3>2. ASSUME NEW r \in Slot, parent[r] = p, r < q PROVE r < i[p]
      <4> HIDE DEF q
      <4>1. r \in Nat /\ q \in Nat
        BY <3>1
      <4> QED
        BY <2>1, <2>2, <2>3, <3>2, <4>1
    <3> QED
      BY <3>1, <3>2
<1>2. /\ state[p] = "RUNNING" /\ pc[p] = "scan" /\ ~lock[q]
      /\ UNCHANGED <<lock, np, panicked>>
  BY DEF wait_scan, At, child_lock
<1>3. CASE state[q] = "ZOMBIE"
  <2>1. /\ wait_lock' = None /\ pc' = [pc EXCEPT ![p] = "user"] /\ i' = [i EXCEPT ![p] = 1]
        /\ \/ /\ state' = [state EXCEPT ![q] = "UNUSED"] /\ parent' = [parent EXCEPT ![q] = None]
              /\ killed' = [killed EXCEPT ![q] = FALSE] /\ chan' = [chan EXCEPT ![q] = None]
              /\ shell' = IF p = initproc /\ q = shell THEN None ELSE shell
           \/ UNCHANGED <<state, parent, killed, chan, shell>>
    BY <1>3 DEF wait_scan, Goto, freeproc, ptable
  <2> HIDE DEF q
  <2> USE <1>1, <1>2, <1>3, <2>1
  <2>2. Types'
    BY ProcAssumption DEF Types
  <2>3. Booleans'
    BY Zenon DEF Booleans
  <2>4. PlaceInv'
    BY DEF Types, PlaceInv
  <2>5. LockInv'
    BY DEF Types, LockInv, Holding
  <2>6. InitprocInv'
    BY DEF Types, InitprocInv
  <2>7. ForkInv'
    <3>1. \A x \in Slot : np[x] # q
      BY DEF Types, ForkInv
    <3>2. np[p] = None
      BY DEF ForkInv
    <3>3. \A x \in Slot : np[x] # None =>
            state'[np[x]] = state[np[x]] /\ parent'[np[x]] = parent[np[x]]
      BY <3>1, Zenon DEF Types
    <3>4. \A x \in Slot : pc'[x] = IF x = p THEN "user" ELSE pc[x]
      BY DEF Types
    <3> QED
      BY <3>2, <3>3, <3>4 DEF ForkInv
  <2>8. ParentInv'
    BY DEF Types, ParentInv, PlaceInv, Childless
  <2>9. ScanInv'
    BY DEF Types, ScanInv, LockInv, Holding, PlaceInv
  <2>10. SleepInv'
    BY DEF Types, SleepInv, LockInv, Holding, PlaceInv, havekids
  <2>11. WokenInv'
    BY DEF Types, WokenInv, LockInv, Holding
  <2> QED
    BY <2>2, <2>3, <2>4, <2>5, <2>6, <2>7, <2>8, <2>9, <2>10, <2>11
<1>4. CASE state[q] # "ZOMBIE"
  <2>1. i' = [i EXCEPT ![p] = q + 1] /\ UNCHANGED <<state, parent, killed, chan, pc, wait_lock, shell>>
    BY <1>4 DEF wait_scan, next_slot, ptable
  <2> HIDE DEF q, IInv
  <2>2. q + 1 \in 1 .. NPROC + 1
    BY <1>1, ProcAssumption DEF Slot
  <2>3. i' \in [Slot -> 1 .. NPROC + 1]
    BY <2>1, <2>2 DEF IInv, Types
  <2>4. Types'
    BY <1>2, <2>1, <2>3, Zenon DEF IInv, Types
  <2>5. Booleans'
    BY <1>2, <2>1, Zenon DEF IInv, Booleans
  <2>6. PlaceInv'
    BY <1>2, <2>1, Zenon DEF IInv, PlaceInv
  <2>7. LockInv' /\ InitprocInv' /\ WokenInv'
    BY <2>1, Zenon DEF IInv, LockInv, InitprocInv, WokenInv
  <2>8. ForkInv' /\ ParentInv'
    <3>1. ForkInv'
      BY <1>2, <2>1 DEF IInv, ForkInv
    <3>2. ParentInv'
      BY <2>1, Zenon DEF IInv, ParentInv
    <3> QED
      BY <3>1, <3>2
  <2>9. SleepInv'
    BY <2>1, Zenon DEF IInv, SleepInv, havekids
  <2>10. ScanInv'
    <3>1. \A r \in Slot : parent[r] = p /\ r < q + 1 => state[r] # "ZOMBIE"
      BY <1>1, <1>2, <1>4 DEF IInv, ScanInv
    <3>2. \A r \in Slot : i'[r] = IF r = p THEN q + 1 ELSE i[r]
      BY <2>1 DEF IInv, Types
    <3> QED
      BY <1>2, <2>1, <3>1, <3>2 DEF IInv, ScanInv
  <2> QED
    BY <2>4, <2>5, <2>6, <2>7, <2>8, <2>9, <2>10, Zenon DEF IInv
<1> QED
  BY <1>3, <1>4

\* wait() has seen every child and none of them is a ZOMBIE.
LEMMA WaitDecideStep ==
    ASSUME NEW p \in Slot, IInv, wait_decide(p)
    PROVE  IInv'
<1> USE Constants DEF IInv, wait_decide, Unscanned, Goto, At, ptable, locals
<1>1. Types'
  BY ProcAssumption DEF Types
<1>2. Booleans'
  BY Zenon DEF Booleans
<1>3. PlaceInv'
  BY DEF Types, PlaceInv
<1>4. LockInv'
  BY DEF Types, LockInv, Holding
<1>5. InitprocInv'
  BY DEF Types, InitprocInv, ForkInv, PlaceInv
<1>6. ForkInv'
  BY DEF Types, ForkInv, PlaceInv
<1>7. ParentInv'
  BY DEF Types, ParentInv, ForkInv, InitprocInv, PlaceInv, Childless
<1>8. ScanInv'
  <2>1. \A q \in Slot : parent[q] = p => q < i[p]
    BY ProcAssumption DEF Types, Slot
  <2> QED
    BY <2>1 DEF Types, ScanInv
<1>9. SleepInv'
  BY DEF Types, SleepInv, LockInv, Holding, PlaceInv, ForkInv, havekids
<1>10. WokenInv'
  BY ExitersParent DEF Types, WokenInv, LockInv, Holding
<1> QED
  BY <1>1, <1>2, <1>3, <1>4, <1>5, <1>6, <1>7, <1>8, <1>9, <1>10

\* sleep() lets wait_lock go when the process is SLEEPING already.
LEMMA SleepStep ==
    ASSUME NEW p \in Slot, IInv, sleep(p)
    PROVE  IInv'
<1> USE Constants DEF IInv, sleep, Goto, At, ptable, locals
<1>1. Types'
  BY DEF Types
<1>2. Booleans'
  BY Zenon DEF Booleans
<1>3. PlaceInv'
  BY DEF Types, PlaceInv
<1>4. LockInv'
  BY DEF Types, LockInv, Holding
<1>5. InitprocInv'
  BY DEF Types, InitprocInv, ForkInv, PlaceInv
<1>6. ForkInv'
  BY DEF Types, ForkInv, PlaceInv
<1>7. ParentInv'
  BY DEF Types, ParentInv, ForkInv, InitprocInv, PlaceInv, Childless
<1>8. ScanInv'
  BY DEF Types, ScanInv, LockInv, Holding, PlaceInv
<1>9. SleepInv'
  BY DEF Types, SleepInv, ScanInv, PlaceInv, havekids
<1>10. WokenInv'
  BY ExitersParent DEF Types, WokenInv, LockInv, Holding
<1> QED
  BY <1>1, <1>2, <1>3, <1>4, <1>5, <1>6, <1>7, <1>8, <1>9, <1>10

\* kill() makes a sleeper RUNNABLE.
LEMMA KillStep ==
    ASSUME NEW p \in Slot, NEW q \in KillPids, IInv, kill(p, q)
    PROVE  IInv'
<1> USE Constants DEF IInv, kill, Goto, At, ptable, locals
<1>1. Types'
  BY DEF Types
<1>2. Booleans'
  BY Zenon DEF Booleans
<1>3. PlaceInv'
  BY DEF Types, PlaceInv
<1>4. LockInv'
  BY DEF Types, LockInv, Holding
<1>5. InitprocInv'
  BY DEF Types, InitprocInv, ForkInv, PlaceInv
<1>6. ForkInv'
  BY DEF Types, ForkInv, PlaceInv
<1>7. ParentInv'
  BY DEF Types, ParentInv, ForkInv, InitprocInv, PlaceInv, Childless
<1>8. ScanInv'
  BY DEF Types, ScanInv, LockInv, Holding, PlaceInv
<1>9. SleepInv'
  BY DEF Types, SleepInv, LockInv, Holding, PlaceInv, ForkInv, havekids
<1>10. WokenInv'
  BY ExitersParent DEF Types, WokenInv, LockInv, Holding
<1> QED
  BY <1>1, <1>2, <1>3, <1>4, <1>5, <1>6, <1>7, <1>8, <1>9, <1>10

\* init cannot fork its shell and panics.
LEMMA ForkFailsStep ==
    ASSUME IInv, fork_fails
    PROVE  IInv'
<1> USE Constants DEF IInv, fork_fails, MayFork, Goto, At, ptable, locals
<1>1. Types'
  BY DEF Types
<1>2. Booleans'
  BY Zenon DEF Booleans
<1>3. PlaceInv'
  BY DEF Types, PlaceInv
<1>4. LockInv'
  BY DEF Types, LockInv, Holding
<1>5. InitprocInv'
  BY DEF Types, InitprocInv, ForkInv, PlaceInv
<1>6. ForkInv'
  BY DEF Types, ForkInv, PlaceInv
<1>7. ParentInv'
  BY DEF Types, ParentInv, ForkInv, InitprocInv, PlaceInv, Childless
<1>8. ScanInv'
  BY DEF Types, ScanInv, LockInv, Holding, PlaceInv
<1>9. SleepInv'
  BY DEF Types, SleepInv, LockInv, Holding, PlaceInv, ForkInv, havekids
<1>10. WokenInv'
  BY ExitersParent DEF Types, WokenInv, LockInv, Holding
<1> QED
  BY <1>1, <1>2, <1>3, <1>4, <1>5, <1>6, <1>7, <1>8, <1>9, <1>10

\* Every step of Next preserves the invariant.
LEMMA StepInv == IInv /\ [Next]_vars => IInv'
<1> SUFFICES ASSUME IInv, [Next]_vars PROVE IInv'
  OBVIOUS
<1>1. CASE UNCHANGED vars
  <2> USE <1>1 DEF vars, IInv
  <2>1. Types' /\ Booleans'
    BY Zenon DEF Types, Booleans
  <2>2. PlaceInv' /\ LockInv' /\ InitprocInv'
    BY Zenon DEF PlaceInv, LockInv, InitprocInv
  <2>3. ForkInv' /\ ParentInv'
    BY Zenon DEF ForkInv, ParentInv
  <2>4. ScanInv' /\ SleepInv' /\ WokenInv'
    BY Zenon DEF ScanInv, SleepInv, WokenInv, havekids
  <2> QED
    BY <2>1, <2>2, <2>3, <2>4, Zenon
<1>2. CASE \E p \in Slot : dispatch(p) \/ sched_release(p) \/ exit(p) \/ wait(p)
  BY <1>2, DispatchStep, ReleaseStep, ExitStep, WaitAcquireStep
<1>3. CASE \E p \in Slot : Step(p)
  BY <1>3, ForkParentStep, ForkRunStep, ExitLockStep, ReparentStep, ReparentWakeupStep,
     ExitWakeupStep, ExitZombieStep, WaitScanStep, WaitDecideStep, SleepStep, WaitAcquireStep
     DEF Step
<1>4. CASE \E p, q \in Slot : fork(p, q)
  BY <1>4, ForkStep
<1>5. CASE \E p \in Slot, q \in KillPids : kill(p, q)
  BY <1>5, KillStep
<1>6. CASE fork_fails
  BY <1>6, ForkFailsStep
<1>7. CASE panic
  BY <1>1, <1>7 DEF panic
<1> QED
  BY <1>1, <1>2, <1>3, <1>4, <1>5, <1>6, <1>7 DEF Next

\* The invariant holds in every behaviour of the process table.
LEMMA Invariance == Spec => []IInv
  BY InitInv, StepInv, PTL DEF Spec

-----------------------------------------------------------------------------
\* A parent that has not left reparent() behind is alive.
LEMMA LiveParents == IInv => ParentIsLive
<1> SUFFICES ASSUME IInv, NEW q \in Slot \ {initproc}, state[q] \notin {"UNUSED", "USED"}
             PROVE  parent[q] # None /\ Live(parent[q])
  BY DEF ParentIsLive
<1> USE DEF IInv
<1>1. parent[q] \in Slot
  BY DEF Types, ParentInv
<1>2. pc[parent[q]] # "none" /\ pc[parent[q]] # "zombie"
  BY <1>1 DEF ParentInv, Childless
<1> QED
  BY <1>1, <1>2, Constants, Zenon DEF PlaceInv, Live, Booleans

\* A sleeper's children, none of them dead, are alive.
LEMMA LiveChildren == IInv => WaiterHasLiveChild
<1> SUFFICES ASSUME IInv, wait_lock = None, NEW p \in Slot, state[p] = "SLEEPING"
             PROVE  /\ \E q \in Slot : parent[q] = p /\ Live(q)
                    /\ ~\E q \in Slot : parent[q] = p /\ state[q] = "ZOMBIE"
  BY DEF WaiterHasLiveChild
<1> USE Constants DEF IInv
<1>1. ~\E q \in Slot : parent[q] = p /\ state[q] = "ZOMBIE"
  BY DEF SleepInv, LockInv, Holding
<1>2. PICK q \in Slot : parent[q] = p
  BY DEF SleepInv, havekids
<1> QED
  BY <1>1, <1>2 DEF Live, ParentInv

\* In every behaviour, whatever the number of slots and whoever is killed:
\* a process has a living parent whenever wait_lock is free, and a slot that
\* fork() can take is off its kernel stack.  (fork, exit, reparent, wait, kill)
THEOREM ProcessTableCorrect == Spec => []SlotsSound
<1>1. IInv => SlotsSound
  BY TypesAre, LiveParents DEF IInv, SlotsSound, FreeIsOffStack, PlaceInv
<1> QED
  BY <1>1, Invariance, PTL

\* In every behaviour no process sleeps in wait() without a child that can
\* still wake it, and none sleeps over a child that is dead: exit() and wait()
\* lose no wakeup.  (wait, sleep, wakeup, exit, reparent)
THEOREM NoLostWakeup == Spec => []WaiterHasLiveChild
  BY LiveChildren, Invariance, PTL
=============================================================================
