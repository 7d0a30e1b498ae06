------------------------------ MODULE Uthread ------------------------------
(***************************************************************************)
(* The user-level threads of user/uthread.c and user/lock.c, started by    *)
(* _main() in user/ulib.c.  Threads are cooperative: only current_thread   *)
(* runs, and it loses the processor only in tsched().  What a thread's     *)
(* function does is any sequence of library calls; it releases the locks   *)
(* it has acquired, and no others, before it joins a thread or returns.    *)
(* malloc() is taken to succeed.                                           *)
(*                                                                         *)
(* Grain: the code between two calls of tswtch() is one action.            *)
(***************************************************************************)
EXTENDS Naturals, FiniteSets

CONSTANTS
    Thread,    \* addresses of struct thread
    Main,      \* the one _main() allocates
    None,      \* the null pointer
    Lock,      \* struct lock variables of the program
    NTHREAD,   \* length of threads[], 16 in the code
    TIDS       \* values of a uint8, 256 in the code

ASSUME UthreadAssumption ==
    /\ Main \in Thread /\ None \notin Thread
    /\ NTHREAD \in Nat \ {0} /\ TIDS \in Nat \ {0, 1}

VARIABLES
    threads,   \* threads[]
    current,   \* current_thread
    next_tid,
    state,     \* t->state, "UNUSED" before tcreate() allocates t
    tid,       \* t->tid
    pc,        \* where t is, or resumes when tswtch() loads its tcontext
    arg,       \* the thread t passes to tjoin(), or the lock to acquire()
    target,    \* target_thread of t's tjoin()
    locked,    \* lk->locked
    ltid,      \* lk->tid
    owner,     \* threads that have returned from acquire(lk) (history)
    joined,    \* threads for which a tjoin() has returned 0 (history)
    process    \* "running", "exited" by main(), or "aborted" by a lock check

table == <<threads, next_tid, tid>>
calls == <<arg, target, joined>>
locks == <<locked, ltid, owner>>
vars == <<threads, current, next_tid, state, tid, pc, arg, target, locked, ltid,
          owner, joined, process>>

Index == 0 .. NTHREAD - 1

HoldsNone(t) == \A l \in Lock : t \notin owner[l]

\* A thread whose function is being executed.
Running(t) == process = "running" /\ current = t /\ pc[t] = "run"

\* _main(), and initlock() of every lock: -1 in a uint8 is TIDS - 1.
Init ==
    /\ threads = [i \in Index |-> IF i = 0 THEN Main ELSE None]
    /\ current = Main
    /\ next_tid = 1
    /\ state = [t \in Thread |-> IF t = Main THEN "RUNNING" ELSE "UNUSED"]
    /\ tid = [t \in Thread |-> 1]
    /\ pc = [t \in Thread |-> "run"]
    /\ arg = [t \in Thread |-> None]
    /\ target = [t \in Thread |-> None]
    /\ locked = [l \in Lock |-> FALSE]
    /\ ltid = [l \in Lock |-> TIDS - 1]
    /\ owner = [l \in Lock |-> {}]
    /\ joined = {}
    /\ process = "running"

-----------------------------------------------------------------------------
\* The scheduler

First(S) == CHOOSE i \in S : \A j \in S : i <= j

InTable(t) == {i \in Index : threads[i] = t}

current_index == IF InTable(current) = {} THEN 0 ELSE First(InTable(current))

Slot(i) == threads[(current_index + i) % NTHREAD]

\* Distances from current_thread of the slots that may run; the last is its own.
Candidates(st) == {i \in 1 .. NTHREAD : Slot(i) # None /\ st[Slot(i)] = "RUNNABLE"}

\* tsched(), called with thread states st.
tsched(st) ==
    /\ state' = st
    /\ current' = IF Candidates(st) = {} THEN current ELSE Slot(First(Candidates(st)))

\* The body of tyield().
yielding(t) == tsched([state EXCEPT ![t] = "RUNNABLE"])

tyield(t) ==
    /\ Running(t)
    /\ yielding(t)
    /\ UNCHANGED <<table, pc, calls, locks, process>>

-----------------------------------------------------------------------------
\* Threads

FreeSlot == {i \in Index : threads[i] = None}

tcreate(t, u) ==
    /\ Running(t)
    /\ state[u] = "UNUSED"
    /\ state' = [state EXCEPT ![u] = "RUNNABLE"]
    /\ tid' = [tid EXCEPT ![u] = next_tid % TIDS]
    /\ next_tid' = next_tid + 1
    /\ threads' = IF FreeSlot = {} THEN threads
                  ELSE [threads EXCEPT ![First(FreeSlot)] = u]
    /\ UNCHANGED <<current, pc, calls, locks, process>>

(***************************************************************************)
(* thread_wrapper() after func() returns.  When tsched() finds no thread,  *)
(* it returns, and so does thread_wrapper(): its return address is         *)
(* thread_wrapper itself, which calls func() again.                        *)
(***************************************************************************)
thread_wrapper(t) ==
    /\ Running(t)
    /\ t # Main /\ HoldsNone(t)
    /\ tsched([state EXCEPT ![t] = "EXITED"])
    /\ pc' = IF Candidates(state') = {} THEN pc ELSE [pc EXCEPT ![t] = "done"]
    /\ UNCHANGED <<table, calls, locks, process>>

\* main() returns to _main(), which exits the process.
main_exit ==
    /\ Running(Main)
    /\ process' = "exited"
    /\ UNCHANGED <<table, current, state, pc, calls, locks>>

\* The loop of tjoin(u->tid), where found is target_thread.
join_loop(t, u, found) ==
    IF state[found] = "EXITED"
      THEN /\ pc' = [pc EXCEPT ![t] = "run"]
           /\ arg' = [arg EXCEPT ![t] = None]
           /\ target' = [target EXCEPT ![t] = None]
           /\ joined' = joined \cup {u}
           /\ UNCHANGED <<state, current>>
      ELSE /\ pc' = [pc EXCEPT ![t] = "tjoin"]
           /\ arg' = [arg EXCEPT ![t] = u]
           /\ target' = [target EXCEPT ![t] = found]
           /\ yielding(t)
           /\ UNCHANGED joined

\* tjoin(u->tid, ...) for a thread u the program has created; -1 if no thread
\* of the table has that id.
tjoin(t, u) ==
    LET found == {i \in Index : threads[i] # None /\ tid[threads[i]] = tid[u]} IN
    /\ Running(t)
    /\ HoldsNone(t)
    /\ u # t /\ u # Main /\ state[u] # "UNUSED"
    /\ IF found = {} THEN UNCHANGED <<state, current, pc, calls>>
                     ELSE join_loop(t, u, threads[First(found)])
    /\ UNCHANGED <<table, locks, process>>

\* Mutant of tjoin_resume: it never looks at the state again.
tjoin_resume_stale(t) ==
    /\ process = "running" /\ current = t /\ pc[t] = "tjoin"
    /\ yielding(t)
    /\ UNCHANGED <<table, pc, calls, locks, process>>

tjoin_resume(t) ==
    /\ process = "running" /\ current = t /\ pc[t] = "tjoin"
    /\ join_loop(t, arg[t], target[t])
    /\ UNCHANGED <<table, locks, process>>

-----------------------------------------------------------------------------
\* Locks

holding(t, l) == locked[l] /\ ltid[l] = tid[t]

\* One test-and-set of acquire()'s loop.
spin(t, l) ==
    IF locked[l]
      THEN /\ pc' = [pc EXCEPT ![t] = "acquire"]
           /\ arg' = [arg EXCEPT ![t] = l]
           /\ yielding(t)
           /\ UNCHANGED locks
      ELSE /\ locked' = [locked EXCEPT ![l] = TRUE]
           /\ ltid' = [ltid EXCEPT ![l] = tid[t]]
           /\ owner' = [owner EXCEPT ![l] = @ \cup {t}]
           /\ pc' = [pc EXCEPT ![t] = "run"]
           /\ arg' = [arg EXCEPT ![t] = None]
           /\ UNCHANGED <<state, current>>

acquire(t, l) ==
    /\ Running(t)
    /\ t \notin owner[l]
    /\ IF holding(t, l)
         THEN /\ process' = "aborted"
              /\ UNCHANGED <<current, state, pc, arg, locks>>
         ELSE spin(t, l) /\ UNCHANGED process
    /\ UNCHANGED <<table, target, joined>>

\* Mutant of acquire_resume: the lock is taken without another test-and-set.
acquire_resume_no_retest(t) ==
    /\ process = "running" /\ current = t /\ pc[t] = "acquire"
    /\ owner' = [owner EXCEPT ![arg[t]] = @ \cup {t}]
    /\ pc' = [pc EXCEPT ![t] = "run"]
    /\ UNCHANGED <<table, current, state, calls, locked, ltid, process>>

acquire_resume(t) ==
    /\ process = "running" /\ current = t /\ pc[t] = "acquire"
    /\ spin(t, arg[t])
    /\ UNCHANGED <<table, target, joined, process>>

release(t, l) ==
    /\ Running(t)
    /\ t \in owner[l]
    /\ IF ~holding(t, l)
         THEN /\ process' = "aborted"
              /\ UNCHANGED <<current, state, locks>>
         ELSE /\ ltid' = [ltid EXCEPT ![l] = TIDS - 1]
              /\ locked' = [locked EXCEPT ![l] = FALSE]
              /\ owner' = [owner EXCEPT ![l] = @ \ {t}]
              /\ yielding(t)
              /\ UNCHANGED process
    /\ UNCHANGED <<table, pc, calls>>

Next ==
    \/ main_exit
    \/ \E t \in Thread : tyield(t) \/ thread_wrapper(t) \/ tjoin_resume(t) \/ acquire_resume(t)
    \/ \E t, u \in Thread : tcreate(t, u) \/ tjoin(t, u)
    \/ \E t \in Thread, l \in Lock : acquire(t, l) \/ release(t, l)

Spec == Init /\ [][Next]_vars

(***************************************************************************)
(* Fairness: the process runs, and a thread leaves its critical sections:  *)
(* given the processor again and again, it comes to its release().         *)
(***************************************************************************)
FairSpec ==
    /\ Spec
    /\ WF_vars(Next)
    /\ \A t \in Thread, l \in Lock : SF_vars(release(t, l))

-----------------------------------------------------------------------------
\* Properties

\* Types of the library's variables and of the histories.
TypeOK ==
    /\ threads \in [Index -> Thread \cup {None}]
    /\ current \in Thread
    /\ next_tid \in 1 .. Cardinality(Thread)
    /\ state \in [Thread -> {"UNUSED", "RUNNABLE", "RUNNING", "EXITED"}]
    /\ tid \in [Thread -> 0 .. TIDS - 1]
    /\ pc \in [Thread -> {"run", "tjoin", "acquire", "done"}]
    /\ arg \in [Thread -> Thread \cup Lock \cup {None}]
    /\ target \in [Thread -> Thread \cup {None}]
    /\ locked \in [Lock -> BOOLEAN] /\ ltid \in [Lock -> 0 .. TIDS - 1]
    /\ owner \in [Lock -> SUBSET Thread]
    /\ joined \subseteq Thread
    /\ process \in {"running", "exited", "aborted"}

\* acquire() and release() exclude: no two threads are between them, although
\* they switch inside the critical section and share thread ids.
MutualExclusion ==
    \A l \in Lock : \A t, u \in owner[l] : t = u

\* The processor is never given to a thread that has returned from its
\* function: thread_wrapper() is never left by tsched() finding nobody to run.
CurrentIsAlive == state[current] # "EXITED" /\ InTable(current) # {}

\* A tjoin() that returns 0 returns after the thread it was asked to wait for
\* has finished, as long as thread ids have not wrapped around.
JoinSound == \A t \in joined : state[t] = "EXITED"

\* Round robin: a runnable thread of the table gets the processor.
RunnableRuns ==
    \A t \in Thread :
        state[t] = "RUNNABLE" /\ InTable(t) # {} ~> current = t \/ process # "running"

\* acquire() is free of starvation: release() yields in ring order, so a
\* spinning thread finds the lock free before it can be overtaken forever.
AcquireServed ==
    \A t \in Thread : pc[t] = "acquire" ~> pc[t] = "run" \/ process # "running"

\* tjoin() returns once the thread waited for has finished, if no other
\* thread of the table has its id.
UniqueTid(t) ==
    \A i \in Index : threads[i] # None /\ tid[threads[i]] = tid[t] => threads[i] = t
JoinReturns ==
    \A t, u \in Thread :
        pc[t] = "tjoin" /\ arg[t] = u /\ state[u] = "EXITED" /\ UniqueTid(u)
            ~> pc[t] = "run" \/ process # "running"

\* What user.h says of tjoin(), without a condition on the id: it waits for
\* the thread to finish, and then returns.
JoinReturnsAlways ==
    \A t, u \in Thread :
        pc[t] = "tjoin" /\ arg[t] = u /\ state[u] = "EXITED"
            ~> pc[t] = "run" \/ process # "running"

\* What the library promises at every moment: locks exclude, the thread that
\* runs has not exited, and a join returns only for a thread that has.
ThreadsSound == TypeOK /\ MutualExclusion /\ CurrentIsAlive /\ JoinSound

\* ... and in the end: threads run, get their locks and return from joins.
ThreadsProgress == RunnableRuns /\ AcquireServed /\ JoinReturns
=============================================================================
