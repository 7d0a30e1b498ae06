--------------------------- MODULE UthreadProofs ---------------------------
(***************************************************************************)
(* Proofs about Uthread, for any table length, any set of threads and any  *)
(* set of locks: the locks exclude and the processor stays with a thread   *)
(* that has not exited, whatever the thread ids do; and a join returns     *)
(* only for a thread that has finished, as long as ids do not wrap.        *)
(***************************************************************************)
EXTENDS Uthread, Integers, FiniteSetTheorems, WellFoundedInduction, TLAPS

\* The types of the variables, without next_tid and what takes another prover.
Types ==
    /\ threads \in [Index -> Thread \cup {None}]
    /\ current \in Thread
    /\ next_tid \in Nat
    /\ state \in [Thread -> {"UNUSED", "RUNNABLE", "RUNNING", "EXITED"}]
    /\ tid \in [Thread -> 0 .. TIDS - 1]
    /\ pc \in [Thread -> {"run", "tjoin", "acquire", "done"}]
    /\ arg \in [Thread -> Thread \cup Lock \cup {None}]
    /\ target \in [Thread -> Thread \cup {None}]
    /\ ltid \in [Lock -> 0 .. TIDS - 1]
    /\ owner \in [Lock -> SUBSET Thread]
    /\ joined \subseteq Thread
    /\ process \in {"running", "exited", "aborted"}

Booleans == locked \in [Lock -> BOOLEAN]

\* A thread in tjoin() or acquire() has the arguments of that call.
ArgInv ==
    \A t \in Thread :
        /\ pc[t] = "tjoin" => arg[t] \in Thread /\ state[arg[t]] # "UNUSED" /\ target[t] \in Thread
        /\ pc[t] = "acquire" => arg[t] \in Lock

\* lk->locked says whether somebody is between acquire() and release().
LockInv == \A l \in Lock : (owner[l] # {} => locked[l]) /\ \A t, u \in owner[l] : t = u

\* main() is in the table for good, never exits, and can run when it does not.
MainInv ==
    /\ threads[0] = Main
    /\ state[Main] \in {"RUNNABLE", "RUNNING"}
    /\ current # Main => state[Main] = "RUNNABLE"

\* The table holds threads that tcreate() has made, the current one with them.
TableInv ==
    /\ \A j \in Index : threads[j] # None => state[threads[j]] # "UNUSED"
    /\ CurrentIsAlive

IInv == Types /\ Booleans /\ ArgInv /\ LockInv /\ MainInv /\ TableInv

\* The threads there are; the next id is their number.
Made == {t \in Thread : state[t] # "UNUSED"}

\* Ids below next_tid are given to one thread each, but for main()'s, which is
\* that of the first thread too; so tjoin() finds its thread, or main().
TidInv ==
    /\ next_tid = Cardinality(Made)
    /\ \A t \in Made \ {Main} : tid[t] < next_tid
    /\ \A t, u \in Made \ {Main} : tid[t] = tid[u] => t = u
    /\ \A t \in Thread : pc[t] = "tjoin" => target[t] \in {Main, arg[t]}
    /\ JoinSound

-----------------------------------------------------------------------------
\* The ring of tsched().

\* First(S) is the least element of S.
LEMMA FirstIs ==
    ASSUME NEW S \in SUBSET Nat, S # {}
    PROVE  First(S) \in S /\ \A r \in S : First(S) <= r
<1>1. PICK x \in S : \A y \in S : ~(<<y, x>> \in OpToRel(<, Nat))
  BY WFMin, NatLessThanWellFounded, Zenon
<1>2. \A y \in S : ~(y < x)
  BY <1>1, Zenon DEF OpToRel
<1>3. \A y \in S : x <= y
  BY <1>2
<1> QED
  BY <1>3, Zenon DEF First

\* A remainder is an index of the table, and the length leaves none.
LEMMA ModIs ==
    ASSUME NEW x \in Nat, NEW n \in Nat \ {0}
    PROVE  x % n \in 0 .. n - 1 /\ n % n = 0
  OBVIOUS

\* The slots that tsched() looks at are slots of the table, and it comes by
\* main()'s, the first.
LEMMA Ring ==
    ASSUME Types, CurrentIsAlive
    PROVE  /\ \A j \in 1 .. NTHREAD : \E k \in Index : Slot(j) = threads[k]
           /\ \E j \in 1 .. NTHREAD : Slot(j) = threads[0]
<1>1. current_index \in Index
  <2>1. InTable(current) \subseteq Nat /\ InTable(current) # {} /\ InTable(current) \subseteq Index
    BY UthreadAssumption DEF InTable, Index, CurrentIsAlive
  <2> QED
    BY <2>1, FirstIs DEF current_index
<1> DEFINE c == current_index
<1> HIDE DEF c
<1>2. c \in 0 .. NTHREAD - 1 /\ NTHREAD \in Nat \ {0}
  BY <1>1, UthreadAssumption DEF Index, c
<1>3. ASSUME NEW j \in 1 .. NTHREAD PROVE \E k \in Index : Slot(j) = threads[k]
  <2>1. c + j \in Nat
    BY <1>2
  <2>2. (c + j) % NTHREAD \in 0 .. NTHREAD - 1
    BY <1>2, <2>1, ModIs
  <2> QED
    BY <2>2 DEF Slot, Index, c
<1>4. NTHREAD - c \in 1 .. NTHREAD /\ c + (NTHREAD - c) = NTHREAD /\ NTHREAD % NTHREAD = 0
  BY <1>2, ModIs
<1>5. Slot(NTHREAD - c) = threads[0]
  BY <1>4 DEF Slot, c
<1> QED
  BY <1>3, <1>4, <1>5

\* tsched() gives the processor to a RUNNABLE thread of the table; it finds one
\* if main() is RUNNABLE.
LEMMA Picks ==
    ASSUME Types, CurrentIsAlive, NEW st, tsched(st)
    PROVE  /\ state' = st
           /\ \/ current' = current /\ Candidates(st) = {}
              \/ /\ current' \in Thread /\ \E k \in Index : current' = threads[k]
                 /\ st[current'] = "RUNNABLE" /\ Candidates(st) # {}
           /\ threads[0] = Main /\ st[Main] = "RUNNABLE" => Candidates(st) # {}
<1>1. CASE Candidates(st) = {}
  <2>1. state' = st /\ current' = current
    BY <1>1 DEF tsched
  <2>2. \A j \in 1 .. NTHREAD : Slot(j) = None \/ st[Slot(j)] # "RUNNABLE"
    BY <1>1 DEF Candidates
  <2> QED
    BY <1>1, <2>1, <2>2, Ring, UthreadAssumption
<1>2. CASE Candidates(st) # {}
  <2> DEFINE f == First(Candidates(st))
  <2>1. state' = st /\ current' = Slot(f)
    BY <1>2 DEF tsched
  <2>2. Candidates(st) \subseteq Nat
    BY UthreadAssumption DEF Candidates
  <2>3. f \in Candidates(st)
    BY <1>2, <2>2, FirstIs
  <2> HIDE DEF f
  <2>4. f \in 1 .. NTHREAD /\ Slot(f) # None /\ st[Slot(f)] = "RUNNABLE"
    BY <2>3 DEF Candidates
  <2>5. PICK k \in Index : Slot(f) = threads[k]
    BY <2>4, Ring
  <2>6. current' \in Thread
    BY <2>1, <2>4, <2>5 DEF Types
  <2> QED
    BY <1>2, <2>1, <2>4, <2>5, <2>6
<1> QED
  BY <1>1, <1>2

\* A thread that yields stays in the table, main() stays runnable, and
\* whoever gets the processor has not exited.
LEMMA Yields ==
    ASSUME IInv, NEW t \in Thread, current = t, yielding(t), UNCHANGED threads
    PROVE  /\ current' \in Thread
           /\ state' \in [Thread -> {"UNUSED", "RUNNABLE", "RUNNING", "EXITED"}]
           /\ \A u \in Thread : state'[u] = IF u = t THEN "RUNNABLE" ELSE state[u]
           /\ MainInv' /\ TableInv'
<1> DEFINE st == [state EXCEPT ![t] = "RUNNABLE"]
<1> USE DEF IInv
<1>1. st \in [Thread -> {"UNUSED", "RUNNABLE", "RUNNING", "EXITED"}]
  BY DEF Types
<1>2. tsched(st)
  BY DEF yielding
<1>3. \A u \in Thread : st[u] = IF u = t THEN "RUNNABLE" ELSE state[u]
  BY DEF Types
<1> HIDE DEF st
<1>4. /\ state' = st
      /\ \/ current' = current /\ Candidates(st) = {}
         \/ /\ current' \in Thread /\ \E k \in Index : current' = threads[k]
            /\ st[current'] = "RUNNABLE" /\ Candidates(st) # {}
  BY <1>2, Picks DEF TableInv
<1>5. current' \in Thread /\ st[current'] = "RUNNABLE"
  BY <1>3, <1>4
<1>6. \E k \in Index : threads'[k] = current'
  BY <1>4 DEF InTable, TableInv, CurrentIsAlive
<1>7. MainInv'
  BY <1>3, <1>4, <1>5, UthreadAssumption DEF MainInv
<1>8. TableInv'
  <2>1. \A j \in Index : threads'[j] # None => state'[threads'[j]] # "UNUSED"
    BY <1>3, <1>4 DEF TableInv, Types
  <2>2. CurrentIsAlive'
    BY <1>4, <1>5, <1>6 DEF CurrentIsAlive, InTable
  <2> QED
    BY <2>1, <2>2 DEF TableInv
<1> QED
  BY <1>1, <1>3, <1>4, <1>5, <1>7, <1>8

-----------------------------------------------------------------------------
\* The invariant.

\* _main() and initlock() establish the invariant.
LEMMA InitInv == Init => IInv
<1> SUFFICES ASSUME Init PROVE IInv
  OBVIOUS
<1> USE UthreadAssumption DEF Init
<1>1. Types
  BY DEF Types, Index
<1>2. Booleans
  BY Zenon DEF Booleans
<1>3. ArgInv /\ LockInv
  BY DEF ArgInv, LockInv
<1>4. 0 \in Index
  BY DEF Index
<1>5. MainInv /\ TableInv
  BY <1>4 DEF MainInv, TableInv, CurrentIsAlive, InTable
<1> QED
  BY <1>1, <1>2, <1>3, <1>5 DEF IInv

\* tyield()
LEMMA YieldStep ==
    ASSUME IInv, NEW t \in Thread, tyield(t)
    PROVE  IInv'
<1> USE DEF IInv, tyield, Running, table, calls, locks
<1>1. /\ current' \in Thread
      /\ state' \in [Thread -> {"UNUSED", "RUNNABLE", "RUNNING", "EXITED"}]
      /\ \A u \in Thread : state'[u] = IF u = t THEN "RUNNABLE" ELSE state[u]
      /\ MainInv' /\ TableInv'
  BY Yields
<1>2. Types'
  BY <1>1 DEF Types
<1>3. Booleans'
  BY Zenon DEF Booleans
<1>4. ArgInv'
  BY <1>1 DEF ArgInv
<1>5. LockInv'
  BY DEF LockInv
<1> QED
  BY <1>1, <1>2, <1>3, <1>4, <1>5

\* tcreate() fills a slot that was free.
LEMMA CreateStep ==
    ASSUME IInv, NEW t \in Thread, NEW u \in Thread, tcreate(t, u)
    PROVE  IInv'
<1> USE DEF IInv, tcreate, Running, calls, locks
<1>1. \/ threads' = threads
      \/ \E k \in Index : threads[k] = None /\ threads' = [threads EXCEPT ![k] = u]
  <2>1. FreeSlot \subseteq Nat /\ FreeSlot # {} => First(FreeSlot) \in FreeSlot
    BY FirstIs
  <2>2. FreeSlot \subseteq Nat
    BY UthreadAssumption DEF FreeSlot, Index
  <2> QED
    BY <2>1, <2>2, Zenon DEF FreeSlot
<1>2. threads' \in [Index -> Thread \cup {None}] /\ \A k \in Index : threads'[k] \in {threads[k], u}
  BY <1>1, Zenon DEF Types
<1>3. \A k \in Index : threads[k] # None => threads'[k] = threads[k]
  BY <1>1, Zenon DEF Types
<1>4. Types'
  <2>1. next_tid % TIDS \in 0 .. TIDS - 1
    BY ModIs, UthreadAssumption DEF Types
  <2> QED
    BY <1>2, <2>1 DEF Types
<1>5. Booleans'
  BY Zenon DEF Booleans
<1>6. ArgInv'
  BY DEF ArgInv, Types
<1>7. LockInv'
  BY DEF LockInv
<1>8. MainInv'
  <2>1. 0 \in Index /\ Main # None /\ Main \in Thread
    BY UthreadAssumption DEF Index
  <2> QED
    BY <1>3, <2>1 DEF MainInv, Types
<1>9. TableInv'
  <2>1. \A j \in Index : threads'[j] # None => state'[threads'[j]] # "UNUSED"
    BY <1>2 DEF TableInv, Types
  <2>2. PICK k \in Index : threads[k] = current
    BY DEF TableInv, CurrentIsAlive, InTable
  <2>3. threads'[k] = current' /\ state'[current'] # "EXITED"
    BY <1>3, <2>2, UthreadAssumption DEF Types, TableInv, CurrentIsAlive
  <2>4. CurrentIsAlive'
    BY <2>3 DEF CurrentIsAlive, InTable
  <2> QED
    BY <2>1, <2>4 DEF TableInv
<1> QED
  BY <1>4, <1>5, <1>6, <1>7, <1>8, <1>9

\* A thread that returns leaves the processor to another: main() can run.
LEMMA WrapperStep ==
    ASSUME IInv, NEW t \in Thread, thread_wrapper(t)
    PROVE  IInv'
<1> DEFINE st == [state EXCEPT ![t] = "EXITED"]
<1> USE DEF IInv, Running, table, calls, locks
<1>0. t # Main /\ current = t /\ tsched(st) /\ UNCHANGED <<threads, next_tid, tid, arg, target, joined, locked, ltid, owner, process>>
  BY DEF thread_wrapper
<1>1. st \in [Thread -> {"UNUSED", "RUNNABLE", "RUNNING", "EXITED"}]
  BY DEF Types
<1>2. \A u \in Thread : st[u] = IF u = t THEN "EXITED" ELSE state[u]
  BY DEF Types
<1> HIDE DEF st
<1>3. st[Main] = "RUNNABLE" /\ threads[0] = Main
  BY <1>0, <1>2, UthreadAssumption DEF MainInv
<1>4. /\ state' = st /\ current' \in Thread /\ \E k \in Index : current' = threads[k]
      /\ st[current'] = "RUNNABLE"
  BY <1>0, <1>3, Picks DEF TableInv
<1>5. pc' = pc \/ pc' = [pc EXCEPT ![t] = "done"]
  BY DEF thread_wrapper
<1>6. Types'
  BY <1>0, <1>1, <1>4, <1>5 DEF Types
<1>7. Booleans'
  BY <1>0, Zenon DEF Booleans
<1>8. ArgInv'
  BY <1>0, <1>2, <1>4, <1>5 DEF ArgInv, Types
<1>9. LockInv'
  BY <1>0, Zenon DEF LockInv
<1>10. MainInv'
  BY <1>0, <1>3, <1>4, Zenon DEF MainInv
<1>11. TableInv'
  <2>1. \A j \in Index : threads'[j] # None => state'[threads'[j]] # "UNUSED"
    BY <1>0, <1>2, <1>4, Zenon DEF TableInv, Types
  <2>2. CurrentIsAlive'
    BY <1>0, <1>4, Zenon DEF CurrentIsAlive, InTable
  <2> QED
    BY <2>1, <2>2, Zenon DEF TableInv
<1> QED
  BY <1>6, <1>7, <1>8, <1>9, <1>10, <1>11, Zenon

\* The loop of tjoin(), entered with or left for target_thread f.
LEMMA JoinLoop ==
    ASSUME IInv, NEW t \in Thread, current = t, NEW u \in Thread, NEW f \in Thread,
           state[u] # "UNUSED", join_loop(t, u, f), UNCHANGED <<table, locks, process>>
    PROVE  IInv'
<1> USE DEF IInv, join_loop, table, locks
<1>1. Booleans' /\ LockInv'
  <2>1. Booleans'
    BY Zenon DEF Booleans
  <2>2. LockInv'
    BY Zenon DEF LockInv
  <2> QED
    BY <2>1, <2>2, Zenon
<1>2. CASE state[f] = "EXITED"
  <2>1. Types' /\ ArgInv'
    BY <1>2 DEF Types, ArgInv
  <2>2. MainInv' /\ TableInv'
    BY <1>2, Zenon DEF MainInv, TableInv, CurrentIsAlive, InTable
  <2> QED
    BY <1>1, <2>1, <2>2, Zenon
<1>3. CASE state[f] # "EXITED"
  <2>1. /\ current' \in Thread
        /\ state' \in [Thread -> {"UNUSED", "RUNNABLE", "RUNNING", "EXITED"}]
        /\ \A v \in Thread : state'[v] = IF v = t THEN "RUNNABLE" ELSE state[v]
        /\ MainInv' /\ TableInv'
    BY <1>3, Yields, Zenon
  <2>2. Types'
    <3>1. /\ pc' \in [Thread -> {"run", "tjoin", "acquire", "done"}]
          /\ arg' \in [Thread -> Thread \cup Lock \cup {None}]
          /\ target' \in [Thread -> Thread \cup {None}]
      BY <1>3 DEF Types
    <3> QED
      BY <1>3, <2>1, <3>1, Zenon DEF Types
  <2>3. ArgInv'
    BY <1>3, <2>1 DEF Types, ArgInv
  <2> QED
    BY <1>1, <2>1, <2>2, <2>3, Zenon
<1> QED
  BY <1>2, <1>3, Zenon

\* The thread that tjoin() finds is one of the table.
LEMMA Found ==
    ASSUME IInv, NEW u \in Thread,
           NEW F, F = {j \in Index : threads[j] # None /\ tid[threads[j]] = tid[u]}, F # {}
    PROVE  /\ threads[First(F)] \in Thread /\ state[threads[First(F)]] # "UNUSED"
           /\ tid[threads[First(F)]] = tid[u]
<1>1. First(F) \in F
  BY FirstIs, UthreadAssumption DEF Index
<1> QED
  BY <1>1, Zenon DEF IInv, Types, TableInv

\* tjoin(), from its start or after a tyield()
LEMMA JoinStep ==
    ASSUME IInv, NEW t \in Thread, NEW u \in Thread, tjoin(t, u) \/ tjoin_resume(t)
    PROVE  IInv'
<1> DEFINE F == {j \in Index : threads[j] # None /\ tid[threads[j]] = tid[u]}
<1>1. CASE tjoin(t, u) /\ F = {}
  <2> USE <1>1 DEF tjoin, table, locks, calls, IInv
  <2>1. Booleans'
    BY Zenon DEF Booleans
  <2>2. Types' /\ ArgInv' /\ LockInv'
    BY Zenon DEF Types, ArgInv, LockInv
  <2>3. MainInv' /\ TableInv'
    BY Zenon DEF MainInv, TableInv, CurrentIsAlive, InTable
  <2> QED
    BY <2>1, <2>2, <2>3, Zenon
<1>2. CASE tjoin(t, u) /\ F # {}
  <2>1. threads[First(F)] \in Thread
    BY <1>2, Found, Zenon
  <2>2. /\ current = t /\ state[u] # "UNUSED" /\ join_loop(t, u, threads[First(F)])
        /\ UNCHANGED <<table, locks, process>>
    BY <1>2, Zenon DEF tjoin, Running
  <2> QED
    BY <2>1, <2>2, JoinLoop, Zenon
<1>3. CASE tjoin_resume(t)
  BY <1>3, JoinLoop, Zenon DEF tjoin_resume, IInv, ArgInv
<1> QED
  BY <1>1, <1>2, <1>3, Zenon

\* One test-and-set: a lock is taken only when nobody has it.
LEMMA SpinStep ==
    ASSUME IInv, NEW t \in Thread, current = t, NEW l \in Lock, spin(t, l),
           UNCHANGED <<table, target, joined, process>>
    PROVE  IInv'
<1> USE DEF IInv, spin, table, locks
<1>1. CASE locked[l]
  <2>1. /\ current' \in Thread
        /\ state' \in [Thread -> {"UNUSED", "RUNNABLE", "RUNNING", "EXITED"}]
        /\ \A v \in Thread : state'[v] = IF v = t THEN "RUNNABLE" ELSE state[v]
        /\ MainInv' /\ TableInv'
    BY <1>1, Yields, Zenon
  <2>2. Booleans'
    BY <1>1, Zenon DEF Booleans
  <2>3. Types'
    <3>1. /\ UNCHANGED <<threads, next_tid, tid, target, ltid, owner, joined, process>>
          /\ pc' = [pc EXCEPT ![t] = "acquire"] /\ arg' = [arg EXCEPT ![t] = l]
      BY <1>1, Zenon
    <3>2. /\ pc' \in [Thread -> {"run", "tjoin", "acquire", "done"}]
          /\ arg' \in [Thread -> Thread \cup Lock \cup {None}]
      BY <3>1, Zenon DEF Types
    <3> HIDE DEF spin
    <3> QED
      BY <2>1, <3>1, <3>2, Zenon DEF Types
  <2>4. ArgInv'
    BY <1>1, <2>1 DEF Types, ArgInv
  <2>5. LockInv'
    BY <1>1, Zenon DEF LockInv
  <2> QED
    BY <2>1, <2>2, <2>3, <2>4, <2>5, Zenon
<1>2. CASE ~locked[l]
  <2>1. Booleans'
    BY <1>2, Zenon DEF Booleans
  <2>2. Types' /\ ArgInv'
    BY <1>2 DEF Types, ArgInv
  <2>3. LockInv'
    <3>1. owner[l] = {} /\ owner'[l] = {t} /\ locked'[l]
      BY <1>2 DEF LockInv, Types, Booleans
    <3>2. \A k \in Lock : k # l => owner'[k] = owner[k] /\ locked'[k] = locked[k]
      BY <1>2 DEF Types, Booleans
    <3> QED
      BY <3>1, <3>2 DEF LockInv
  <2>4. MainInv' /\ TableInv'
    BY <1>2, Zenon DEF MainInv, TableInv, CurrentIsAlive, InTable
  <2> QED
    BY <2>1, <2>2, <2>3, <2>4, Zenon
<1> QED
  BY <1>1, <1>2, Zenon

\* The process ends in main() or in a lock's check; no thread is touched.
LEMMA EndStep ==
    ASSUME IInv, process' \in {"running", "exited", "aborted"},
           UNCHANGED <<threads, current, next_tid, state, tid, pc, arg, target, locked, ltid,
                       owner, joined>>
    PROVE  IInv'
<1> USE DEF IInv
<1>1. Booleans'
  BY Zenon DEF Booleans
<1>2. Types' /\ ArgInv' /\ LockInv'
  BY Zenon DEF Types, ArgInv, LockInv
<1>3. MainInv' /\ TableInv'
  BY Zenon DEF MainInv, TableInv, CurrentIsAlive, InTable
<1> QED
  BY <1>1, <1>2, <1>3, Zenon

\* acquire(), from its start or after a tyield()
LEMMA AcquireStep ==
    ASSUME IInv, NEW t \in Thread, NEW l \in Lock, acquire(t, l) \/ acquire_resume(t)
    PROVE  IInv'
<1>1. CASE acquire(t, l) /\ holding(t, l)
  BY <1>1, EndStep, Zenon DEF acquire, table, locks
<1>2. CASE acquire(t, l) /\ ~holding(t, l)
  BY <1>2, SpinStep, Zenon DEF acquire, Running
<1>3. CASE acquire_resume(t)
  BY <1>3, SpinStep, Zenon DEF acquire_resume, IInv, ArgInv
<1> QED
  BY <1>1, <1>2, <1>3, Zenon

\* release() by the only thread that has the lock
LEMMA ReleaseStep ==
    ASSUME IInv, NEW t \in Thread, NEW l \in Lock, release(t, l)
    PROVE  IInv'
<1>1. CASE ~holding(t, l)
  BY <1>1, EndStep, Zenon DEF release, table, calls, locks
<1>2. CASE holding(t, l)
  <2> USE <1>2 DEF release, Running, table, calls, IInv
  <2>1. /\ current' \in Thread
        /\ state' \in [Thread -> {"UNUSED", "RUNNABLE", "RUNNING", "EXITED"}]
        /\ \A v \in Thread : state'[v] = IF v = t THEN "RUNNABLE" ELSE state[v]
        /\ MainInv' /\ TableInv'
    BY Yields, Zenon
  <2>2. Booleans'
    BY Zenon DEF Booleans
  <2>3. Types' /\ ArgInv'
    BY <2>1, UthreadAssumption DEF Types, ArgInv
  <2>4. LockInv'
    <3>1. owner'[l] = {}
      BY DEF LockInv, Types
    <3>2. \A k \in Lock : k # l => owner'[k] = owner[k] /\ locked'[k] = locked[k]
      BY Zenon DEF Types, Booleans
    <3> QED
      BY <3>1, <3>2 DEF LockInv
  <2> QED
    BY <2>1, <2>2, <2>3, <2>4, Zenon
<1> QED
  BY <1>1, <1>2, Zenon

\* Every step of the library preserves the invariant.
LEMMA StepInv == IInv /\ [Next]_vars => IInv'
<1> SUFFICES ASSUME IInv, [Next]_vars PROVE IInv'
  BY Zenon
<1>1. CASE UNCHANGED vars
  <2>1. process' \in {"running", "exited", "aborted"}
    BY <1>1, Zenon DEF vars, IInv, Types
  <2> QED
    BY <1>1, <2>1, EndStep, Zenon DEF vars
<1>2. CASE main_exit
  BY <1>2, EndStep, Zenon DEF main_exit, table, calls, locks
<1>3. ASSUME NEW t \in Thread, tyield(t) \/ thread_wrapper(t) PROVE IInv'
  BY <1>3, YieldStep, WrapperStep, Zenon
<1>4. ASSUME NEW t \in Thread, NEW u \in Thread, tcreate(t, u) \/ tjoin(t, u) PROVE IInv'
  BY <1>4, CreateStep, JoinStep, Zenon
<1>5. ASSUME NEW t \in Thread, tjoin_resume(t) PROVE IInv'
  BY <1>5, JoinStep, Zenon
<1>6. ASSUME NEW t \in Thread, acquire_resume(t) PROVE IInv'
  <2>1. arg[t] \in Lock
    BY <1>6, Zenon DEF acquire_resume, IInv, ArgInv
  <2> QED
    BY <1>6, <2>1, AcquireStep, Zenon
<1>7. ASSUME NEW t \in Thread, NEW l \in Lock, acquire(t, l) \/ release(t, l) PROVE IInv'
  BY <1>7, AcquireStep, ReleaseStep, Zenon
<1> QED
  BY <1>1, <1>2, <1>3, <1>4, <1>5, <1>6, <1>7, Zenon DEF Next

\* The invariant holds in every behaviour of the library.
LEMMA Invariance == Spec => []IInv
  BY InitInv, StepInv, PTL DEF Spec

\* acquire() and release() exclude, and the processor is never with a thread
\* that has returned from its function, however many threads share an id.
\* (acquire, release, tsched, thread_wrapper)
THEOREM LocksExclude == Spec => [](MutualExclusion /\ CurrentIsAlive)
<1>1. IInv => MutualExclusion /\ CurrentIsAlive
  BY Zenon DEF IInv, LockInv, TableInv, MutualExclusion
<1> QED
  BY <1>1, Invariance, PTL

-----------------------------------------------------------------------------
\* Thread ids and tjoin().

\* The number of threads there are grows by one with each tcreate().
LEMMA MadeIs ==
    ASSUME IsFiniteSet(Thread), NEW M \in SUBSET Thread, NEW u \in Thread \ M
    PROVE  /\ Cardinality(M) \in Nat /\ Cardinality(M) < Cardinality(Thread)
           /\ Cardinality(M \cup {u}) = Cardinality(M) + 1
<1>1. IsFiniteSet(M) /\ Cardinality(M) <= Cardinality(Thread) /\ Cardinality(M) \in Nat
  BY FS_Subset, FS_CardinalityType, Zenon
<1>2. Cardinality(M) = Cardinality(Thread) => Thread = M
  BY FS_Subset, Zenon
<1>3. Cardinality(Thread) \in Nat
  BY FS_CardinalityType, Zenon
<1>4. Cardinality(M \cup {u}) = Cardinality(M) + 1
  BY <1>1, FS_AddElement, Zenon
<1> QED
  BY <1>1, <1>2, <1>3, <1>4

\* A step that makes no thread and returns from no tjoin() too early.
LEMMA TidKept ==
    ASSUME TidInv, UNCHANGED <<next_tid, tid>>, JoinSound',
           \A v \in Thread : state'[v] = "UNUSED" <=> state[v] = "UNUSED",
           \A v \in Thread : pc'[v] = "tjoin" => target'[v] \in {Main, arg'[v]}
    PROVE  TidInv'
<1>1. Made' = Made
  BY Zenon DEF Made
<1> QED
  BY <1>1, Zenon DEF TidInv

\* The thread that has the processor is one that tcreate() has made; giving
\* it away makes no thread and takes no exit back.
LEMMA YieldKeeps ==
    ASSUME IInv, NEW t \in Thread, current = t, yielding(t), UNCHANGED threads
    PROVE  /\ \A v \in Thread : state'[v] = "UNUSED" <=> state[v] = "UNUSED"
           /\ \A v \in Thread : state[v] = "EXITED" => state'[v] = "EXITED"
<1>1. \A u \in Thread : state'[u] = IF u = t THEN "RUNNABLE" ELSE state[u]
  BY Yields, Zenon
<1>2. state[t] # "UNUSED" /\ state[t] # "EXITED"
  BY UthreadAssumption, Zenon DEF IInv, TableInv, CurrentIsAlive, InTable
<1> QED
  BY <1>1, <1>2, Zenon

\* tcreate() gives an id that no other thread has, but main().
LEMMA TidCreate ==
    ASSUME IsFiniteSet(Thread), Cardinality(Thread) <= TIDS, IInv, TidInv,
           NEW t \in Thread, NEW u \in Thread, tcreate(t, u)
    PROVE  TidInv'
<1> USE DEF tcreate, calls
<1>1. Made \in SUBSET Thread /\ u \in Thread \ Made /\ Made' = Made \cup {u} /\ Main \in Made
  BY UthreadAssumption DEF Made, IInv, Types, MainInv
<1>2. Cardinality(Thread) \in Nat
  BY FS_CardinalityType, Zenon
<1>3. next_tid \in Nat /\ next_tid < TIDS /\ next_tid' = Cardinality(Made')
  <2>1. next_tid = Cardinality(Made) /\ next_tid' = next_tid + 1
    BY Zenon DEF TidInv
  <2>2. /\ Cardinality(Made) \in Nat /\ Cardinality(Made) < Cardinality(Thread)
        /\ Cardinality(Made \cup {u}) = Cardinality(Made) + 1
    BY <1>1, MadeIs, Zenon
  <2>3. TIDS \in Nat
    BY UthreadAssumption, Zenon
  <2> HIDE DEF tcreate
  <2> QED
    BY <1>1, <1>2, <2>1, <2>2, <2>3
<1>4. next_tid % TIDS = next_tid
  BY <1>3, UthreadAssumption
<1>5. tid'[u] = next_tid /\ \A v \in Thread : v # u => tid'[v] = tid[v]
  BY <1>4, Zenon DEF IInv, Types
<1>6. \A v \in Made \ {Main} : v # u /\ tid'[v] = tid[v] /\ tid[v] < next_tid /\ tid[v] \in Nat
  BY <1>1, <1>5, UthreadAssumption DEF TidInv, IInv, Types
<1>7. \A v \in Made' \ {Main} : tid'[v] < next_tid'
  BY <1>1, <1>3, <1>5, <1>6
<1>8. \A v, w \in Made' \ {Main} : tid'[v] = tid'[w] => v = w
  BY <1>1, <1>3, <1>5, <1>6 DEF TidInv
<1>9. JoinSound'
  BY Zenon DEF TidInv, JoinSound, IInv, Types
<1> QED
  BY <1>3, <1>7, <1>8, <1>9, Zenon DEF TidInv

\* tjoin() returns when its own thread has exited: main() never does.
LEMMA TidJoinLoop ==
    ASSUME IInv, TidInv, NEW t \in Thread, current = t, NEW u \in Thread, NEW f \in {Main, u},
           join_loop(t, u, f), UNCHANGED <<table, locks, process>>
    PROVE  TidInv'
<1> USE DEF join_loop, table
<1>1. CASE state[f] = "EXITED"
  <2>1. f = u
    BY <1>1, Zenon DEF IInv, MainInv
  <2>2. JoinSound'
    BY <1>1, <2>1 DEF TidInv, JoinSound
  <2>3. \A v \in Thread : pc'[v] = "tjoin" => target'[v] \in {Main, arg'[v]}
    BY <1>1, Zenon DEF TidInv, IInv, Types
  <2> QED
    BY <1>1, <2>2, <2>3, TidKept, Zenon
<1>2. CASE state[f] # "EXITED"
  <2>1. /\ \A v \in Thread : state'[v] = "UNUSED" <=> state[v] = "UNUSED"
        /\ \A v \in Thread : state[v] = "EXITED" => state'[v] = "EXITED"
    BY <1>2, YieldKeeps, Zenon
  <2>2. JoinSound'
    BY <1>2, <2>1, Zenon DEF TidInv, JoinSound, IInv, Types
  <2>3. \A v \in Thread : pc'[v] = "tjoin" => target'[v] \in {Main, arg'[v]}
    BY <1>2, Zenon DEF TidInv, IInv, Types
  <2> QED
    BY <2>1, <2>2, <2>3, TidKept, Zenon
<1> QED
  BY <1>1, <1>2, Zenon

\* tjoin(), from its start or after a tyield()
LEMMA TidJoin ==
    ASSUME IInv, TidInv, NEW t \in Thread, NEW u \in Thread, tjoin(t, u) \/ tjoin_resume(t)
    PROVE  TidInv'
<1> DEFINE F == {j \in Index : threads[j] # None /\ tid[threads[j]] = tid[u]}
<1>1. CASE tjoin(t, u) /\ F = {}
  BY <1>1, TidKept, Zenon DEF tjoin, table, calls, TidInv, JoinSound
<1>2. CASE tjoin(t, u) /\ F # {}
  <2>1. /\ threads[First(F)] \in Thread /\ state[threads[First(F)]] # "UNUSED"
        /\ tid[threads[First(F)]] = tid[u]
    BY <1>2, Found, Zenon
  <2>2. /\ current = t /\ state[u] # "UNUSED" /\ u # Main
        /\ join_loop(t, u, threads[First(F)]) /\ UNCHANGED <<table, locks, process>>
    BY <1>2, Zenon DEF tjoin, Running
  <2>3. threads[First(F)] \in {Main, u}
    BY <2>1, <2>2, Zenon DEF TidInv, Made
  <2> QED
    BY <2>2, <2>3, TidJoinLoop, Zenon
<1>3. CASE tjoin_resume(t)
  <2>1. /\ current = t /\ arg[t] \in Thread /\ target[t] \in {Main, arg[t]}
        /\ join_loop(t, arg[t], target[t]) /\ UNCHANGED <<table, locks, process>>
    BY <1>3, Zenon DEF tjoin_resume, IInv, ArgInv, TidInv
  <2> QED
    BY <2>1, TidJoinLoop, Zenon
<1> QED
  BY <1>1, <1>2, <1>3, Zenon

\* A thread that returns becomes EXITED.
LEMMA TidWrapper ==
    ASSUME IInv, TidInv, NEW t \in Thread, thread_wrapper(t)
    PROVE  TidInv'
<1>1. /\ current = t /\ state' = [state EXCEPT ![t] = "EXITED"]
      /\ UNCHANGED <<threads, next_tid, tid, arg, target, joined>>
  BY Zenon DEF thread_wrapper, Running, tsched, table, calls
<1>2. pc' = pc \/ pc' = [pc EXCEPT ![t] = "done"]
  BY Zenon DEF thread_wrapper
<1>3. state[t] # "UNUSED"
  BY <1>1, UthreadAssumption, Zenon DEF IInv, TableInv, CurrentIsAlive, InTable
<1>4. \A v \in Thread : state'[v] = IF v = t THEN "EXITED" ELSE state[v]
  BY <1>1, Zenon DEF IInv, Types
<1>5. JoinSound'
  BY <1>1, <1>4, Zenon DEF TidInv, JoinSound, IInv, Types
<1>6. \A v \in Thread : pc'[v] = "tjoin" => pc[v] = "tjoin"
  BY <1>2, Zenon DEF IInv, Types
<1>7. \A v \in Thread : pc'[v] = "tjoin" => target'[v] \in {Main, arg'[v]}
  BY <1>1, <1>6, Zenon DEF TidInv
<1> QED
  BY <1>1, <1>3, <1>4, <1>5, <1>7, TidKept

\* The lock calls and tyield() move the processor and no more.
LEMMA TidOther ==
    ASSUME IInv, TidInv, NEW t \in Thread, current = t,
           yielding(t) \/ UNCHANGED <<state, current>>,
           UNCHANGED <<threads, next_tid, tid, target, joined>>,
           \A v \in Thread : pc'[v] = "tjoin" => pc[v] = "tjoin" /\ arg'[v] = arg[v]
    PROVE  TidInv'
<1>1. /\ \A v \in Thread : state'[v] = "UNUSED" <=> state[v] = "UNUSED"
      /\ \A v \in Thread : state[v] = "EXITED" => state'[v] = "EXITED"
  BY YieldKeeps, Zenon
<1>2. JoinSound'
  BY <1>1, Zenon DEF TidInv, JoinSound, IInv, Types
<1>3. \A v \in Thread : pc'[v] = "tjoin" => target'[v] \in {Main, arg'[v]}
  BY Zenon DEF TidInv
<1> QED
  BY <1>1, <1>2, <1>3, TidKept, Zenon

\* One test-and-set
LEMMA TidSpin ==
    ASSUME IInv, TidInv, NEW t \in Thread, current = t, NEW l \in Lock, spin(t, l),
           UNCHANGED <<table, target, joined, process>>
    PROVE  TidInv'
<1>1. yielding(t) \/ UNCHANGED <<state, current>>
  BY Zenon DEF spin
<1>2. \A v \in Thread : pc'[v] = "tjoin" => pc[v] = "tjoin" /\ arg'[v] = arg[v]
  BY DEF spin, IInv, Types
<1> QED
  BY <1>1, <1>2, TidOther, Zenon DEF table

\* Every step keeps ids apart and joins sound, if there are ids enough.
LEMMA TidStep ==
    ASSUME IsFiniteSet(Thread), Cardinality(Thread) <= TIDS, IInv, TidInv, [Next]_vars
    PROVE  TidInv'
<1>1. CASE UNCHANGED vars
  BY <1>1, TidKept, Zenon DEF vars, TidInv, JoinSound
<1>2. CASE main_exit
  BY <1>2, TidKept, Zenon DEF main_exit, table, calls, TidInv, JoinSound
<1>3. ASSUME NEW t \in Thread, tyield(t) PROVE TidInv'
  BY <1>3, TidOther, Zenon DEF tyield, Running, table, calls
<1>4. ASSUME NEW t \in Thread, thread_wrapper(t) PROVE TidInv'
  BY <1>4, TidWrapper, Zenon
<1>5. ASSUME NEW t \in Thread, NEW u \in Thread, tcreate(t, u) \/ tjoin(t, u) PROVE TidInv'
  BY <1>5, TidCreate, TidJoin, Zenon
<1>6. ASSUME NEW t \in Thread, tjoin_resume(t) PROVE TidInv'
  BY <1>6, TidJoin, Zenon
<1>7. ASSUME NEW t \in Thread, acquire_resume(t) PROVE TidInv'
  BY <1>7, TidSpin, Zenon DEF acquire_resume, IInv, ArgInv
<1>8. ASSUME NEW t \in Thread, NEW l \in Lock, acquire(t, l) PROVE TidInv'
  <2>1. CASE holding(t, l)
    BY <1>8, <2>1, TidOther, Zenon DEF acquire, Running, table
  <2>2. CASE ~holding(t, l)
    BY <1>8, <2>2, TidSpin, Zenon DEF acquire, Running
  <2> QED
    BY <2>1, <2>2, Zenon
<1>9. ASSUME NEW t \in Thread, NEW l \in Lock, release(t, l) PROVE TidInv'
  BY <1>9, TidOther, Zenon DEF release, Running, table, calls
<1> QED
  BY <1>1, <1>2, <1>3, <1>4, <1>5, <1>6, <1>7, <1>8, <1>9, Zenon DEF Next

\* At the start there is main() only.
LEMMA TidInit ==
    ASSUME Init
    PROVE  TidInv
<1>1. Made = {Main}
  BY UthreadAssumption, Zenon DEF Init, Made
<1>2. Cardinality(Made) = 1
  BY <1>1, FS_Singleton, Zenon
<1> QED
  BY <1>1, <1>2, Zenon DEF Init, TidInv, JoinSound

\* While a process makes no more threads than a uint8 has values, everything
\* the library promises at a moment holds: types (a thread is created at most
\* once), locks that exclude, a live current thread, and tjoin() returning 0
\* only for a thread that has finished.  (tcreate, tjoin, acquire, tsched)
THEOREM ThreadsCorrect ==
    ASSUME IsFiniteSet(Thread), Cardinality(Thread) <= TIDS
    PROVE  Spec => []ThreadsSound
<1>1. Init => TidInv
  BY TidInit, Zenon
<1>2. IInv /\ TidInv /\ [Next]_vars => TidInv'
  BY TidStep, Zenon
<1>3. IInv /\ TidInv => ThreadsSound
  <2> SUFFICES ASSUME IInv, TidInv PROVE ThreadsSound
    BY Zenon
  <2>1. next_tid \in 1 .. Cardinality(Thread)
    <3>1. Made \in SUBSET Thread /\ Main \in Made
      BY UthreadAssumption, Zenon DEF Made, IInv, MainInv
    <3>2. /\ IsFiniteSet(Made) /\ Cardinality(Made) \in Nat /\ Cardinality(Thread) \in Nat
          /\ Cardinality(Made) <= Cardinality(Thread)
      BY <3>1, FS_Subset, FS_CardinalityType, Zenon
    <3>3. Cardinality(Made) # 0
      BY <3>1, <3>2, FS_EmptySet, Zenon
    <3> QED
      BY <3>2, <3>3 DEF TidInv
  <2>2. TypeOK
    BY <2>1, Zenon DEF IInv, Types, Booleans, TypeOK
  <2> QED
    BY <2>2, Zenon DEF ThreadsSound, IInv, LockInv, TableInv, TidInv, MutualExclusion
<1> QED
  BY <1>1, <1>2, <1>3, Invariance, PTL DEF Spec
=============================================================================
