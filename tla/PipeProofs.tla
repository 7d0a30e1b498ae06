----------------------------- MODULE PipeProofs -----------------------------
(***************************************************************************)
(* Pipe is sound and implements Channel, for any processes, any size of    *)
(* the buffer and any width of the counters that the size divides.         *)
(***************************************************************************)
EXTENDS Pipe, Integers, SequenceTheorems, TLAPS

\* TypeOK, but for the Boolean variables, which take another prover.
Types ==
    /\ data \in [0 .. PIPESIZE - 1 -> Byte]
    /\ nread \in 0 .. UINT - 1 /\ nwrite \in 0 .. UINT - 1
    /\ pc \in [Process -> {"idle", "write", "wait", "copy"}]
    /\ left \in [Process -> 0 .. N]
    /\ lock \in SUBSET Process /\ fd \in SUBSET Process

Booleans ==
    /\ readopen \in BOOLEAN /\ writeopen \in BOOLEAN /\ freed \in BOOLEAN
    /\ asleep \in [Process -> BOOLEAN] /\ killed \in [Process -> BOOLEAN]

\* A process is in a call of its own end, through a descriptor that is open,
\* and the holder of pi->lock is awake in one.
CallInv ==
    /\ \A p \in Process :
          /\ pc[p] # "idle" => p \in fd
          /\ pc[p] = "write" => p \in Writer
          /\ pc[p] \in {"wait", "copy"} => p \in Reader
          /\ asleep[p] => pc[p] \in {"write", "wait"} /\ lock # {p}
    /\ lock # {} => \E p \in Process : lock = {p} /\ pc[p] # "idle"

\* An end is open as long as a descriptor for it is, and the page is freed
\* after both ends are closed.
EndInv ==
    /\ \A p \in fd : (p \in Writer => writeopen) /\ (p \in Reader => readopen)
    /\ freed => ~readopen /\ ~writeopen

\* Why a sleeper sleeps, also while pi->lock is held: the one that has made
\* room, or brought data, has still to come to its wakeup().
SleepInv ==
    \A p \in Process : asleep[p] =>
        IF p \in Writer
          THEN readopen /\ (Full \/ \E q \in Process : Holds(q, "copy"))
          ELSE writeopen /\ \/ Empty
                            \/ \E q \in Writer : killed[q]
                            \/ \E q \in Process : Holds(q, "write")

IInv == Types /\ Booleans /\ CallInv /\ EndInv /\ SleepInv

-----------------------------------------------------------------------------
\* PIPESIZE divides the range of the counters nread and nwrite at least twice.
LEMMA Constants ==
    /\ UINT \in Nat \ {0} /\ PIPESIZE \in Nat \ {0} /\ N \in Nat
    /\ \E j \in Nat : j >= 2 /\ UINT = PIPESIZE * j
    /\ Writer \cap Reader = {}
<1>1. PICK j \in 2 .. UINT : UINT = PIPESIZE * j
  BY PipeAssumption
<1>2. j \in Nat /\ j >= 2
  BY <1>1
<1>3. PIPESIZE * j \in Nat \ {0}
  BY <1>2, PipeAssumption
<1> QED BY <1>1, <1>2, <1>3, PipeAssumption

\* pipealloc() establishes the invariant.
LEMMA InitInv == Init => IInv
<1> SUFFICES ASSUME Init PROVE IInv
  OBVIOUS
<1> USE Constants DEF Init
<1>1. Types
  BY DEF Types
<1>2. Booleans
  BY Zenon DEF Booleans
<1>3. CallInv /\ EndInv /\ SleepInv
  BY DEF CallInv, EndInv, SleepInv
<1> QED BY <1>1, <1>2, <1>3 DEF IInv

\* read() or write() starts.
LEMMA CallStep ==
    ASSUME IInv, NEW p \in Process, NEW n \in 0 .. N, call(p, n)
    PROVE  IInv'
<1> USE Constants DEF IInv, call, pipe, Unlocked
<1>1. Types'
  BY DEF Types, Process
<1>2. Booleans'
  BY Zenon DEF Booleans
<1>3. CallInv' /\ EndInv'
  BY Zenon DEF Types, CallInv, EndInv, Process
<1>4. SleepInv'
  BY DEF Types, SleepInv, Holds, Full, Empty
<1> QED BY <1>1, <1>2, <1>3, <1>4

\* sleep() returns with the lock.
LEMMA AwakeStep ==
    ASSUME IInv, NEW p \in Process, awake(p)
    PROVE  IInv'
<1> USE DEF IInv, awake, pipe, Unlocked
<1>1. Types'
  BY DEF Types
<1>2. Booleans'
  BY Zenon DEF Booleans
<1>3. CallInv' /\ EndInv'
  BY DEF Types, CallInv, EndInv
<1>4. SleepInv'
  BY DEF Types, SleepInv, Holds, Full, Empty
<1> QED BY <1>1, <1>2, <1>3, <1>4

\* pipewrite() gives up.  A reader that sleeps beside data has been told of it
\* by nobody, but then this writer is killed.
LEMMA WriteFailsStep ==
    ASSUME IInv, NEW p \in Process, write_fails(p)
    PROVE  IInv'
<1> USE Constants DEF IInv, write_fails, return, pipe, Holds
<1>1. Types'
  BY DEF Types
<1>2. Booleans'
  BY Zenon DEF Booleans
<1>3. CallInv' /\ EndInv'
  BY DEF Types, CallInv, EndInv
<1>4. SleepInv'
  <2>1. p \in Writer /\ lock' = {} /\ UNCHANGED <<asleep, killed, readopen, writeopen, Full, Empty>>
    BY DEF CallInv, Full, Empty
  <2> SUFFICES ASSUME NEW q \in Process, asleep[q]
               PROVE  IF q \in Writer THEN readopen /\ Full
                      ELSE writeopen /\ (Empty \/ \E r \in Writer : killed[r])
    BY <2>1 DEF SleepInv
  <2>2. CASE q \in Writer
    BY <2>2 DEF SleepInv
  <2>3. CASE q \notin Writer
    <3>1. q \in Reader /\ q \in fd /\ readopen
      BY <2>3 DEF CallInv, EndInv, Process
    <3>2. killed[p]
      BY <3>1 DEF Refused
    <3> QED BY <2>1, <2>3, <3>2 DEF SleepInv
  <2> QED BY <2>2, <2>3
<1> QED BY <1>1, <1>2, <1>3, <1>4

\* pipewrite() finds the pipe full, wakes the readers and sleeps.
LEMMA WriteSleepStep ==
    ASSUME IInv, NEW p \in Process, write_sleep(p)
    PROVE  IInv'
<1> USE DEF IInv, write_sleep, pipe, Holds
<1>1. Types'
  BY DEF Types
<1>2. Booleans'
  BY Zenon DEF Booleans
<1>3. CallInv' /\ EndInv'
  BY Zenon DEF Types, CallInv, EndInv
<1>4. SleepInv'
  BY Zenon DEF SleepInv, CallInv, Refused, Full, Empty, Process
<1> QED BY <1>1, <1>2, <1>3, <1>4

\* pipewrite() stores a byte: there was room, so no writer sleeps.
LEMMA WriteByteStep ==
    ASSUME IInv, NEW p \in Process, NEW b \in Byte, write_byte(p, b)
    PROVE  IInv'
<1> USE DEF IInv, write_byte, Holds
<1>1. Types'
  BY Constants DEF Types
<1>2. Booleans'
  BY Zenon DEF Booleans
<1>3. CallInv' /\ EndInv'
  BY Zenon DEF Types, CallInv, EndInv
<1>4. SleepInv'
  BY DEF SleepInv, CallInv
<1> QED BY <1>1, <1>2, <1>3, <1>4

\* pipewrite() returns and wakes the readers.
LEMMA WriteDoneStep ==
    ASSUME IInv, NEW p \in Process, write_done(p)
    PROVE  IInv'
<1> USE DEF IInv, write_done, wakeup, return, pipe, Holds
<1>1. Types'
  BY Constants DEF Types
<1>2. Booleans'
  BY Zenon DEF Booleans
<1>3. CallInv' /\ EndInv'
  BY Zenon DEF Types, CallInv, EndInv
<1>4. SleepInv'
  BY Zenon DEF SleepInv, CallInv, Full, Empty, Process
<1> QED BY <1>1, <1>2, <1>3, <1>4

\* piperead() goes on to the bytes, returns, or sleeps on an empty pipe.
LEMMA ReadWaitStep ==
    ASSUME IInv, NEW p \in Process, read_wait(p)
    PROVE  IInv'
<1> USE DEF IInv, Holds
<1>1. /\ lock = {p} /\ pc[p] = "wait" /\ p \in Reader
      /\ UNCHANGED <<data, nread, nwrite, readopen, writeopen, freed, fd, killed, Full, Empty>>
  BY DEF read_wait, pipe, CallInv, Full, Empty
<1>2. CASE ~Empty \/ ~writeopen
  <2>1. pc' = [pc EXCEPT ![p] = "copy"] /\ UNCHANGED <<lock, left, asleep>>
    BY <1>2 DEF read_wait
  <2>2. Types'
    BY <1>1, <2>1 DEF Types
  <2>3. Booleans'
    BY <1>1, <2>1, Zenon DEF Booleans
  <2>4. CallInv' /\ EndInv'
    BY <1>1, <2>1, Zenon DEF Types, CallInv, EndInv
  <2>5. SleepInv'
    BY <1>1, <2>1 DEF Types, SleepInv
  <2> QED BY <2>2, <2>3, <2>4, <2>5
<1>3. CASE Empty /\ writeopen /\ killed[p]
  <2>1. return(p) /\ UNCHANGED asleep
    BY <1>3 DEF read_wait
  <2>2. Types'
    BY <1>1, <2>1, Constants DEF Types, return
  <2>3. Booleans'
    BY <1>1, <2>1, Zenon DEF Booleans
  <2>4. CallInv' /\ EndInv'
    BY <1>1, <2>1 DEF Types, CallInv, EndInv, return
  <2>5. SleepInv'
    BY <1>1, <1>3, <2>1 DEF SleepInv, return
  <2> QED BY <2>2, <2>3, <2>4, <2>5
<1>4. CASE Empty /\ writeopen /\ ~killed[p]
  <2>1. asleep' = [asleep EXCEPT ![p] = TRUE] /\ lock' = {} /\ UNCHANGED <<pc, left>>
    BY <1>4 DEF read_wait
  <2>2. Types'
    BY <1>1, <2>1 DEF Types
  <2>3. Booleans'
    BY <1>1, <2>1, Zenon DEF Booleans
  <2>4. CallInv' /\ EndInv'
    BY <1>1, <2>1 DEF Types, Booleans, CallInv, EndInv
  <2>5. SleepInv'
    BY <1>1, <1>4, <2>1, Constants DEF Booleans, SleepInv, CallInv
  <2> QED BY <2>2, <2>3, <2>4, <2>5
<1> QED BY <1>2, <1>3, <1>4

\* piperead() takes a byte; the writers it makes room for still sleep.
LEMMA ReadByteStep ==
    ASSUME IInv, NEW p \in Process, read_byte(p)
    PROVE  IInv'
<1> USE DEF IInv, read_byte, Holds
<1>1. Types'
  <2>1. (nread + 1) % UINT \in 0 .. UINT - 1
    BY Constants DEF Types
  <2>2. left[p] - 1 \in 0 .. N /\ 0 \in 0 .. N
    BY Constants DEF Types
  <2>3. left' \in [Process -> 0 .. N]
    BY <2>2 DEF Types
  <2> QED
    BY <2>1, <2>3, Zenon DEF Types
<1>2. Booleans'
  BY Zenon DEF Booleans
<1>3. CallInv' /\ EndInv'
  BY Zenon DEF Types, CallInv, EndInv
<1>4. SleepInv'
  BY DEF SleepInv, CallInv
<1> QED BY <1>1, <1>2, <1>3, <1>4

\* piperead() returns and wakes the writers.
LEMMA ReadDoneStep ==
    ASSUME IInv, NEW p \in Process, read_done(p)
    PROVE  IInv'
<1> USE DEF IInv, read_done, wakeup, return, pipe, Holds
<1>1. Types'
  BY Constants DEF Types
<1>2. Booleans'
  BY Zenon DEF Booleans
<1>3. CallInv' /\ EndInv'
  BY Zenon DEF Types, CallInv, EndInv
<1>4. SleepInv'
  BY Zenon DEF SleepInv, CallInv, Full, Empty, Process
<1> QED BY <1>1, <1>2, <1>3, <1>4

\* A descriptor is closed, with the last one the end, with both ends the pipe.
LEMMA CloseStep ==
    ASSUME IInv, NEW p \in Process, pipeclose(p)
    PROVE  IInv'
<1> USE DEF IInv, pipeclose, wakeup, woken, unused, Unlocked
<1>1. Types'
  BY DEF Types
<1>2. Booleans'
  BY Zenon DEF Booleans
<1>3. CallInv' /\ EndInv'
  BY Constants, Zenon DEF Types, CallInv, EndInv, Process
<1>4. SleepInv'
  BY Constants, Zenon DEF SleepInv, CallInv, EndInv, Full, Empty, Process, Holds
<1> QED BY <1>1, <1>2, <1>3, <1>4

\* kill() wakes its victim.
LEMMA KillStep ==
    ASSUME IInv, NEW p \in Process, kill(p)
    PROVE  IInv'
<1> USE DEF IInv, kill, pipe
<1>1. Types'
  BY DEF Types
<1>2. Booleans'
  BY Zenon DEF Booleans
<1>3. CallInv' /\ EndInv'
  BY DEF Types, Booleans, CallInv, EndInv
<1>4. SleepInv'
  BY DEF SleepInv, Booleans, Full, Empty, Holds, Process
<1> QED BY <1>1, <1>2, <1>3, <1>4

\* Every step of a reader, of a writer or of a close keeps the invariant.
LEMMA StepInv == IInv /\ [Next]_vars => IInv'
<1> SUFFICES ASSUME IInv, [Next]_vars PROVE IInv'
  OBVIOUS
<1>1. ASSUME NEW p \in Process, Step(p) PROVE IInv'
  BY <1>1, AwakeStep, WriteFailsStep, WriteSleepStep, WriteByteStep, WriteDoneStep,
     ReadWaitStep, ReadByteStep, ReadDoneStep DEF Step
<1>2. ASSUME NEW p \in Process, pipeclose(p) \/ kill(p) PROVE IInv'
  BY <1>2, CloseStep, KillStep
<1>3. ASSUME NEW p \in Process, NEW n \in 0 .. N, call(p, n) PROVE IInv'
  BY <1>3, CallStep
<1>4. CASE UNCHANGED vars
  BY <1>4 DEF vars, IInv, Types, Booleans, CallInv, EndInv, SleepInv, Full, Empty, Holds
<1> QED BY <1>1, <1>2, <1>3, <1>4 DEF Next

\* The invariant holds in every state of the pipe.
LEMMA Invariance == Spec => []IInv
BY InitInv, StepInv, PTL DEF Spec

\* Nobody sleeps in a pipe without reason, and the page of a pipe is freed only
\* when nobody is in a call on it or can make one.
THEOREM PipeCorrect == Spec => []PipeSound
<1>1. IInv => PipeSound
  <2> SUFFICES ASSUME IInv PROVE PipeSound
    OBVIOUS
  <2> USE DEF IInv
  <2>1. TypeOK
    BY Zenon DEF Types, Booleans, TypeOK
  <2>2. SleeperMustWait
    BY DEF SleepInv, SleeperMustWait, Unlocked, Holds
  <2>3. FreedIsUnused
    BY DEF Types, CallInv, EndInv, FreedIsUnused, Process
  <2> QED BY <2>1, <2>2, <2>3 DEF PipeSound
<1> QED BY <1>1, Invariance, PTL

-----------------------------------------------------------------------------
\* Arithmetic of the counters.

\* Quotient and remainder, and that nothing else is one.
LEMMA DivMod ==
    ASSUME NEW x \in Int, NEW n \in Nat \ {0}
    PROVE  x \div n \in Int /\ x % n \in 0 .. n - 1 /\ x = n * (x \div n) + (x % n)
OBVIOUS

\* A remainder is known by any division that leaves it.
LEMMA ModUnique ==
    ASSUME NEW x \in Int, NEW n \in Nat \ {0}, NEW q \in Int, NEW r \in 0 .. n - 1,
           x = n * q + r
    PROVE  x % n = r
OBVIOUS

\* Multiples of PIPESIZE do not change the place of a byte in data[].
LEMMA ModShift ==
    ASSUME NEW x \in Int, NEW k \in Int, NEW n \in Nat \ {0}
    PROVE  (x + n * k) % n = x % n
<1> DEFINE q == x \div n
           r == x % n
<1>1. q \in Int /\ r \in 0 .. n - 1 /\ x = n * q + r
  BY DivMod
<1> HIDE DEF q, r
<1>2. x + n * k = n * (q + k) + r
  BY <1>1
<1>3. (x + n * k) % n = r
  BY <1>1, <1>2, ModUnique
<1> QED BY <1>3 DEF r

\* Fewer than n apart, two numbers go to different places of a ring of n.
LEMMA ModApart ==
    ASSUME NEW x \in Int, NEW y \in Int, NEW n \in Nat \ {0}, x < y, y < x + n
    PROVE  x % n # y % n
<1> DEFINE q == x \div n
           r == x % n
           p == y \div n
           s == y % n
<1>1. /\ q \in Int /\ r \in 0 .. n - 1 /\ x = n * q + r
      /\ p \in Int /\ s \in 0 .. n - 1 /\ y = n * p + s
  BY DivMod
<1> HIDE DEF q, r, p, s
<1>2. ASSUME r = s PROVE FALSE
  <2>1. y - x = n * (p - q)
    BY <1>1, <1>2
  <2>2. CASE p - q <= 0
    <3>1. n * (p - q) <= 0
      BY <1>1, <2>2
    <3> QED BY <2>1, <3>1
  <2>3. CASE p - q >= 1
    <3>1. n * (p - q) >= n
      BY <1>1, <2>3
    <3> QED BY <2>1, <3>1
  <2> QED BY <1>1, <2>2, <2>3
<1> QED BY <1>2 DEF r, s

\* A counter that passes the end of a uint starts again at 0.
LEMMA Wrap ==
    ASSUME NEW x \in 0 .. 2 * UINT - 1
    PROVE  x % UINT = IF x < UINT THEN x ELSE x - UINT
<1>1. CASE x < UINT
  <2>1. x = UINT * 0 + x
    BY Constants
  <2> QED BY <1>1, <2>1, Constants, ModUnique
<1>2. CASE x >= UINT
  <2>1. x = UINT * 1 + (x - UINT) /\ x - UINT \in 0 .. UINT - 1
    BY <1>2, Constants
  <2> QED BY <1>2, <2>1, Constants, ModUnique
<1> QED BY <1>1, <1>2, Constants

\* The number of bytes in a pipe with these counters
SizeOf(r, w) == (w + UINT - r) % UINT

\* The counter after one more byte
Next1(x) == (x + 1) % UINT

\* How many bytes the pipe has when a counter has wrapped, and when none has.
LEMMA SizeIs ==
    ASSUME NEW r \in 0 .. UINT - 1, NEW w \in 0 .. UINT - 1
    PROVE  SizeOf(r, w) = IF w < r THEN w + UINT - r ELSE w - r
<1> DEFINE x == w + UINT - r
<1>1. x \in 0 .. 2 * UINT - 1 /\ (x < UINT <=> w < r)
  BY Constants
<1>2. x % UINT = IF x < UINT THEN x ELSE x - UINT
  BY <1>1, Wrap
<1> QED BY <1>1, <1>2, Constants DEF SizeOf

\* The counter that piperead() and pipewrite() increment wraps to 0.
LEMMA Next1Is ==
    ASSUME NEW x \in 0 .. UINT - 1
    PROVE  /\ Next1(x) \in 0 .. UINT - 1
           /\ Next1(x) = IF x + 1 < UINT THEN x + 1 ELSE x + 1 - UINT
<1> DEFINE y == x + 1
<1>1. y \in 0 .. 2 * UINT - 1
  BY Constants
<1> HIDE DEF y
<1>2. y % UINT = IF y < UINT THEN y ELSE y - UINT
  BY <1>1, Wrap
<1>3. Next1(x) = y % UINT
  BY DEF Next1, y
<1> QED BY <1>2, <1>3, Constants DEF y

\* What pipewrite() and piperead() find out by comparing the counters, and
\* what adding one to a counter does to the number of bytes.
LEMMA Counters ==
    ASSUME NEW r \in 0 .. UINT - 1, NEW w \in 0 .. UINT - 1
    PROVE  /\ SizeOf(r, w) \in 0 .. UINT - 1 /\ PIPESIZE < UINT
           /\ r = w <=> SizeOf(r, w) = 0
           /\ w = (r + PIPESIZE) % UINT <=> SizeOf(r, w) = PIPESIZE
           /\ r + SizeOf(r, w) = w \/ r + SizeOf(r, w) = w + UINT
           /\ SizeOf(r, w) < UINT - 1 => SizeOf(r, Next1(w)) = SizeOf(r, w) + 1
           /\ SizeOf(r, w) > 0 => SizeOf(Next1(r), w) = SizeOf(r, w) - 1
<1> USE Constants
<1>1. PIPESIZE < UINT
  <2>1. PICK j \in Nat : j >= 2 /\ UINT = PIPESIZE * j
    OBVIOUS
  <2>2. PIPESIZE * j >= PIPESIZE * 2
    BY <2>1
  <2> QED BY <2>1, <2>2
<1>2. SizeOf(r, w) = IF w < r THEN w + UINT - r ELSE w - r
  BY SizeIs
<1>3. /\ SizeOf(r, w) \in 0 .. UINT - 1
      /\ r = w <=> SizeOf(r, w) = 0
      /\ r + SizeOf(r, w) = w \/ r + SizeOf(r, w) = w + UINT
  BY <1>2
<1>4. w = (r + PIPESIZE) % UINT <=> SizeOf(r, w) = PIPESIZE
  <2> DEFINE x == r + PIPESIZE
  <2>1. x \in 0 .. 2 * UINT - 1
    BY <1>1
  <2> HIDE DEF x
  <2>2. x % UINT = IF x < UINT THEN x ELSE x - UINT
    BY <2>1, Wrap, Zenon
  <2>3. w = x % UINT <=> SizeOf(r, w) = PIPESIZE
    BY <1>1, <1>2, <2>2 DEF x
  <2> QED BY <2>3 DEF x
<1>5. ASSUME SizeOf(r, w) < UINT - 1 PROVE SizeOf(r, Next1(w)) = SizeOf(r, w) + 1
  <2>1. SizeOf(r, Next1(w)) = IF Next1(w) < r THEN Next1(w) + UINT - r ELSE Next1(w) - r
    BY Next1Is, SizeIs
  <2> QED BY <1>2, <1>5, <2>1, Next1Is
<1>6. ASSUME SizeOf(r, w) > 0 PROVE SizeOf(Next1(r), w) = SizeOf(r, w) - 1
  <2>1. SizeOf(Next1(r), w) = IF w < Next1(r) THEN w + UINT - Next1(r) ELSE w - Next1(r)
    BY Next1Is, SizeIs
  <2> QED BY <1>2, <1>6, <2>1, Next1Is
<1> QED BY <1>1, <1>3, <1>4, <1>5, <1>6

\* The place of a byte depends on the counter's value before it wraps around.
LEMMA Place ==
    ASSUME NEW x \in Nat, NEW y \in Nat, x = y \/ x = y + UINT
    PROVE  x % PIPESIZE = y % PIPESIZE
<1>1. PICK j \in Nat : UINT = PIPESIZE * j
  BY Constants
<1>2. y \in Int /\ j \in Int /\ PIPESIZE \in Nat \ {0}
  BY Constants
<1>3. (y + PIPESIZE * j) % PIPESIZE = y % PIPESIZE
  BY <1>2, ModShift, Zenon
<1> QED BY <1>1, <1>3

-----------------------------------------------------------------------------
\* The pipe is a queue.

Size == SizeOf(nread, nwrite)

\* At most PIPESIZE bytes are in the pipe.
Fits == Size <= PIPESIZE

\* The bytes of a pipe, from the one that is read next
Bytes(d, r, w) == [j \in 1 .. SizeOf(r, w) |-> d[(r + j - 1) % PIPESIZE]]

\* The bytes in the pipe are a sequence, as long as the counters are apart.
LEMMA BytesAre ==
    ASSUME NEW d \in [0 .. PIPESIZE - 1 -> Byte],
           NEW r \in 0 .. UINT - 1, NEW w \in 0 .. UINT - 1
    PROVE  /\ Bytes(d, r, w) \in Seq(Byte) /\ Len(Bytes(d, r, w)) = SizeOf(r, w)
           /\ \A j \in 1 .. SizeOf(r, w) : Bytes(d, r, w)[j] = d[(r + j - 1) % PIPESIZE]
<1>1. SizeOf(r, w) \in Nat
  BY Counters
<1>2. ASSUME NEW j \in 1 .. SizeOf(r, w) PROVE d[(r + j - 1) % PIPESIZE] \in Byte
  <2>1. r + j - 1 \in Int
    BY <1>1
  <2>2. (r + j - 1) % PIPESIZE \in 0 .. PIPESIZE - 1
    BY <2>1, Constants, DivMod, Zenon
  <2> QED BY <2>2
<1> QED BY <1>1, <1>2 DEF Bytes

\* pipewrite() appends a byte.
LEMMA Appends ==
    ASSUME NEW d \in [0 .. PIPESIZE - 1 -> Byte], NEW b \in Byte,
           NEW r \in 0 .. UINT - 1, NEW w \in 0 .. UINT - 1,
           SizeOf(r, w) < PIPESIZE
    PROVE  Bytes([d EXCEPT ![w % PIPESIZE] = b], r, Next1(w)) = Append(Bytes(d, r, w), b)
<1> USE Constants
<1> DEFINE e == [d EXCEPT ![w % PIPESIZE] = b]
           n == SizeOf(r, w)
           s == Bytes(d, r, w)
           t == Bytes(e, r, Next1(w))
<1>1. n \in Nat /\ SizeOf(r, Next1(w)) = n + 1 /\ (r + n = w \/ r + n = w + UINT)
  <2>1. n \in 0 .. UINT - 1 /\ PIPESIZE < UINT /\ (r + n = w \/ r + n = w + UINT)
    BY Counters
  <2>2. n < UINT - 1
    BY <2>1
  <2> QED BY <2>1, <2>2, Counters
<1>2. w % PIPESIZE \in 0 .. PIPESIZE - 1 /\ e \in [0 .. PIPESIZE - 1 -> Byte]
  BY DivMod
<1> HIDE DEF e
<1>3. t \in Seq(Byte) /\ Len(t) = n + 1 /\ \A j \in 1 .. n + 1 : t[j] = e[(r + j - 1) % PIPESIZE]
  <2>1. Next1(w) \in 0 .. UINT - 1
    BY Next1Is
  <2>2. /\ t \in Seq(Byte) /\ Len(t) = SizeOf(r, Next1(w))
        /\ \A j \in 1 .. SizeOf(r, Next1(w)) : t[j] = e[(r + j - 1) % PIPESIZE]
    BY <1>2, <2>1, BytesAre, Zenon
  <2> HIDE DEF n, t
  <2> QED BY <1>1, <2>2
<1>4. s \in Seq(Byte) /\ Len(s) = n /\ \A j \in 1 .. n : s[j] = d[(r + j - 1) % PIPESIZE]
  BY BytesAre, Zenon
<1>5. w % PIPESIZE = (r + n) % PIPESIZE
  BY <1>1, Place
<1> HIDE DEF n, s, t
<1>6. ASSUME NEW j \in 1 .. n
      PROVE  e[(r + j - 1) % PIPESIZE] = d[(r + j - 1) % PIPESIZE]
  <2>1. r + j - 1 \in Int /\ r + n \in Int /\ r + j - 1 < r + n /\ r + n < r + j - 1 + PIPESIZE
    BY <1>1 DEF n
  <2>2. (r + j - 1) % PIPESIZE # (r + n) % PIPESIZE
    BY <2>1, ModApart, Zenon
  <2>3. (r + j - 1) % PIPESIZE \in 0 .. PIPESIZE - 1
    BY <2>1, DivMod
  <2> QED BY <1>5, <2>2, <2>3 DEF e
<1>7. e[(r + (n + 1) - 1) % PIPESIZE] = b
  <2>1. r + (n + 1) - 1 = r + n
    BY <1>1
  <2> QED BY <1>2, <1>5, <2>1 DEF e
<1>8. /\ Append(s, b) \in Seq(Byte) /\ Len(Append(s, b)) = n + 1
      /\ \A j \in 1 .. n : Append(s, b)[j] = s[j]
      /\ Append(s, b)[n + 1] = b
  BY <1>4, AppendProperties
<1>9. ASSUME NEW j \in 1 .. n + 1 PROVE t[j] = Append(s, b)[j]
  <2>1. CASE j = n + 1
    BY <1>3, <1>7, <1>8, <2>1, Zenon
  <2>2. CASE j \in 1 .. n
    BY <1>3, <1>4, <1>6, <1>8, <2>2, Zenon
  <2>3. j = n + 1 \/ j \in 1 .. n
    BY <1>1
  <2> QED BY <2>1, <2>2, <2>3, Zenon
<1>10. t = Append(s, b)
  BY <1>3, <1>8, <1>9, SeqEqual
<1> QED BY <1>10, Zenon DEF e, s, t

\* piperead() takes the first byte.
LEMMA Takes ==
    ASSUME NEW d \in [0 .. PIPESIZE - 1 -> Byte],
           NEW r \in 0 .. UINT - 1, NEW w \in 0 .. UINT - 1,
           SizeOf(r, w) > 0
    PROVE  Bytes(d, r, w) # <<>> /\ Bytes(d, Next1(r), w) = Tail(Bytes(d, r, w))
<1> USE Constants
<1> DEFINE m == Next1(r)
           n == SizeOf(r, w)
           s == Bytes(d, r, w)
           t == Bytes(d, m, w)
<1>1. n \in Nat /\ n > 0 /\ SizeOf(m, w) = n - 1
  BY Counters
<1>2. m \in 0 .. UINT - 1 /\ (r + 1 = m \/ r + 1 = m + UINT)
  BY Next1Is
<1>3. t \in Seq(Byte) /\ Len(t) = n - 1 /\ \A j \in 1 .. n - 1 : t[j] = d[(m + j - 1) % PIPESIZE]
  <2>1. /\ t \in Seq(Byte) /\ Len(t) = SizeOf(m, w)
        /\ \A j \in 1 .. SizeOf(m, w) : t[j] = d[(m + j - 1) % PIPESIZE]
    <3> HIDE DEF m
    <3> QED BY <1>2, BytesAre, Zenon
  <2> HIDE DEF m, n, t
  <2> QED BY <1>1, <2>1
<1>4. s \in Seq(Byte) /\ Len(s) = n /\ \A j \in 1 .. n : s[j] = d[(r + j - 1) % PIPESIZE]
  BY BytesAre, Zenon
<1> HIDE DEF m, n, s, t
<1>5. ASSUME NEW j \in 1 .. n - 1
      PROVE  (m + j - 1) % PIPESIZE = (r + (j + 1) - 1) % PIPESIZE
  <2>1. /\ m + j - 1 \in Nat /\ r + (j + 1) - 1 \in Nat
        /\ \/ r + (j + 1) - 1 = m + j - 1
           \/ r + (j + 1) - 1 = (m + j - 1) + UINT
    BY <1>1, <1>2
  <2> QED BY <2>1, Place, Zenon
<1>6. s # <<>>
  BY <1>1, <1>4, EmptySeq
<1>7. /\ Tail(s) \in Seq(Byte) /\ Len(Tail(s)) = n - 1
      /\ \A j \in 1 .. n - 1 : Tail(s)[j] = s[j + 1]
  BY <1>4, <1>6, HeadTailProperties
<1>8. ASSUME NEW j \in 1 .. n - 1 PROVE t[j] = Tail(s)[j]
  <2>1. j + 1 \in 1 .. n
    BY <1>1
  <2>2. s[j + 1] = d[(r + (j + 1) - 1) % PIPESIZE]
    BY <1>4, <2>1
  <2> QED BY <1>3, <1>5, <1>7, <2>2, Zenon
<1>9. t = Tail(s)
  BY <1>3, <1>7, <1>8, SeqEqual
<1> QED BY <1>6, <1>9 DEF s, t, m

\* What the refinement maps to the queue of Channel is those bytes.
LEMMA ContentsAre == Contents = Bytes(data, nread, nwrite)
BY DEF Contents, Bytes, SizeOf

\* Every step of the pipe is a step of the channel or leaves it as it is.
LEMMA StepSimulation == IInv /\ Fits /\ [Next]_vars => Fits' /\ [Queue!Next]_Queue!vars
<1> SUFFICES ASSUME IInv, Fits, [Next]_vars
             PROVE  Fits' /\ [Queue!Next]_Queue!vars
  OBVIOUS
<1> USE DEF Queue!Next, Queue!vars
<1>1. ASSUME UNCHANGED <<data, nread, nwrite>> PROVE UNCHANGED Contents /\ Fits'
  BY <1>1 DEF Contents, Fits, Size
<1>0. /\ data \in [0 .. PIPESIZE - 1 -> Byte]
      /\ nread \in 0 .. UINT - 1 /\ nwrite \in 0 .. UINT - 1
      /\ Contents = Bytes(data, nread, nwrite)
      /\ Contents' = Bytes(data', nread', nwrite')
  BY DEF IInv, Types, Contents, Bytes, SizeOf
<1>2. ASSUME NEW p \in Process, NEW b \in Byte, write_byte(p, b)
      PROVE  Fits' /\ Queue!Put
  <2>1. data' = [data EXCEPT ![nwrite % PIPESIZE] = b] /\ nwrite' = Next1(nwrite)
          /\ nread' = nread /\ ~Full
    BY <1>2 DEF write_byte, Next1
  <2>2. SizeOf(nread, nwrite) \in Nat /\ SizeOf(nread, nwrite) < PIPESIZE /\ Fits'
    <3>1. SizeOf(nread, nwrite) \in 0 .. UINT - 1 /\ SizeOf(nread, nwrite) # PIPESIZE
      BY <1>0, <2>1, Counters DEF Full
    <3>2. SizeOf(nread, nwrite) < PIPESIZE
      BY <3>1, Constants DEF Fits, Size
    <3>3. SizeOf(nread, nwrite) < UINT - 1
      <4>1. PIPESIZE < UINT
        BY <1>0, Counters
      <4> QED BY <3>1, <3>2, <4>1, Constants
    <3>4. SizeOf(nread', nwrite') = SizeOf(nread, nwrite) + 1
      BY <1>0, <2>1, <3>3, Counters
    <3> QED BY <3>1, <3>2, <3>4, Constants DEF Fits, Size
  <2>3. Contents' = Append(Contents, b)
    BY <1>0, <2>1, <2>2, Appends, Zenon
  <2>4. Len(Contents) < PIPESIZE
    BY <1>0, <2>2, BytesAre
  <2>5. writeopen /\ readopen /\ UNCHANGED <<writeopen, readopen>>
    BY <1>2 DEF write_byte, Holds, Refused, IInv, CallInv, EndInv
  <2> QED BY <2>2, <2>3, <2>4, <2>5 DEF Queue!Put
<1>3. ASSUME NEW p \in Process, read_byte(p)
      PROVE  Fits' /\ Queue!Get
  <2>1. data' = data /\ nread' = Next1(nread) /\ nwrite' = nwrite /\ ~Empty
    BY <1>3 DEF read_byte, Next1
  <2>2. SizeOf(nread, nwrite) \in 0 .. UINT - 1 /\ SizeOf(nread, nwrite) > 0
    BY <1>0, <2>1, Counters, Constants DEF Empty
  <2>3. Fits'
    BY <1>0, <2>1, <2>2, Counters, Constants DEF Fits, Size
  <2>4. Contents # <<>> /\ Contents' = Tail(Contents)
    BY <1>0, <2>1, <2>2, Takes
  <2>5. readopen /\ UNCHANGED <<writeopen, readopen>>
    BY <1>3 DEF read_byte, Holds, IInv, CallInv, EndInv
  <2> QED BY <2>3, <2>4, <2>5 DEF Queue!Get
<1>4. ASSUME NEW p \in Process, pipeclose(p)
      PROVE  Fits' /\ [Queue!Next]_Queue!vars
  <2>1. UNCHANGED Contents /\ Fits'
    BY <1>1, <1>4 DEF pipeclose
  <2>2. \/ UNCHANGED <<writeopen, readopen>>
        \/ writeopen /\ writeopen' = FALSE /\ UNCHANGED readopen
        \/ readopen /\ readopen' = FALSE /\ UNCHANGED writeopen
    BY <1>4, Constants, Zenon DEF pipeclose, IInv, Booleans
  <2> QED BY <2>1, <2>2 DEF Queue!CloseWriter, Queue!CloseReader
<1>5. ASSUME UNCHANGED <<data, nread, nwrite, readopen, writeopen>>
      PROVE  Fits' /\ [Queue!Next]_Queue!vars
  BY <1>1, <1>5
<1>6. ASSUME NEW p \in Process,
             awake(p) \/ write_fails(p) \/ write_sleep(p) \/ write_done(p) \/ read_wait(p)
               \/ read_done(p) \/ kill(p) \/ \E n \in 0 .. N : call(p, n)
      PROVE  UNCHANGED <<data, nread, nwrite, readopen, writeopen>>
  BY <1>6 DEF awake, write_fails, write_sleep, write_done, read_wait, read_done, kill, call, pipe
<1>7. CASE UNCHANGED vars
  BY <1>5, <1>7 DEF vars
<1> QED BY <1>2, <1>3, <1>4, <1>5, <1>6, <1>7 DEF Next, Step

\* The pipe is the queue Channel: bytes come out in the order they went in,
\* each once, also when nread and nwrite wrap around.
THEOREM ChannelRefined == Spec => IsChannel
<1>1. Init => Fits /\ Queue!Init
  <2> SUFFICES ASSUME Init PROVE Fits /\ Queue!Init
    OBVIOUS
  <2>1. /\ data \in [0 .. PIPESIZE - 1 -> Byte] /\ nread = nwrite
        /\ nread \in 0 .. UINT - 1 /\ nwrite \in 0 .. UINT - 1
    BY InitInv DEF IInv, Types, Init
  <2>2. Size = 0
    BY <2>1, Counters DEF Size
  <2>3. Contents = <<>>
    BY <2>1, <2>2, ContentsAre, BytesAre, EmptySeq DEF Size
  <2> QED BY <2>2, <2>3, Constants DEF Fits, Queue!Init, Init
<1> QED BY <1>1, Invariance, StepSimulation, PTL DEF Spec, IsChannel, Queue!Spec
=============================================================================
