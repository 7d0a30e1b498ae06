-------------------------------- MODULE Pipe --------------------------------
(***************************************************************************)
(* A pipe (kernel/pipe.c): several processes write to it, several read     *)
(* from it, each through a descriptor of its own for one end; fork() has   *)
(* handed them out, and fileclose() of the last one for an end closes it.  *)
(* One byte moves per step, under pi->lock.  sleep() and wakeup() are      *)
(* atomic, as Proc shows they are.                                         *)
(***************************************************************************)
EXTENDS Naturals, Sequences

CONSTANTS
    Writer, Reader,   \* the processes
    Byte,
    PIPESIZE,
    UINT,             \* the number of values of a uint
    N                 \* largest count that read() and write() are called with

ASSUME PipeAssumption ==
    /\ PIPESIZE \in Nat \ {0} /\ N \in Nat
    /\ UINT \in {PIPESIZE * j : j \in 2 .. UINT}
    /\ Writer \cap Reader = {}

Process == Writer \cup Reader

VARIABLES
    data, nread, nwrite, readopen, writeopen,   \* fields of struct pipe
    lock,      \* the process that holds pi->lock, if any
    freed,     \* kfree() has been called for the pipe
    fd,        \* the processes whose descriptor is open
    pc,        \* "idle", or where the process is in its system call
    left,      \* bytes the call has still to move (n - i)
    asleep,    \* the process is SLEEPING
    killed

pipe == <<data, nread, nwrite, readopen, writeopen>>
vars == <<data, nread, nwrite, readopen, writeopen, lock, freed, fd, pc, left, asleep, killed>>

Unlocked == lock = {}
Holds(p, l) == lock = {p} /\ pc[p] = l

\* pipealloc()
Init ==
    /\ data \in [0 .. PIPESIZE - 1 -> Byte]
    /\ nread = 0 /\ nwrite = 0
    /\ readopen = TRUE /\ writeopen = TRUE
    /\ lock = {} /\ freed = FALSE
    /\ fd = Process
    /\ pc = [p \in Process |-> "idle"]
    /\ left = [p \in Process |-> 0]
    /\ asleep = [p \in Process |-> FALSE]
    /\ killed = [p \in Process |-> FALSE]

Empty == nread = nwrite
\* Mutant of Full: as if the counters did not wrap around.
Full_no_wrap == nwrite = nread + PIPESIZE
Full == nwrite = (nread + PIPESIZE) % UINT

wakeup(S) == asleep' = [p \in Process |-> asleep[p] /\ p \notin S]

return(p) ==
    /\ lock' = {}
    /\ pc' = [pc EXCEPT ![p] = "idle"]
    /\ left' = [left EXCEPT ![p] = 0]

\* read() or write() on the descriptor, up to acquire(&pi->lock)
call(p, n) ==
    /\ pc[p] = "idle" /\ p \in fd /\ ~killed[p]
    /\ Unlocked
    /\ lock' = {p}
    /\ pc' = [pc EXCEPT ![p] = IF p \in Writer THEN "write" ELSE "wait"]
    /\ left' = [left EXCEPT ![p] = n]
    /\ UNCHANGED <<pipe, freed, fd, asleep, killed>>

\* acquire(lk) at the end of sleep()
awake(p) ==
    /\ pc[p] # "idle" /\ ~asleep[p]
    /\ Unlocked
    /\ lock' = {p}
    /\ UNCHANGED <<pipe, freed, fd, pc, left, asleep, killed>>

-----------------------------------------------------------------------------
\* pipewrite()

Refused(p) == ~readopen \/ killed[p]

write_fails(p) ==
    /\ Holds(p, "write") /\ left[p] > 0
    /\ Refused(p)
    /\ return(p)
    /\ UNCHANGED <<pipe, freed, fd, asleep, killed>>

write_sleep(p) ==
    /\ Holds(p, "write") /\ left[p] > 0
    /\ ~Refused(p) /\ Full
    /\ asleep' = [q \in Process |-> (asleep[q] /\ q \notin Reader) \/ q = p]
    /\ lock' = {}
    /\ UNCHANGED <<pipe, freed, fd, pc, left, killed>>

write_byte(p, b) ==
    /\ Holds(p, "write") /\ left[p] > 0
    /\ ~Refused(p) /\ ~Full
    /\ data' = [data EXCEPT ![nwrite % PIPESIZE] = b]
    /\ nwrite' = (nwrite + 1) % UINT
    /\ left' = [left EXCEPT ![p] = @ - 1]
    /\ UNCHANGED <<nread, readopen, writeopen, lock, freed, fd, pc, asleep, killed>>

\* The end of the loop: all is written, or copyin() has failed.
write_done(p) ==
    /\ Holds(p, "write")
    /\ left[p] > 0 => ~Refused(p) /\ ~Full
    /\ wakeup(Reader)
    /\ return(p)
    /\ UNCHANGED <<pipe, freed, fd, killed>>

-----------------------------------------------------------------------------
\* piperead()

read_wait(p) ==
    /\ Holds(p, "wait")
    /\ IF ~Empty \/ ~writeopen
         THEN pc' = [pc EXCEPT ![p] = "copy"] /\ UNCHANGED <<lock, left, asleep>>
       ELSE IF killed[p] THEN return(p) /\ UNCHANGED asleep
       ELSE /\ asleep' = [asleep EXCEPT ![p] = TRUE]
            /\ lock' = {}
            /\ UNCHANGED <<pc, left>>
    /\ UNCHANGED <<pipe, freed, fd, killed>>

\* copyout() may fail; the byte is gone, and the loop ends.
read_byte(p) ==
    /\ Holds(p, "copy") /\ left[p] > 0 /\ ~Empty
    /\ nread' = (nread + 1) % UINT
    /\ left' \in {[left EXCEPT ![p] = @ - 1], [left EXCEPT ![p] = 0]}
    /\ UNCHANGED <<data, nwrite, readopen, writeopen, lock, freed, fd, pc, asleep, killed>>

\* Mutant: writers are not woken.
read_done_no_wakeup(p) ==
    /\ Holds(p, "copy")
    /\ left[p] = 0 \/ Empty
    /\ return(p)
    /\ UNCHANGED <<pipe, freed, fd, asleep, killed>>

read_done(p) ==
    /\ Holds(p, "copy")
    /\ left[p] = 0 \/ Empty
    /\ wakeup(Writer)
    /\ return(p)
    /\ UNCHANGED <<pipe, freed, fd, killed>>

-----------------------------------------------------------------------------
\* Who is woken when the last descriptor like p's goes
woken(p) == IF p \in Writer THEN Reader ELSE Writer

\* kfree() once both ends are closed
unused(r, w) == ~r /\ ~w

\* pipeclose(), when fileclose() drops the last reference to the end

pipeclose(p) ==
    LET last == IF p \in Writer THEN fd \cap Writer = {p} ELSE fd \cap Reader = {p} IN
    /\ pc[p] = "idle" /\ p \in fd
    /\ Unlocked
    /\ fd' = fd \ {p}
    /\ writeopen' = (writeopen /\ ~(last /\ p \in Writer))
    /\ readopen' = (readopen /\ ~(last /\ p \in Reader))
    /\ IF last THEN wakeup(woken(p)) ELSE UNCHANGED asleep
    /\ freed' = (freed \/ (last /\ unused(readopen', writeopen')))
    /\ UNCHANGED <<data, nread, nwrite, lock, pc, left, killed>>

\* kill(): the victim closes its descriptors when its system call is over.
kill(p) ==
    /\ p \in fd
    /\ killed' = [killed EXCEPT ![p] = TRUE]
    /\ asleep' = [asleep EXCEPT ![p] = FALSE]
    /\ UNCHANGED <<pipe, lock, freed, fd, pc, left>>

Step(p) ==
    \/ awake(p)
    \/ write_fails(p) \/ write_sleep(p) \/ (\E b \in Byte : write_byte(p, b)) \/ write_done(p)
    \/ read_wait(p) \/ read_byte(p) \/ read_done(p)

Next ==
    \E p \in Process : \/ Step(p) \/ pipeclose(p) \/ kill(p)
                       \/ \E n \in 0 .. N : call(p, n)

Spec == Init /\ [][Next]_vars

-----------------------------------------------------------------------------
\* Types of the variables.
TypeOK ==
    /\ data \in [0 .. PIPESIZE - 1 -> Byte]
    /\ nread \in 0 .. UINT - 1 /\ nwrite \in 0 .. UINT - 1
    /\ readopen \in BOOLEAN /\ writeopen \in BOOLEAN /\ freed \in BOOLEAN
    /\ lock \in SUBSET Process /\ fd \in SUBSET Process
    /\ pc \in [Process -> {"idle", "write", "wait", "copy"}]
    /\ left \in [Process -> 0 .. N]
    /\ asleep \in [Process -> BOOLEAN] /\ killed \in [Process -> BOOLEAN]

\* When pi->lock is free, a process asleep in pipewrite() has a full pipe with
\* readers before it, one asleep in piperead() an empty pipe with writers: no
\* wakeup for room, data or the other end's close is lost.  The exception is a
\* writer that is killed between two bytes, see ReaderSleepsOnEmpty.
SleeperMustWait ==
    Unlocked => \A p \in Process : asleep[p] =>
        IF p \in Writer THEN Full /\ readopen
        ELSE writeopen /\ (Empty \/ \E q \in Writer : killed[q])

\* The page of the pipe goes back to the allocator only when nobody is in a
\* system call on it, or can make one.
FreedIsUnused ==
    freed => fd = {} /\ \A p \in Process : pc[p] = "idle"

\* The pipe implements the queue Channel: no byte is lost, doubled, changed or
\* overtaken, even when nread and nwrite wrap around.
Contents == [j \in 1 .. (nwrite + UINT - nread) % UINT |-> data[(nread + j - 1) % PIPESIZE]]
Queue == INSTANCE Channel
            WITH queue <- Contents, writable <- writeopen, readable <- readopen,
                 Capacity <- PIPESIZE
IsChannel == Queue!Spec

\* What the comments "pipe-empty" and "piperead-sleep" say: a reader sleeps
\* because the pipe is empty.
ReaderSleepsOnEmpty ==
    Unlocked => \A p \in Reader : asleep[p] => Empty

\* Nobody sleeps without reason in a pipe, and nobody is in one that is freed.
PipeSound == TypeOK /\ SleeperMustWait /\ FreedIsUnused
=============================================================================
