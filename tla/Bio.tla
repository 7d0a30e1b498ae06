-------------------------------- MODULE Bio --------------------------------
(***************************************************************************)
(* The buffer cache (kernel/bio.c) with the buffers' sleep locks           *)
(* (kernel/sleeplock.c), on top of the disk driver.  A section under       *)
(* bcache.lock or under the spin lock of a sleep lock is one step.         *)
(*                                                                         *)
(* The callers are processes that bread() a block, may change the data,    *)
(* bwrite() or bpin() what they changed, and brelse(); a pin goes only     *)
(* when the data has been written, as in log.c.                            *)
(***************************************************************************)
EXTENDS BlockDevice, Integers, FiniteSets, Sequences, Functions

CONSTANTS
    Process,
    MaxPin      \* buffers that callers keep pinned at a time

ASSUME BioAssumption ==
    /\ Buf \subseteq Nat /\ IsFiniteSet(Buf)
    /\ IsFiniteSet(Process) /\ MaxPin \in Nat
    /\ -1 \notin Process /\ -1 \notin Block
    /\ Cardinality(Buf) >= Cardinality(Process) + MaxPin

None == -1

VARIABLES
    lru,        \* the list from bcache.head.next on, most recent first
    blockno, valid, refcnt,     \* fields of struct buf
    lock,       \* the process that holds the sleep lock b->lock, or None
    pc, buf,    \* where the process is, and its b
    asleep,     \* the processes asleep in acquiresleep()
    dirty,      \* buffers changed since the last bwrite()
    pinned,
    latest      \* what was last stored for a block

cache == <<lru, blockno, valid, refcnt, lock>>
client == <<dirty, pinned, latest>>
vars == <<device, cache, client, pc, buf, asleep>>

Set(f, x, v) == [f EXCEPT ![x] = v]

\* binit(): each buffer goes to the front of the list in turn.
Init ==
    /\ DeviceInit
    /\ lru \in {l \in [1 .. Cardinality(Buf) -> Buf] :
                    \A i, j \in DOMAIN l : i < j => l[i] > l[j]}
    /\ blockno = [b \in Buf |-> None] /\ valid = {}
    /\ refcnt = [b \in Buf |-> 0]
    /\ lock = [b \in Buf |-> None]
    /\ pc = [p \in Process |-> "idle"] /\ buf = [p \in Process |-> None]
    /\ asleep = {} /\ dirty = {} /\ pinned = {}
    /\ latest = content

At(p, l) == pc[p] = l /\ p \notin asleep
Goto(p, l) == pc' = Set(pc, p, l)

-----------------------------------------------------------------------------
\* bget()

\* The buffers that may be recycled; mutant: any.
recyclable_any == Buf
recyclable == {b \in Buf : refcnt[b] = 0}

\* "Is the block already cached?"; mutant: only buffers in use are looked at.
cached_in_use(blk) == {b \in Buf : blockno[b] = blk /\ refcnt[b] > 0}
cached(blk) == {b \in Buf : blockno[b] = blk}

bget_hit(p, blk) ==
    /\ At(p, "idle")
    /\ \E b \in cached(blk) :
          /\ refcnt' = [refcnt EXCEPT ![b] = @ + 1]
          /\ buf' = Set(buf, p, b)
    /\ Goto(p, "lock")
    /\ UNCHANGED <<device, asleep, lru, blockno, valid, lock, client>>

\* Looking from the end of the list, the first of the unused ones
least_recent(b) ==
    \E i \in DOMAIN lru :
        /\ lru[i] = b /\ b \in recyclable
        /\ \A j \in DOMAIN lru : j > i => lru[j] \notin recyclable

bget_miss(p, blk) ==
    /\ At(p, "idle")
    /\ cached(blk) = {}
    /\ \E b \in Buf :
          /\ least_recent(b)
          /\ blockno' = Set(blockno, b, blk)
          /\ valid' = valid \ {b}
          /\ refcnt' = Set(refcnt, b, 1)
          /\ buf' = Set(buf, p, b)
    /\ Goto(p, "lock")
    /\ UNCHANGED <<device, asleep, lru, lock, client>>

-----------------------------------------------------------------------------
\* Sleep locks

\* acquiresleep(), and in bread() the test of b->valid
acquiresleep(p) ==
    LET b == buf[p] IN
    /\ At(p, "lock")
    /\ IF lock[b] # None
         THEN asleep' = asleep \cup {p} /\ UNCHANGED <<lock, pc>>
         ELSE /\ lock' = Set(lock, b, p)
              /\ Goto(p, IF b \in valid THEN "held" ELSE "read")
              /\ UNCHANGED asleep
    /\ UNCHANGED <<device, lru, blockno, valid, refcnt, client, buf>>

\* wakeup(lk) in releasesleep()
releasesleep(b) == {p \in asleep : buf[p] # b}

-----------------------------------------------------------------------------
\* virtio_disk_rw() from bread() and bwrite(), and their return

rw(p) ==
    LET b == buf[p] IN
    /\ pc[p] \in {"read", "write"}
    /\ Request(b, pc[p] = "write", blockno[b])
    /\ UNCHANGED <<cache, client, pc, buf, asleep>>

bread_end(p) ==
    /\ pc[p] = "read" /\ Return(buf[p])
    /\ valid' = valid \cup {buf[p]}
    /\ Goto(p, "held")
    /\ UNCHANGED <<lru, blockno, refcnt, lock, client, buf, asleep>>

bwrite_end(p) ==
    /\ pc[p] = "write" /\ Return(buf[p])
    /\ dirty' = dirty \ {buf[p]}
    /\ Goto(p, "held")
    /\ UNCHANGED <<cache, pinned, latest, buf, asleep>>

\* bwrite(), called for what has been changed
bwrite(p) ==
    /\ At(p, "held") /\ buf[p] \in dirty
    /\ Goto(p, "write")
    /\ UNCHANGED <<device, asleep, cache, client, buf>>

\* The caller stores into b->data.
store(p, v) ==
    /\ At(p, "held") /\ Store(buf[p], v)
    /\ dirty' = dirty \cup {buf[p]}
    /\ latest' = Set(latest, blockno[buf[p]], v)
    /\ UNCHANGED <<cache, pinned, pc, buf, asleep>>

bpin(p) ==
    LET b == buf[p] IN
    /\ At(p, "held") /\ b \in dirty \ pinned
    /\ Cardinality(pinned) < MaxPin
    /\ refcnt' = [refcnt EXCEPT ![b] = @ + 1]
    /\ pinned' = pinned \cup {b}
    /\ UNCHANGED <<device, asleep, lru, blockno, valid, lock, dirty, latest, pc, buf>>

bunpin(p) ==
    LET b == buf[p] IN
    /\ At(p, "held") /\ b \in pinned \ dirty
    /\ refcnt' = [refcnt EXCEPT ![b] = @ - 1]
    /\ pinned' = pinned \ {b}
    /\ UNCHANGED <<device, asleep, lru, blockno, valid, lock, dirty, latest, pc, buf>>

-----------------------------------------------------------------------------
\* brelse(): the sleep lock ...
brelse(p) ==
    LET b == buf[p] IN
    /\ At(p, "held") /\ (b \in dirty => b \in pinned)
    /\ lock' = Set(lock, b, None)
    /\ asleep' = releasesleep(b)
    /\ Goto(p, "release")
    /\ UNCHANGED <<device, lru, blockno, valid, refcnt, client, buf>>

\* The list with b at its front
to_front(b) ==
    LET i == CHOOSE i \in DOMAIN lru : lru[i] = b IN
    [j \in DOMAIN lru |-> IF j = 1 THEN b ELSE IF j <= i THEN lru[j - 1] ELSE lru[j]]

\* ... then the reference
brelse_ref(p) ==
    LET b == buf[p] IN
    /\ At(p, "release")
    /\ refcnt' = [refcnt EXCEPT ![b] = @ - 1]
    /\ lru' = IF refcnt'[b] = 0 THEN to_front(b) ELSE lru
    /\ buf' = Set(buf, p, None)
    /\ Goto(p, "idle")
    /\ UNCHANGED <<device, asleep, blockno, valid, lock, client>>

-----------------------------------------------------------------------------
Kernel(p) == acquiresleep(p) \/ rw(p) \/ bread_end(p) \/ bwrite_end(p) \/ brelse_ref(p)

Client(p) ==
    \/ \E blk \in Block : bget_hit(p, blk) \/ bget_miss(p, blk)
    \/ \E v \in Value : store(p, v)
    \/ bwrite(p) \/ bpin(p) \/ bunpin(p) \/ brelse(p)

perform(b) == Perform(b) /\ UNCHANGED <<cache, client, pc, buf, asleep>>

Next ==
    \/ \E p \in Process : Kernel(p) \/ Client(p)
    \/ \E b \in Buf : perform(b)

Spec == Init /\ [][Next]_vars

-----------------------------------------------------------------------------
\* Types of the variables.
TypeOK ==
    /\ data \in [Buf -> Value] /\ content \in [Block -> Value] /\ latest \in [Block -> Value]
    /\ io \in [Buf -> {"none", "pending", "done"}]
    /\ valid \subseteq Buf /\ dirty \subseteq Buf /\ pinned \subseteq Buf
    /\ Len(lru) = Cardinality(Buf) /\ Range(lru) = Buf
    /\ blockno \in [Buf -> Block \cup {None}]
    /\ refcnt \in [Buf -> 0 .. Cardinality(Process) + 1]
    /\ lock \in [Buf -> Process \cup {None}]
    /\ pc \in [Process -> {"idle", "lock", "read", "write", "held", "release"}]
    /\ buf \in [Process -> Buf \cup {None}]
    /\ asleep \subseteq Process

\* There is never a second buffer for a block ("synchronization point for
\* disk blocks used by multiple processes"), and whoever holds the lock of one
\* that is valid sees what was last stored for the block, by anyone; what is
\* not cached is on the disk.
Coherent ==
    /\ \A b, c \in Buf : b # c /\ blockno[b] # None => blockno[b] # blockno[c]
    /\ \A b \in valid : data[b] = latest[blockno[b]]
    /\ \A k \in Block : (\A b \in valid \cap dirty : blockno[b] # k) => content[k] = latest[k]

\* A buffer's refcnt is the number of processes between bget() and brelse()
\* and its pins: it is recycled neither too early nor never.
RefcntCounts ==
    \A b \in Buf :
        refcnt[b] = Cardinality({p \in Process : buf[p] = b}) + Cardinality({b} \cap pinned)

\* A process between acquiresleep() and releasesleep() holds the lock, so that
\* no two of them use a buffer at a time.
HoldsLock ==
    \A p \in Process : pc[p] \in {"read", "write", "held"} => lock[buf[p]] = p

\* Nobody sleeps for a lock that is free.
SleeperMustWait ==
    \A p \in asleep : lock[buf[p]] # None

\* Who has a buffer: its references are those of its users, its sleep lock is
\* held by the one that works on it, and only others sleep for it.
BuffersHeld == TypeOK /\ RefcntCounts /\ HoldsLock /\ SleeperMustWait
=============================================================================
