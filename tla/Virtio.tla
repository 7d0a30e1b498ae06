------------------------------- MODULE Virtio -------------------------------
(***************************************************************************)
(* The disk driver (kernel/virtio_disk.c) and, as its environment, the     *)
(* device it talks to: chains of three descriptors, the avail and the used *)
(* ring with their 16-bit indices, and the completion interrupt.           *)
(*                                                                         *)
(* A buffer stands for the process that calls virtio_disk_rw() for it.     *)
(* What that process does between two sleep() is one step: all of it is    *)
(* under vdisk_lock, and the device sees nothing of it before avail->idx.  *)
(* The interrupt handler works through the used ring entry by entry while  *)
(* the device may go on adding to it.  An entry of a ring is None while it *)
(* is outside the part that the other side may read.                       *)
(***************************************************************************)
EXTENDS Integers, FiniteSets, FiniteSetsExt

CONSTANTS
    Buf, Block, Value,
    NUM,            \* descriptors
    UINT16          \* the number of values of a uint16

ASSUME VirtioAssumption ==
    /\ NUM \in Nat \ {0, 1, 2} /\ UINT16 \in {NUM * j : j \in 1 .. UINT16}
    /\ -1 \notin Buf

Idx == 0 .. NUM - 1
None == -1

VARIABLES
    content,                \* the disk
    data, disk_owns,        \* fields of struct buf; disk_owns is b->disk
    pc, op,                 \* where the caller is, and what it asked for
    chan,                   \* what it sleeps on: "none", "free" or "disk"
    free, desc, ops, info,  \* fields of struct disk
    avail, avail_idx,       \* the avail ring
    used, used_idx_dev,     \* the used ring, with the device's used->idx
    used_idx,               \* how far the driver has looked
    seen_idx, taken,        \* the device: how far it has looked, its requests
    irq,                    \* it asks for an interrupt
    vdisk_lock              \* the handler holds the lock

caller == <<pc, op>>
driver == <<free, desc, ops, info>>
availring == <<avail, avail_idx, seen_idx>>
usedring == <<used, used_idx_dev, used_idx>>
vars == <<content, data, disk_owns, caller, chan, driver, availring, usedring, taken, irq,
          vdisk_lock>>

Zero == [addr |-> None, next |-> None]
NoOp == [write |-> FALSE, sector |-> "none"]

\* virtio_disk_init(), on a disk that holds anything
Init ==
    /\ content \in [Block -> Value]
    /\ data \in {[b \in Buf |-> v] : v \in Value} /\ disk_owns = {}
    /\ pc = [b \in Buf |-> "idle"] /\ op = [b \in Buf |-> NoOp]
    /\ chan = [b \in Buf |-> "none"]
    /\ free = Idx
    /\ desc = [i \in Idx |-> Zero] /\ ops = [i \in Idx |-> NoOp]
    /\ info = [i \in Idx |-> [b |-> None, status |-> 0]]
    /\ avail = [i \in Idx |-> None] /\ used = [i \in Idx |-> None]
    /\ avail_idx = 0 /\ used_idx_dev = 0 /\ used_idx = 0 /\ seen_idx = 0
    /\ taken = {} /\ irq = FALSE /\ vdisk_lock = FALSE

\* The caller of virtio_disk_rw() is at l and gets vdisk_lock.
At(b, l) == pc[b] = l /\ chan[b] = "none" /\ ~vdisk_lock

-----------------------------------------------------------------------------
\* The holder of the buffer changes it.
store(b, v) ==
    /\ pc[b] = "idle"
    /\ data' = [data EXCEPT ![b] = v]
    /\ UNCHANGED <<content, disk_owns, caller, chan, driver, availring, usedring, taken, irq, vdisk_lock>>

\* wakeup(&disk.free[0]); mutant: free_desc() does not call it.
wake_free_no_wakeup(c) == c
wake_free(c) == [b \in Buf |-> IF c[b] = "free" THEN "none" ELSE c[b]]

alloc_desc(S) == Min(S)

\* What ops[idx[0]] is set to; mutant: VIRTIO_BLK_T_IN and _OUT are swapped.
blk_req_swapped(o) == [write |-> ~o.write, sector |-> o.sector]
blk_req(o) == [write |-> o.write, sector |-> o.sector]

\* avail->idx += 1 on a uint16
avail_next(i) == (i + 1) % UINT16

\* alloc3_desc() fails.  The descriptors it did get are freed again, and each
\* free_desc() wakes the others that wait.
alloc3_desc_fails(b) ==
    /\ Cardinality(free) < 3
    /\ pc' = [pc EXCEPT ![b] = "alloc"]
    /\ chan' = [(IF free = {} THEN chan ELSE wake_free(chan)) EXCEPT ![b] = "free"]
    /\ UNCHANGED <<disk_owns, driver, avail, avail_idx>>

\* alloc3_desc() succeeds, the chain is formatted and handed to the device.
request(b, o) ==
    LET i == alloc_desc(free)
        j == alloc_desc(free \ {i})
        k == alloc_desc(free \ {i, j})
    IN
    /\ Cardinality(free) >= 3
    /\ free' = free \ {i, j, k}
    /\ desc' = [desc EXCEPT ![i] = [addr |-> i, next |-> j],
                            ![j] = [addr |-> b, next |-> k],
                            ![k] = [addr |-> i, next |-> None]]
    /\ ops' = [ops EXCEPT ![i] = blk_req(o)]
    /\ info' = [info EXCEPT ![i] = [b |-> b, status |-> 255]]
    /\ disk_owns' = disk_owns \cup {b}
    /\ avail' = [avail EXCEPT ![avail_idx % NUM] = i]
    /\ avail_idx' = avail_next(avail_idx)
    /\ pc' = [pc EXCEPT ![b] = "wait"]
    /\ chan' = [chan EXCEPT ![b] = "disk"]

\* virtio_disk_rw(), up to its first sleep() ...
virtio_disk_rw(b, o) ==
    /\ At(b, "idle")
    /\ op' = [op EXCEPT ![b] = o]
    /\ alloc3_desc_fails(b) \/ request(b, o)
    /\ UNCHANGED <<content, data, seen_idx, usedring, taken, irq, vdisk_lock>>

\* ... and from one sleep() for descriptors to the next
rw_again(b) ==
    /\ At(b, "alloc")
    /\ alloc3_desc_fails(b) \/ request(b, op[b])
    /\ UNCHANGED <<content, data, op, seen_idx, usedring, taken, irq, vdisk_lock>>

\* The chain that starts at i, as free_chain() follows it; mutant: the flags
\* are looked at after free_desc() has cleared them.
free_chain_head(i) == {i}
free_chain(i) ==
    LET j == desc[i].next
        k == IF j = None THEN None ELSE desc[j].next
    IN  {i, j, k} \ {None}

\* b->disk is 0: the end of virtio_disk_rw().  h is idx[0].
rw_end(b) ==
    LET h == CHOOSE i \in Idx : info[i].b = b IN
    /\ At(b, "wait") /\ b \notin disk_owns
    /\ info' = [info EXCEPT ![h].b = None]
    /\ free' = free \cup free_chain(h)
    /\ desc' = [i \in Idx |-> IF i \in free_chain(h) THEN Zero ELSE desc[i]]
    /\ ops' = [ops EXCEPT ![h] = NoOp]
    /\ pc' = [pc EXCEPT ![b] = "idle"] /\ op' = [op EXCEPT ![b] = NoOp]
    /\ chan' = wake_free(chan)
    /\ UNCHANGED <<content, data, disk_owns, availring, usedring, taken, irq, vdisk_lock>>

-----------------------------------------------------------------------------
\* The device takes requests in the order of the avail ring ...
dev_take ==
    /\ seen_idx # avail_idx
    /\ taken' = taken \cup {avail[seen_idx % NUM]}
    /\ avail' = [avail EXCEPT ![seen_idx % NUM] = None]
    /\ seen_idx' = (seen_idx + 1) % UINT16
    /\ UNCHANGED <<content, data, disk_owns, caller, chan, driver, avail_idx, usedring, irq, vdisk_lock>>

\* ... and completes them in any order.
dev_complete(h) ==
    LET b == desc[desc[h].next].addr
        s == desc[desc[desc[h].next].next].addr
    IN
    /\ h \in taken
    /\ taken' = taken \ {h}
    /\ IF ops[h].write
         THEN content' = [content EXCEPT ![ops[h].sector] = data[b]] /\ UNCHANGED data
         ELSE data' = [data EXCEPT ![b] = content[ops[h].sector]] /\ UNCHANGED content
    /\ info' = [info EXCEPT ![s].status = 0]
    /\ used' = [used EXCEPT ![used_idx_dev % NUM] = h]
    /\ used_idx_dev' = (used_idx_dev + 1) % UINT16
    /\ irq' = TRUE
    /\ UNCHANGED <<disk_owns, caller, chan, free, desc, ops, availring, used_idx, vdisk_lock>>

-----------------------------------------------------------------------------
\* The device has added entries the driver has not seen (indices wrap around).
has_used == used_idx # used_idx_dev

\* virtio_disk_intr(): acquire the lock and acknowledge the interrupt ...
intr_ack ==
    /\ irq /\ ~vdisk_lock
    /\ vdisk_lock' = TRUE
    /\ irq' = FALSE
    /\ UNCHANGED <<content, data, disk_owns, caller, chan, driver, availring, usedring, taken>>

\* ... one entry of the used ring; a status other than 0 panics ...
intr_entry ==
    LET b == info[used[used_idx % NUM]].b IN
    /\ vdisk_lock /\ has_used
    /\ disk_owns' = disk_owns \ {b}
    /\ chan' = [chan EXCEPT ![b] = "none"]
    /\ used' = [used EXCEPT ![used_idx % NUM] = None]
    /\ used_idx' = (used_idx + 1) % UINT16
    /\ UNCHANGED <<content, data, caller, driver, availring, used_idx_dev, taken, irq, vdisk_lock>>

\* ... and the end of the loop
intr_end ==
    /\ vdisk_lock /\ ~has_used
    /\ vdisk_lock' = FALSE
    /\ UNCHANGED <<content, data, disk_owns, caller, chan, driver, availring, usedring, taken, irq>>

-----------------------------------------------------------------------------
Op == [write : BOOLEAN, sector : Block]
Device == dev_take \/ \E h \in taken : dev_complete(h)
Interrupt == intr_ack \/ intr_entry \/ intr_end

Next ==
    \/ \E b \in Buf :
          \/ rw_again(b) \/ rw_end(b)
          \/ \E v \in Value : store(b, v)
          \/ \E o \in Op : virtio_disk_rw(b, o)
    \/ Device \/ Interrupt

Spec == Init /\ [][Next]_vars

-----------------------------------------------------------------------------
\* Types of the variables.
TypeOK ==
    /\ content \in [Block -> Value] /\ data \in [Buf -> Value]
    /\ disk_owns \subseteq Buf
    /\ pc \in [Buf -> {"idle", "alloc", "wait"}] /\ chan \in [Buf -> {"none", "free", "disk"}]
    /\ op \in [Buf -> [write : BOOLEAN, sector : Block \cup {"none"}]]
    /\ free \subseteq Idx /\ taken \subseteq Idx
    /\ desc \in [Idx -> [addr : Idx \cup Buf \cup {None}, next : Idx \cup {None}]]
    /\ ops \in [Idx -> [write : BOOLEAN, sector : Block \cup {"none"}]]
    /\ info \in [Idx -> [b : Buf \cup {None}, status : {0, 255}]]
    /\ avail \in [Idx -> Idx \cup {None}] /\ used \in [Idx -> Idx \cup {None}]
    /\ {avail_idx, used_idx_dev, used_idx, seen_idx} \subseteq 0 .. UINT16 - 1
    /\ irq \in BOOLEAN /\ vdisk_lock \in BOOLEAN

\* The entries of a ring between the two sides' indices
Window(ring, from, to) == {ring[(from + j) % NUM] : j \in 0 .. ((to - from) % UINT16) - 1}

\* Each request that a caller waits for is in exactly one place: the avail
\* ring, the device or the used ring.  Its three descriptors are not free and
\* in no other chain, and all other descriptors are free: none is freed twice
\* ("free_desc 2") or lost.
RequestsConserved ==
    LET Heads == {h \in Idx : info[h].b # None}
        Queued == Window(avail, seen_idx, avail_idx)
        Completed == Window(used, used_idx, used_idx_dev)
    IN
    /\ Queued \cup taken \cup Completed = {h \in Heads : info[h].b \in disk_owns}
    /\ Queued \cap taken = {} /\ Queued \cap Completed = {} /\ taken \cap Completed = {}
    /\ {info[h].b : h \in Heads} = {b \in Buf : pc[b] = "wait"}
    /\ \A g, h \in Heads : g # h => free_chain(g) \cap free_chain(h) = {}
    /\ free = Idx \ UNION {free_chain(h) : h \in Heads}

\* Nobody sleeps for what has already happened: one that waits for its request
\* has it with the disk, one that waits for descriptors has too few before it;
\* and as long as a completed request is in the used ring, an interrupt is on
\* its way or the handler is at work.
NothingIsMissed ==
    /\ \A b \in Buf :
          /\ chan[b] = "disk" => b \in disk_owns
          /\ chan[b] = "free" => Cardinality(free) < 3
    /\ used_idx # used_idx_dev => irq \/ vdisk_lock

\* The driver and the device implement BlockDevice: each request is carried
\* out once, on its own block and buffer, although chains and rings are reused.
Progress(b) ==
    CASE pc[b] = "idle" -> "none"
      [] pc[b] = "alloc" -> "pending"
      [] pc[b] = "wait" -> IF \E h \in Idx : info[h].b = b /\ info[h].status = 255
                             THEN "pending" ELSE "done"
Disk == INSTANCE BlockDevice WITH io <- [b \in Buf |-> Progress(b)]
IsBlockDevice == Disk!DeviceSpec

\* The rings and descriptors hold the requests under way and nothing else.
QueueSound == TypeOK /\ RequestsConserved
=============================================================================
