----------------------------- MODULE BlockDevice -----------------------------
(***************************************************************************)
(* What virtio_disk_rw() promises: the request of a buffer is carried out  *)
(* at one moment between the call and the return, and the call returns.    *)
(* Whoever calls it for a buffer holds the buffer's lock, so that a buffer *)
(* has at most one request, and stands for the process that waits for it.  *)
(***************************************************************************)
CONSTANTS Buf, Block, Value

VARIABLES
    content,    \* the disk
    data,       \* b->data
    io,         \* "none", or how far the request of the buffer is
    op          \* the request: write or read, and the block

device == <<content, data, io, op>>

NoOp == [write |-> FALSE, sector |-> "none"]

DeviceInit ==
    /\ content \in [Block -> Value]
    /\ data \in {[b \in Buf |-> v] : v \in Value}
    /\ io = [b \in Buf |-> "none"] /\ op = [b \in Buf |-> NoOp]

\* The holder of the buffer changes it.
Store(b, v) ==
    /\ io[b] = "none"
    /\ data' = [data EXCEPT ![b] = v]
    /\ UNCHANGED <<content, io, op>>

Request(b, write, sector) ==
    /\ io[b] = "none"
    /\ io' = [io EXCEPT ![b] = "pending"]
    /\ op' = [op EXCEPT ![b] = [write |-> write, sector |-> sector]]
    /\ UNCHANGED <<content, data>>

Perform(b) ==
    /\ io[b] = "pending"
    /\ io' = [io EXCEPT ![b] = "done"]
    /\ IF op[b].write
         THEN content' = [content EXCEPT ![op[b].sector] = data[b]] /\ UNCHANGED data
         ELSE data' = [data EXCEPT ![b] = content[op[b].sector]] /\ UNCHANGED content
    /\ UNCHANGED op

Return(b) ==
    /\ io[b] = "done"
    /\ io' = [io EXCEPT ![b] = "none"]
    /\ op' = [op EXCEPT ![b] = NoOp]
    /\ UNCHANGED <<content, data>>

DeviceNext ==
    \E b \in Buf :
        \/ \E v \in Value : Store(b, v)
        \/ \E w \in BOOLEAN, s \in Block : Request(b, w, s)
        \/ Perform(b) \/ Return(b)

DeviceSpec == DeviceInit /\ [][DeviceNext]_device
=============================================================================
