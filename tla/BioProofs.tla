------------------------------ MODULE BioProofs ------------------------------
(***************************************************************************)
(* Proofs about the buffer cache of module Bio, for any numbers of         *)
(* processes, buffers, blocks and pins: the cache is coherent, buffers are *)
(* held and counted as they should be, and bget() finds a buffer.          *)
(***************************************************************************)
EXTENDS Bio, FiniteSetTheorems, WellFoundedInduction, TLAPS

\* Types of the variables, but for refcnt, whose range follows from RefInv.
Types ==
    /\ data \in [Buf -> Value] /\ content \in [Block -> Value] /\ latest \in [Block -> Value]
    /\ io \in [Buf -> {"none", "pending", "done"}]
    /\ valid \subseteq Buf /\ dirty \subseteq Buf /\ pinned \subseteq Buf
    /\ blockno \in [Buf -> Block \cup {None}]
    /\ lock \in [Buf -> Process \cup {None}]
    /\ pc \in [Process -> {"idle", "lock", "read", "write", "held", "release"}]
    /\ buf \in [Process -> Buf \cup {None}]
    /\ asleep \subseteq Process

\* What is known of op: reads and writes of a block, or NoOp.
OpInv == op \in [Buf -> [write : BOOLEAN, sector : Block \cup {"none"}]]

\* The list holds every buffer.
ListInv ==
    /\ lru \in [1 .. Cardinality(Buf) -> Buf]
    /\ \A b \in Buf : \E i \in 1 .. Cardinality(Buf) : lru[i] = b

\* A reference is a process between bget() and brelse(), or a pin.
Users(f, b) == {p \in Process : f[p] = b}
RefInv ==
    /\ refcnt \in [Buf -> Nat]
    /\ \A b \in Buf : refcnt[b] = Cardinality(Users(buf, b)) + Cardinality({b} \cap pinned)
    /\ Cardinality(pinned) <= MaxPin

\* Whose a buffer is: a process that is not idle has one, of some block; who
\* works on it holds its lock, and nobody else does; sleepers wait for a lock
\* that is held.
Working(p) == pc[p] \in {"read", "write", "held"}
HoldInv ==
    /\ \A p \in Process : buf[p] = None <=> pc[p] = "idle"
    /\ \A p \in Process : pc[p] # "idle" => blockno[buf[p]] # None
    /\ \A p \in Process : Working(p) => lock[buf[p]] = p
    /\ \A b \in Buf : lock[b] # None => Working(lock[b]) /\ buf[lock[b]] = b
    /\ \A p \in asleep : pc[p] = "lock" /\ lock[buf[p]] # None

\* Data that the disk does not have yet is in a valid buffer that is pinned or
\* being worked on, hence in use.
DirtyInv ==
    /\ \A b \in valid : blockno[b] # None
    /\ \A b \in dirty : b \in valid /\ (b \in pinned \/ lock[b] # None)
    /\ \A p \in Process : pc[p] = "read" => buf[p] \notin valid
    /\ \A p \in Process : pc[p] \in {"write", "held"} => buf[p] \in valid

\* A request at the disk is that of the process that holds the buffer, for
\* the block of the buffer; one that is done has made the two agree.
RequestInv ==
    \A b \in Buf : io[b] # "none" =>
        /\ lock[b] # None /\ pc[lock[b]] \in {"read", "write"}
        /\ (op[b].write <=> pc[lock[b]] = "write") /\ op[b].sector = blockno[b]
        /\ io[b] = "done" => content[blockno[b]] = data[b]

IInv == Types /\ OpInv /\ ListInv /\ RefInv /\ HoldInv /\ DirtyInv /\ RequestInv /\ Coherent

\* bget() does not come to its panic("bget: no buffers").
BufferFound == \A p \in Process : pc[p] = "idle" => \E b \in Buf : least_recent(b)
-----------------------------------------------------------------------------
\* Constants and counting

\* Numbers of buffers and processes; None is no buffer, process or block.
LEMMA Constants ==
    /\ Cardinality(Buf) \in Nat /\ Cardinality(Process) \in Nat
    /\ None \notin Buf /\ None \notin Process /\ None \notin Block
BY BioAssumption, FS_CardinalityType DEF None

\* The references of a buffer to count are finitely many.
LEMMA UsersFinite ==
    ASSUME NEW f, NEW b
    PROVE  IsFiniteSet(Users(f, b)) /\ Cardinality(Users(f, b)) \in 0 .. Cardinality(Process)
<1>1. Users(f, b) \in SUBSET Process
  BY DEF Users
<1>2. IsFiniteSet(Users(f, b)) /\ Cardinality(Users(f, b)) <= Cardinality(Process)
  BY <1>1, BioAssumption, FS_Subset
<1> QED  BY <1>2, FS_CardinalityType

\* bget() for a process without buffer counts one more user of that buffer.
LEMMA UserAdded ==
    ASSUME NEW f \in [Process -> Buf \cup {None}], NEW p \in Process, f[p] = None,
           NEW b \in Buf, NEW c \in Buf
    PROVE  Cardinality(Users([f EXCEPT ![p] = b], c)) =
              Cardinality(Users(f, c)) + (IF c = b THEN 1 ELSE 0)
<1>1. p \notin Users(f, c)
  BY Constants DEF Users
<1>2. CASE c = b
  <2>1. Users([f EXCEPT ![p] = b], c) = Users(f, c) \cup {p}
    BY <1>2 DEF Users
  <2>2. Cardinality(Users(f, c) \cup {p}) = Cardinality(Users(f, c)) + 1
    BY <1>1, UsersFinite, FS_AddElement, Zenon
  <2> QED  BY <2>1, <2>2, <1>2, Zenon
<1>3. CASE c # b
  <2>1. Users([f EXCEPT ![p] = b], c) = Users(f, c)
    BY <1>3, Constants DEF Users
  <2>2. Cardinality(Users(f, c)) \in Nat
    BY UsersFinite, Constants
  <2> QED  BY <2>1, <2>2, <1>3
<1> QED  BY <1>2, <1>3

\* brelse() counts one user less.
LEMMA UserRemoved ==
    ASSUME NEW f \in [Process -> Buf \cup {None}], NEW p \in Process,
           NEW b \in Buf, f[p] = b, NEW c \in Buf
    PROVE  Cardinality(Users([f EXCEPT ![p] = None], c)) =
              Cardinality(Users(f, c)) - (IF c = b THEN 1 ELSE 0)
<1>1. CASE c = b
  <2>1. Users([f EXCEPT ![p] = None], c) = Users(f, c) \ {p}
    BY <1>1, Constants DEF Users
  <2>2. p \in Users(f, c)
    BY <1>1 DEF Users
  <2>3. IsFiniteSet(Users(f, c))
    BY UsersFinite
  <2>4. Cardinality(Users(f, c) \ {p}) = Cardinality(Users(f, c)) - 1
    BY <2>2, <2>3, FS_RemoveElement, Zenon
  <2> QED  BY <2>1, <2>4, <1>1, Zenon
<1>2. CASE c # b
  <2>1. Users([f EXCEPT ![p] = None], c) = Users(f, c)
    BY <1>2, Constants DEF Users
  <2>2. Cardinality(Users(f, c)) \in Nat
    BY UsersFinite, Constants
  <2> QED  BY <2>1, <2>2, <1>2
<1> QED  BY <1>1, <1>2

\* A buffer has one pin or none.
LEMMA PinCount ==
    ASSUME NEW S, NEW b
    PROVE  Cardinality({b} \cap S) = IF b \in S THEN 1 ELSE 0
<1>1. CASE b \in S
  <2>1. {b} \cap S = {b}
    BY <1>1
  <2> QED  BY <2>1, <1>1, FS_Singleton
<1>2. CASE b \notin S
  <2>1. {b} \cap S = {}
    BY <1>2
  <2> QED  BY <2>1, <1>2, FS_EmptySet
<1> QED  BY <1>1, <1>2

\* A buffer that bget() may recycle has no user, no pin, no lock held, no
\* request at the disk, and nothing that the disk does not have.
LEMMA Unused ==
    ASSUME IInv, NEW b \in Buf, refcnt[b] = 0
    PROVE  /\ \A p \in Process : buf[p] # b
           /\ b \notin pinned /\ b \notin dirty
           /\ lock[b] = None /\ io[b] = "none"
<1> DEFINE u == Cardinality(Users(buf, b))
           n == Cardinality({b} \cap pinned)
<1>1. u \in Nat /\ n \in Nat /\ u + n = 0
  BY UsersFinite, PinCount, Constants DEF IInv, RefInv
<1> HIDE DEF u, n
<1>2. u = 0 /\ n = 0
  BY <1>1
<1>3. Users(buf, b) = {}
  BY <1>2, UsersFinite, FS_EmptySet DEF u
<1>4. b \notin pinned
  BY <1>2, PinCount DEF n
<1>5. \A p \in Process : buf[p] # b
  BY <1>3 DEF Users
<1>6. lock[b] = None
  BY <1>5, Constants DEF IInv, Types, HoldInv
<1> QED  BY <1>4, <1>5, <1>6 DEF IInv, DirtyInv, RequestInv, Types

\* A process that is not idle has a buffer, of some block.
LEMMA HasBuffer ==
    ASSUME IInv, NEW p \in Process, pc[p] # "idle"
    PROVE  buf[p] \in Buf /\ blockno[buf[p]] \in Block
BY Constants DEF IInv, Types, HoldInv

\* A request at the disk is the read or the write of the buffer's block by the
\* process that holds the buffer.
LEMMA RequestIs ==
    ASSUME IInv, NEW b \in Buf, io[b] # "none"
    PROVE  /\ lock[b] \in Process /\ buf[lock[b]] = b
           /\ pc[lock[b]] \in {"read", "write"}
           /\ op[b].sector = blockno[b] /\ blockno[b] \in Block
           /\ op[b].write <=> pc[lock[b]] = "write"
<1>1. lock[b] # None /\ pc[lock[b]] \in {"read", "write"}
  BY DEF IInv, RequestInv
<1>2. lock[b] \in Process /\ buf[lock[b]] = b
  BY <1>1 DEF IInv, Types, HoldInv
<1>3. blockno[b] \in Block
  BY <1>1, <1>2, HasBuffer
<1> QED  BY <1>1, <1>2, <1>3 DEF IInv, RequestInv

\* bget() recycles a buffer that is not in use.
LEMMA Recycles ==
    ASSUME IInv, NEW p \in Process, NEW blk \in Block, bget_miss(p, blk)
    PROVE  \E b \in Buf :
              /\ refcnt[b] = 0 /\ refcnt' = [refcnt EXCEPT ![b] = 1]
              /\ blockno' = [blockno EXCEPT ![b] = blk] /\ valid' = valid \ {b}
              /\ buf' = [buf EXCEPT ![p] = b]
              /\ \A q \in Process : buf[q] # b
              /\ b \notin dirty /\ io[b] = "none"
<1>1. PICK b \in Buf :
         /\ refcnt[b] = 0 /\ refcnt' = [refcnt EXCEPT ![b] = 1]
         /\ blockno' = [blockno EXCEPT ![b] = blk] /\ valid' = valid \ {b}
         /\ buf' = [buf EXCEPT ![p] = b]
  BY Zenon DEF bget_miss, least_recent, recyclable, Set
<1> QED  BY <1>1, Unused, Zenon

-----------------------------------------------------------------------------
\* The steps

\* Every operation leaves variables of the right types.
LEMMA TypesStep ==
    ASSUME IInv, [Next]_vars
    PROVE  Types'
<1>0. \A p \in Process : pc[p] # "idle" => buf[p] \in Buf /\ blockno[buf[p]] \in Block
  BY HasBuffer
<1> USE <1>0, Constants DEF IInv, Types, HoldInv
<1>1. CASE UNCHANGED vars
  BY <1>1 DEF vars, device, cache, client
<1>2. ASSUME NEW p \in Process, NEW blk \in Block, bget_hit(p, blk) PROVE Types'
  BY <1>2 DEF bget_hit, cached, At, Goto, Set, device, client
<1>3. ASSUME NEW p \in Process, NEW blk \in Block, bget_miss(p, blk) PROVE Types'
  BY <1>3 DEF bget_miss, least_recent, recyclable, cached, At, Goto, Set, device, client
<1>4. ASSUME NEW p \in Process, NEW v \in Value, store(p, v) PROVE Types'
  BY <1>4 DEF store, At, Store, Set, cache
<1>5. ASSUME NEW p \in Process, acquiresleep(p) PROVE Types'
  BY <1>5 DEF acquiresleep, At, Goto, Set, device, client
<1>6. ASSUME NEW p \in Process, rw(p) PROVE Types'
  BY <1>6 DEF rw, Request, cache, client
<1>7. ASSUME NEW p \in Process, bread_end(p) PROVE Types'
  BY <1>7 DEF bread_end, Return, Goto, Set, client
<1>8. ASSUME NEW p \in Process, bwrite_end(p) PROVE Types'
  BY <1>8 DEF bwrite_end, Return, Goto, Set, cache
<1>9. ASSUME NEW p \in Process, bwrite(p) PROVE Types'
  BY <1>9 DEF bwrite, At, Goto, Set, device, cache, client
<1>10. ASSUME NEW p \in Process, bpin(p) PROVE Types'
  BY <1>10 DEF bpin, At, device
<1>11. ASSUME NEW p \in Process, bunpin(p) PROVE Types'
  BY <1>11 DEF bunpin, At, device
<1>12. ASSUME NEW p \in Process, brelse(p) PROVE Types'
  BY <1>12 DEF brelse, releasesleep, At, Goto, Set, device, client
<1>13. ASSUME NEW p \in Process, brelse_ref(p) PROVE Types'
  BY <1>13 DEF brelse_ref, At, Goto, Set, device, client
<1>14. ASSUME NEW b \in Buf, perform(b) PROVE Types'
  <2>1. op[b].sector \in Block
    BY <1>14, RequestIs DEF perform, Perform
  <2> QED  BY <1>14, <2>1 DEF perform, Perform, cache, client
<1> QED  BY <1>1, <1>2, <1>3, <1>4, <1>5, <1>6, <1>7, <1>8, <1>9, <1>10, <1>11, <1>12, <1>13, <1>14, Zenon DEF Next, Kernel, Client

\* A request is a read or a write of a block.
LEMMA OpStep ==
    ASSUME IInv, [Next]_vars
    PROVE  OpInv'
<1>1. OpInv
  BY DEF IInv
<1>2. CASE UNCHANGED op
  BY <1>1, <1>2 DEF OpInv
<1>3. ASSUME NEW p \in Process, rw(p) PROVE OpInv'
  <2>1. blockno[buf[p]] \in Block /\ (pc[p] = "write") \in BOOLEAN
    BY <1>3, HasBuffer DEF rw
  <2> QED  BY <1>1, <1>3, <2>1, Zenon DEF rw, Request, OpInv
<1>4. ASSUME NEW b, Return(b) PROVE OpInv'
  <2> DEFINE R == [write : BOOLEAN, sector : Block \cup {"none"}]
  <2>1. op' = [op EXCEPT ![b] = NoOp] /\ NoOp \in R /\ op \in [Buf -> R]
    BY <1>1, <1>4 DEF Return, NoOp, OpInv
  <2> HIDE DEF NoOp, R
  <2>2. op' \in [Buf -> R]
    BY <2>1, Zenon
  <2> QED  BY <2>2 DEF OpInv, R
<1>5. UNCHANGED op \/ \E p \in Process : rw(p) \/ Return(buf[p])
  BY DEF Next, Kernel, Client, vars, device, bget_hit, bget_miss, store, Store, acquiresleep,
         bread_end, bwrite_end, bwrite, bpin, bunpin, brelse, brelse_ref, perform, Perform
<1> QED  BY <1>2, <1>3, <1>4, <1>5

\* The initial list holds every buffer: it is as long as there are buffers, and
\* none is in it twice.
LEMMA ListInit == Init => ListInv
<1> SUFFICES ASSUME Init PROVE ListInv
  OBVIOUS
<1> DEFINE N == Cardinality(Buf)
<1>1. lru \in [1 .. N -> Buf] /\ \A i, j \in 1 .. N : i < j => lru[i] > lru[j]
  BY DEF Init
<1>2. lru \in Injection(1 .. N, Buf)
  <2>1. ASSUME NEW i \in 1 .. N, NEW j \in 1 .. N, lru[i] = lru[j] PROVE i = j
    <3>1. lru[i] \in Buf /\ Buf \subseteq Nat
      BY <1>1, BioAssumption, Zenon
    <3>2. lru[i] \in Nat
      BY <3>1, Zenon
    <3>3. ~ lru[i] > lru[j] /\ ~ lru[j] > lru[i]
      BY <3>2, <2>1
    <3>4. ~ i < j /\ ~ j < i
      BY <3>3, <1>1
    <3> QED  BY <3>4, Constants
  <2> QED  BY <2>1, <1>1 DEF Injection, IsInjective
<1>3. Cardinality(1 .. N) = N
  BY Constants, FS_Interval
<1>4. lru \in Surjection(1 .. N, Buf)
  BY <1>2, <1>3, BioAssumption, FS_Injection
<1> QED  BY <1>1, <1>4 DEF ListInv, Surjection

\* Moving a buffer to the front, as brelse() does, loses none.
LEMMA ListFront ==
    ASSUME ListInv, NEW b \in Buf
    PROVE  /\ to_front(b) \in [1 .. Cardinality(Buf) -> Buf]
           /\ \A c \in Buf : \E i \in 1 .. Cardinality(Buf) : to_front(b)[i] = c
<1> DEFINE N == Cardinality(Buf)
           at == CHOOSE i \in DOMAIN lru : lru[i] = b
           l == [j \in 1 .. N |-> IF j = 1 THEN b ELSE IF j <= at THEN lru[j - 1] ELSE lru[j]]
<1>1. N \in Nat /\ DOMAIN lru = 1 .. N
  BY Constants, Zenon DEF ListInv
<1>2. at \in 1 .. N /\ lru[at] = b
  BY <1>1, Zenon DEF ListInv
<1>3. to_front(b) = l
  BY <1>1, Zenon DEF to_front
<1> HIDE DEF at
<1>4. l \in [1 .. N -> Buf]
  BY <1>1, <1>2 DEF ListInv
<1>5. ASSUME NEW c \in Buf PROVE \E i \in 1 .. N : l[i] = c
  <2>1. CASE c = b
    BY <2>1, <1>1, <1>2
  <2>2. CASE c # b
    <3>1. PICK m \in 1 .. N : lru[m] = c
      BY Zenon DEF ListInv
    <3>2. CASE m < at
      <4>1. m + 1 \in 1 .. N /\ l[m + 1] = c
        BY <3>1, <3>2, <1>1, <1>2
      <4> QED  BY <4>1, Zenon
    <3>3. CASE m > at
      <4>1. l[m] = c
        BY <3>1, <3>3, <1>1, <1>2
      <4> QED  BY <4>1, Zenon
    <3> QED  BY <3>1, <3>2, <3>3, <2>2, <1>1, <1>2
  <2> QED  BY <2>1, <2>2, Zenon
<1> QED  BY <1>3, <1>4, <1>5, Zenon

\* The list keeps every buffer.
LEMMA ListStep ==
    ASSUME IInv, [Next]_vars
    PROVE  ListInv'
<1>1. ListInv
  BY Zenon DEF IInv
<1>2. CASE UNCHANGED lru
  BY <1>1, <1>2, Zenon DEF ListInv
<1>3. ASSUME NEW p \in Process, brelse_ref(p) PROVE ListInv'
  <2>1. buf[p] \in Buf
    BY <1>3, HasBuffer, Zenon DEF brelse_ref, At
  <2>2. CASE lru' = to_front(buf[p])
    BY <2>1, <2>2, <1>1, ListFront, Zenon DEF ListInv
  <2> QED  BY <1>3, <2>2, <1>2, Zenon DEF brelse_ref
<1>4. UNCHANGED lru \/ \E p \in Process : brelse_ref(p)
  BY Zenon DEF Next, Kernel, Client, vars, cache, bget_hit, bget_miss, store, acquiresleep, rw,
         bread_end, bwrite_end, bwrite, bpin, bunpin, brelse, perform
<1> QED  BY <1>2, <1>3, <1>4, Zenon

\* refcnt counts users and pins after every operation.
LEMMA RefStep ==
    ASSUME IInv, [Next]_vars
    PROVE  RefInv'
<1> DEFINE Count(f, S, b) == Cardinality(Users(f, b)) + Cardinality({b} \cap S)
<1>1. /\ refcnt \in [Buf -> Nat] /\ \A b \in Buf : refcnt[b] = Count(buf, pinned, b)
      /\ Cardinality(pinned) <= MaxPin /\ IsFiniteSet(pinned)
      /\ pinned \subseteq Buf /\ buf \in [Process -> Buf \cup {None}]
  <2>1. IsFiniteSet(pinned)
    BY BioAssumption, FS_Subset, Zenon DEF IInv, Types
  <2> QED  BY <2>1, Zenon DEF IInv, RefInv, Types
<1>2. \A b \in Buf : /\ Cardinality(Users(buf, b)) \in Nat
                     /\ Cardinality({b} \cap pinned) = IF b \in pinned THEN 1 ELSE 0
  BY UsersFinite, PinCount, Constants
<1>3. SUFFICES /\ refcnt' \in [Buf -> Nat]
               /\ \A c \in Buf : refcnt'[c] = Count(buf', pinned', c)
               /\ Cardinality(pinned') <= MaxPin
  BY Zenon DEF RefInv
<1>4. CASE UNCHANGED <<refcnt, buf, pinned>>
  BY <1>1, <1>4, Zenon
<1>5. ASSUME NEW p \in Process, NEW b \in Buf, buf[p] = None,
             refcnt' = [refcnt EXCEPT ![b] = refcnt[b] + 1],
             buf' = [buf EXCEPT ![p] = b], pinned' = pinned
      PROVE  /\ refcnt' \in [Buf -> Nat]
             /\ \A c \in Buf : refcnt'[c] = Count(buf', pinned', c)
             /\ Cardinality(pinned') <= MaxPin
  <2>1. ASSUME NEW c \in Buf PROVE refcnt'[c] = Count(buf', pinned', c)
    <3>1. Cardinality(Users(buf', c)) = Cardinality(Users(buf, c)) + (IF c = b THEN 1 ELSE 0)
      <4>1. buf \in [Process -> Buf \cup {None}] /\ buf[p] = None
        BY <1>1, <1>5, Zenon
      <4>2. Cardinality(Users([buf EXCEPT ![p] = b], c)) =
               Cardinality(Users(buf, c)) + (IF c = b THEN 1 ELSE 0)
        BY <4>1, UserAdded, Zenon
      <4>3. buf' = [buf EXCEPT ![p] = b]
        BY <1>5, Zenon
      <4> QED  BY <4>2, <4>3, Zenon
    <3>2. refcnt'[c] = refcnt[c] + (IF c = b THEN 1 ELSE 0)
      BY <1>1, <1>5
    <3>3. refcnt[c] = Cardinality(Users(buf, c)) + Cardinality({c} \cap pinned)
      BY <1>1, Zenon
    <3>4. Cardinality({c} \cap pinned) \in Nat
      BY <1>2
    <3> QED  BY <3>1, <3>2, <3>3, <3>4, <1>2, <1>5
  <2>2. refcnt' \in [Buf -> Nat]
    BY <1>1, <1>5
  <2>3. Cardinality(pinned') <= MaxPin
    BY <1>1, <1>5, Zenon
  <2> QED  BY <2>1, <2>2, <2>3, Zenon
<1>6. ASSUME NEW p \in Process, NEW blk \in Block, bget_hit(p, blk)
      PROVE  RefInv'
  <2>1. PICK b \in Buf : /\ refcnt' = [refcnt EXCEPT ![b] = refcnt[b] + 1]
                         /\ buf' = [buf EXCEPT ![p] = b]
    BY <1>6, Zenon DEF bget_hit, cached, Set
  <2>2. buf[p] = None /\ pinned' = pinned
    BY <1>6, Zenon DEF bget_hit, At, client, IInv, HoldInv
  <2> QED  BY <2>1, <2>2, <1>5, Zenon DEF RefInv
<1>7. ASSUME NEW p \in Process, NEW blk \in Block, bget_miss(p, blk)
      PROVE  RefInv'
  <2>1. PICK b \in Buf : refcnt[b] = 0 /\ refcnt' = [refcnt EXCEPT ![b] = 1]
                         /\ buf' = [buf EXCEPT ![p] = b]
    BY <1>7, Recycles
  <2>2. buf[p] = None /\ pinned' = pinned
    BY <1>7, Zenon DEF bget_miss, At, client, IInv, HoldInv
  <2>3. refcnt' = [refcnt EXCEPT ![b] = refcnt[b] + 1]
    BY <2>1
  <2> QED  BY <2>1, <2>2, <2>3, <1>5, Zenon DEF RefInv
<1>8. ASSUME NEW p \in Process, bpin(p) PROVE RefInv'
  <2> DEFINE b == buf[p]
  <2>1. b \in Buf
    BY <1>8, HasBuffer, Zenon DEF bpin, At
  <2>2. /\ b \notin pinned /\ Cardinality(pinned) < MaxPin
        /\ refcnt' = [refcnt EXCEPT ![b] = refcnt[b] + 1]
        /\ pinned' = pinned \cup {b} /\ buf' = buf
    BY <1>8, Zenon DEF bpin
  <2> HIDE DEF b
  <2>3. \A c \in Buf : Cardinality({c} \cap pinned') = IF c \in pinned \cup {b} THEN 1 ELSE 0
    BY <2>2, PinCount, Zenon
  <2>4. Cardinality(pinned') = Cardinality(pinned) + 1
    BY <2>2, <1>1, FS_AddElement, Zenon
  <2>5. Cardinality(pinned) \in Nat
    BY <1>1, FS_CardinalityType, Zenon
  <2>6. Cardinality(pinned') <= MaxPin
    BY <2>2, <2>4, <2>5, BioAssumption
  <2>7. ASSUME NEW c \in Buf PROVE refcnt'[c] = Count(buf', pinned', c)
    <3>1. refcnt'[c] = refcnt[c] + (IF c = b THEN 1 ELSE 0)
      BY <2>2, <1>1
    <3>2. refcnt[c] = Cardinality(Users(buf, c)) + Cardinality({c} \cap pinned)
      BY <1>1, Zenon
    <3>3. Cardinality({c} \cap pinned') = Cardinality({c} \cap pinned) + (IF c = b THEN 1 ELSE 0)
      BY <2>2, <2>3, <1>2
    <3>4. Cardinality({c} \cap pinned) \in Nat /\ Users(buf', c) = Users(buf, c)
      BY <1>2, <2>2
    <3> QED  BY <3>1, <3>2, <3>3, <3>4, <1>2
  <2> QED  BY <1>1, <2>1, <2>2, <2>6, <2>7 DEF RefInv
<1>9. ASSUME NEW p \in Process, bunpin(p) PROVE RefInv'
  <2> DEFINE b == buf[p]
  <2>1. b \in Buf
    BY <1>9, HasBuffer, Zenon DEF bunpin, At
  <2>2. /\ b \in pinned /\ refcnt' = [refcnt EXCEPT ![b] = refcnt[b] - 1]
        /\ pinned' = pinned \ {b} /\ buf' = buf
    BY <1>9, Zenon DEF bunpin
  <2> HIDE DEF b
  <2>3. \A c \in Buf : Cardinality({c} \cap pinned') = IF c \in pinned \ {b} THEN 1 ELSE 0
    BY <2>2, PinCount, Zenon
  <2>4. Cardinality(pinned \ {b}) = Cardinality(pinned) - 1
    BY <2>2, <1>1, FS_RemoveElement, Zenon
  <2>5. Cardinality(pinned) \in Nat
    BY <1>1, FS_CardinalityType, Zenon
  <2>6. Cardinality(pinned') <= MaxPin
    BY <2>2, <2>4, <2>5, <1>1, BioAssumption
  <2>7. refcnt[b] >= 1
    <3>1. refcnt[b] = Cardinality(Users(buf, b)) + Cardinality({b} \cap pinned)
      BY <2>1, <1>1, Zenon
    <3>2. Cardinality({b} \cap pinned) = 1
      BY <2>1, <2>2, <1>2, Zenon
    <3> QED  BY <3>1, <3>2, <2>1, <1>2
  <2>8. ASSUME NEW c \in Buf PROVE refcnt'[c] = Count(buf', pinned', c)
    <3>1. refcnt'[c] = refcnt[c] - (IF c = b THEN 1 ELSE 0)
      BY <2>2, <1>1
    <3>2. refcnt[c] = Cardinality(Users(buf, c)) + Cardinality({c} \cap pinned)
      BY <1>1, Zenon
    <3>3. Cardinality({c} \cap pinned') = Cardinality({c} \cap pinned) - (IF c = b THEN 1 ELSE 0)
      BY <2>2, <2>3, <1>2
    <3>4. Cardinality({c} \cap pinned) \in Nat /\ Users(buf', c) = Users(buf, c)
      BY <1>2, <2>2
    <3> QED  BY <3>1, <3>2, <3>3, <3>4, <1>2
  <2>9. refcnt' \in [Buf -> Nat]
    BY <2>1, <2>2, <2>7, <1>1
  <2> QED  BY <2>6, <2>8, <2>9, Zenon DEF RefInv
<1>10. ASSUME NEW p \in Process, brelse_ref(p) PROVE RefInv'
  <2> DEFINE b == buf[p]
  <2>1. b \in Buf
    BY <1>10, HasBuffer, Zenon DEF brelse_ref, At
  <2>2. /\ refcnt' = [refcnt EXCEPT ![b] = refcnt[b] - 1]
        /\ buf' = [buf EXCEPT ![p] = None] /\ pinned' = pinned
    BY <1>10, Zenon DEF brelse_ref, Set, client
  <2>3. buf[p] = b
    BY Zenon
  <2> HIDE DEF b
  <2>4. \A c \in Buf :
           Cardinality(Users(buf', c)) = Cardinality(Users(buf, c)) - (IF c = b THEN 1 ELSE 0)
    <3>1. buf \in [Process -> Buf \cup {None}]
      BY <1>1, Zenon
    <3>2. \A c \in Buf : Cardinality(Users([buf EXCEPT ![p] = None], c)) =
                            Cardinality(Users(buf, c)) - (IF c = b THEN 1 ELSE 0)
      BY <2>1, <2>3, <3>1, UserRemoved, Zenon
    <3> QED  BY <2>2, <3>2, Zenon
  <2>5. \A c \in Buf : Cardinality(Users(buf', c)) \in Nat
    BY UsersFinite, Constants
  <2>6. ASSUME NEW c \in Buf
        PROVE  refcnt'[c] = Count(buf', pinned', c) /\ refcnt'[c] \in Nat
    <3>1. refcnt'[c] = refcnt[c] - (IF c = b THEN 1 ELSE 0)
      BY <2>2, <1>1
    <3>2. refcnt[c] = Cardinality(Users(buf, c)) + Cardinality({c} \cap pinned)
      BY <1>1, Zenon
    <3>3. Cardinality({c} \cap pinned') = Cardinality({c} \cap pinned)
      BY <2>2, Zenon
    <3>4. Cardinality({c} \cap pinned) \in Nat
      BY <1>2
    <3> QED  BY <3>1, <3>2, <3>3, <3>4, <2>4, <2>5, <1>2
  <2>7. refcnt' \in [Buf -> Nat]
    <3>1. DOMAIN refcnt' = Buf /\ refcnt' = [c \in Buf |-> refcnt'[c]]
      BY <2>2, <1>1, Zenon
    <3>2. \A c \in Buf : refcnt'[c] \in Nat
      BY <2>6, Zenon
    <3> QED  BY <3>1, <3>2, Zenon
  <2> QED  BY <2>2, <2>6, <2>7, <1>1, Zenon DEF RefInv
<1>11. \/ UNCHANGED <<refcnt, buf, pinned>>
       \/ \E p \in Process : \/ \E blk \in Block : bget_hit(p, blk) \/ bget_miss(p, blk)
                             \/ bpin(p) \/ bunpin(p) \/ brelse_ref(p)
  BY Zenon DEF Next, Kernel, Client, vars, cache, client, store, acquiresleep, rw,
         bread_end, bwrite_end, bwrite, brelse, perform
<1> QED  BY <1>4, <1>6, <1>7, <1>8, <1>9, <1>10, <1>11, Zenon DEF RefInv

\* Buffers stay with those that hold them.
LEMMA HoldStep ==
    ASSUME IInv, [Next]_vars
    PROVE  HoldInv'
<1>0. \A p \in Process : pc[p] # "idle" => buf[p] \in Buf /\ blockno[buf[p]] \in Block
  BY HasBuffer, Zenon
<1> USE <1>0, Constants DEF IInv, Types, HoldInv, Working
<1>1. CASE UNCHANGED vars
  BY <1>1, Zenon DEF vars, device, cache, client
<1>2. ASSUME NEW p \in Process, NEW blk \in Block, bget_hit(p, blk) PROVE HoldInv'
  BY <1>2 DEF bget_hit, cached, At, Goto, Set, device, client
<1>3. ASSUME NEW p \in Process, NEW blk \in Block, bget_miss(p, blk) PROVE HoldInv'
  <2>1. PICK b \in Buf : /\ blockno' = [blockno EXCEPT ![b] = blk]
                         /\ buf' = [buf EXCEPT ![p] = b]
                         /\ \A q \in Process : buf[q] # b
    <3> HIDE DEF IInv
    <3> QED  BY <1>3, Recycles
  <2> QED  BY <1>3, <2>1 DEF bget_miss, At, Goto, Set
<1>4. ASSUME NEW p \in Process, NEW v \in Value, store(p, v) PROVE HoldInv'
  BY <1>4, Zenon DEF store, At, Store, Set, cache
<1>5. ASSUME NEW p \in Process, acquiresleep(p) PROVE HoldInv'
  BY <1>5 DEF acquiresleep, At, Goto, Set, device, client
<1>6. ASSUME NEW p \in Process, rw(p) PROVE HoldInv'
  BY <1>6, Zenon DEF rw, Request, cache, client
<1>7. ASSUME NEW p \in Process, bread_end(p) PROVE HoldInv'
  BY <1>7 DEF bread_end, Return, Goto, Set, client
<1>8. ASSUME NEW p \in Process, bwrite_end(p) PROVE HoldInv'
  BY <1>8 DEF bwrite_end, Return, Goto, Set, cache
<1>9. ASSUME NEW p \in Process, bwrite(p) PROVE HoldInv'
  BY <1>9 DEF bwrite, At, Goto, Set, device, cache, client
<1>10. ASSUME NEW p \in Process, bpin(p) PROVE HoldInv'
  BY <1>10, Zenon DEF bpin, At, device
<1>11. ASSUME NEW p \in Process, bunpin(p) PROVE HoldInv'
  BY <1>11, Zenon DEF bunpin, At, device
<1>12. ASSUME NEW p \in Process, brelse(p) PROVE HoldInv'
  BY <1>12 DEF brelse, releasesleep, At, Goto, Set, device, client
<1>13. ASSUME NEW p \in Process, brelse_ref(p) PROVE HoldInv'
  BY <1>13 DEF brelse_ref, At, Goto, Set, device, client
<1>14. ASSUME NEW b \in Buf, perform(b) PROVE HoldInv'
  BY <1>14, Zenon DEF perform, Perform, cache, client
<1> QED  BY <1>1, <1>2, <1>3, <1>4, <1>5, <1>6, <1>7, <1>8, <1>9, <1>10, <1>11, <1>12, <1>13, <1>14, Zenon DEF Next, Kernel, Client

\* What the disk does not have stays in a buffer in use.
LEMMA DirtyStep ==
    ASSUME IInv, [Next]_vars
    PROVE  DirtyInv'
<1>0. \A p \in Process : pc[p] # "idle" => buf[p] \in Buf /\ blockno[buf[p]] \in Block
  BY HasBuffer, Zenon
<1> USE <1>0, Constants DEF IInv, Types, HoldInv, Working, DirtyInv
<1>1. CASE UNCHANGED vars
  BY <1>1, Zenon DEF vars, device, cache, client
<1>2. ASSUME NEW p \in Process, NEW blk \in Block, bget_hit(p, blk) PROVE DirtyInv'
  BY <1>2 DEF bget_hit, cached, At, Goto, Set, device, client
<1>3. ASSUME NEW p \in Process, NEW blk \in Block, bget_miss(p, blk) PROVE DirtyInv'
  <2>1. PICK b \in Buf : /\ refcnt[b] = 0 /\ blockno' = [blockno EXCEPT ![b] = blk]
                         /\ buf' = [buf EXCEPT ![p] = b] /\ valid' = valid \ {b}
                         /\ (\A q \in Process : buf[q] # b) /\ b \notin dirty
    <3> HIDE DEF IInv
    <3> QED  BY <1>3, Recycles, Zenon
  <2>2. /\ pc[p] = "idle" /\ pc' = [pc EXCEPT ![p] = "lock"]
        /\ UNCHANGED <<lock, dirty, pinned>>
    <3> HIDE DEF IInv
    <3> QED  BY <1>3, Zenon DEF bget_miss, At, Goto, Set, client
  <2> QED  BY <2>1, <2>2
<1>4. ASSUME NEW p \in Process, NEW v \in Value, store(p, v) PROVE DirtyInv'
  BY <1>4 DEF store, At, Store, Set, cache
<1>5. ASSUME NEW p \in Process, acquiresleep(p) PROVE DirtyInv'
  BY <1>5 DEF acquiresleep, At, Goto, Set, device, client
<1>6. ASSUME NEW p \in Process, rw(p) PROVE DirtyInv'
  BY <1>6, Zenon DEF rw, Request, cache, client
<1>7. ASSUME NEW p \in Process, bread_end(p) PROVE DirtyInv'
  BY <1>7 DEF bread_end, Return, Goto, Set, client
<1>8. ASSUME NEW p \in Process, bwrite_end(p) PROVE DirtyInv'
  BY <1>8 DEF bwrite_end, Return, Goto, Set, cache
<1>9. ASSUME NEW p \in Process, bwrite(p) PROVE DirtyInv'
  BY <1>9 DEF bwrite, At, Goto, Set, device, cache, client
<1>10. ASSUME NEW p \in Process, bpin(p) PROVE DirtyInv'
  BY <1>10, Zenon DEF bpin, At, device
<1>11. ASSUME NEW p \in Process, bunpin(p) PROVE DirtyInv'
  BY <1>11 DEF bunpin, At, device
<1>12. ASSUME NEW p \in Process, brelse(p) PROVE DirtyInv'
  BY <1>12 DEF brelse, releasesleep, At, Goto, Set, device, client
<1>13. ASSUME NEW p \in Process, brelse_ref(p) PROVE DirtyInv'
  BY <1>13 DEF brelse_ref, At, Goto, Set, device, client
<1>14. ASSUME NEW b \in Buf, perform(b) PROVE DirtyInv'
  BY <1>14, Zenon DEF perform, Perform, cache, client
<1> QED  BY <1>1, <1>2, <1>3, <1>4, <1>5, <1>6, <1>7, <1>8, <1>9, <1>10, <1>11, <1>12, <1>13, <1>14, Zenon DEF Next, Kernel, Client

\* A process that is not in the disk driver leaves the requests alone when it
\* does not change the lock, the block or the data of a buffer that has one.
LEMMA RequestsKept ==
    ASSUME RequestInv, lock \in [Buf -> Process \cup {None}], UNCHANGED <<io, op, content>>,
           NEW p \in Process, pc[p] \notin {"read", "write"},
           \A q \in Process \ {p} : pc'[q] = pc[q],
           \A b \in Buf : io[b] # "none" => lock'[b] = lock[b] /\ blockno'[b] = blockno[b]
                                             /\ data'[b] = data[b]
    PROVE  RequestInv'
<1> SUFFICES ASSUME NEW b \in Buf, io'[b] # "none"
             PROVE  /\ lock'[b] # None /\ pc'[lock'[b]] \in {"read", "write"}
                    /\ (op'[b].write <=> pc'[lock'[b]] = "write") /\ op'[b].sector = blockno'[b]
                    /\ io'[b] = "done" => content'[blockno'[b]] = data'[b]
  BY Zenon DEF RequestInv
<1>0. io[b] # "none" /\ lock'[b] = lock[b] /\ blockno'[b] = blockno[b] /\ data'[b] = data[b]
  BY Zenon
<1>1. /\ lock[b] # None /\ pc[lock[b]] \in {"read", "write"}
      /\ (op[b].write <=> pc[lock[b]] = "write") /\ op[b].sector = blockno[b]
      /\ io[b] = "done" => content[blockno[b]] = data[b]
  BY <1>0, Zenon DEF RequestInv
<1>2. pc'[lock[b]] = pc[lock[b]]
  BY <1>1, Zenon
<1> QED  BY <1>0, <1>1, <1>2, Zenon

\* Requests stay those of the holders of the buffers.
LEMMA RequestStep ==
    ASSUME IInv, [Next]_vars
    PROVE  RequestInv'
<1>0. \A p \in Process : pc[p] # "idle" => buf[p] \in Buf /\ blockno[buf[p]] \in Block
  BY HasBuffer, Zenon
<1>a. Types /\ OpInv /\ HoldInv /\ RequestInv /\ Coherent
  BY Zenon DEF IInv
<1>b. ASSUME NEW b \in Buf, io[b] # "none"
      PROVE  lock[b] \in Process /\ pc[lock[b]] \in {"read", "write"} /\ buf[lock[b]] = b
  BY <1>a, <1>b DEF Types, HoldInv, RequestInv
<1>c. lock \in [Buf -> Process \cup {None}] /\ pc \in [Process -> {"idle", "lock", "read", "write", "held", "release"}]
  BY <1>a, Zenon DEF Types
<1>1. CASE UNCHANGED vars
  BY <1>1, <1>a, Zenon DEF vars, device, cache, client, RequestInv
<1>2. ASSUME NEW p \in Process, NEW blk \in Block, bget_hit(p, blk) PROVE RequestInv'
  <2>1. /\ pc[p] = "idle" /\ pc' = [pc EXCEPT ![p] = "lock"]
        /\ UNCHANGED <<io, op, content, lock, blockno, data>>
    BY <1>2, Zenon DEF bget_hit, At, Goto, Set, device
  <2> QED  BY <2>1, <1>a, <1>c, RequestsKept, Zenon
<1>3. ASSUME NEW p \in Process, NEW blk \in Block, bget_miss(p, blk) PROVE RequestInv'
  <2>1. PICK b \in Buf : blockno' = [blockno EXCEPT ![b] = blk] /\ io[b] = "none"
    BY <1>3, Recycles, Zenon
  <2>2. /\ pc[p] = "idle" /\ pc' = [pc EXCEPT ![p] = "lock"]
        /\ UNCHANGED <<io, op, content, lock, data>>
    BY <1>3, Zenon DEF bget_miss, At, Goto, Set, device
  <2>3. \A c \in Buf : io[c] # "none" => blockno'[c] = blockno[c]
    BY <2>1, <1>a, Zenon DEF Types
  <2> QED  BY <2>2, <2>3, <1>a, <1>c, RequestsKept, Zenon
<1>4. ASSUME NEW p \in Process, NEW v \in Value, store(p, v) PROVE RequestInv'
  <2>1. /\ pc[p] = "held" /\ io[buf[p]] = "none" /\ data' = [data EXCEPT ![buf[p]] = v]
        /\ UNCHANGED <<io, op, content, lock, blockno, pc>>
    BY <1>4, Zenon DEF store, At, Store, cache
  <2>2. \A c \in Buf : io[c] # "none" => data'[c] = data[c]
    BY <2>1, <1>a, Zenon DEF Types
  <2> QED  BY <2>1, <2>2, <1>a, <1>c, RequestsKept, Zenon
<1>5. ASSUME NEW p \in Process, acquiresleep(p) PROVE RequestInv'
  <2>1. /\ pc[p] = "lock" /\ UNCHANGED <<io, op, content, data, blockno>>
        /\ \/ UNCHANGED <<lock, pc>>
           \/ /\ lock[buf[p]] = None /\ lock' = [lock EXCEPT ![buf[p]] = p]
              /\ pc' = [pc EXCEPT ![p] = IF buf[p] \in valid THEN "held" ELSE "read"]
    BY <1>5, Zenon DEF acquiresleep, At, Goto, Set, device
  <2>2. /\ \A c \in Buf : io[c] # "none" => lock'[c] = lock[c]
        /\ \A q \in Process \ {p} : pc'[q] = pc[q]
    BY <2>1, <1>b, <1>c, Constants
  <2> QED  BY <2>1, <2>2, <1>a, <1>c, RequestsKept, Zenon
<1>6. ASSUME NEW p \in Process, rw(p) PROVE RequestInv'
  <2> DEFINE b == buf[p]
  <2>1. b \in Buf /\ lock[b] = p
    BY <1>6, <1>0, <1>a, Zenon DEF rw, HoldInv, Working
  <2>2. (op'[b].write <=> pc[p] = "write") /\ op'[b].sector = blockno[b] /\ io'[b] = "pending"
    <3>1. op'[b].write = (pc[p] = "write") /\ op'[b].sector = blockno[b] /\ io'[b] = "pending"
      BY <1>6, <2>1, <1>a, Zenon DEF rw, Request, OpInv, Types
    <3> QED  BY <3>1, Zenon
  <2>3. \A c \in Buf \ {b} : op'[c] = op[c] /\ io'[c] = io[c]
    BY <1>6, <2>1, <1>a, Zenon DEF rw, Request, OpInv, Types
  <2>4. UNCHANGED <<lock, pc, blockno, content, data>>
    BY <1>6, Zenon DEF rw, Request, cache
  <2>5. pc[p] \in {"read", "write"}
    BY <1>6, Zenon DEF rw
  <2> HIDE DEF b
  <2>6. ASSUME NEW c \in Buf, io'[c] # "none", c # b
        PROVE  /\ lock'[c] # None /\ pc'[lock'[c]] \in {"read", "write"}
               /\ (op'[c].write <=> pc'[lock'[c]] = "write") /\ op'[c].sector = blockno'[c]
               /\ io'[c] = "done" => content'[blockno'[c]] = data'[c]
    BY <2>3, <2>4, <2>6, <1>a, Zenon DEF RequestInv
  <2> QED  BY <2>1, <2>2, <2>4, <2>5, <2>6, Constants, Zenon DEF RequestInv
<1>7. ASSUME NEW p \in Process, bread_end(p) \/ bwrite_end(p) PROVE RequestInv'
  <2> DEFINE b == buf[p]
  <2>1. b \in Buf /\ lock[b] = p
    BY <1>7, <1>0, <1>a, Zenon DEF bread_end, bwrite_end, HoldInv, Working
  <2>2. /\ io' = [io EXCEPT ![b] = "none"] /\ op' = [op EXCEPT ![b] = NoOp]
        /\ pc' = [pc EXCEPT ![p] = "held"]
        /\ UNCHANGED <<content, data, lock, blockno>>
    BY <1>7, Zenon DEF bread_end, bwrite_end, Return, Goto, Set, cache
  <2> HIDE DEF b
  <2>3. io'[b] = "none" /\ \A c \in Buf \ {b} : io'[c] = io[c] /\ op'[c] = op[c]
    BY <2>1, <2>2, <1>a, Zenon DEF Types, OpInv
  <2>4. ASSUME NEW c \in Buf \ {b}, io[c] # "none" PROVE lock[c] # p /\ pc'[lock[c]] = pc[lock[c]]
    <3>1. lock[c] \in Process /\ buf[lock[c]] = c /\ buf[p] = b
      BY <1>b, <2>4, Zenon DEF b
    <3> QED  BY <3>1, <2>2, <1>c, Zenon
  <2>5. ASSUME NEW c \in Buf, io'[c] # "none"
        PROVE  /\ lock'[c] # None /\ pc'[lock'[c]] \in {"read", "write"}
               /\ (op'[c].write <=> pc'[lock'[c]] = "write") /\ op'[c].sector = blockno'[c]
               /\ io'[c] = "done" => content'[blockno'[c]] = data'[c]
    <3>1. c # b /\ io'[c] = io[c] /\ op'[c] = op[c] /\ pc'[lock[c]] = pc[lock[c]]
      BY <2>3, <2>4, <2>5, Zenon
    <3>2. lock' = lock /\ blockno' = blockno /\ content' = content /\ data' = data
      BY <2>2, Zenon
    <3>3. /\ lock[c] # None /\ pc[lock[c]] \in {"read", "write"}
          /\ (op[c].write <=> pc[lock[c]] = "write") /\ op[c].sector = blockno[c]
          /\ io[c] = "done" => content[blockno[c]] = data[c]
      BY <1>a, <2>5, <3>1, Zenon DEF RequestInv
    <3> QED  BY <3>1, <3>2, <3>3, Zenon
  <2> QED  BY <2>5, Zenon DEF RequestInv
<1>8. ASSUME NEW p \in Process, bwrite(p) \/ bpin(p) \/ bunpin(p) PROVE RequestInv'
  <2>1. /\ pc[p] = "held" /\ (pc' = pc \/ pc' = [pc EXCEPT ![p] = "write"])
        /\ UNCHANGED <<content, data, lock, blockno, io, op>>
    BY <1>8, Zenon DEF bwrite, bpin, bunpin, At, Goto, Set, device, cache
  <2>2. \A q \in Process \ {p} : pc'[q] = pc[q]
    BY <2>1, <1>c, Zenon
  <2> QED  BY <2>1, <2>2, <1>a, <1>c, RequestsKept, Zenon
<1>9. ASSUME NEW p \in Process, brelse(p) PROVE RequestInv'
  <2>1. /\ pc[p] = "held" /\ pc' = [pc EXCEPT ![p] = "release"]
        /\ lock' = [lock EXCEPT ![buf[p]] = None]
        /\ UNCHANGED <<content, data, blockno, io, op>>
    BY <1>9, Zenon DEF brelse, At, Goto, Set, device
  <2>2. lock[buf[p]] = p
    BY <2>1, <1>a, Zenon DEF HoldInv, Working
  <2>3. /\ \A c \in Buf : io[c] # "none" => lock'[c] = lock[c]
        /\ \A q \in Process \ {p} : pc'[q] = pc[q]
    BY <2>1, <2>2, <1>b, <1>c, Zenon
  <2> QED  BY <2>1, <2>3, <1>a, <1>c, RequestsKept, Zenon
<1>10. ASSUME NEW p \in Process, brelse_ref(p) PROVE RequestInv'
  <2>1. /\ pc[p] = "release" /\ pc' = [pc EXCEPT ![p] = "idle"]
        /\ UNCHANGED <<content, data, lock, blockno, io, op>>
    BY <1>10, Zenon DEF brelse_ref, At, Goto, Set, device
  <2> QED  BY <2>1, <1>a, <1>c, RequestsKept, Zenon
<1>11. ASSUME NEW b \in Buf, perform(b) PROVE RequestInv'
  <2>1. io[b] = "pending" /\ io' = [io EXCEPT ![b] = "done"]
        /\ UNCHANGED <<op, lock, pc, blockno>>
    BY <1>11, Zenon DEF perform, Perform, cache
  <2>2. op[b].sector = blockno[b] /\ blockno[b] \in Block
    BY <2>1, RequestIs, Zenon
  <2>3. content'[blockno[b]] = data'[b]
    BY <1>11, <2>2, <1>a DEF perform, Perform, Types
  <2>4. ASSUME NEW c \in Buf \ {b}, io[c] # "none"
        PROVE  content'[blockno[c]] = content[blockno[c]] /\ data'[c] = data[c]
    <3>1. blockno[c] # blockno[b]
      BY <2>1, <2>2, <2>4, <1>0, <1>a, <1>b, Constants, Zenon DEF Coherent
    <3>2. CASE op[b].write
      <4>1. content' = [content EXCEPT ![blockno[b]] = data[b]] /\ data' = data
        BY <1>11, <2>2, <3>2, Zenon DEF perform, Perform
      <4> QED  BY <4>1, <3>1, <1>a DEF Types
    <3>3. CASE ~ op[b].write
      BY <1>11, <2>4, <3>3, <1>a, Zenon DEF perform, Perform, Types
    <3> QED  BY <3>2, <3>3, Zenon
  <2>5. ASSUME NEW c \in Buf, io'[c] # "none"
        PROVE  /\ lock'[c] # None /\ pc'[lock'[c]] \in {"read", "write"}
               /\ (op'[c].write <=> pc'[lock'[c]] = "write") /\ op'[c].sector = blockno'[c]
    BY <2>1, <2>5, <1>a, Zenon DEF RequestInv, Types
  <2>6. ASSUME NEW c \in Buf, io'[c] = "done" PROVE content'[blockno'[c]] = data'[c]
    BY <2>1, <2>3, <2>4, <2>6, <1>a DEF RequestInv, Types
  <2> QED  BY <2>5, <2>6, Zenon DEF RequestInv
<1> QED  BY <1>1, <1>2, <1>3, <1>4, <1>5, <1>6, <1>7, <1>8, <1>9, <1>10, <1>11, Zenon DEF Next, Kernel, Client

\* The cache stays coherent.
LEMMA CoherentStep ==
    ASSUME IInv, [Next]_vars
    PROVE  Coherent'
<1>1. /\ Coherent /\ valid \subseteq Buf /\ dirty \subseteq valid
      /\ data \in [Buf -> Value] /\ content \in [Block -> Value] /\ latest \in [Block -> Value]
      /\ blockno \in [Buf -> Block \cup {None}]
      /\ \A b \in valid : blockno[b] \in Block
  BY Zenon DEF IInv, Types, DirtyInv
<1> USE Constants
<1>2. CASE UNCHANGED <<data, content, blockno, valid, dirty, latest>>
  BY <1>1, <1>2, Zenon DEF Coherent
<1>3. ASSUME NEW p \in Process, NEW blk \in Block, bget_miss(p, blk) PROVE Coherent'
  <2>1. PICK b \in Buf : /\ blockno' = [blockno EXCEPT ![b] = blk] /\ valid' = valid \ {b}
                         /\ b \notin dirty
    BY <1>3, Recycles, Zenon
  <2>2. UNCHANGED <<data, content, dirty, latest>> /\ \A c \in Buf : blockno[c] # blk
    BY <1>3, Zenon DEF bget_miss, cached, device, client
  <2>3. \A c, d \in Buf : c # d /\ blockno'[c] # None => blockno'[c] # blockno'[d]
    BY <2>1, <2>2, <1>1, Zenon DEF Coherent
  <2>4. \A c \in valid' : data'[c] = latest'[blockno'[c]]
    BY <2>1, <2>2, <1>1, Zenon DEF Coherent
  <2>5. \A c \in valid \cap dirty : c \in valid' \cap dirty' /\ blockno'[c] = blockno[c]
    BY <2>1, <2>2, <1>1, Zenon
  <2>6. \A k \in Block : (\A c \in valid' \cap dirty' : blockno'[c] # k) => content'[k] = latest'[k]
    BY <2>2, <2>5, <1>1, Zenon DEF Coherent
  <2> QED  BY <2>3, <2>4, <2>6, Zenon DEF Coherent
<1>4. ASSUME NEW p \in Process, NEW v \in Value, store(p, v) PROVE Coherent'
  <2> DEFINE b == buf[p]
  <2>1. b \in Buf /\ b \in valid /\ blockno[b] \in Block
    BY <1>4, HasBuffer, Zenon DEF store, At, IInv, DirtyInv
  <2>2. /\ data' = [data EXCEPT ![b] = v] /\ latest' = [latest EXCEPT ![blockno[b]] = v]
        /\ dirty' = dirty \cup {b} /\ UNCHANGED <<content, blockno, valid>>
    BY <1>4, Zenon DEF store, Store, Set, cache
  <2> HIDE DEF b
  <2>3. \A c \in Buf : c # b => blockno[c] # blockno[b]
    BY <2>1, <1>1, Zenon DEF Coherent
  <2>4. \A c \in valid' : data'[c] = latest'[blockno'[c]]
    BY <2>1, <2>2, <2>3, <1>1, Zenon DEF Coherent
  <2>5. \A k \in Block : (\A c \in valid' \cap dirty' : blockno'[c] # k) => content'[k] = latest'[k]
    BY <2>1, <2>2, <1>1, Zenon DEF Coherent
  <2> QED  BY <2>2, <2>4, <2>5, <1>1, Zenon DEF Coherent
<1>5. ASSUME NEW p \in Process, bread_end(p) PROVE Coherent'
  <2> DEFINE b == buf[p]
  <2>1. b \in Buf /\ b \notin valid /\ blockno[b] \in Block /\ io[b] = "done"
    BY <1>5, HasBuffer, Zenon DEF bread_end, Return, IInv, DirtyInv
  <2>2. valid' = valid \cup {b} /\ UNCHANGED <<data, content, blockno, dirty, latest>>
    BY <1>5, Zenon DEF bread_end, Return, client
  <2> HIDE DEF b
  <2>3. data[b] = content[blockno[b]]
    BY <2>1, Zenon DEF IInv, RequestInv
  <2>4. content[blockno[b]] = latest[blockno[b]]
    BY <2>1, <1>1, Zenon DEF Coherent
  <2> QED  BY <2>1, <2>2, <2>3, <2>4, <1>1, Zenon DEF Coherent
<1>6. ASSUME NEW p \in Process, bwrite_end(p) PROVE Coherent'
  <2> DEFINE b == buf[p]
  <2>1. b \in Buf /\ b \in valid /\ blockno[b] \in Block /\ io[b] = "done"
    BY <1>6, HasBuffer, Zenon DEF bwrite_end, Return, IInv, DirtyInv
  <2>2. dirty' = dirty \ {b} /\ UNCHANGED <<data, content, blockno, valid, latest>>
    BY <1>6, Zenon DEF bwrite_end, Return, cache
  <2> HIDE DEF b
  <2>3. content[blockno[b]] = data[b]
    BY <2>1, Zenon DEF IInv, RequestInv
  <2>4. content[blockno[b]] = latest[blockno[b]]
    BY <2>1, <2>3, <1>1, Zenon DEF Coherent
  <2>5. ASSUME NEW k \in Block, \A c \in valid' \cap dirty' : blockno'[c] # k, k # blockno[b]
        PROVE  content[k] = latest[k]
    BY <2>2, <2>5, <1>1, Zenon DEF Coherent
  <2> QED  BY <2>2, <2>4, <2>5, <1>1, Zenon DEF Coherent
<1>7. ASSUME NEW b \in Buf, perform(b) PROVE Coherent'
  <2>1. io[b] = "pending" /\ UNCHANGED <<blockno, valid, dirty, latest>>
    BY <1>7, Zenon DEF perform, Perform, cache, client
  <2>2. /\ op[b].sector = blockno[b] /\ blockno[b] \in Block
        /\ op[b].write <=> pc[lock[b]] = "write"
        /\ pc[lock[b]] \in {"read", "write"} /\ lock[b] \in Process /\ buf[lock[b]] = b
    BY <2>1, RequestIs, Zenon
  <2>3. CASE op[b].write
    <3>1. b \in valid
      BY <2>2, <2>3, Zenon DEF IInv, DirtyInv
    <3>2. content' = [content EXCEPT ![blockno[b]] = data[b]] /\ data' = data
      BY <1>7, <2>2, <2>3, Zenon DEF perform, Perform
    <3>3. data[b] = latest[blockno[b]]
      BY <3>1, <1>1, Zenon DEF Coherent
    <3>4. ASSUME NEW k \in Block, \A c \in valid' \cap dirty' : blockno'[c] # k
          PROVE  content'[k] = latest'[k]
      <4>1. content[k] = latest[k]
        BY <3>4, <2>1, <1>1, Zenon DEF Coherent
      <4> QED  BY <4>1, <3>2, <3>3, <2>1, <1>1, Zenon
    <3>5. /\ \A c, d \in Buf : c # d /\ blockno'[c] # None => blockno'[c] # blockno'[d]
          /\ \A c \in valid' : data'[c] = latest'[blockno'[c]]
      BY <3>2, <2>1, <1>1, Zenon DEF Coherent
    <3> QED  BY <3>4, <3>5, Zenon DEF Coherent
  <2>4. CASE ~ op[b].write
    <3>1. b \notin valid
      BY <2>2, <2>4, Zenon DEF IInv, DirtyInv
    <3>2. content' = content /\ data' = [data EXCEPT ![b] = content[blockno[b]]]
      BY <1>7, <2>2, <2>4, Zenon DEF perform, Perform
    <3>3. \A c \in valid : data'[c] = data[c]
      BY <3>1, <3>2, <1>1, Zenon
    <3> QED  BY <2>1, <3>2, <3>3, <1>1, Zenon DEF Coherent
  <2> QED  BY <2>3, <2>4, Zenon
<1>8. \/ UNCHANGED <<data, content, blockno, valid, dirty, latest>>
      \/ \E p \in Process : \/ \E blk \in Block : bget_miss(p, blk)
                            \/ \E v \in Value : store(p, v)
                            \/ bread_end(p) \/ bwrite_end(p)
      \/ \E b \in Buf : perform(b)
  <2>1. ASSUME NEW p \in Process, NEW blk \in Block, bget_hit(p, blk)
        PROVE  UNCHANGED <<data, content, blockno, valid, dirty, latest>>
    BY <2>1, Zenon DEF bget_hit, device, client
  <2>2. ASSUME NEW p \in Process, acquiresleep(p)
        PROVE  UNCHANGED <<data, content, blockno, valid, dirty, latest>>
    BY <2>2, Zenon DEF acquiresleep, device, client
  <2>3. ASSUME NEW p \in Process, rw(p)
        PROVE  UNCHANGED <<data, content, blockno, valid, dirty, latest>>
    BY <2>3, Zenon DEF rw, Request, cache, client
  <2>4. ASSUME NEW p \in Process, bwrite(p)
        PROVE  UNCHANGED <<data, content, blockno, valid, dirty, latest>>
    BY <2>4, Zenon DEF bwrite, device, cache, client
  <2>5. ASSUME NEW p \in Process, bpin(p) \/ bunpin(p)
        PROVE  UNCHANGED <<data, content, blockno, valid, dirty, latest>>
    BY <2>5, Zenon DEF bpin, bunpin, device, cache, client
  <2>6. ASSUME NEW p \in Process, brelse(p) \/ brelse_ref(p)
        PROVE  UNCHANGED <<data, content, blockno, valid, dirty, latest>>
    BY <2>6, Zenon DEF brelse, brelse_ref, device, cache, client
  <2>7. UNCHANGED vars => UNCHANGED <<data, content, blockno, valid, dirty, latest>>
    BY Zenon DEF vars, device, cache, client
  <2> QED  BY <2>1, <2>2, <2>3, <2>4, <2>5, <2>6, <2>7, Zenon DEF Next, Kernel, Client
<1> QED  BY <1>2, <1>3, <1>4, <1>5, <1>6, <1>7, <1>8, Zenon

-----------------------------------------------------------------------------
\* The results

\* The invariant holds initially ...
LEMMA InitInv == Init => IInv
<1> SUFFICES ASSUME Init PROVE IInv
  BY Zenon
<1> USE Constants DEF Init, DeviceInit
<1>1. Types
  BY Zenon DEF Types
<1>2. OpInv
  BY Zenon DEF OpInv, NoOp
<1>3. ListInv
  BY ListInit, Zenon
<1>4. RefInv
  <2>1. ASSUME NEW b \in Buf PROVE Cardinality(Users(buf, b)) = 0 /\ Cardinality({b} \cap pinned) = 0
    <3>1. Users(buf, b) = {} /\ {b} \cap pinned = {}
      BY Zenon DEF Users
    <3>2. Cardinality({}) = 0
      BY FS_EmptySet, Zenon
    <3> HIDE DEF Init
    <3> QED  BY <3>1, <3>2, Zenon
  <2>2. Cardinality(pinned) <= MaxPin
    BY FS_EmptySet, BioAssumption
  <2> QED  BY <2>1, <2>2 DEF RefInv
<1>5. HoldInv
  BY Zenon DEF HoldInv, Working
<1>6. DirtyInv /\ RequestInv /\ Coherent
  BY Zenon DEF DirtyInv, RequestInv, Coherent
<1> QED  BY <1>1, <1>2, <1>3, <1>4, <1>5, <1>6, Zenon DEF IInv

\* ... and every step keeps it.
LEMMA Invariance == Spec => []IInv
<1>1. IInv /\ [Next]_vars => IInv'
  <2> SUFFICES ASSUME IInv, [Next]_vars PROVE IInv'
    BY Zenon
  <2> QED  BY TypesStep, OpStep, ListStep, RefStep, HoldStep, DirtyStep, RequestStep, CoherentStep, Zenon
           DEF IInv
<1> QED  BY InitInv, <1>1, PTL DEF Spec

\* The buffer cache is the one view of the disk: whatever processes read, change,
\* write, pin and release, in any order, no block has two buffers, a valid
\* buffer has what was last stored for its block, and what is not in a changed
\* buffer is on the disk.
THEOREM CacheCoherent == Spec => []Coherent
<1>1. IInv => Coherent
  BY Zenon DEF IInv
<1> QED  BY Invariance, <1>1, PTL

\* refcnt is the number of users and pins of a buffer, a process that works on
\* a buffer has its sleep lock, and nobody sleeps for a lock that is free.
THEOREM BuffersCorrect == Spec => []BuffersHeld
<1>1. ASSUME IInv PROVE BuffersHeld
  <2>1. Len(lru) = Cardinality(Buf) /\ Range(lru) = Buf
    <3>1. lru \in Seq(Buf) /\ Len(lru) = Cardinality(Buf) /\ DOMAIN lru = 1 .. Cardinality(Buf)
      BY <1>1, Constants DEF IInv, ListInv
    <3> QED  BY <1>1, <3>1, Zenon DEF IInv, ListInv, Range
  <2>2. refcnt \in [Buf -> 0 .. Cardinality(Process) + 1]
    <3>1. ASSUME NEW b \in Buf PROVE refcnt[b] \in 0 .. Cardinality(Process) + 1
      <4>1. refcnt[b] = Cardinality(Users(buf, b)) + Cardinality({b} \cap pinned)
        BY <1>1, Zenon DEF IInv, RefInv
      <4>2. Cardinality({b} \cap pinned) \in 0 .. 1
        BY PinCount
      <4> QED  BY <4>1, <4>2, UsersFinite, Constants
    <3> QED  BY <1>1, <3>1, Zenon DEF IInv, RefInv
  <2>3. TypeOK
    BY <1>1, <2>1, <2>2, Zenon DEF IInv, Types, TypeOK
  <2>4. RefcntCounts
    BY <1>1, Zenon DEF IInv, RefInv, RefcntCounts, Users
  <2>5. HoldsLock /\ SleeperMustWait
    BY <1>1, Zenon DEF IInv, HoldInv, Working, HoldsLock, SleeperMustWait
  <2> QED  BY <2>3, <2>4, <2>5, Zenon DEF BuffersHeld
<1> QED  BY Invariance, <1>1, PTL

\* A set of positions of the list has a last one.
LEMMA LastOf ==
    ASSUME NEW n \in Nat, NEW S \in SUBSET (1 .. n), S # {}
    PROVE  \E i \in S : \A j \in S : j <= i
<1> DEFINE D == {d \in Nat : n - d \in S}
<1>1. PICK i \in S : TRUE
  BY Zenon
<1>2. n - i \in D
  BY <1>1
<1>3. PICK x \in D : \A y \in D : ~(<<y, x>> \in OpToRel(<, Nat))
  BY <1>2, WFMin, NatLessThanWellFounded, Zenon
<1>4. \A y \in D : ~(y < x)
  BY <1>3, Zenon DEF OpToRel
<1>5. \A j \in S : n - j \in D
  OBVIOUS
<1>6. ASSUME NEW j \in S PROVE j <= n - x
  <2>1. ~(n - j < x) /\ x \in Nat /\ j \in Nat
    BY <1>4, <1>5
  <2> QED  BY <2>1
<1> QED  BY <1>6, Zenon

\* With a buffer for every process and every pin, one that nobody uses is left
\* for a process that has none yet.
LEMMA SomeUnused ==
    ASSUME IInv, NEW p \in Process, pc[p] = "idle"
    PROVE  \E b \in Buf : refcnt[b] = 0
<1> SUFFICES ASSUME \A b \in Buf : refcnt[b] # 0 PROVE FALSE
  BY Zenon
<1> DEFINE Rest == Buf \ pinned
           Others == {q \in Process \ {p} : buf[q] \in Rest}
           f == [q \in Others |-> buf[q]]
<1>1. ASSUME NEW b \in Rest PROVE \E q \in Others : buf[q] = b
  <2>1. refcnt[b] = Cardinality(Users(buf, b)) + Cardinality({b} \cap pinned)
    BY Zenon DEF IInv, RefInv
  <2>2. Cardinality({b} \cap pinned) = 0
    BY PinCount, Zenon
  <2>3. Cardinality(Users(buf, b)) # 0
    BY <2>1, <2>2
  <2>4. PICK q \in Process : buf[q] = b
    BY <2>3, FS_EmptySet, Zenon DEF Users
  <2>5. buf[p] = None
    BY Zenon DEF IInv, HoldInv
  <2>6. q # p
    BY <2>4, <2>5, Constants, Zenon
  <2> QED  BY <2>4, <2>6, Zenon
<1>2. f \in Surjection(Others, Rest)
  BY <1>1, Zenon DEF Surjection
<1>3. /\ IsFiniteSet(Process \ {p})
      /\ Cardinality(Process \ {p}) = Cardinality(Process) - 1
  BY BioAssumption, FS_RemoveElement, Zenon
<1>4. Others \in SUBSET (Process \ {p})
  BY Zenon
<1>5. IsFiniteSet(Others) /\ Cardinality(Others) <= Cardinality(Process \ {p})
  BY <1>3, <1>4, FS_Subset, Zenon
<1>6. Cardinality(Rest) <= Cardinality(Others)
  <2> HIDE DEF f, Others, Rest
  <2> QED  BY <1>2, <1>5, FS_Surjection, Zenon
<1>7. /\ IsFiniteSet(Rest)
      /\ Cardinality(Rest) = Cardinality(Buf) - Cardinality(Buf \cap pinned)
  BY BioAssumption, FS_Difference, Zenon
<1>8. Buf \cap pinned = pinned /\ IsFiniteSet(pinned) /\ Cardinality(pinned) <= MaxPin
  <2>1. pinned \in SUBSET Buf
    BY Zenon DEF IInv, Types
  <2>2. IsFiniteSet(pinned)
    BY <2>1, BioAssumption, FS_Subset, Zenon
  <2> QED  BY <2>1, <2>2, Zenon DEF IInv, RefInv
<1>9. Cardinality(pinned) \in Nat /\ Cardinality(Rest) \in Nat /\ Cardinality(Others) \in Nat
  BY <1>5, <1>7, <1>8, FS_CardinalityType, Zenon
<1> HIDE DEF Rest, Others, f
<1> QED  BY <1>3, <1>5, <1>6, <1>7, <1>8, <1>9, Constants, BioAssumption

\* bget() always finds a buffer and never reaches its panic("bget: no buffers"),
\* as long as there are as many buffers as processes and pins.
THEOREM BufferAlwaysFound == Spec => []BufferFound
<1>1. ASSUME IInv PROVE BufferFound
  <2> DEFINE N == Cardinality(Buf)
             S == {i \in 1 .. N : lru[i] \in recyclable}
  <2> SUFFICES ASSUME NEW p \in Process, pc[p] = "idle"
               PROVE  \E b \in Buf : least_recent(b)
    BY Zenon DEF BufferFound
  <2>1. PICK b \in Buf : refcnt[b] = 0
    BY <1>1, SomeUnused, Zenon
  <2>2. lru \in [1 .. N -> Buf] /\ N \in Nat /\ \E i \in 1 .. N : lru[i] = b
    BY <1>1, Constants, Zenon DEF IInv, ListInv
  <2>3. S # {} /\ S \in SUBSET (1 .. N)
    BY <2>1, <2>2, Zenon DEF recyclable
  <2>4. PICK i \in S : \A j \in S : j <= i
    <3> HIDE DEF S
    <3> QED  BY <2>2, <2>3, LastOf, Zenon
  <2>5. \A j \in DOMAIN lru : j > i => lru[j] \notin recyclable
    BY <2>2, <2>4
  <2>6. least_recent(lru[i]) /\ lru[i] \in Buf
    BY <2>2, <2>4, <2>5, Zenon DEF least_recent
  <2> QED  BY <2>6, Zenon
<1> QED  BY Invariance, <1>1, PTL

==============================================================================
