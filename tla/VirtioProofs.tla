---------------------------- MODULE VirtioProofs -----------------------------
(***************************************************************************)
(* Proofs about Virtio, for any numbers of buffers, blocks and descriptors *)
(* and any width of the ring indices: the inductive invariant; what adding *)
(* and removing an entry does to a ring; that every step of the device, of *)
(* the interrupt handler and of virtio_disk_rw() preserves the invariant;  *)
(* and what follows: chains and rings hold the requests under way and      *)
(* nothing else, nobody sleeps for what has happened, and the driver with  *)
(* its device implements BlockDevice.                                      *)
(***************************************************************************)
EXTENDS Virtio, Sequences, TLAPS

\* The types of the variables, without the Boolean ones and the requests.
Types ==
    /\ content \in [Block -> Value] /\ data \in [Buf -> Value]
    /\ disk_owns \subseteq Buf
    /\ pc \in [Buf -> {"idle", "alloc", "wait"}] /\ chan \in [Buf -> {"none", "free", "disk"}]
    /\ free \subseteq Idx /\ taken \subseteq Idx
    /\ desc \in [Idx -> [addr : Idx \cup Buf \cup {None}, next : Idx \cup {None}]]
    /\ info \in [Idx -> [b : Buf \cup {None}, status : {0, 255}]]
RingTypes ==
    /\ avail \in [Idx -> Idx \cup {None}] /\ used \in [Idx -> Idx \cup {None}]
    /\ avail_idx \in 0 .. UINT16 - 1 /\ seen_idx \in 0 .. UINT16 - 1
    /\ used_idx \in 0 .. UINT16 - 1 /\ used_idx_dev \in 0 .. UINT16 - 1
OpTypes ==
    /\ op \in [Buf -> [write : BOOLEAN, sector : Block \cup {"none"}]]
    /\ ops \in [Idx -> [write : BOOLEAN, sector : Block \cup {"none"}]]
Booleans == irq \in BOOLEAN /\ vdisk_lock \in BOOLEAN

\* A chain starts at a descriptor whose info[] has a buffer.
IsHead(h) == info[h].b # None
InChain(i, h) == i = h \/ i = desc[h].next \/ i = desc[desc[h].next].next

\* Chains have three descriptors, of the request, of its buffer and of its
\* status byte; no descriptor is in two of them, and what is in none is free.
ChainInv ==
    /\ \A h \in Idx : IsHead(h) =>
          /\ desc[h].next \in Idx /\ desc[desc[h].next].next \in Idx
          /\ desc[desc[desc[h].next].next].next = None
          /\ h # desc[h].next /\ h # desc[desc[h].next].next
          /\ desc[h].next # desc[desc[h].next].next
          /\ desc[desc[h].next].addr = info[h].b
          /\ desc[desc[desc[h].next].next].addr = h
    /\ \A h \in Idx, i \in Idx : IsHead(h) /\ InChain(i, h) => i \notin free
    /\ \A g, h \in Idx, i \in Idx : IsHead(g) /\ IsHead(h) /\ InChain(i, g) /\ InChain(i, h) => g = h
    /\ \A i \in Idx \ free : \E h \in Idx : IsHead(h) /\ InChain(i, h)

\* Each caller that waits for its request has one chain, which asks for what it
\* asked for; others have none.
OwnInv ==
    /\ \A h \in Idx : IsHead(h) =>
          /\ pc[info[h].b] = "wait"
          /\ (ops[h].write <=> op[info[h].b].write) /\ ops[h].sector = op[info[h].b].sector
    /\ \A g, h \in Idx : IsHead(g) /\ info[g].b = info[h].b => g = h
    /\ \A b \in Buf : pc[b] = "wait" => \E h \in Idx : info[h].b = b
    /\ \A b \in Buf : pc[b] # "idle" => op[b].sector \in Block
    /\ \A b \in disk_owns : pc[b] = "wait"

\* The place in a ring of the j-th entry from an index on, and that all entries
\* between two indices are different
Entry(ring, from, j) == ring[(from + j) % NUM]
Size(from, to) == (to - from) % UINT16
Distinct(ring, from, to) ==
    \A i, j \in 0 .. Size(from, to) - 1 : Entry(ring, from, i) = Entry(ring, from, j) => i = j

\* What is in a ring between two indices
Holds(ring, from, to, S) == Window(ring, from, to) = S

Queued == Window(avail, seen_idx, avail_idx)
Completed == Window(used, used_idx, used_idx_dev)

\* A request that the disk owns is in one place: in the avail ring or at the
\* device, with its status not yet written, or in the used ring.
RingInv ==
    /\ Distinct(avail, seen_idx, avail_idx) /\ Distinct(used, used_idx, used_idx_dev)
    /\ Queued \cap taken = {} /\ Queued \cap Completed = {} /\ taken \cap Completed = {}
    /\ Queued \cup taken \cup Completed = {h \in Idx : IsHead(h) /\ info[h].b \in disk_owns}
    /\ \A h \in Idx : IsHead(h) => (info[h].status = 255 <=> h \in Queued \cup taken)

\* Why a sleeper sleeps.
SleepInv ==
    /\ \A b \in Buf : chan[b] = "disk" => pc[b] = "wait" /\ b \in disk_owns
    /\ \A b \in Buf : chan[b] = "free" => pc[b] = "alloc" /\ Cardinality(free) < 3

\* What is in the used ring will be looked at.
Signalled == used_idx # used_idx_dev => irq \/ vdisk_lock

IInv == /\ Types /\ RingTypes /\ OpTypes /\ Booleans
        /\ ChainInv /\ OwnInv /\ RingInv /\ SleepInv /\ Signalled

\* What the proofs use of finite sets and of natural numbers; FactsHold, below,
\* shows it of the definitions.
CountFact == \A S : IsFiniteSet(S) => Cardinality(S) \in Nat /\ (Cardinality(S) = 0 => S = {})
EmptyFact == IsFiniteSet({}) /\ Cardinality({}) = 0
SubsetFact == \A S, T : IsFiniteSet(S) /\ T \subseteq S => IsFiniteSet(T)
RemoveFact ==
    \A S, x : IsFiniteSet(S) /\ x \in S =>
        IsFiniteSet(S \ {x}) /\ Cardinality(S \ {x}) = Cardinality(S) - 1
IntervalFact == \A n \in Nat : IsFiniteSet(0 .. n - 1) /\ Cardinality(0 .. n - 1) = n
InjectionFact ==
    \A S, T : \A f \in [S -> T] :
        IsFiniteSet(T) /\ (\A x, y \in S : f[x] = f[y] => x = y) => Cardinality(S) <= Cardinality(T)
LeastFact == \A S \in SUBSET Nat : S # {} => \E x \in S : \A y \in S : x <= y
Facts ==
    /\ CountFact /\ EmptyFact /\ SubsetFact /\ RemoveFact /\ IntervalFact
    /\ InjectionFact /\ LeastFact

-----------------------------------------------------------------------------
\* Arithmetic of the indices

\* What the assumption on the constants says.
LEMMA Constants ==
    /\ NUM \in Nat \ {0, 1, 2} /\ UINT16 \in Nat \ {0}
    /\ \E j \in Nat : j >= 1 /\ UINT16 = NUM * j
    /\ NUM <= UINT16
    /\ None \notin Buf /\ None \notin Idx
<1>1. PICK j \in 1 .. UINT16 : UINT16 = NUM * j
  BY VirtioAssumption
<1>2. j \in Nat /\ j >= 1
  BY <1>1
<1>3. NUM * j >= NUM * 1
  BY <1>2, VirtioAssumption
<1>4. NUM * j \in Nat
  BY <1>2, VirtioAssumption
<1> QED  BY <1>1, <1>2, <1>3, <1>4, VirtioAssumption DEF None, Idx

\* There are NUM descriptors.
LEMMA IdxFinite ==
    ASSUME Facts
    PROVE  IsFiniteSet(Idx) /\ Cardinality(Idx) = NUM
BY Constants DEF Idx, Facts, IntervalFact

\* Quotient and remainder ...
LEMMA DivMod ==
    ASSUME NEW x \in Int, NEW n \in Nat \ {0}
    PROVE  x \div n \in Int /\ x % n \in 0 .. n - 1 /\ x = n * (x \div n) + (x % n)
OBVIOUS

\* ... and that nothing else is one.
LEMMA ModUnique ==
    ASSUME NEW x \in Int, NEW n \in Nat \ {0}, NEW q \in Int, NEW r \in 0 .. n - 1,
           x = n * q + r
    PROVE  x % n = r
OBVIOUS

\* An index that has wrapped around leads to the same place of a ring.
LEMMA ModShift ==
    ASSUME NEW x \in Int, NEW k \in Int, NEW n \in Nat \ {0}
    PROVE  (x + n * k) % n = x % n
<1> DEFINE q == x \div n
           r == x % n
<1>1. q \in Int /\ r \in 0 .. n - 1 /\ x = n * q + r
  BY DivMod
<1> HIDE DEF q, r
<1>2. x + n * k = n * (q + k) + r
  BY <1>1
<1>3. (x + n * k) % n = r
  BY <1>1, <1>2, ModUnique
<1> QED  BY <1>3 DEF r

\* Fewer than n apart, two numbers lead to different places of a ring of n.
LEMMA ModApart ==
    ASSUME NEW x \in Int, NEW y \in Int, NEW n \in Nat \ {0}, x < y, y < x + n
    PROVE  x % n # y % n
<1> DEFINE q == x \div n
           r == x % n
           p == y \div n
           s == y % n
<1>1. /\ q \in Int /\ r \in 0 .. n - 1 /\ x = n * q + r
      /\ p \in Int /\ s \in 0 .. n - 1 /\ y = n * p + s
  BY DivMod
<1> HIDE DEF q, r, p, s
<1>2. ASSUME r = s PROVE FALSE
  <2>1. y - x = n * (p - q)
    BY <1>1, <1>2
  <2>2. CASE p - q <= 0
    <3>1. n * (p - q) <= 0
      BY <1>1, <2>2
    <3> QED  BY <2>1, <3>1
  <2>3. CASE p - q >= 1
    <3>1. n * (p - q) >= n
      BY <1>1, <2>3
    <3> QED  BY <2>1, <3>1
  <2> QED  BY <1>1, <2>2, <2>3
<1> QED  BY <1>2 DEF r, s

\* Numbers that are the same or a whole turn of the 16-bit index apart lead to
\* the same place of a ring.
LEMMA Place ==
    ASSUME NEW x \in Nat, NEW y \in Nat, x = y \/ x = y + UINT16
    PROVE  x % NUM = y % NUM
<1>1. PICK j \in Nat : UINT16 = NUM * j
  BY Constants
<1>2. y \in Int /\ j \in Int /\ NUM \in Nat \ {0}
  BY Constants
<1>3. (y + NUM * j) % NUM = y % NUM
  BY <1>2, ModShift, Zenon
<1> QED  BY <1>1, <1>3

\* avail->idx += 1 and disk.used_idx += 1 wrap around to 0.
LEMMA Increment ==
    ASSUME NEW i \in 0 .. UINT16 - 1
    PROVE  /\ (i + 1) % UINT16 \in 0 .. UINT16 - 1
           /\ (i + 1) % UINT16 = IF i + 1 = UINT16 THEN 0 ELSE i + 1
<1>1. CASE i + 1 = UINT16
  <2>1. i + 1 = UINT16 * 1 + 0 /\ 0 \in 0 .. UINT16 - 1
    BY <1>1, Constants
  <2> QED  BY <1>1, <2>1, Constants, ModUnique
<1>2. CASE i + 1 # UINT16
  <2>1. i + 1 = UINT16 * 0 + (i + 1) /\ i + 1 \in 0 .. UINT16 - 1
    BY <1>2, Constants
  <2> QED  BY <1>2, <2>1, Constants, ModUnique
<1> QED  BY <1>1, <1>2

\* How many entries are between two indices.
LEMMA SizeIs ==
    ASSUME NEW f \in 0 .. UINT16 - 1, NEW t \in 0 .. UINT16 - 1
    PROVE  Size(f, t) = IF t < f THEN t + UINT16 - f ELSE t - f
<1>1. CASE t < f
  <2>1. t - f = UINT16 * (-1) + (t + UINT16 - f) /\ t + UINT16 - f \in 0 .. UINT16 - 1
    BY <1>1, Constants
  <2> QED  BY <1>1, <2>1, Constants, ModUnique DEF Size
<1>2. CASE t >= f
  <2>1. t - f = UINT16 * 0 + (t - f) /\ t - f \in 0 .. UINT16 - 1
    BY <1>2, Constants
  <2> QED  BY <1>2, <2>1, Constants, ModUnique DEF Size
<1> QED  BY <1>1, <1>2

\* What comparing the indices finds out, and what adding one does.
LEMMA Indices ==
    ASSUME NEW f \in 0 .. UINT16 - 1, NEW t \in 0 .. UINT16 - 1
    PROVE  /\ Size(f, t) \in 0 .. UINT16 - 1
           /\ f = t <=> Size(f, t) = 0
           /\ f + Size(f, t) = t \/ f + Size(f, t) = t + UINT16
           /\ Size(f, t) < UINT16 - 1 => Size(f, (t + 1) % UINT16) = Size(f, t) + 1
           /\ Size(f, t) > 0 => Size((f + 1) % UINT16, t) = Size(f, t) - 1
<1> USE Constants
<1>1. Size(f, t) = IF t < f THEN t + UINT16 - f ELSE t - f
  BY SizeIs
<1>2. /\ Size(f, t) \in 0 .. UINT16 - 1
      /\ f = t <=> Size(f, t) = 0
      /\ f + Size(f, t) = t \/ f + Size(f, t) = t + UINT16
  BY <1>1
<1> DEFINE u == (t + 1) % UINT16
           g == (f + 1) % UINT16
<1>3. /\ u \in 0 .. UINT16 - 1 /\ u = IF t + 1 = UINT16 THEN 0 ELSE t + 1
      /\ g \in 0 .. UINT16 - 1 /\ g = IF f + 1 = UINT16 THEN 0 ELSE f + 1
  BY Increment
<1> HIDE DEF u, g
<1>4. ASSUME Size(f, t) < UINT16 - 1 PROVE Size(f, u) = Size(f, t) + 1
  <2>1. Size(f, u) = IF u < f THEN u + UINT16 - f ELSE u - f
    BY <1>3, SizeIs
  <2> QED  BY <1>1, <1>3, <1>4, <2>1
<1>5. ASSUME Size(f, t) > 0 PROVE Size(g, t) = Size(f, t) - 1
  <2>1. Size(g, t) = IF t < g THEN t + UINT16 - g ELSE t - g
    BY <1>3, SizeIs
  <2> QED  BY <1>1, <1>3, <1>5, <2>1
<1> QED  BY <1>2, <1>4, <1>5 DEF u, g

-----------------------------------------------------------------------------
\* Rings

\* The entries between two indices, by their distance from the first
LEMMA WindowIs ==
    ASSUME NEW ring, NEW f, NEW t
    PROVE  Window(ring, f, t) = {Entry(ring, f, j) : j \in 0 .. Size(f, t) - 1}
BY DEF Window, Entry, Size

\* Different entries are at most as many as what they are taken from.
LEMMA SizeBound ==
    ASSUME Facts, NEW ring, NEW f \in 0 .. UINT16 - 1, NEW t \in 0 .. UINT16 - 1,
           Distinct(ring, f, t), NEW S, IsFiniteSet(S), Window(ring, f, t) \subseteq S
    PROVE  Size(f, t) <= Cardinality(S)
<1> DEFINE n == Size(f, t)
           e == [j \in 0 .. n - 1 |-> Entry(ring, f, j)]
<1>1. n \in Nat
  BY Indices, Constants
<1>2. \A j \in 0 .. n - 1 : Entry(ring, f, j) \in S
  BY WindowIs
<1> HIDE DEF n
<1>3. e \in [0 .. n - 1 -> S]
  BY <1>2
<1>4. \A i, j \in 0 .. n - 1 : e[i] = e[j] => i = j
  BY DEF Distinct, n
<1>6. Cardinality(0 .. n - 1) = n
  BY <1>1, Zenon DEF Facts, IntervalFact
<1> HIDE DEF e
<1>7. Cardinality(0 .. n - 1) <= Cardinality(S)
  BY <1>3, <1>4, Zenon DEF Facts, InjectionFact
<1> QED  BY <1>6, <1>7 DEF n

\* An entry is added: the side that writes the ring increments its index.
LEMMA Push ==
    ASSUME NEW ring \in [Idx -> Idx \cup {None}], NEW x \in Idx \cup {None},
           NEW f \in 0 .. UINT16 - 1, NEW t \in 0 .. UINT16 - 1,
           Size(f, t) <= NUM - 2, Distinct(ring, f, t), x \notin Window(ring, f, t)
    PROVE  /\ [ring EXCEPT ![t % NUM] = x] \in [Idx -> Idx \cup {None}]
           /\ (t + 1) % UINT16 \in 0 .. UINT16 - 1
           /\ Distinct([ring EXCEPT ![t % NUM] = x], f, (t + 1) % UINT16)
           /\ Holds([ring EXCEPT ![t % NUM] = x], f, (t + 1) % UINT16, Window(ring, f, t) \cup {x})
<1> DEFINE r == [ring EXCEPT ![t % NUM] = x]
           u == (t + 1) % UINT16
<1> DEFINE n == Size(f, t)
<1>1. n \in Nat /\ n <= NUM - 2 /\ Size(f, u) = n + 1 /\ (f + n = t \/ f + n = t + UINT16)
  <2>1. n \in 0 .. UINT16 - 1 /\ (f + n = t \/ f + n = t + UINT16)
    BY Indices
  <2>2. n < UINT16 - 1 => Size(f, (t + 1) % UINT16) = n + 1
    BY Indices
  <2> HIDE DEF n
  <2>3. n \in Nat /\ n < UINT16 - 1
    BY <2>1, Constants DEF n
  <2> QED  BY <2>1, <2>2, <2>3 DEF n
<1>2. u \in 0 .. UINT16 - 1
  BY Increment
<1>0. r = [ring EXCEPT ![t % NUM] = x]
  OBVIOUS
<1> HIDE DEF n, r, u
<1>3. (f + n) % NUM = t % NUM
  <2>1. f + n \in Nat /\ t \in Nat
    BY <1>1
  <2> QED  BY <2>1, <1>1, Place
<1>4. t % NUM \in Idx /\ \A j \in 0 .. n : (f + j) % NUM \in Idx
  <2>1. \A y \in Int : y % NUM \in 0 .. NUM - 1
    BY DivMod, Constants, Zenon
  <2>2. t \in Int /\ \A j \in 0 .. n : f + j \in Int
    BY <1>1
  <2> QED  BY <2>1, <2>2, Zenon DEF Idx
<1>5. ASSUME NEW j \in 0 .. n - 1 PROVE Entry(r, f, j) = Entry(ring, f, j)
  <2>1. f + j \in Int /\ f + n \in Int /\ f + j < f + n /\ f + n < f + j + NUM /\ NUM \in Nat \ {0}
    BY <1>1, Constants
  <2>2. (f + j) % NUM # (f + n) % NUM
    BY <2>1, ModApart, Zenon
  <2>3. j \in 0 .. n
    BY <1>1
  <2>4. (f + j) % NUM # t % NUM /\ (f + j) % NUM \in Idx
    BY <2>2, <2>3, <1>3, <1>4, Zenon
  <2> QED  BY <2>4, <1>4, <1>0 DEF Entry
<1>6. Entry(r, f, n) = x
  BY <1>3, <1>4, <1>0 DEF Entry
<1>7. \A j \in 0 .. n - 1 : Entry(ring, f, j) # x
  BY WindowIs DEF n
<1>8. Distinct(r, f, u)
  <2>1. ASSUME NEW i \in 0 .. n, NEW j \in 0 .. n, Entry(r, f, i) = Entry(r, f, j) PROVE i = j
    <3>1. CASE i # n /\ j # n
      <4>1. i \in 0 .. n - 1 /\ j \in 0 .. n - 1
        BY <1>1, <3>1
      <4>2. Entry(ring, f, i) = Entry(ring, f, j)
        BY <4>1, <2>1, <1>5
      <4> QED  BY <4>1, <4>2 DEF Distinct, n
    <3>2. CASE i = n /\ j # n
      <4>1. j \in 0 .. n - 1
        BY <1>1, <3>2
      <4> QED  BY <4>1, <3>2, <2>1, <1>5, <1>6, <1>7, Zenon
    <3>3. CASE i # n /\ j = n
      <4>1. i \in 0 .. n - 1
        BY <1>1, <3>3
      <4> QED  BY <4>1, <3>3, <2>1, <1>5, <1>6, <1>7
    <3> QED  BY <3>1, <3>2, <3>3
  <2>2. Size(f, u) - 1 = n
    BY <1>1
  <2> QED  BY <2>1, <2>2 DEF Distinct
<1>9. Window(r, f, u) = Window(ring, f, t) \cup {x}
  <2>1. Window(r, f, u) = {Entry(r, f, j) : j \in 0 .. n}
    <3>1. Size(f, u) - 1 = n
      BY <1>1
    <3> QED  BY <3>1, WindowIs
  <2>2. Window(ring, f, t) = {Entry(ring, f, j) : j \in 0 .. n - 1}
    BY WindowIs DEF n
  <2>3. ASSUME NEW e \in Window(r, f, u) PROVE e \in Window(ring, f, t) \cup {x}
    <3>1. PICK j \in 0 .. n : e = Entry(r, f, j)
      BY <2>1
    <3>2. CASE j = n
      BY <3>1, <3>2, <1>6
    <3>3. CASE j # n
      <4>1. j \in 0 .. n - 1
        BY <1>1, <3>3
      <4> QED  BY <4>1, <3>1, <1>5, <2>2
    <3> QED  BY <3>2, <3>3
  <2>4. ASSUME NEW e \in Window(ring, f, t) PROVE e \in Window(r, f, u)
    <3>1. PICK j \in 0 .. n - 1 : e = Entry(ring, f, j)
      BY <2>2
    <3>2. j \in 0 .. n
      BY <3>1, <1>1
    <3>3. e = Entry(r, f, j)
      BY <3>1, <1>5, Zenon
    <3> QED  BY <3>2, <3>3, <2>1
  <2>5. x \in Window(r, f, u)
    <3>1. n \in 0 .. n
      BY <1>1
    <3> QED  BY <3>1, <1>6, <2>1
  <2> QED  BY <2>3, <2>4, <2>5
<1>10. r \in [Idx -> Idx \cup {None}]
  BY <1>0, Zenon
<1> QED  BY <1>2, <1>8, <1>9, <1>10, Zenon DEF r, u, Holds

\* An entry is removed: the side that reads the ring increments its index.
LEMMA Pop ==
    ASSUME NEW ring \in [Idx -> Idx \cup {None}],
           NEW f \in 0 .. UINT16 - 1, NEW t \in 0 .. UINT16 - 1,
           f # t, Size(f, t) <= NUM - 2, Distinct(ring, f, t)
    PROVE  /\ [ring EXCEPT ![f % NUM] = None] \in [Idx -> Idx \cup {None}]
           /\ (f + 1) % UINT16 \in 0 .. UINT16 - 1
           /\ ring[f % NUM] \in Window(ring, f, t)
           /\ Distinct([ring EXCEPT ![f % NUM] = None], (f + 1) % UINT16, t)
           /\ Holds([ring EXCEPT ![f % NUM] = None], (f + 1) % UINT16, t,
                    Window(ring, f, t) \ {ring[f % NUM]})
<1> DEFINE r == [ring EXCEPT ![f % NUM] = None]
           g == (f + 1) % UINT16
<1> DEFINE n == Size(f, t)
<1>1. n \in Nat \ {0} /\ n <= NUM - 1 /\ Size(g, t) = n - 1
  <2>1. n \in 0 .. UINT16 - 1 /\ n # 0
    BY Indices
  <2>2. n > 0 => Size((f + 1) % UINT16, t) = n - 1
    BY Indices
  <2> HIDE DEF n
  <2> QED  BY <2>1, <2>2, Constants DEF n
<1>2. g \in 0 .. UINT16 - 1 /\ (f + 1 = g \/ f + 1 = g + UINT16)
  BY Increment, Constants
<1>0. r = [ring EXCEPT ![f % NUM] = None]
  OBVIOUS
<1> HIDE DEF n, r, g
<1>3. \A y \in Int : y % NUM \in Idx
  BY DivMod, Constants, Zenon DEF Idx
<1>4. ASSUME NEW j \in 0 .. n - 2 PROVE Entry(r, g, j) = Entry(ring, f, j + 1)
  <2>1. f + (j + 1) \in Nat /\ g + j \in Nat /\ (f + (j + 1) = g + j \/ f + (j + 1) = g + j + UINT16)
    BY <1>1, <1>2, Constants
  <2>2. (f + (j + 1)) % NUM = (g + j) % NUM
    BY <2>1, Place
  <2>3. f \in Int /\ f + (j + 1) \in Int /\ f < f + (j + 1) /\ f + (j + 1) < f + NUM /\ NUM \in Nat \ {0}
    BY <1>1, Constants
  <2>4. f % NUM # (f + (j + 1)) % NUM
    BY <2>3, ModApart, Zenon
  <2>5. f % NUM \in Idx /\ (g + j) % NUM \in Idx
    BY <1>3, <2>1, <2>3
  <2> QED  BY <2>2, <2>4, <2>5, <1>0 DEF Entry
<1>5. ring[f % NUM] = Entry(ring, f, 0)
  BY Constants DEF Entry
<1>6. Window(ring, f, t) = {Entry(ring, f, j) : j \in 0 .. n - 1}
  BY WindowIs DEF n
<1>7. Window(r, g, t) = {Entry(r, g, j) : j \in 0 .. n - 2}
  <2>1. Size(g, t) - 1 = n - 2
    BY <1>1
  <2> QED  BY <2>1, WindowIs
<1>8. ring[f % NUM] \in Window(ring, f, t)
  <2>1. 0 \in 0 .. n - 1
    BY <1>1
  <2> QED  BY <2>1, <1>5, <1>6
<1>9. \A i, j \in 0 .. n - 1 : Entry(ring, f, i) = Entry(ring, f, j) => i = j
  BY DEF Distinct, n
<1>10. Distinct(r, g, t)
  <2>1. ASSUME NEW i \in 0 .. n - 2, NEW j \in 0 .. n - 2, Entry(r, g, i) = Entry(r, g, j) PROVE i = j
    <3>1. i + 1 \in 0 .. n - 1 /\ j + 1 \in 0 .. n - 1
      BY <1>1
    <3>2. Entry(ring, f, i + 1) = Entry(ring, f, j + 1)
      BY <2>1, <1>4
    <3>3. i + 1 = j + 1
      BY <3>1, <3>2, <1>9
    <3> QED  BY <3>3, <1>1
  <2>2. Size(g, t) - 1 = n - 2
    BY <1>1
  <2> QED  BY <2>1, <2>2 DEF Distinct
<1>11. ASSUME NEW e \in Window(r, g, t) PROVE e \in Window(ring, f, t) \ {ring[f % NUM]}
  <2>1. PICK j \in 0 .. n - 2 : e = Entry(r, g, j)
    BY <1>7
  <2>2. j + 1 \in 0 .. n - 1 /\ 0 \in 0 .. n - 1 /\ j + 1 # 0
    BY <1>1
  <2>3. e = Entry(ring, f, j + 1)
    BY <2>1, <1>4
  <2>4. e # Entry(ring, f, 0)
    BY <2>2, <2>3, <1>9
  <2> QED  BY <2>2, <2>3, <2>4, <1>5, <1>6
<1>12. ASSUME NEW e \in Window(ring, f, t) \ {ring[f % NUM]} PROVE e \in Window(r, g, t)
  <2>1. PICK j \in 0 .. n - 1 : e = Entry(ring, f, j)
    BY <1>6
  <2>2. j # 0
    BY <2>1, <1>5
  <2>3. j - 1 \in 0 .. n - 2 /\ (j - 1) + 1 = j
    BY <2>2, <1>1
  <2>4. Entry(r, g, j - 1) = e
    BY <2>1, <2>3, <1>4
  <2> QED  BY <2>3, <2>4, <1>7
<1>13. r \in [Idx -> Idx \cup {None}]
  BY <1>0, Zenon
<1>14. Window(r, g, t) = Window(ring, f, t) \ {ring[f % NUM]}
  BY <1>11, <1>12
<1> QED  BY <1>2, <1>8, <1>10, <1>13, <1>14, Zenon DEF r, g, Holds

\* The least element of a set of descriptors, which alloc_desc() takes
LEMMA MinIs ==
    ASSUME Facts, NEW S \in SUBSET Idx, S # {}
    PROVE  Min(S) \in S /\ \A y \in S : Min(S) <= y
<1>1. S \in SUBSET Nat
  BY Constants DEF Idx
<1>2. PICK x \in S : \A y \in S : x <= y
  BY <1>1, Zenon DEF Facts, LeastFact
<1> QED  BY <1>2 DEF Min

\* alloc3_desc() gets three different free descriptors.
LEMMA Alloc3 ==
    ASSUME Facts, NEW S \in SUBSET Idx, Cardinality(S) >= 3,
           NEW i, i = alloc_desc(S), NEW j, j = alloc_desc(S \ {i}),
           NEW k, k = alloc_desc(S \ {i, j})
    PROVE  i \in S /\ j \in S /\ k \in S /\ i # j /\ i # k /\ j # k
<1>1. IsFiniteSet(S)
  BY IdxFinite DEF Facts, SubsetFact
<1>2. Cardinality({}) = 0 /\ S # {}
  <2>1. Cardinality({}) = 0
    BY Zenon DEF Facts, EmptyFact
  <2> QED  BY <2>1
<1>3. i \in S
  BY <1>2, MinIs DEF alloc_desc
<1>4. IsFiniteSet(S \ {i}) /\ Cardinality(S \ {i}) = Cardinality(S) - 1
  BY <1>1, <1>3, Zenon DEF Facts, RemoveFact
<1>5. Cardinality(S) \in Nat
  BY <1>1 DEF Facts, CountFact
<1>6. S \ {i} # {}
  BY <1>2, <1>4, <1>5
<1>7. j \in S \ {i}
  BY <1>6, MinIs DEF alloc_desc
<1>8. Cardinality((S \ {i}) \ {j}) = Cardinality(S \ {i}) - 1
  BY <1>4, <1>7, Zenon DEF Facts, RemoveFact
<1>9. (S \ {i}) \ {j} # {}
  <2>1. Cardinality((S \ {i}) \ {j}) # 0
    BY <1>4, <1>5, <1>8
  <2> QED  BY <2>1, Zenon DEF Facts, EmptyFact
<1>10. (S \ {i}) \ {j} = S \ {i, j}
  OBVIOUS
<1>11. k \in S \ {i, j}
  BY <1>9, <1>10, MinIs DEF alloc_desc
<1> QED  BY <1>3, <1>7, <1>11

-----------------------------------------------------------------------------
\* The invariant

\* Chains take three descriptors each, so that a ring of requests is never full.
LEMMA Bound ==
    ASSUME Facts, ChainInv, NEW ring, NEW f \in 0 .. UINT16 - 1, NEW t \in 0 .. UINT16 - 1,
           Distinct(ring, f, t), \A h \in Window(ring, f, t) : h \in Idx /\ IsHead(h)
    PROVE  Size(f, t) <= NUM - 2
<1>1. Size(f, t) \in Nat
  BY Indices, Constants
<1>2. CASE Size(f, t) = 0
  BY <1>2, Constants
<1>3. CASE Size(f, t) # 0
  <2> DEFINE h == Entry(ring, f, 0)
             i == desc[h].next
             j == desc[i].next
  <2>1. 0 \in 0 .. Size(f, t) - 1
    BY <1>1, <1>3
  <2>2. h \in Window(ring, f, t)
    BY <2>1, WindowIs
  <2>3. h \in Idx /\ IsHead(h)
    BY <2>2
  <2>4. i \in Idx /\ j \in Idx /\ i # j /\ i # h /\ j # h
    BY <2>3 DEF ChainInv
  <2>5. InChain(i, h) /\ InChain(j, h) /\ InChain(i, i) /\ InChain(j, j)
    BY DEF InChain
  <2> HIDE DEF h, i, j
  <2>6. ~IsHead(i) /\ ~IsHead(j)
    BY <2>3, <2>4, <2>5 DEF ChainInv
  <2> DEFINE S == (Idx \ {i}) \ {j}
  <2>7. Window(ring, f, t) \subseteq S
    BY <2>6
  <2>8. IsFiniteSet(Idx \ {i}) /\ Cardinality(Idx \ {i}) = NUM - 1
    <3>1. IsFiniteSet(Idx \ {i}) /\ Cardinality(Idx \ {i}) = Cardinality(Idx) - 1
      BY <2>4, IdxFinite, Zenon DEF Facts, RemoveFact
    <3> QED  BY <3>1, IdxFinite
  <2>9. j \in Idx \ {i}
    BY <2>4
  <2>10. IsFiniteSet(S) /\ Cardinality(S) = NUM - 1 - 1
    <3>1. IsFiniteSet(S) /\ Cardinality(S) = Cardinality(Idx \ {i}) - 1
      BY <2>8, <2>9, Zenon DEF Facts, RemoveFact
    <3> QED  BY <2>8, <3>1
  <2> HIDE DEF S
  <2>11. Size(f, t) <= Cardinality(S)
    BY <2>7, <2>10, SizeBound
  <2> QED  BY <2>10, <2>11, Constants
<1> QED  BY <1>2, <1>3

\* What the rings hold are chains of requests that the disk owns.
LEMMA InRings ==
    ASSUME Facts, IInv
    PROVE  /\ Size(seen_idx, avail_idx) <= NUM - 2 /\ Size(used_idx, used_idx_dev) <= NUM - 2
           /\ \A h \in Queued \cup taken \cup Completed :
                 h \in Idx /\ IsHead(h) /\ info[h].b \in disk_owns /\ info[h].b \in Buf
<1>1. \A h \in Queued \cup taken \cup Completed : h \in Idx /\ IsHead(h) /\ info[h].b \in disk_owns
  BY DEF IInv, RingInv
<1>2. disk_owns \subseteq Buf
  BY DEF IInv, Types
<1>3. Size(seen_idx, avail_idx) <= NUM - 2
  BY <1>1, Bound DEF IInv, RingTypes, RingInv, Queued
<1>4. Size(used_idx, used_idx_dev) <= NUM - 2
  BY <1>1, Bound DEF IInv, RingTypes, RingInv, Completed
<1> QED  BY <1>1, <1>2, <1>3, <1>4

\* A step that changes nothing of the chains
LEMMA ChainsKept ==
    ASSUME ChainInv, desc' = desc, free' = free, \A h \in Idx : info'[h].b = info[h].b
    PROVE  ChainInv'
<1>1. \A h \in Idx : IsHead(h)' <=> IsHead(h)
  BY Zenon DEF IsHead
<1>2. \A h \in Idx, x \in Idx : InChain(x, h)' <=> InChain(x, h)
  BY Zenon DEF InChain
<1>3. \A h \in Idx : IsHead(h)' =>
         (/\ desc[h].next \in Idx /\ desc[desc[h].next].next \in Idx
          /\ desc[desc[desc[h].next].next].next = None
          /\ h # desc[h].next /\ h # desc[desc[h].next].next
          /\ desc[h].next # desc[desc[h].next].next
          /\ desc[desc[h].next].addr = info[h].b
          /\ desc[desc[desc[h].next].next].addr = h)'
  BY <1>1, Zenon DEF ChainInv
<1>4. \A h \in Idx, x \in Idx : IsHead(h)' /\ InChain(x, h)' => x \notin free'
  BY <1>1, <1>2, Zenon DEF ChainInv
<1>5. \A g \in Idx, h \in Idx, x \in Idx :
         IsHead(g)' /\ IsHead(h)' /\ InChain(x, g)' /\ InChain(x, h)' => g = h
  BY <1>1, <1>2, Zenon DEF ChainInv
<1>6. \A x \in Idx \ free' : \E h \in Idx : IsHead(h)' /\ InChain(x, h)'
  BY <1>1, <1>2, Zenon DEF ChainInv
<1> QED  BY <1>3, <1>4, <1>5, <1>6, Zenon DEF ChainInv

\* A step that changes nothing of the rings and who is in them
LEMMA RingsKept ==
    ASSUME RingInv, avail' = avail, avail_idx' = avail_idx, seen_idx' = seen_idx, taken' = taken,
           used' = used, used_idx' = used_idx, used_idx_dev' = used_idx_dev,
           info' = info, disk_owns' = disk_owns
    PROVE  RingInv'
<1>1. /\ Queued' = Queued /\ Completed' = Completed
      /\ Distinct(avail', seen_idx', avail_idx') /\ Distinct(used', used_idx', used_idx_dev')
  BY Zenon DEF RingInv, Queued, Completed
<1>2. \A h \in Idx : IsHead(h)' <=> IsHead(h)
  BY Zenon DEF IsHead
<1>3. (Queued \cup taken \cup Completed)' = {h \in Idx : IsHead(h) /\ info[h].b \in disk_owns}'
  BY <1>1, <1>2, Zenon DEF RingInv
<1>4. \A h \in Idx : IsHead(h)' => (info'[h].status = 255 <=> h \in (Queued \cup taken)')
  BY <1>1, <1>2 DEF RingInv
<1>5. (Queued \cap taken = {} /\ Queued \cap Completed = {} /\ taken \cap Completed = {})'
  BY <1>1, Zenon DEF RingInv
<1> QED  BY <1>1, <1>3, <1>4, <1>5, Zenon DEF RingInv

\* A step that changes nothing of the interrupt
LEMMA SignalKept ==
    ASSUME Booleans, Signalled, irq' = irq, vdisk_lock' = vdisk_lock,
           used_idx' = used_idx, used_idx_dev' = used_idx_dev
    PROVE  Booleans' /\ Signalled'
<1>1. irq' \in BOOLEAN /\ vdisk_lock' \in BOOLEAN
  BY Zenon DEF Booleans
<1>2. used_idx' # used_idx_dev' => irq' \/ vdisk_lock'
  BY Zenon DEF Signalled
<1> QED  BY <1>1, <1>2, Zenon DEF Booleans, Signalled

\* virtio_disk_init() establishes it.
LEMMA InitIInv == ASSUME Facts, Init PROVE IInv
<1> USE Constants
<1>1. Types
  <2>1. data \in [Buf -> Value]
    BY Zenon DEF Init
  <2>2. desc \in [Idx -> [addr : Idx \cup Buf \cup {None}, next : Idx \cup {None}]]
    BY Zenon DEF Init, Zero
  <2>3. info \in [Idx -> [b : Buf \cup {None}, status : {0, 255}]]
    BY Zenon DEF Init
  <2> QED  BY <2>1, <2>2, <2>3, Zenon DEF Init, Types
<1>2. RingTypes
  BY DEF Init, RingTypes
<1>3. OpTypes
  BY Zenon DEF Init, OpTypes, NoOp
<1>4. Booleans /\ Signalled
  BY Zenon DEF Init, Booleans, Signalled
<1>5. \A h \in Idx : ~IsHead(h)
  BY Zenon DEF Init, IsHead
<1>6. ChainInv
  BY <1>5, Zenon DEF Init, ChainInv
<1>7. OwnInv
  BY <1>5, Zenon DEF Init, OwnInv
<1>8. RingInv
  <2>1. Size(0, 0) = 0
    BY SizeIs
  <2>2. Queued = {} /\ Completed = {}
    BY <2>1, WindowIs DEF Init, Queued, Completed
  <2>3. Distinct(avail, 0, 0) /\ Distinct(used, 0, 0)
    BY <2>1 DEF Distinct
  <2> QED  BY <1>5, <2>2, <2>3, Zenon DEF Init, RingInv
<1>9. SleepInv
  BY Zenon DEF Init, SleepInv
<1> QED  BY <1>1, <1>2, <1>3, <1>4, <1>6, <1>7, <1>8, <1>9, Zenon DEF IInv

\* The device takes a request: it goes from the avail ring to the device.
LEMMA Takes == ASSUME Facts, IInv, dev_take PROVE IInv'
<1> DEFINE h == avail[seen_idx % NUM]
<1>1. /\ seen_idx # avail_idx /\ taken' = taken \cup {h}
      /\ avail' = [avail EXCEPT ![seen_idx % NUM] = None] /\ seen_idx' = (seen_idx + 1) % UINT16
  BY Zenon DEF dev_take
<1>2. /\ content' = content /\ data' = data /\ disk_owns' = disk_owns
      /\ pc' = pc /\ op' = op /\ chan' = chan
      /\ free' = free /\ desc' = desc /\ ops' = ops /\ info' = info /\ avail_idx' = avail_idx
      /\ used' = used /\ used_idx' = used_idx /\ used_idx_dev' = used_idx_dev
      /\ irq' = irq /\ vdisk_lock' = vdisk_lock
  BY Zenon DEF dev_take, caller, driver, usedring
<1>3. /\ avail \in [Idx -> Idx \cup {None}]
      /\ seen_idx \in 0 .. UINT16 - 1 /\ avail_idx \in 0 .. UINT16 - 1
      /\ Distinct(avail, seen_idx, avail_idx)
  BY Zenon DEF IInv, RingTypes, RingInv
<1>4. Size(seen_idx, avail_idx) <= NUM - 2
  BY InRings, Zenon
<1>5. /\ h \in Window(avail, seen_idx, avail_idx)
      /\ avail' \in [Idx -> Idx \cup {None}] /\ seen_idx' \in 0 .. UINT16 - 1
      /\ Distinct(avail', seen_idx', avail_idx)
  <2>1. /\ avail[seen_idx % NUM] \in Window(avail, seen_idx, avail_idx)
        /\ [avail EXCEPT ![seen_idx % NUM] = None] \in [Idx -> Idx \cup {None}]
        /\ (seen_idx + 1) % UINT16 \in 0 .. UINT16 - 1
    BY <1>1, <1>3, <1>4, Pop, Zenon
  <2>2. Distinct([avail EXCEPT ![seen_idx % NUM] = None], (seen_idx + 1) % UINT16, avail_idx)
    BY <1>1, <1>3, <1>4, Pop, Zenon
  <2> QED  BY <1>1, <2>1, <2>2, Zenon
<1>6. Window(avail', seen_idx', avail_idx) = Window(avail, seen_idx, avail_idx) \ {h}
  <2>1. Holds([avail EXCEPT ![seen_idx % NUM] = None], (seen_idx + 1) % UINT16, avail_idx,
              Window(avail, seen_idx, avail_idx) \ {avail[seen_idx % NUM]})
    BY <1>1, <1>3, <1>4, Pop, Zenon
  <2> QED  BY <1>1, <2>1, Zenon DEF Holds
<1> HIDE DEF h
<1>7. /\ h \in Queued /\ Queued' = Queued \ {h} /\ Completed' = Completed
      /\ Distinct(avail, seen_idx, avail_idx)' /\ Distinct(used, used_idx, used_idx_dev)'
  BY <1>2, <1>5, <1>6, Zenon DEF IInv, RingInv, Queued, Completed
<1>8. h \in Idx
  BY <1>7, InRings, Zenon
<1>9. Types' /\ OpTypes' /\ Booleans' /\ Signalled'
  <2>1. Types'
    BY <1>1, <1>2, <1>8 DEF IInv, Types
  <2>2. OpTypes'
    BY <1>2, Zenon DEF IInv, OpTypes
  <2>3. Booleans' /\ Signalled'
    BY <1>2, SignalKept, Zenon DEF IInv
  <2> QED  BY <2>1, <2>2, <2>3, Zenon
<1>10. RingTypes'
  BY <1>2, <1>5, Zenon DEF IInv, RingTypes
<1>11. ChainInv' /\ OwnInv' /\ SleepInv'
  <2>1. ChainInv'
    BY <1>2, ChainsKept, Zenon DEF IInv
  <2>2. OwnInv' /\ SleepInv'
    BY <1>2, Zenon DEF IInv, OwnInv, SleepInv, IsHead
  <2> QED  BY <2>1, <2>2, Zenon
<1>12. RingInv'
  <2>1. (Queued \cup taken)' = Queued \cup taken
    BY <1>1, <1>7, Zenon
  <2>2. (Queued \cap taken = {} /\ Queued \cap Completed = {} /\ taken \cap Completed = {})'
    BY <1>1, <1>7 DEF IInv, RingInv
  <2>3. (Queued \cup taken \cup Completed)' = {g \in Idx : IsHead(g) /\ info[g].b \in disk_owns}'
    BY <1>2, <1>7, <2>1, Zenon DEF IInv, RingInv, IsHead
  <2>4. \A g \in Idx : IsHead(g)' => (info'[g].status = 255 <=> g \in (Queued \cup taken)')
    BY <1>2, <2>1 DEF IInv, RingInv, IsHead
  <2> QED  BY <1>7, <2>2, <2>3, <2>4, Zenon DEF RingInv
<1> QED  BY <1>9, <1>10, <1>11, <1>12, Zenon DEF IInv

\* What the descriptors of a request at the device lead to: the buffer and the
\* status byte of that request.
LEMMA Target ==
    ASSUME Facts, IInv, NEW h \in taken
    PROVE  /\ h \in Idx /\ IsHead(h) /\ info[h].status = 255
           /\ desc[desc[h].next].addr = info[h].b /\ desc[desc[desc[h].next].next].addr = h
           /\ info[h].b \in Buf /\ info[h].b \in disk_owns /\ pc[info[h].b] = "wait"
           /\ (ops[h].write <=> op[info[h].b].write) /\ ops[h].sector = op[info[h].b].sector
           /\ ops[h].sector \in Block
<1>1. h \in Idx /\ IsHead(h) /\ info[h].b \in disk_owns /\ info[h].b \in Buf
  BY InRings, Zenon
<1>2. info[h].status = 255
  BY <1>1 DEF IInv, RingInv
<1>3. desc[desc[h].next].addr = info[h].b /\ desc[desc[desc[h].next].next].addr = h
  BY <1>1, Zenon DEF IInv, ChainInv
<1>4. /\ pc[info[h].b] = "wait"
      /\ (ops[h].write <=> op[info[h].b].write) /\ ops[h].sector = op[info[h].b].sector
  BY <1>1, Zenon DEF IInv, OwnInv
<1>5. op[info[h].b].sector \in Block
  BY <1>1, <1>4, Zenon DEF IInv, OwnInv
<1> QED  BY <1>1, <1>2, <1>3, <1>4, <1>5, Zenon

\* The device carries a request out: it goes from the device to the used ring.
LEMMA Completes == ASSUME Facts, IInv, NEW h \in taken, dev_complete(h) PROVE IInv'
<1> DEFINE b == info[h].b
<1>1. /\ h \in Idx /\ IsHead(h) /\ b \in Buf /\ ops[h].sector \in Block
      /\ desc[desc[h].next].addr = b /\ desc[desc[desc[h].next].next].addr = h
  BY Target, Zenon
<1>2. /\ taken' = taken \ {h} /\ info' = [info EXCEPT ![h].status = 0]
      /\ used' = [used EXCEPT ![used_idx_dev % NUM] = h]
      /\ used_idx_dev' = (used_idx_dev + 1) % UINT16 /\ irq' = TRUE
  BY <1>1, Zenon DEF dev_complete
<1>3. IF ops[h].write
        THEN content' = [content EXCEPT ![ops[h].sector] = data[b]] /\ data' = data
        ELSE data' = [data EXCEPT ![b] = content[ops[h].sector]] /\ content' = content
  BY <1>1, Zenon DEF dev_complete
<1>4. /\ disk_owns' = disk_owns /\ pc' = pc /\ op' = op /\ chan' = chan
      /\ free' = free /\ desc' = desc /\ ops' = ops
      /\ avail' = avail /\ avail_idx' = avail_idx /\ seen_idx' = seen_idx
      /\ used_idx' = used_idx /\ vdisk_lock' = vdisk_lock
  BY Zenon DEF dev_complete, caller, availring
<1>5. content' \in [Block -> Value] /\ data' \in [Buf -> Value]
  <2>1. content \in [Block -> Value] /\ data \in [Buf -> Value]
    BY Zenon DEF IInv, Types
  <2>2. CASE ops[h].write
    BY <1>1, <1>3, <2>1, <2>2, Zenon
  <2>3. CASE ~ops[h].write
    BY <1>1, <1>3, <2>1, <2>3, Zenon
  <2> QED  BY <2>2, <2>3, Zenon
<1>6. /\ info'[h].b = info[h].b /\ info'[h].status = 0
      /\ \A g \in Idx : g # h => info'[g] = info[g]
      /\ info' \in [Idx -> [b : Buf \cup {None}, status : {0, 255}]]
  BY <1>1, <1>2 DEF IInv, Types
<1>7. \A g \in Idx : info'[g].b = info[g].b
  BY <1>6, Zenon
<1> HIDE DEF b
<1>8. /\ used \in [Idx -> Idx \cup {None}] /\ h \in Idx \cup {None}
      /\ used_idx \in 0 .. UINT16 - 1 /\ used_idx_dev \in 0 .. UINT16 - 1
      /\ Distinct(used, used_idx, used_idx_dev) /\ h \notin Window(used, used_idx, used_idx_dev)
  BY <1>1, Zenon DEF IInv, RingTypes, RingInv, Completed
<1>9. Size(used_idx, used_idx_dev) <= NUM - 2
  BY InRings, Zenon
<1>10. /\ used' \in [Idx -> Idx \cup {None}] /\ used_idx_dev' \in 0 .. UINT16 - 1
       /\ Distinct(used', used_idx, used_idx_dev')
       /\ Window(used', used_idx, used_idx_dev') = Window(used, used_idx, used_idx_dev) \cup {h}
  <2>1. used' \in [Idx -> Idx \cup {None}]
    BY <1>2, <1>8, Zenon
  <2>2. used_idx_dev' \in 0 .. UINT16 - 1
    BY <1>2, <1>8, Increment, Zenon
  <2>3. Distinct([used EXCEPT ![used_idx_dev % NUM] = h], used_idx, (used_idx_dev + 1) % UINT16)
    BY <1>8, <1>9, Push, Zenon
  <2>4. Holds([used EXCEPT ![used_idx_dev % NUM] = h], used_idx, (used_idx_dev + 1) % UINT16,
              Window(used, used_idx, used_idx_dev) \cup {h})
    BY <1>8, <1>9, Push, Zenon
  <2> QED  BY <1>2, <2>1, <2>2, <2>3, <2>4, Zenon DEF Holds
<1>11. /\ Completed' = Completed \cup {h} /\ Queued' = Queued
       /\ Distinct(avail, seen_idx, avail_idx)' /\ Distinct(used, used_idx, used_idx_dev)'
  BY <1>4, <1>10, Zenon DEF IInv, RingInv, Queued, Completed
<1>12. Types'
  <2>1. taken' \subseteq Idx
    BY <1>2, Zenon DEF IInv, Types
  <2> QED  BY <1>4, <1>5, <1>6, <2>1, Zenon DEF IInv, Types
<1>13. OpTypes' /\ RingTypes'
  BY <1>4, <1>10, Zenon DEF IInv, OpTypes, RingTypes
<1>14. Booleans' /\ Signalled'
  BY <1>2, <1>4, Zenon DEF IInv, Booleans, Signalled
<1>15. \A g \in Idx : IsHead(g)' <=> IsHead(g)
  BY <1>7, Zenon DEF IsHead
<1>16. ChainInv'
  BY <1>4, <1>7, ChainsKept, Zenon DEF IInv
<1>17. OwnInv'
  BY <1>4, <1>7, <1>15 DEF IInv, OwnInv
<1>18. SleepInv'
  BY <1>4, Zenon DEF IInv, SleepInv
<1>19. RingInv'
  <2>1. (Queued \cap taken = {} /\ Queued \cap Completed = {} /\ taken \cap Completed = {})'
    BY <1>2, <1>11 DEF IInv, RingInv
  <2>2. (Queued \cup taken \cup Completed)' = Queued \cup taken \cup Completed
    BY <1>2, <1>11, Zenon
  <2>3. (Queued \cup taken \cup Completed)' = {g \in Idx : IsHead(g) /\ info[g].b \in disk_owns}'
    BY <1>4, <1>7, <1>15, <2>2 DEF IInv, RingInv
  <2>4. ASSUME NEW g \in Idx, IsHead(g)'
        PROVE  info'[g].status = 255 <=> g \in (Queued \cup taken)'
    <3>1. CASE g = h
      BY <3>1, <1>2, <1>6, <1>11 DEF IInv, RingInv
    <3>2. CASE g # h
      BY <3>2, <2>4, <1>2, <1>6, <1>11, <1>15 DEF IInv, RingInv
    <3> QED  BY <3>1, <3>2, Zenon
  <2> QED  BY <1>11, <2>1, <2>3, <2>4, Zenon DEF RingInv
<1> QED  BY <1>12, <1>13, <1>14, <1>16, <1>17, <1>18, <1>19, Zenon DEF IInv

\* The handler looks at an entry of the used ring: its request is done.
LEMMA Looks == ASSUME Facts, IInv, intr_entry PROVE IInv'
<1> DEFINE h == used[used_idx % NUM]
           b == info[h].b
<1>1. /\ vdisk_lock /\ used_idx # used_idx_dev
      /\ disk_owns' = disk_owns \ {b} /\ chan' = [chan EXCEPT ![b] = "none"]
      /\ used' = [used EXCEPT ![used_idx % NUM] = None] /\ used_idx' = (used_idx + 1) % UINT16
  BY Zenon DEF intr_entry, has_used
<1>2. /\ content' = content /\ data' = data /\ pc' = pc /\ op' = op
      /\ free' = free /\ desc' = desc /\ ops' = ops /\ info' = info
      /\ avail' = avail /\ avail_idx' = avail_idx /\ seen_idx' = seen_idx
      /\ used_idx_dev' = used_idx_dev /\ taken' = taken /\ irq' = irq /\ vdisk_lock' = vdisk_lock
  BY Zenon DEF intr_entry, caller, driver, availring
<1>3. /\ used \in [Idx -> Idx \cup {None}]
      /\ used_idx \in 0 .. UINT16 - 1 /\ used_idx_dev \in 0 .. UINT16 - 1
      /\ Distinct(used, used_idx, used_idx_dev)
  BY Zenon DEF IInv, RingTypes, RingInv
<1>4. Size(used_idx, used_idx_dev) <= NUM - 2
  BY InRings, Zenon
<1>5. /\ h \in Window(used, used_idx, used_idx_dev)
      /\ used' \in [Idx -> Idx \cup {None}] /\ used_idx' \in 0 .. UINT16 - 1
      /\ Distinct(used', used_idx', used_idx_dev)
  <2>1. /\ used[used_idx % NUM] \in Window(used, used_idx, used_idx_dev)
        /\ [used EXCEPT ![used_idx % NUM] = None] \in [Idx -> Idx \cup {None}]
        /\ (used_idx + 1) % UINT16 \in 0 .. UINT16 - 1
    BY <1>1, <1>3, <1>4, Pop, Zenon
  <2>2. Distinct([used EXCEPT ![used_idx % NUM] = None], (used_idx + 1) % UINT16, used_idx_dev)
    BY <1>1, <1>3, <1>4, Pop, Zenon
  <2> QED  BY <1>1, <2>1, <2>2, Zenon
<1>6. Window(used', used_idx', used_idx_dev) = Window(used, used_idx, used_idx_dev) \ {h}
  <2>1. Holds([used EXCEPT ![used_idx % NUM] = None], (used_idx + 1) % UINT16, used_idx_dev,
              Window(used, used_idx, used_idx_dev) \ {used[used_idx % NUM]})
    BY <1>1, <1>3, <1>4, Pop, Zenon
  <2> QED  BY <1>1, <2>1, Zenon DEF Holds
<1> HIDE DEF h
<1>7. /\ h \in Completed /\ Completed' = Completed \ {h} /\ Queued' = Queued
      /\ Distinct(avail, seen_idx, avail_idx)' /\ Distinct(used, used_idx, used_idx_dev)'
  BY <1>2, <1>5, <1>6, Zenon DEF IInv, RingInv, Queued, Completed
<1>8. h \in Idx /\ IsHead(h) /\ b \in disk_owns /\ b \in Buf
  BY <1>7, InRings, Zenon
<1>9. Types'
  <2>1. chan' \in [Buf -> {"none", "free", "disk"}] /\ disk_owns' \subseteq Buf
    BY <1>1, <1>8, Zenon DEF IInv, Types
  <2> QED  BY <1>2, <2>1, Zenon DEF IInv, Types
<1>10. OpTypes' /\ Booleans' /\ Signalled'
  BY <1>1, <1>2, Zenon DEF IInv, OpTypes, Booleans, Signalled
<1>11. RingTypes'
  BY <1>2, <1>5, Zenon DEF IInv, RingTypes
<1>12. ChainInv'
  BY <1>2, ChainsKept, Zenon DEF IInv
<1>13. OwnInv'
  BY <1>1, <1>2, Zenon DEF IInv, OwnInv, IsHead
<1>14. SleepInv'
  <2>1. \A c \in Buf : c # b => chan'[c] = chan[c]
    BY <1>1 DEF IInv, Types
  <2>2. chan'[b] = "none"
    BY <1>1, <1>8 DEF IInv, Types
  <2> HIDE DEF b
  <2> QED  BY <1>1, <1>2, <2>1, <2>2, Zenon DEF IInv, SleepInv
<1>15. RingInv'
  <2>1. (Queued \cap taken = {} /\ Queued \cap Completed = {} /\ taken \cap Completed = {})'
    BY <1>2, <1>7 DEF IInv, RingInv
  <2>2. \A g \in Idx : (IsHead(g) /\ info[g].b \in disk_owns)'
                          <=> IsHead(g) /\ info[g].b \in disk_owns /\ g # h
    BY <1>1, <1>2, <1>8, Zenon DEF IInv, OwnInv, IsHead
  <2>3. (Queued \cup taken \cup Completed)' = (Queued \cup taken \cup Completed) \ {h}
    BY <1>2, <1>7 DEF IInv, RingInv
  <2>4. (Queued \cup taken \cup Completed)' = {g \in Idx : IsHead(g) /\ info[g].b \in disk_owns}'
    BY <2>2, <2>3 DEF IInv, RingInv
  <2>5. \A g \in Idx : IsHead(g)' => (info'[g].status = 255 <=> g \in (Queued \cup taken)')
    BY <1>2, <1>7 DEF IInv, RingInv, IsHead
  <2> QED  BY <1>7, <2>1, <2>4, <2>5, Zenon DEF RingInv
<1> QED  BY <1>9, <1>10, <1>11, <1>12, <1>13, <1>14, <1>15, Zenon DEF IInv

-----------------------------------------------------------------------------
\* The steps of virtio_disk_rw()

\* alloc3_desc() fails, for a caller that wants o.
LEMMA Fails ==
    ASSUME IInv, NEW b \in Buf, NEW o \in Op, pc[b] # "wait", b \notin disk_owns,
           op' = [op EXCEPT ![b] = o], alloc3_desc_fails(b),
           UNCHANGED <<content, data, seen_idx, usedring, taken, irq, vdisk_lock>>
    PROVE  IInv'
<1>1. /\ pc' = [pc EXCEPT ![b] = "alloc"] /\ Cardinality(free) < 3
      /\ UNCHANGED <<disk_owns, free, desc, ops, info, avail, avail_idx>>
      /\ UNCHANGED <<content, data, seen_idx, used, used_idx, used_idx_dev, taken, irq, vdisk_lock>>
  BY Zenon DEF alloc3_desc_fails, driver, usedring
<1>2. \A c \in Buf : /\ chan'[c] \in {"none", "free", "disk"}
                     /\ chan'[c] = "free" => c = b \/ chan[c] = "free"
                     /\ chan'[c] = "disk" => c # b /\ chan[c] = "disk"
  BY DEF alloc3_desc_fails, wake_free, IInv, Types
<1>3. chan' \in [Buf -> {"none", "free", "disk"}]
  BY <1>2, Zenon DEF alloc3_desc_fails, wake_free, IInv, Types
<1>4. Types'
  <2>1. pc' \in [Buf -> {"idle", "alloc", "wait"}]
    BY <1>1, Zenon DEF IInv, Types
  <2> QED  BY <1>1, <1>3, <2>1, Zenon DEF IInv, Types
<1>5. RingTypes'
  BY <1>1, Zenon DEF IInv, RingTypes
<1>6. OpTypes'
  BY <1>1, Zenon DEF IInv, OpTypes, Op
<1>7. Booleans' /\ Signalled'
  BY <1>1, SignalKept, Zenon DEF IInv
<1>8. ChainInv'
  BY <1>1, ChainsKept, Zenon DEF IInv
<1>9. OwnInv'
  <2>1. \A h \in Idx : IsHead(h) => info[h].b \in Buf /\ info[h].b # b
    BY DEF IInv, OwnInv, Types, IsHead
  <2>2. \A c \in Buf : c # b => pc'[c] = pc[c] /\ op'[c] = op[c]
    BY <1>1 DEF IInv, Types, OpTypes
  <2>3. pc'[b] = "alloc" /\ op'[b] = o /\ o.sector \in Block
    BY <1>1 DEF IInv, Types, OpTypes, Op
  <2>4. OwnInv /\ info' = info /\ ops' = ops /\ disk_owns' = disk_owns /\ b \notin disk_owns
    BY <1>1, Zenon DEF IInv
  <2>5. \A h \in Idx : IsHead(h)' <=> IsHead(h)
    BY <2>4, Zenon DEF IsHead
  <2>6. ASSUME NEW h \in Idx, IsHead(h)
        PROVE  pc'[info[h].b] = pc[info[h].b] /\ op'[info[h].b] = op[info[h].b]
    BY <2>1, <2>2, <2>6, Zenon
  <2>7. \A h \in Idx : IsHead(h) =>
           /\ pc'[info[h].b] = "wait"
           /\ (ops[h].write <=> op'[info[h].b].write) /\ ops[h].sector = op'[info[h].b].sector
    BY <2>4, <2>6, Zenon DEF OwnInv
  <2>8. \A c \in Buf : pc'[c] = "wait" => c # b /\ pc[c] = "wait"
    BY <2>2, <2>3, Zenon
  <2>9. \A c \in Buf : pc'[c] # "idle" => op'[c].sector \in Block
    BY <2>2, <2>3, <2>4, Zenon DEF OwnInv
  <2>10. \A c \in disk_owns : pc'[c] = "wait"
    BY <2>2, <2>4, Zenon DEF OwnInv, IInv, Types
  <2> QED  BY <2>4, <2>5, <2>7, <2>8, <2>9, <2>10, Zenon DEF OwnInv
<1>10. RingInv'
  BY <1>1, RingsKept, Zenon DEF IInv
<1>11. SleepInv'
  BY <1>1, <1>2 DEF IInv, SleepInv, Types
<1> QED  BY <1>4, <1>5, <1>6, <1>7, <1>8, <1>9, <1>10, <1>11, Zenon DEF IInv

\* alloc3_desc() succeeds, and the request becomes a chain.
LEMMA Requests ==
    ASSUME Facts, IInv, NEW b \in Buf, NEW o \in Op, pc[b] # "wait", b \notin disk_owns,
           op' = [op EXCEPT ![b] = o], request(b, o),
           UNCHANGED <<content, data, seen_idx, usedring, taken, irq, vdisk_lock>>
    PROVE  /\ IInv'
           /\ \E i \in Idx : /\ ~IsHead(i) /\ info' = [info EXCEPT ![i] = [b |-> b, status |-> 255]]
                             /\ pc' = [pc EXCEPT ![b] = "wait"]
<1>1. PICK i \in Idx, j \in Idx, k \in Idx :
         /\ i \in free /\ j \in free /\ k \in free /\ i # j /\ i # k /\ j # k
         /\ free' = free \ {i, j, k}
         /\ desc' = [desc EXCEPT ![i] = [addr |-> i, next |-> j],
                                 ![j] = [addr |-> b, next |-> k],
                                 ![k] = [addr |-> i, next |-> None]]
         /\ ops' = [ops EXCEPT ![i] = blk_req(o)]
         /\ info' = [info EXCEPT ![i] = [b |-> b, status |-> 255]]
         /\ avail' = [avail EXCEPT ![avail_idx % NUM] = i]
  <2> DEFINE i == alloc_desc(free)
             j == alloc_desc(free \ {i})
             k == alloc_desc(free \ {i, j})
  <2>1. free \in SUBSET Idx /\ Cardinality(free) >= 3
    BY Zenon DEF request, IInv, Types
  <2>2. i \in free /\ j \in free /\ k \in free /\ i # j /\ i # k /\ j # k
    BY <2>1, Alloc3, Zenon
  <2>3. i \in Idx /\ j \in Idx /\ k \in Idx
    BY <2>1, <2>2, Zenon
  <2>4. /\ free' = free \ {i, j, k}
        /\ desc' = [desc EXCEPT ![i] = [addr |-> i, next |-> j],
                                ![j] = [addr |-> b, next |-> k],
                                ![k] = [addr |-> i, next |-> None]]
        /\ ops' = [ops EXCEPT ![i] = blk_req(o)]
        /\ info' = [info EXCEPT ![i] = [b |-> b, status |-> 255]]
        /\ avail' = [avail EXCEPT ![avail_idx % NUM] = i]
    BY Zenon DEF request
  <2> HIDE DEF i, j, k
  <2> QED  BY <2>2, <2>3, <2>4, Zenon
<1>2. /\ UNCHANGED <<content, data, seen_idx, used, used_idx, used_idx_dev, taken, irq, vdisk_lock>>
      /\ Cardinality(free) >= 3
      /\ disk_owns' = disk_owns \cup {b}
      /\ avail_idx' = (avail_idx + 1) % UINT16
      /\ pc' = [pc EXCEPT ![b] = "wait"]
      /\ chan' = [chan EXCEPT ![b] = "disk"]
  BY Zenon DEF request, usedring, avail_next
<1>3. i \in free /\ j \in free /\ k \in free /\ i # j /\ i # k /\ j # k
  BY <1>1, Zenon
<1>4. i \in Idx /\ j \in Idx /\ k \in Idx
  BY Zenon
<1>5. None \notin Buf /\ None \notin Idx /\ b # None
  BY Constants, Zenon
<1>6. /\ desc'[i].next = j /\ desc'[j].next = k /\ desc'[k].next = None
      /\ desc'[j].addr = b /\ desc'[k].addr = i
      /\ \A x \in Idx : x \notin {i, j, k} => desc'[x] = desc[x]
  BY <1>1, <1>2, <1>3, <1>4 DEF IInv, Types
<1>7. info'[i].b = b /\ info'[i].status = 255 /\ \A x \in Idx : x # i => info'[x] = info[x]
  BY <1>1, <1>2, <1>4 DEF IInv, Types
<1>8. ops'[i] = blk_req(o) /\ \A x \in Idx : x # i => ops'[x] = ops[x]
  BY <1>1, <1>2, <1>4, Zenon DEF IInv, OpTypes
<1>9. /\ pc'[b] = "wait" /\ op'[b] = o /\ chan'[b] = "disk"
      /\ \A c \in Buf : c # b => pc'[c] = pc[c] /\ op'[c] = op[c] /\ chan'[c] = chan[c]
  BY <1>1, <1>2 DEF IInv, Types, OpTypes
\* The chains that there were
<1>10. \A h \in Idx : IsHead(h) =>
          /\ h \notin {i, j, k} /\ desc[h].next \in Idx \ {i, j, k}
          /\ desc[desc[h].next].next \in Idx \ {i, j, k}
          /\ info[h].b \in Buf /\ info[h].b # b
  <2>1. ASSUME NEW h \in Idx, IsHead(h)
        PROVE  /\ h \notin {i, j, k} /\ desc[h].next \in Idx \ {i, j, k}
               /\ desc[desc[h].next].next \in Idx \ {i, j, k}
    <3>1. desc[h].next \in Idx /\ desc[desc[h].next].next \in Idx
      BY <2>1, Zenon DEF IInv, ChainInv
    <3>2. InChain(h, h) /\ InChain(desc[h].next, h) /\ InChain(desc[desc[h].next].next, h)
      BY Zenon DEF InChain
    <3>3. h \notin free /\ desc[h].next \notin free /\ desc[desc[h].next].next \notin free
      BY <2>1, <3>1, <3>2, Zenon DEF IInv, ChainInv
    <3> QED  BY <1>3, <3>1, <3>3, Zenon
  <2>2. ASSUME NEW h \in Idx, IsHead(h) PROVE info[h].b \in Buf /\ info[h].b # b
    <3>1. info[h].b \in Buf
      BY <2>2, Zenon DEF IInv, Types, IsHead
    <3>2. pc[info[h].b] = "wait"
      BY <2>2, Zenon DEF IInv, OwnInv
    <3> QED  BY <3>1, <3>2, Zenon
  <2> QED  BY <2>1, <2>2, Zenon
<1>11. ~IsHead(i)
  BY <1>4, <1>10, Zenon
<1>12. ASSUME NEW h \in Idx PROVE IsHead(h)' <=> IsHead(h) \/ h = i
  <2>1. info'[i].b = b
    BY <1>7, Zenon
  <2>2. CASE h = i
    BY <1>5, <2>1, <2>2, Zenon DEF IsHead
  <2>3. CASE h # i
    BY <1>7, <2>3, Zenon DEF IsHead
  <2> QED  BY <2>2, <2>3, Zenon
<1>13. ASSUME NEW h \in Idx, IsHead(h)
       PROVE  /\ desc'[h] = desc[h] /\ desc'[desc[h].next] = desc[desc[h].next]
              /\ desc'[desc[desc[h].next].next] = desc[desc[desc[h].next].next]
              /\ info'[h] = info[h] /\ ops'[h] = ops[h] /\ h # i
  <2>1. /\ h \notin {i, j, k} /\ desc[h].next \in Idx \ {i, j, k}
        /\ desc[desc[h].next].next \in Idx \ {i, j, k}
    BY <1>10, <1>13, Zenon
  <2>2. /\ desc'[h] = desc[h] /\ desc'[desc[h].next] = desc[desc[h].next]
        /\ desc'[desc[desc[h].next].next] = desc[desc[desc[h].next].next]
    BY <1>6, <2>1, Zenon
  <2>3. h # i
    BY <2>1, Zenon
  <2>4. info'[h] = info[h] /\ ops'[h] = ops[h]
    BY <1>7, <1>8, <2>3, Zenon
  <2> QED  BY <2>2, <2>3, <2>4, Zenon
<1>14. ASSUME NEW h \in Idx, NEW x \in Idx, IsHead(h) PROVE InChain(x, h)' <=> InChain(x, h)
  <2>1. desc'[h] = desc[h] /\ desc'[desc[h].next] = desc[desc[h].next]
    BY <1>13, <1>14, Zenon
  <2> QED  BY <2>1, Zenon DEF InChain
<1>15. \A x \in Idx : InChain(x, i)' <=> x \in {i, j, k}
  <2>1. desc'[i].next = j /\ desc'[j].next = k
    BY <1>6, Zenon
  <2> QED  BY <2>1, Zenon DEF InChain
<1>16. Types'
  <2>1. desc' \in [Idx -> [addr : Idx \cup Buf \cup {None}, next : Idx \cup {None}]]
    BY <1>1, <1>2, <1>4, Zenon DEF IInv, Types
  <2>2. info' \in [Idx -> [b : Buf \cup {None}, status : {0, 255}]]
    BY <1>1, <1>2, Zenon DEF IInv, Types
  <2>3. pc' \in [Buf -> {"idle", "alloc", "wait"}] /\ chan' \in [Buf -> {"none", "free", "disk"}]
    BY <1>1, <1>2, Zenon DEF IInv, Types
  <2>4. free' \subseteq Idx /\ disk_owns' \subseteq Buf
    BY <1>1, <1>2 DEF IInv, Types
  <2>5. content' = content /\ data' = data /\ taken' = taken
    BY <1>2, Zenon
  <2> QED  BY <2>1, <2>2, <2>3, <2>4, <2>5 DEF IInv, Types
<1>17. OpTypes'
  BY <1>1, <1>2, Zenon DEF IInv, OpTypes, Op, blk_req
<1>18. Booleans' /\ Signalled'
  <2>1. irq' = irq /\ vdisk_lock' = vdisk_lock /\ used_idx' = used_idx /\ used_idx_dev' = used_idx_dev
    BY <1>2, Zenon
  <2> QED  BY <2>1, SignalKept, Zenon DEF IInv
<1>19. ChainInv'
  <2>1. ASSUME NEW h \in Idx, IsHead(h)'
        PROVE  (/\ desc[h].next \in Idx /\ desc[desc[h].next].next \in Idx
                /\ desc[desc[desc[h].next].next].next = None
                /\ h # desc[h].next /\ h # desc[desc[h].next].next
                /\ desc[h].next # desc[desc[h].next].next
                /\ desc[desc[h].next].addr = info[h].b
                /\ desc[desc[desc[h].next].next].addr = h)'
    <3>1. CASE h = i
      <4>1. /\ desc'[i].next = j /\ desc'[j].next = k /\ desc'[k].next = None
            /\ desc'[j].addr = b /\ desc'[k].addr = i /\ info'[i].b = b
        BY <1>6, <1>7, Zenon
      <4> QED  BY <3>1, <1>3, <1>4, <4>1, Zenon
    <3>2. CASE h # i
      <4>1. IsHead(h)
        BY <3>2, <2>1, <1>12, Zenon
      <4>2. /\ desc[h].next \in Idx /\ desc[desc[h].next].next \in Idx
            /\ desc[desc[desc[h].next].next].next = None
            /\ h # desc[h].next /\ h # desc[desc[h].next].next
            /\ desc[h].next # desc[desc[h].next].next
            /\ desc[desc[h].next].addr = info[h].b
            /\ desc[desc[desc[h].next].next].addr = h
        BY <4>1, Zenon DEF IInv, ChainInv
      <4> QED  BY <4>1, <4>2, <1>13, Zenon
    <3> QED  BY <3>1, <3>2, Zenon
  <2>2. ASSUME NEW h \in Idx, NEW x \in Idx, IsHead(h)', InChain(x, h)' PROVE x \notin free'
    <3>1. CASE h = i
      BY <3>1, <2>2, <1>1, <1>2, <1>15, Zenon
    <3>2. CASE h # i
      BY <3>2, <2>2, <1>1, <1>2, <1>12, <1>14, Zenon DEF IInv, ChainInv
    <3> QED  BY <3>1, <3>2, Zenon
  <2>3. \A h \in Idx, x \in Idx : IsHead(h) /\ InChain(x, h) => x \notin {i, j, k}
    <3>1. \A h \in Idx, x \in Idx : IsHead(h) /\ InChain(x, h) => x \notin free
      BY Zenon DEF IInv, ChainInv
    <3> QED  BY <3>1, <1>3, Zenon
  <2>4. ASSUME NEW g \in Idx, NEW h \in Idx, NEW x \in Idx,
               IsHead(g)', IsHead(h)', InChain(x, g)', InChain(x, h)'
        PROVE  g = h
    <3>1. CASE g # i /\ h # i
      BY <3>1, <2>4, <1>12, <1>14, Zenon DEF IInv, ChainInv
    <3>2. CASE g = i /\ h # i
      BY <3>2, <2>3, <2>4, <1>12, <1>14, <1>15, Zenon
    <3>3. CASE g # i /\ h = i
      BY <3>3, <2>3, <2>4, <1>12, <1>14, <1>15, Zenon
    <3> QED  BY <3>1, <3>2, <3>3, Zenon
  <2>5. ASSUME NEW x \in Idx, x \notin free' PROVE \E h \in Idx : IsHead(h)' /\ InChain(x, h)'
    <3>1. CASE x \in {i, j, k}
      BY <3>1, <1>4, <1>12, <1>15, Zenon
    <3>2. CASE x \notin {i, j, k}
      <4>1. x \notin free
        BY <3>2, <2>5, <1>1, <1>2, Zenon
      <4>2. PICK h \in Idx : IsHead(h) /\ InChain(x, h)
        BY <4>1, Zenon DEF IInv, ChainInv
      <4> QED  BY <4>2, <1>12, <1>14, Zenon
    <3> QED  BY <3>1, <3>2, Zenon
  <2> QED  BY <2>1, <2>2, <2>4, <2>5, Zenon DEF ChainInv
<1>20. OwnInv'
  <2>1. ASSUME NEW h \in Idx, IsHead(h)'
        PROVE  /\ pc'[info'[h].b] = "wait"
               /\ (ops'[h].write <=> op'[info'[h].b].write)
               /\ ops'[h].sector = op'[info'[h].b].sector
    <3>1. CASE h = i
      <4>1. info'[h].b = b
        BY <3>1, <1>7, Zenon
      <4>2. blk_req(o).write = o.write /\ blk_req(o).sector = o.sector
        BY DEF blk_req
      <4>3. ops'[h].write = o.write /\ ops'[h].sector = o.sector
        BY <3>1, <4>2, <1>8, Zenon
      <4> QED  BY <4>1, <4>3, <1>9, Zenon
    <3>2. CASE h # i
      <4>1. IsHead(h) /\ info'[h] = info[h] /\ ops'[h] = ops[h]
        BY <3>2, <2>1, <1>12, <1>13, Zenon
      <4>2. pc'[info[h].b] = pc[info[h].b] /\ op'[info[h].b] = op[info[h].b]
        BY <4>1, <1>9, <1>10, Zenon
      <4>3. /\ pc[info[h].b] = "wait" /\ (ops[h].write <=> op[info[h].b].write)
            /\ ops[h].sector = op[info[h].b].sector
        BY <4>1, Zenon DEF IInv, OwnInv
      <4> QED  BY <4>1, <4>2, <4>3, Zenon
    <3> QED  BY <3>1, <3>2, Zenon
  <2>2. ASSUME NEW g \in Idx, NEW h \in Idx, IsHead(g)', info'[g].b = info'[h].b PROVE g = h
    <3>0. info'[i].b = b
      BY <1>7
    <3>1. CASE g # i /\ h # i
      <4>1. info'[g] = info[g] /\ info'[h] = info[h] /\ IsHead(g)
        BY <3>1, <2>2, <1>7, <1>12, Zenon
      <4>2. info[g].b = info[h].b
        BY <4>1, <2>2, Zenon
      <4> QED  BY <4>1, <4>2, Zenon DEF IInv, OwnInv
    <3>2. CASE g = i /\ h # i
      <4>0. info'[h] = info[h]
        BY <3>2, <1>7, Zenon
      <4>1. info[h].b = b
        BY <3>0, <3>2, <4>0, <2>2, Zenon
      <4> QED  BY <4>1, <1>5, <1>10, Zenon DEF IsHead
    <3>3. CASE g # i /\ h = i
      <4>0. info'[g] = info[g]
        BY <3>3, <1>7, Zenon
      <4>1. info[g].b = b
        BY <3>0, <3>3, <4>0, <2>2, Zenon
      <4> QED  BY <4>1, <1>5, <1>10, Zenon DEF IsHead
    <3> QED  BY <3>1, <3>2, <3>3, Zenon
  <2>3. ASSUME NEW c \in Buf, pc'[c] = "wait" PROVE \E h \in Idx : info'[h].b = c
    <3>1. CASE c = b
      BY <3>1, <1>4, <1>7
    <3>2. CASE c # b
      <4>1. PICK h \in Idx : info[h].b = c
        BY <3>2, <2>3, <1>9, Zenon DEF IInv, OwnInv
      <4>2. IsHead(h)
        BY <4>1, <1>5, Zenon DEF IsHead
      <4> QED  BY <4>1, <4>2, <1>13, Zenon
    <3> QED  BY <3>1, <3>2, Zenon
  <2>4. \A c \in Buf : pc'[c] # "idle" => op'[c].sector \in Block
    BY <1>9, Zenon DEF IInv, OwnInv, Op
  <2>5. ASSUME NEW c \in disk_owns' PROVE pc'[c] = "wait"
    <3>1. c = b \/ (c \in disk_owns /\ c \in Buf /\ c # b)
      BY <2>5, <1>2, Zenon DEF IInv, Types
    <3> QED  BY <3>1, <1>9, Zenon DEF IInv, OwnInv
  <2> QED  BY <2>1, <2>2, <2>3, <2>4, <2>5, Zenon DEF OwnInv
<1>21. RingInv'
  <2>1. Size(seen_idx, avail_idx) <= NUM - 2
    BY InRings, Zenon
  <2>2. i \notin Queued \cup taken \cup Completed
    BY <1>11, InRings, Zenon
  <2>3. /\ avail \in [Idx -> Idx \cup {None}] /\ i \in Idx \cup {None}
        /\ seen_idx \in 0 .. UINT16 - 1 /\ avail_idx \in 0 .. UINT16 - 1
        /\ Distinct(avail, seen_idx, avail_idx) /\ i \notin Window(avail, seen_idx, avail_idx)
    BY <1>4, <2>2, Zenon DEF IInv, RingTypes, RingInv, Queued
  <2>4. Distinct(avail', seen_idx, avail_idx')
        /\ Window(avail', seen_idx, avail_idx') = Window(avail, seen_idx, avail_idx) \cup {i}
    <3>1. /\ avail' = [avail EXCEPT ![avail_idx % NUM] = i]
          /\ avail_idx' = (avail_idx + 1) % UINT16
      BY <1>1, <1>2, Zenon
    <3>2. Distinct([avail EXCEPT ![avail_idx % NUM] = i], seen_idx, (avail_idx + 1) % UINT16)
      BY <2>1, <2>3, Push, Zenon
    <3>3. Holds([avail EXCEPT ![avail_idx % NUM] = i], seen_idx, (avail_idx + 1) % UINT16,
                Window(avail, seen_idx, avail_idx) \cup {i})
      BY <2>1, <2>3, Push, Zenon
    <3> QED  BY <3>1, <3>2, <3>3, Zenon DEF Holds
  <2>5. Queued' = Queued \cup {i} /\ Distinct(avail, seen_idx, avail_idx)'
    <3>1. seen_idx' = seen_idx
      BY <1>2, Zenon
    <3> QED  BY <3>1, <2>4, Zenon DEF Queued
  <2>6. Completed' = Completed /\ Distinct(used, used_idx, used_idx_dev)' /\ taken' = taken
    <3>1. used' = used /\ used_idx' = used_idx /\ used_idx_dev' = used_idx_dev /\ taken' = taken
      BY <1>2, Zenon
    <3>2. Distinct(used, used_idx, used_idx_dev)
      BY Zenon DEF IInv, RingInv
    <3> QED  BY <3>1, <3>2, Zenon DEF Completed
  <2>7. ASSUME NEW h \in Idx
        PROVE  (IsHead(h) /\ info[h].b \in disk_owns)'
                  <=> (IsHead(h) /\ info[h].b \in disk_owns) \/ h = i
    <3>1. CASE h = i
      <4>1. info'[h].b = b
        BY <3>1, <1>7, Zenon
      <4> QED  BY <3>1, <4>1, <1>2, <1>12, Zenon
    <3>2. CASE h # i /\ IsHead(h)
      <4>1. info'[h] = info[h] /\ info[h].b # b
        BY <3>2, <1>10, <1>13, Zenon
      <4> QED  BY <3>2, <4>1, <1>2, <1>12, Zenon
    <3>3. CASE h # i /\ ~IsHead(h)
      BY <3>3, <1>12, Zenon
    <3> QED  BY <3>1, <3>2, <3>3, Zenon
  <2>8. (Queued \cup taken \cup Completed)' = {h \in Idx : IsHead(h) /\ info[h].b \in disk_owns}'
    <3>1. Queued \cup taken \cup Completed = {h \in Idx : IsHead(h) /\ info[h].b \in disk_owns}
      BY Zenon DEF IInv, RingInv
    <3> QED  BY <3>1, <1>4, <2>5, <2>6, <2>7, Zenon
  <2>9. ASSUME NEW h \in Idx, IsHead(h)'
        PROVE  info'[h].status = 255 <=> h \in (Queued \cup taken)'
    <3>1. CASE h = i
      <4>1. info'[h].status = 255
        BY <3>1, <1>7
      <4> QED  BY <3>1, <4>1, <2>5, Zenon
    <3>2. CASE h # i
      <4>1. info'[h] = info[h] /\ IsHead(h)
        BY <3>2, <2>9, <1>7, <1>12, Zenon
      <4>2. info[h].status = 255 <=> h \in Queued \cup taken
        BY <4>1, Zenon DEF IInv, RingInv
      <4> QED  BY <3>2, <4>1, <4>2, <2>5, <2>6, Zenon
    <3> QED  BY <3>1, <3>2, Zenon
  <2>10. (Queued \cap taken = {} /\ Queued \cap Completed = {} /\ taken \cap Completed = {})'
    <3>1. Queued \cap taken = {} /\ Queued \cap Completed = {} /\ taken \cap Completed = {}
      BY Zenon DEF IInv, RingInv
    <3> QED  BY <2>2, <2>5, <2>6, <3>1, Zenon
  <2> QED  BY <2>5, <2>6, <2>8, <2>9, <2>10, Zenon DEF RingInv
<1>22. SleepInv'
  <2>1. \A c \in Buf : chan[c] # "free"
    <3>1. Cardinality(free) \in Nat
      BY IdxFinite, Zenon DEF IInv, Types, Facts, SubsetFact, CountFact
    <3> QED  BY <3>1, <1>2 DEF IInv, SleepInv
  <2> QED  BY <2>1, <1>2, <1>9 DEF IInv, SleepInv, Types
<1>23. RingTypes'
  <2>1. avail_idx \in 0 .. UINT16 - 1
    BY Zenon DEF IInv, RingTypes
  <2>2. avail_idx' \in 0 .. UINT16 - 1
    BY <1>2, <2>1, Increment, Zenon
  <2>3. avail' \in [Idx -> Idx \cup {None}]
    <3>1. avail \in [Idx -> Idx \cup {None}]
      BY Zenon DEF IInv, RingTypes
    <3>2. avail' = [avail EXCEPT ![avail_idx % NUM] = i]
      BY <1>1, Zenon
    <3> QED  BY <3>1, <3>2, Zenon
  <2> QED  BY <1>2, <2>2, <2>3, Zenon DEF IInv, RingTypes
<1>24. IInv'
  BY <1>16, <1>17, <1>18, <1>19, <1>20, <1>21, <1>22, <1>23, Zenon DEF IInv
<1> QED  BY <1>1, <1>2, <1>11, <1>24, Zenon

\* free_chain() follows the whole chain.
LEMMA FreeChain ==
    ASSUME ChainInv, NEW h \in Idx, IsHead(h)
    PROVE  free_chain(h) = {x \in Idx : InChain(x, h)}
<1>1. desc[h].next \in Idx /\ desc[desc[h].next].next \in Idx
  BY Zenon DEF ChainInv
<1>2. desc[h].next # None /\ desc[desc[h].next].next # None /\ h # None
  BY <1>1, Constants, Zenon
<1>3. free_chain(h) = {h, desc[h].next, desc[desc[h].next].next}
  BY <1>2, Zenon DEF free_chain
<1> QED  BY <1>1, <1>3, Zenon DEF InChain

\* The caller returns and frees its chain.
LEMMA Ends ==
    ASSUME Facts, IInv, NEW b \in Buf, rw_end(b)
    PROVE  /\ IInv'
           /\ \E h \in Idx : info[h].b = b /\ info' = [info EXCEPT ![h].b = None]
<1>1. PICK h \in Idx :
         /\ info[h].b = b /\ info' = [info EXCEPT ![h].b = None]
         /\ free' = free \cup free_chain(h)
         /\ desc' = [x \in Idx |-> IF x \in free_chain(h) THEN Zero ELSE desc[x]]
         /\ ops' = [ops EXCEPT ![h] = NoOp]
  <2> DEFINE h == CHOOSE i \in Idx : info[i].b = b
  <2>1. pc[b] = "wait"
    BY Zenon DEF rw_end, At
  <2>2. h \in Idx /\ info[h].b = b
    BY <2>1, Zenon DEF IInv, OwnInv
  <2>3. /\ info' = [info EXCEPT ![h].b = None]
        /\ free' = free \cup free_chain(h)
        /\ desc' = [x \in Idx |-> IF x \in free_chain(h) THEN Zero ELSE desc[x]]
        /\ ops' = [ops EXCEPT ![h] = NoOp]
    BY Zenon DEF rw_end
  <2> HIDE DEF h
  <2> QED  BY <2>2, <2>3, Zenon
<1>2. /\ pc[b] = "wait" /\ b \notin disk_owns
      /\ pc' = [pc EXCEPT ![b] = "idle"] /\ op' = [op EXCEPT ![b] = NoOp]
      /\ chan' = [c \in Buf |-> IF chan[c] = "free" THEN "none" ELSE chan[c]]
      /\ content' = content /\ data' = data /\ disk_owns' = disk_owns /\ taken' = taken
      /\ avail' = avail /\ avail_idx' = avail_idx /\ seen_idx' = seen_idx
      /\ used' = used /\ used_idx' = used_idx /\ used_idx_dev' = used_idx_dev
      /\ irq' = irq /\ vdisk_lock' = vdisk_lock
  BY Zenon DEF rw_end, At, wake_free, availring, usedring
<1>3. None \notin Buf /\ None \notin Idx /\ b # None
  BY Constants, Zenon
<1>4. IsHead(h)
  BY <1>1, <1>3, Zenon DEF IsHead
<1>5. free_chain(h) = {x \in Idx : InChain(x, h)}
  BY <1>4, FreeChain, Zenon DEF IInv
<1>6. \A x \in Idx : x \in free' <=> x \in free \/ InChain(x, h)
  BY <1>1, <1>5, Zenon
<1>7. \A x \in Idx : ~InChain(x, h) => desc'[x] = desc[x]
  BY <1>1, <1>5, Zenon
<1>8. /\ info'[h].b = None /\ \A g \in Idx : info'[g].status = info[g].status
      /\ \A g \in Idx : g # h => info'[g] = info[g]
  BY <1>1 DEF IInv, Types
<1>9. \A g \in Idx : IsHead(g)' <=> IsHead(g) /\ g # h
  BY <1>8, Zenon DEF IsHead
<1>10. /\ pc'[b] = "idle" /\ \A c \in Buf : c # b => pc'[c] = pc[c] /\ op'[c] = op[c]
       /\ \A g \in Idx : g # h => ops'[g] = ops[g]
  BY <1>1, <1>2 DEF IInv, Types, OpTypes
\* The other chains
<1>11. ASSUME NEW g \in Idx, IsHead(g), g # h
       PROVE  /\ desc[g].next \in Idx /\ desc[desc[g].next].next \in Idx
              /\ desc'[g] = desc[g] /\ desc'[desc[g].next] = desc[desc[g].next]
              /\ desc'[desc[desc[g].next].next] = desc[desc[desc[g].next].next]
              /\ info'[g] = info[g] /\ ops'[g] = ops[g]
              /\ info[g].b \in Buf /\ info[g].b # b
  <2>1. desc[g].next \in Idx /\ desc[desc[g].next].next \in Idx
    BY <1>11, Zenon DEF IInv, ChainInv
  <2>2. InChain(g, g) /\ InChain(desc[g].next, g) /\ InChain(desc[desc[g].next].next, g)
    BY Zenon DEF InChain
  <2>3. \A x \in Idx : InChain(x, g) => ~InChain(x, h)
    BY <1>4, <1>11, Zenon DEF IInv, ChainInv
  <2>4. /\ desc'[g] = desc[g] /\ desc'[desc[g].next] = desc[desc[g].next]
        /\ desc'[desc[desc[g].next].next] = desc[desc[desc[g].next].next]
    BY <1>7, <2>1, <2>2, <2>3, Zenon
  <2>5. info[g].b # b
    BY <1>1, <1>11, Zenon DEF IInv, OwnInv
  <2>6. info[g].b \in Buf
    BY <1>11, Zenon DEF IInv, Types, IsHead
  <2> QED  BY <1>8, <1>10, <1>11, <2>1, <2>4, <2>5, <2>6, Zenon
<1>12. ASSUME NEW g \in Idx, NEW x \in Idx, IsHead(g), g # h
       PROVE  InChain(x, g)' <=> InChain(x, g)
  <2>1. desc'[g] = desc[g] /\ desc'[desc[g].next] = desc[desc[g].next]
    BY <1>11, <1>12, Zenon
  <2> QED  BY <2>1, Zenon DEF InChain
<1>13. Types'
  <2>1. desc' \in [Idx -> [addr : Idx \cup Buf \cup {None}, next : Idx \cup {None}]]
    BY <1>1, Zenon DEF IInv, Types, Zero
  <2>2. info' \in [Idx -> [b : Buf \cup {None}, status : {0, 255}]]
    BY <1>1 DEF IInv, Types
  <2>3. pc' \in [Buf -> {"idle", "alloc", "wait"}] /\ chan' \in [Buf -> {"none", "free", "disk"}]
    BY <1>2, Zenon DEF IInv, Types
  <2>4. free' \subseteq Idx
    BY <1>1, <1>5, Zenon DEF IInv, Types
  <2>5. content' = content /\ data' = data /\ taken' = taken /\ disk_owns' = disk_owns
    BY <1>2, Zenon
  <2> QED  BY <2>1, <2>2, <2>3, <2>4, <2>5, Zenon DEF IInv, Types
<1>14. RingTypes'
  BY <1>2, Zenon DEF IInv, RingTypes
<1>15. OpTypes'
  BY <1>1, <1>2, Zenon DEF IInv, OpTypes, NoOp
<1>16. Booleans' /\ Signalled'
  BY <1>2, SignalKept, Zenon DEF IInv
<1>17. ChainInv'
  <2>1. ASSUME NEW g \in Idx, IsHead(g)'
        PROVE  (/\ desc[g].next \in Idx /\ desc[desc[g].next].next \in Idx
                /\ desc[desc[desc[g].next].next].next = None
                /\ g # desc[g].next /\ g # desc[desc[g].next].next
                /\ desc[g].next # desc[desc[g].next].next
                /\ desc[desc[g].next].addr = info[g].b
                /\ desc[desc[desc[g].next].next].addr = g)'
    <3>1. IsHead(g) /\ g # h
      BY <2>1, <1>9, Zenon
    <3>2. /\ desc[g].next \in Idx /\ desc[desc[g].next].next \in Idx
          /\ desc[desc[desc[g].next].next].next = None
          /\ g # desc[g].next /\ g # desc[desc[g].next].next
          /\ desc[g].next # desc[desc[g].next].next
          /\ desc[desc[g].next].addr = info[g].b
          /\ desc[desc[desc[g].next].next].addr = g
      BY <3>1, Zenon DEF IInv, ChainInv
    <3>3. /\ desc'[g] = desc[g] /\ desc'[desc[g].next] = desc[desc[g].next]
          /\ desc'[desc[desc[g].next].next] = desc[desc[desc[g].next].next]
          /\ info'[g] = info[g]
      BY <3>1, <1>11, Zenon
    <3> QED  BY <3>2, <3>3, Zenon
  <2>2. \A g \in Idx, x \in Idx : IsHead(g)' /\ InChain(x, g)' => x \notin free'
    BY <1>4, <1>6, <1>9, <1>12, Zenon DEF IInv, ChainInv
  <2>3. \A f \in Idx, g \in Idx, x \in Idx :
           IsHead(f)' /\ IsHead(g)' /\ InChain(x, f)' /\ InChain(x, g)' => f = g
    BY <1>9, <1>12, Zenon DEF IInv, ChainInv
  <2>4. ASSUME NEW x \in Idx, x \notin free' PROVE \E g \in Idx : IsHead(g)' /\ InChain(x, g)'
    <3>1. x \notin free /\ ~InChain(x, h)
      BY <2>4, <1>6, Zenon
    <3>2. PICK g \in Idx : IsHead(g) /\ InChain(x, g)
      BY <3>1, Zenon DEF IInv, ChainInv
    <3> QED  BY <3>1, <3>2, <1>9, <1>12, Zenon
  <2> QED  BY <2>1, <2>2, <2>3, <2>4, Zenon DEF ChainInv
<1>18. OwnInv'
  <2>1. ASSUME NEW g \in Idx, IsHead(g)'
        PROVE  /\ pc'[info'[g].b] = "wait"
               /\ (ops'[g].write <=> op'[info'[g].b].write)
               /\ ops'[g].sector = op'[info'[g].b].sector
    <3>1. IsHead(g) /\ g # h
      BY <2>1, <1>9, Zenon
    <3>2. /\ info'[g] = info[g] /\ ops'[g] = ops[g] /\ pc'[info[g].b] = pc[info[g].b]
          /\ op'[info[g].b] = op[info[g].b]
      BY <3>1, <1>10, <1>11, Zenon
    <3>3. /\ pc[info[g].b] = "wait" /\ (ops[g].write <=> op[info[g].b].write)
          /\ ops[g].sector = op[info[g].b].sector
      BY <3>1, Zenon DEF IInv, OwnInv
    <3> QED  BY <3>2, <3>3, Zenon
  <2>2. ASSUME NEW f \in Idx, NEW g \in Idx, IsHead(f)', info'[f].b = info'[g].b PROVE f = g
    <3>1. IsHead(g)'
      BY <2>2, Zenon DEF IsHead
    <3>2. f # h /\ g # h /\ IsHead(f)
      BY <2>2, <3>1, <1>9, Zenon
    <3>3. info[f].b = info[g].b
      BY <2>2, <3>2, <1>8, Zenon
    <3> QED  BY <3>2, <3>3, Zenon DEF IInv, OwnInv
  <2>3. ASSUME NEW c \in Buf, pc'[c] = "wait" PROVE \E g \in Idx : info'[g].b = c
    <3>1. c # b /\ pc[c] = "wait"
      BY <2>3, <1>10, Zenon
    <3>2. PICK g \in Idx : info[g].b = c
      BY <3>1, Zenon DEF IInv, OwnInv
    <3>3. g # h
      BY <3>1, <3>2, <1>1, Zenon
    <3> QED  BY <3>2, <3>3, <1>8, Zenon
  <2>4. \A c \in Buf : pc'[c] # "idle" => op'[c].sector \in Block
    BY <1>10, Zenon DEF IInv, OwnInv
  <2>5. \A c \in disk_owns' : pc'[c] = "wait"
    <3>1. \A c \in disk_owns : pc[c] = "wait" /\ c \in Buf
      BY Zenon DEF IInv, OwnInv, Types
    <3>2. disk_owns' = disk_owns /\ b \notin disk_owns
      BY <1>2, Zenon
    <3> QED  BY <3>1, <3>2, <1>10, Zenon
  <2> QED  BY <2>1, <2>2, <2>3, <2>4, <2>5, Zenon DEF OwnInv
<1>19. RingInv'
  <2>1. /\ Queued' = Queued /\ Completed' = Completed /\ taken' = taken
        /\ Distinct(avail, seen_idx, avail_idx)' /\ Distinct(used, used_idx, used_idx_dev)'
    BY <1>2, Zenon DEF IInv, RingInv, Queued, Completed
  <2>2. \A g \in Idx : (IsHead(g) /\ info[g].b \in disk_owns)' <=> IsHead(g) /\ info[g].b \in disk_owns
    BY <1>1, <1>2, <1>8, <1>9
  <2>3. (Queued \cup taken \cup Completed)' = {g \in Idx : IsHead(g) /\ info[g].b \in disk_owns}'
    <3>1. Queued \cup taken \cup Completed = {g \in Idx : IsHead(g) /\ info[g].b \in disk_owns}
      BY Zenon DEF IInv, RingInv
    <3>2. {g \in Idx : IsHead(g) /\ info[g].b \in disk_owns}'
             = {g \in Idx : IsHead(g) /\ info[g].b \in disk_owns}
      BY <2>2, Zenon
    <3> QED  BY <2>1, <3>1, <3>2, Zenon
  <2>4. \A g \in Idx : IsHead(g)' => (info'[g].status = 255 <=> g \in (Queued \cup taken)')
    BY <2>1, <1>8, <1>9 DEF IInv, RingInv
  <2> QED  BY <2>1, <2>3, <2>4, Zenon DEF IInv, RingInv
<1>20. SleepInv'
  <2>1. \A c \in Buf : chan'[c] # "free" /\ (chan'[c] = "disk" => chan[c] = "disk")
    BY <1>2, Zenon DEF IInv, Types
  <2> QED  BY <2>1, <1>2, <1>10, Zenon DEF IInv, SleepInv
<1> QED  BY <1>1, <1>13, <1>14, <1>15, <1>16, <1>17, <1>18, <1>19, <1>20, Zenon DEF IInv

\* A caller of virtio_disk_rw() that has no chain, and what it asks for
LEMMA Caller ==
    ASSUME IInv, NEW b \in Buf, pc[b] # "wait"
    PROVE  /\ b \notin disk_owns
           /\ pc[b] = "alloc" => op[b] \in Op /\ op = [op EXCEPT ![b] = op[b]]
<1>1. b \notin disk_owns
  BY Zenon DEF IInv, OwnInv
<1>2. ASSUME pc[b] = "alloc" PROVE op[b] \in Op
  <2>1. op[b] \in [write : BOOLEAN, sector : Block \cup {"none"}]
    BY Zenon DEF IInv, OpTypes
  <2>2. op[b].sector \in Block
    BY <1>2, Zenon DEF IInv, OwnInv
  <2> QED  BY <2>1, <2>2, Zenon DEF Op
<1>3. op = [op EXCEPT ![b] = op[b]]
  BY Zenon DEF IInv, OpTypes
<1> QED  BY <1>1, <1>2, <1>3, Zenon

\* Every step keeps the invariant.
LEMMA NextIInv == ASSUME Facts, IInv, [Next]_vars PROVE IInv'
<1>1. ASSUME UNCHANGED <<disk_owns, pc, op, chan, free, desc, ops, info, avail, avail_idx, seen_idx,
                         used, used_idx_dev, used_idx, taken>>,
             content' = content, data' \in [Buf -> Value], Booleans', Signalled'
      PROVE  IInv'
  <2>1. Types'
    BY <1>1, Zenon DEF IInv, Types
  <2>2. RingTypes' /\ OpTypes'
    BY <1>1, Zenon DEF IInv, RingTypes, OpTypes
  <2>3. ChainInv'
    BY <1>1, ChainsKept, Zenon DEF IInv
  <2>4. OwnInv' /\ SleepInv'
    BY <1>1, Zenon DEF IInv, OwnInv, SleepInv, IsHead
  <2>5. RingInv'
    BY <1>1, RingsKept, Zenon DEF IInv
  <2> QED  BY <1>1, <2>1, <2>2, <2>3, <2>4, <2>5, Zenon DEF IInv
<1>2. ASSUME NEW b \in Buf, rw_again(b) PROVE IInv'
  <2>1. pc[b] = "alloc" /\ op' = op
    BY <1>2, Zenon DEF rw_again, At
  <2>2. b \notin disk_owns /\ op[b] \in Op /\ op' = [op EXCEPT ![b] = op[b]] /\ pc[b] # "wait"
    BY <2>1, Caller, Zenon
  <2>3. UNCHANGED <<content, data, seen_idx, usedring, taken, irq, vdisk_lock>>
    BY <1>2, Zenon DEF rw_again
  <2>4. CASE alloc3_desc_fails(b)
    BY <2>2, <2>3, <2>4, Fails, Zenon
  <2>5. CASE request(b, op[b])
    BY <2>2, <2>3, <2>5, Requests, Zenon
  <2> QED  BY <1>2, <2>4, <2>5, Zenon DEF rw_again
<1>3. ASSUME NEW b \in Buf, NEW o \in Op, virtio_disk_rw(b, o) PROVE IInv'
  <2>1. pc[b] # "wait" /\ op' = [op EXCEPT ![b] = o]
    BY <1>3, Zenon DEF virtio_disk_rw, At
  <2>2. b \notin disk_owns
    BY <2>1, Caller, Zenon
  <2>3. UNCHANGED <<content, data, seen_idx, usedring, taken, irq, vdisk_lock>>
    BY <1>3, Zenon DEF virtio_disk_rw
  <2>4. CASE alloc3_desc_fails(b)
    BY <2>1, <2>2, <2>3, <2>4, Fails, Zenon
  <2>5. CASE request(b, o)
    BY <2>1, <2>2, <2>3, <2>5, Requests, Zenon
  <2> QED  BY <1>3, <2>4, <2>5, Zenon DEF virtio_disk_rw
<1>4. ASSUME NEW b \in Buf, rw_end(b) PROVE IInv'
  BY <1>4, Ends, Zenon
<1>5. ASSUME NEW b \in Buf, NEW v \in Value, store(b, v) PROVE IInv'
  <2>1. /\ UNCHANGED <<disk_owns, pc, op, chan, free, desc, ops, info, avail, avail_idx, seen_idx,
                       used, used_idx_dev, used_idx, taken>>
        /\ content' = content /\ irq' = irq /\ vdisk_lock' = vdisk_lock
    BY <1>5, Zenon DEF store, caller, driver, availring, usedring
  <2>2. data' \in [Buf -> Value]
    BY <1>5, Zenon DEF store, IInv, Types
  <2>3. Booleans' /\ Signalled'
    BY <2>1, SignalKept, Zenon DEF IInv
  <2> QED  BY <1>1, <2>1, <2>2, <2>3, Zenon
<1>6. ASSUME intr_ack PROVE IInv'
  <2>1. /\ UNCHANGED <<disk_owns, pc, op, chan, free, desc, ops, info, avail, avail_idx, seen_idx,
                       used, used_idx_dev, used_idx, taken>>
        /\ content' = content /\ data' = data /\ irq' = FALSE /\ vdisk_lock' = TRUE
    BY <1>6, Zenon DEF intr_ack, caller, driver, availring, usedring
  <2>2. data' \in [Buf -> Value]
    BY <2>1, Zenon DEF IInv, Types
  <2>3. Booleans' /\ Signalled'
    BY <2>1, Zenon DEF Booleans, Signalled
  <2> QED  BY <1>1, <2>1, <2>2, <2>3, Zenon
<1>7. ASSUME intr_end PROVE IInv'
  <2>1. /\ UNCHANGED <<disk_owns, pc, op, chan, free, desc, ops, info, avail, avail_idx, seen_idx,
                       used, used_idx_dev, used_idx, taken>>
        /\ content' = content /\ data' = data /\ irq' = irq /\ vdisk_lock' = FALSE
        /\ used_idx = used_idx_dev
    BY <1>7, Zenon DEF intr_end, has_used, caller, driver, availring, usedring
  <2>2. data' \in [Buf -> Value]
    BY <2>1, Zenon DEF IInv, Types
  <2>3. Booleans' /\ Signalled'
    BY <2>1, Zenon DEF IInv, Booleans, Signalled
  <2> QED  BY <1>1, <2>1, <2>2, <2>3, Zenon
<1>8. CASE UNCHANGED vars
  <2>1. /\ UNCHANGED <<disk_owns, pc, op, chan, free, desc, ops, info, avail, avail_idx, seen_idx,
                       used, used_idx_dev, used_idx, taken>>
        /\ content' = content /\ data' = data /\ irq' = irq /\ vdisk_lock' = vdisk_lock
    BY <1>8, Zenon DEF vars, caller, driver, availring, usedring
  <2>2. data' \in [Buf -> Value]
    BY <2>1, Zenon DEF IInv, Types
  <2>3. Booleans' /\ Signalled'
    BY <2>1, SignalKept, Zenon DEF IInv
  <2> QED  BY <1>1, <2>1, <2>2, <2>3, Zenon
<1>9. CASE Device
  BY <1>9, Takes, Completes, Zenon DEF Device
<1>10. CASE Interrupt
  BY <1>6, <1>7, <1>10, Looks, Zenon DEF Interrupt
<1> QED  BY <1>2, <1>3, <1>4, <1>5, <1>8, <1>9, <1>10, Zenon DEF Next

\* Why QueueSound follows: the sets it speaks of are those of the invariant.
LEMMA QueueIsSound == ASSUME IInv PROVE QueueSound
<1> DEFINE Heads == {h \in Idx : info[h].b # None}
<1>1. TypeOK
  <2>1. {avail_idx, used_idx_dev, used_idx, seen_idx} \subseteq 0 .. UINT16 - 1
    BY Zenon DEF IInv, RingTypes
  <2> QED  BY <2>1, Zenon DEF IInv, Types, RingTypes, OpTypes, Booleans, TypeOK
<1>2. \A h \in Idx : h \in Heads <=> IsHead(h)
  BY Zenon DEF IsHead
<1> HIDE DEF Heads
<1>3. Heads \subseteq Idx
  BY Zenon DEF Heads
<1>4. \A h \in Heads : free_chain(h) = {x \in Idx : InChain(x, h)}
  BY <1>2, <1>3, FreeChain, Zenon DEF IInv
<1>5. Queued \cup taken \cup Completed = {h \in Heads : info[h].b \in disk_owns}
  BY <1>2, <1>3, Zenon DEF IInv, RingInv
<1>6. {info[h].b : h \in Heads} = {b \in Buf : pc[b] = "wait"}
  <2>1. \A h \in Heads : info[h].b \in Buf /\ pc[info[h].b] = "wait"
    BY <1>2, <1>3, Zenon DEF IInv, OwnInv, Types, IsHead
  <2>2. ASSUME NEW b \in Buf, pc[b] = "wait" PROVE \E h \in Heads : info[h].b = b
    <3>1. PICK h \in Idx : info[h].b = b
      BY <2>2, Zenon DEF IInv, OwnInv
    <3>2. IsHead(h)
      BY <3>1, Constants, Zenon DEF IsHead
    <3> QED  BY <3>1, <3>2, <1>2, Zenon
  <2> QED  BY <2>1, <2>2
<1>7. \A g, h \in Heads : g # h => free_chain(g) \cap free_chain(h) = {}
  <2>1. ASSUME NEW g \in Heads, NEW h \in Heads, g # h
        PROVE  free_chain(g) \cap free_chain(h) = {}
    <3>1. \A x \in Idx : ~(InChain(x, g) /\ InChain(x, h))
      BY <2>1, <1>2, <1>3, Zenon DEF IInv, ChainInv
    <3> QED  BY <3>1, <1>4, Zenon
  <2> QED  BY <2>1, Zenon
<1>8. free = Idx \ UNION {free_chain(h) : h \in Heads}
  <2>1. \A x \in Idx : x \in UNION {free_chain(h) : h \in Heads} <=> \E h \in Heads : InChain(x, h)
    BY <1>4, Zenon
  <2>2. \A x \in Idx : x \in free <=> ~ \E h \in Heads : InChain(x, h)
    BY <1>2, <1>3, Zenon DEF IInv, ChainInv
  <2>3. free \subseteq Idx
    BY Zenon DEF IInv, Types
  <2> HIDE DEF IInv
  <2> QED  BY <2>1, <2>2, <2>3, Zenon
<1>9. Queued \cap taken = {} /\ Queued \cap Completed = {} /\ taken \cap Completed = {}
  BY Zenon DEF IInv, RingInv
<1>10. RequestsConserved
  BY <1>5, <1>6, <1>7, <1>8, <1>9, Zenon DEF RequestsConserved, Heads, Queued, Completed
<1> QED  BY <1>1, <1>10, Zenon DEF QueueSound

-----------------------------------------------------------------------------
\* The driver implements BlockDevice

Io == [b \in Buf |-> Progress(b)]

\* A step that leaves a caller where it is and its request as it was
LEMMA SameProgress ==
    ASSUME NEW b \in Buf, pc'[b] = pc[b],
           \A h \in Idx : info'[h].b = b /\ info'[h].status = 255
                             <=> info[h].b = b /\ info[h].status = 255
    PROVE  Progress(b)' = Progress(b)
BY DEF Progress

\* Asking for a request is pending from its call on, with or without a chain.
LEMMA Asks ==
    ASSUME Facts, IInv, NEW b \in Buf, NEW o \in Op, pc[b] # "wait", op' = [op EXCEPT ![b] = o],
           alloc3_desc_fails(b) \/ request(b, o),
           UNCHANGED <<content, data, seen_idx, usedring, taken, irq, vdisk_lock>>
    PROVE  Io' = [Io EXCEPT ![b] = "pending"]
<1>1. b \notin disk_owns
  BY Caller, Zenon
<1>2. CASE alloc3_desc_fails(b)
  <2>1. pc' = [pc EXCEPT ![b] = "alloc"] /\ info' = info
    BY <1>2, Zenon DEF alloc3_desc_fails, driver
  <2>2. pc'[b] = "alloc" /\ \A c \in Buf : c # b => pc'[c] = pc[c]
    BY <2>1 DEF IInv, Types
  <2>3. \A c \in Buf : c # b => Progress(c)' = Progress(c)
    BY <2>1, <2>2, SameProgress, Zenon
  <2>4. Progress(b)' = "pending"
    BY <2>2, Zenon DEF Progress
  <2> QED  BY <2>3, <2>4, Zenon DEF Io
<1>3. CASE request(b, o)
  <2>1. PICK i \in Idx : /\ ~IsHead(i) /\ info' = [info EXCEPT ![i] = [b |-> b, status |-> 255]]
                         /\ pc' = [pc EXCEPT ![b] = "wait"]
    BY <1>1, <1>3, Requests, Zenon
  <2>2. pc'[b] = "wait" /\ \A c \in Buf : c # b => pc'[c] = pc[c]
    BY <2>1 DEF IInv, Types
  <2>3. /\ info'[i].b = b /\ info'[i].status = 255 /\ info[i].b = None
        /\ \A h \in Idx : h # i => info'[h] = info[h]
    BY <2>1 DEF IInv, Types, IsHead
  <2>4. \A c \in Buf : c # None
    BY Constants, Zenon
  <2>5. ASSUME NEW c \in Buf, c # b PROVE Progress(c)' = Progress(c)
    <3>1. ASSUME NEW h \in Idx
          PROVE  info'[h].b = c /\ info'[h].status = 255 <=> info[h].b = c /\ info[h].status = 255
      <4>1. CASE h = i
        BY <4>1, <2>3, <2>4, <2>5, Zenon
      <4>2. CASE h # i
        <5>1. info'[h] = info[h]
          BY <4>2, <2>3, Zenon
        <5> QED  BY <5>1, Zenon
      <4> QED  BY <4>1, <4>2, Zenon
    <3>2. pc'[c] = pc[c]
      BY <2>2, <2>5, Zenon
    <3> QED  BY <3>1, <3>2, SameProgress, Zenon
  <2>6. Progress(b)' = "pending"
    BY <2>2, <2>3, Zenon DEF Progress
  <2> QED  BY <2>5, <2>6, Zenon DEF Io
<1> QED  BY <1>2, <1>3, Zenon

\* Every step of the driver is a step of BlockDevice or leaves it alone.
LEMMA StepRefined == ASSUME Facts, IInv, [Next]_vars PROVE [Disk!DeviceNext]_(Disk!device)
<1> DEFINE Stutter == content' = content /\ data' = data /\ Io' = Io /\ op' = op
<1>1. ASSUME Stutter PROVE [Disk!DeviceNext]_(Disk!device)
  BY <1>1, Zenon DEF Disk!device, Io
<1>2. ASSUME content' = content, data' = data, op' = op, pc' = pc, info' = info PROVE Stutter
  <2>1. \A c \in Buf : Progress(c)' = Progress(c)
    BY <1>2, SameProgress, Zenon
  <2> QED  BY <1>2, <2>1, Zenon DEF Io
<1>3. ASSUME NEW b \in Buf, rw_again(b) PROVE Stutter
  <2>1. pc[b] = "alloc" /\ op' = op /\ content' = content /\ data' = data
    BY <1>3, Zenon DEF rw_again, At
  <2>2. op[b] \in Op /\ op' = [op EXCEPT ![b] = op[b]] /\ pc[b] # "wait"
    BY <2>1, Caller, Zenon
  <2>3. Io' = [Io EXCEPT ![b] = "pending"]
    BY <1>3, <2>2, Asks, Zenon DEF rw_again
  <2>4. Io[b] = "pending"
    BY <2>1, Zenon DEF Io, Progress
  <2>5. Io' = Io
    BY <2>3, <2>4, Zenon DEF Io
  <2> QED  BY <2>1, <2>5, Zenon
<1>4. ASSUME NEW b \in Buf, NEW o \in Op, virtio_disk_rw(b, o)
      PROVE  Disk!Request(b, o.write, o.sector)
  <2>1. pc[b] = "idle" /\ op' = [op EXCEPT ![b] = o] /\ content' = content /\ data' = data
    BY <1>4, Zenon DEF virtio_disk_rw, At
  <2>2. Io' = [Io EXCEPT ![b] = "pending"]
    BY <1>4, <2>1, Asks, Zenon DEF virtio_disk_rw
  <2>3. Io[b] = "none"
    BY <2>1, Zenon DEF Io, Progress
  <2>4. o = [write |-> o.write, sector |-> o.sector]
    BY Zenon DEF Op
  <2> QED  BY <2>1, <2>2, <2>3, <2>4, Zenon DEF Disk!Request, Io
<1>5. ASSUME NEW b \in Buf, rw_end(b) PROVE Disk!Return(b)
  <2>1. /\ pc[b] = "wait" /\ b \notin disk_owns /\ content' = content /\ data' = data
        /\ pc' = [pc EXCEPT ![b] = "idle"] /\ op' = [op EXCEPT ![b] = NoOp]
    BY <1>5, Zenon DEF rw_end, At
  <2>2. PICK h \in Idx : info[h].b = b /\ info' = [info EXCEPT ![h].b = None]
    BY <1>5, Ends, Zenon
  <2>3. pc'[b] = "idle" /\ \A c \in Buf : c # b => pc'[c] = pc[c]
    BY <2>1 DEF IInv, Types
  <2>4. info'[h].b = None /\ \A g \in Idx : g # h => info'[g] = info[g]
    BY <2>2 DEF IInv, Types
  <2>5. \A c \in Buf : c # None
    BY Constants, Zenon
  <2>6. \A c \in Buf : c # b => Progress(c)' = Progress(c)
    BY <2>2, <2>3, <2>4, <2>5, SameProgress
  <2>7. Progress(b)' = "none"
    BY <2>3, Zenon DEF Progress
  <2>8. ~ \E g \in Idx : info[g].b = b /\ info[g].status = 255
    <3>1. ASSUME NEW g \in Idx, info[g].b = b, info[g].status = 255 PROVE FALSE
      <4>1. IsHead(g)
        BY <3>1, <2>5, Zenon DEF IsHead
      <4>2. g \in Queued \cup taken
        BY <3>1, <4>1, Zenon DEF IInv, RingInv
      <4> QED  BY <2>1, <3>1, <4>2, InRings, Zenon
    <3> QED  BY <3>1, Zenon
  <2>9. Progress(b) = "done"
    BY <2>1, <2>8, Zenon DEF Progress
  <2>10. Io[b] = "done" /\ Io' = [Io EXCEPT ![b] = "none"]
    BY <2>6, <2>7, <2>9, Zenon DEF Io
  <2> QED  BY <2>1, <2>10, Zenon DEF Disk!Return, Disk!NoOp, NoOp, Io
<1>6. ASSUME NEW b \in Buf, NEW v \in Value, store(b, v) PROVE Disk!Store(b, v)
  <2>1. /\ pc[b] = "idle" /\ data' = [data EXCEPT ![b] = v]
        /\ content' = content /\ op' = op /\ pc' = pc /\ info' = info
    BY <1>6, Zenon DEF store, caller, driver
  <2>2. \A c \in Buf : Progress(c)' = Progress(c)
    BY <2>1, SameProgress, Zenon
  <2>3. Io[b] = "none" /\ Io' = Io
    BY <2>1, <2>2 DEF Io, Progress
  <2> QED  BY <2>1, <2>3, Zenon DEF Disk!Store, Io
<1>7. ASSUME NEW h \in taken, dev_complete(h) PROVE \E b \in Buf : Disk!Perform(b)
  <2>0. PICK b \in Buf : b = info[h].b
    BY Target, Zenon
  <2>1. /\ h \in Idx /\ IsHead(h) /\ info[h].status = 255
        /\ desc[desc[h].next].addr = b /\ desc[desc[desc[h].next].next].addr = h
        /\ pc[b] = "wait"
        /\ (ops[h].write <=> op[b].write) /\ ops[h].sector = op[b].sector
    <3>1. h \in Idx /\ IsHead(h) /\ info[h].status = 255
      BY Target, Zenon
    <3>2. /\ desc[desc[h].next].addr = info[h].b /\ desc[desc[desc[h].next].next].addr = h
          /\ pc[info[h].b] = "wait"
      BY Target, Zenon
    <3>3. (ops[h].write <=> op[info[h].b].write) /\ ops[h].sector = op[info[h].b].sector
      BY Target, Zenon
    <3> QED  BY <2>0, <3>1, <3>2, <3>3, Zenon
  <2>2. info' = [info EXCEPT ![h].status = 0] /\ pc' = pc /\ op' = op
    BY <1>7, <2>1, Zenon DEF dev_complete, caller
  <2>3. IF ops[h].write
          THEN content' = [content EXCEPT ![ops[h].sector] = data[b]] /\ data' = data
          ELSE data' = [data EXCEPT ![b] = content[ops[h].sector]] /\ content' = content
    BY <1>7, <2>1, Zenon DEF dev_complete
  <2>4. IF op[b].write
          THEN content' = [content EXCEPT ![op[b].sector] = data[b]] /\ data' = data
          ELSE data' = [data EXCEPT ![b] = content[op[b].sector]] /\ content' = content
    BY <2>1, <2>3, Zenon
  <2>5. /\ info'[h].b = b /\ info'[h].status = 0 /\ \A g \in Idx : g # h => info'[g] = info[g]
    BY <2>0, <2>1, <2>2 DEF IInv, Types
  <2>6. \A g \in Idx : info[g].b = b => g = h
    <3>1. \A f, g \in Idx : IsHead(f) /\ info[f].b = info[g].b => f = g
      BY Zenon DEF IInv, OwnInv
    <3>2. h \in Idx /\ IsHead(h)
      BY <2>1, Zenon
    <3>3. \A g \in Idx : info[h].b = info[g].b => h = g
      BY <3>1, <3>2, Zenon
    <3> QED  BY <2>0, <3>3, Zenon
  <2>7. Progress(b) = "pending"
    BY <2>0, <2>1, Zenon DEF Progress
  <2>8. \A c \in Buf : c # b => Progress(c)' = Progress(c)
    BY <2>0, <2>1, <2>2, <2>5, SameProgress
  <2>9. ~ \E g \in Idx : info'[g].b = b /\ info'[g].status = 255
    BY <2>1, <2>5, <2>6
  <2>10. Progress(b)' = "done"
    <3>1. pc'[b] = "wait"
      BY <2>1, <2>2, Zenon
    <3> QED  BY <3>1, <2>9, Zenon DEF Progress
  <2>11. Io[b] = "pending" /\ Io' = [Io EXCEPT ![b] = "done"]
    BY <2>7, <2>8, <2>10, Zenon DEF Io
  <2> QED  BY <2>2, <2>4, <2>11, Zenon DEF Disk!Perform, Io
<1>8. ASSUME dev_take \/ Interrupt \/ UNCHANGED vars PROVE Stutter
  <2>1. content' = content /\ data' = data /\ op' = op /\ pc' = pc /\ info' = info
    BY <1>8, Zenon DEF dev_take, Interrupt, intr_ack, intr_entry, intr_end, vars, caller, driver
  <2> QED  BY <1>2, <2>1, Zenon
<1> HIDE DEF Stutter
<1>9. ASSUME NEW b \in Buf, \/ \E v \in Value : Disk!Store(b, v)
                            \/ \E w \in BOOLEAN, k \in Block : Disk!Request(b, w, k)
                            \/ Disk!Perform(b) \/ Disk!Return(b)
      PROVE  [Disk!DeviceNext]_(Disk!device)
  BY <1>9, Zenon DEF Disk!DeviceNext
<1>10. ASSUME NEW o \in Op PROVE o.write \in BOOLEAN /\ o.sector \in Block
  BY Zenon DEF Op
<1>11. CASE \E h \in taken : dev_complete(h)
  BY <1>7, <1>9, <1>11, Zenon
<1>12. CASE \E b \in Buf : \E o \in Op : virtio_disk_rw(b, o)
  BY <1>4, <1>9, <1>10, <1>12, Zenon
<1>13. CASE \E b \in Buf : rw_again(b) \/ rw_end(b) \/ \E v \in Value : store(b, v)
  BY <1>1, <1>3, <1>5, <1>6, <1>9, <1>13, Zenon
<1> QED  BY <1>1, <1>8, <1>11, <1>12, <1>13, Zenon DEF Next, Device

-----------------------------------------------------------------------------
\* The theorems

\* The definitions of FiniteSets, to which its operators and those that the
\* theorems of the library are about both come down.
Finite(S) == \E s \in Seq(S) : \A x \in S : \E n \in 1 .. Len(s) : s[n] = x
Number(S) == LET N[T \in SUBSET S] == IF T = {} THEN 0 ELSE 1 + N[T \ {CHOOSE x : x \in T}]
             IN  N[S]

\* What the module says of finite sets ...
LEMMA FiniteHere == \A S : (IsFiniteSet(S) <=> Finite(S)) /\ Cardinality(S) = Number(S)
BY Zenon DEF IsFiniteSet, Finite, Cardinality, Number

LOCAL INSTANCE FiniteSetTheorems

\* ... is what the library says of them.
LEMMA FiniteThere == \A S : (IsFiniteSet(S) <=> Finite(S)) /\ Cardinality(S) = Number(S)
BY Zenon DEF IsFiniteSet, Finite, Cardinality, Number

\* The facts that the proofs use of finite sets and of natural numbers hold.
LEMMA FactsHold == Facts
<1>1. EmptyFact
  BY FS_EmptySet, FiniteHere, FiniteThere, Zenon DEF EmptyFact
<1>2. CountFact
  <2>1. \A S : IsFiniteSet(S) => Cardinality(S) \in Nat /\ (Cardinality(S) = 0 => S = {})
    BY FS_EmptySet, FS_CardinalityType, Zenon
  <2> QED  BY <2>1, FiniteHere, FiniteThere, Zenon DEF CountFact
<1>3. SubsetFact
  BY FS_Subset, FiniteHere, FiniteThere, Zenon DEF SubsetFact
<1>4. RemoveFact
  BY FS_RemoveElement, FiniteHere, FiniteThere, Zenon DEF RemoveFact
<1>5. IntervalFact
  <2>1. \A n \in Nat : IsFiniteSet(0 .. n - 1) /\ Cardinality(0 .. n - 1) = n
    BY FS_Interval
  <2> QED  BY <2>1, FiniteHere, FiniteThere, Zenon DEF IntervalFact
<1>6. InjectionFact
  <2>1. ASSUME NEW S, NEW T, NEW f \in [S -> T], \A x, y \in S : f[x] = f[y] => x = y
        PROVE  f \in Injection(S, T)
    BY <2>1, Zenon DEF Injection, IsInjective
  <2> QED  BY <2>1, FS_Injection, FiniteHere, FiniteThere, Zenon DEF InjectionFact
<1>7. LeastFact
  <2> SUFFICES ASSUME NEW S \in SUBSET Nat, S # {} PROVE \E x \in S : \A y \in S : x <= y
    BY Zenon DEF LeastFact
  <2>1. PICK x \in S : \A y \in S : ~(<<y, x>> \in OpToRel(<, Nat))
    BY WFMin, NatLessThanWellFounded, Zenon
  <2>2. \A y \in S : ~(y < x)
    BY <2>1, Zenon DEF OpToRel
  <2> QED  BY <2>2
<1> QED  BY <1>1, <1>2, <1>3, <1>4, <1>5, <1>6, <1>7, Zenon DEF Facts

\* The invariant holds throughout, whatever the order in which callers of
\* virtio_disk_rw(), the device and virtio_disk_intr() act.
THEOREM Invariant == Spec => []IInv
<1>1. Init => IInv
  BY FactsHold, InitIInv, Zenon
<1>2. IInv /\ [Next]_vars => IInv'
  BY FactsHold, NextIInv, Zenon
<1> QED  BY <1>1, <1>2, PTL DEF Spec

\* The avail ring, the device and the used ring hold every request of
\* virtio_disk_rw() once, and the descriptors are either free or in the chain
\* of one request: free_desc() never frees one twice, and none is lost.
THEOREM QueueCorrect == Spec => []QueueSound
<1>1. IInv => QueueSound
  BY QueueIsSound, Zenon
<1> QED  BY <1>1, Invariant, PTL

\* Nobody misses a wakeup: neither a caller of virtio_disk_rw() whose request
\* virtio_disk_intr() has seen, nor one that three free descriptors would let
\* go on; and what is in the used ring has an interrupt or the handler coming.
THEOREM NoMissedWakeup == Spec => []NothingIsMissed
<1>1. IInv => NothingIsMissed
  BY Zenon DEF IInv, SleepInv, Signalled, NothingIsMissed
<1> QED  BY <1>1, Invariant, PTL

\* The driver and the device implement BlockDevice, on which the buffer cache
\* builds: each request of virtio_disk_rw() is carried out once, between its
\* call and its return, on its own block and buffer.
THEOREM DriverRefines == Spec => IsBlockDevice
<1>1. Init => Disk!DeviceInit
  <2>1. ASSUME Init PROVE Io = [b \in Buf |-> "none"]
    BY <2>1, Zenon DEF Init, Io, Progress
  <2> QED  BY <2>1, Zenon DEF Init, Disk!DeviceInit, Disk!NoOp, NoOp, Io
<1>2. IInv /\ [Next]_vars => [Disk!DeviceNext]_(Disk!device)
  BY FactsHold, StepRefined, Zenon
<1> QED  BY <1>1, <1>2, Invariant, PTL DEF Spec, IsBlockDevice, Disk!DeviceSpec

==============================================================================
