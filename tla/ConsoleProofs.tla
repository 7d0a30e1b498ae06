--------------------------- MODULE ConsoleProofs ----------------------------
(***************************************************************************)
(* Proofs about Console, for any readers and writers and any sizes of the  *)
(* rings: no byte of a write() is lost, doubled, reordered or sent into a  *)
(* full FIFO, no reader sleeps beside complete input, and consoleread()    *)
(* with consoleintr() implements Terminal, wherever the indices wrap.      *)
(***************************************************************************)
EXTENDS Console, TLAPS

Char == Plain \union {NL, EOF}
Typable == Char \union {BS, KILL, INTR}
Byte == Writer \X (0..(WriteSize - 1))
Token == Byte \union {ECHO}

\* The types of the variables, without the Boolean ones.
InputTypes ==
    /\ cons \in [buf : [0..(INPUT_BUF_SIZE - 1) -> Char \union {NoChar}],
                 r : 0..(UINT - 1), w : 0..(UINT - 1), e : 0..(UINT - 1)]
    /\ rx \in Seq(Typable)
    /\ irq \in [pc : {"none", "getc", "echo", "echo_write", "send", "again"},
                c : Char \union {BS, KILL, NoChar}]
    /\ rd \in [Reader -> [pc : {"user", "sleep", "woken"}, n : Nat]]
    /\ got \in [Reader -> Seq(Char \union {NoChar})]
OutputTypes ==
    /\ tx \in [buf : [0..(UART_TX_BUF_SIZE - 1) -> Byte \union {NoChar}], r : Nat, w : Nat]
    /\ tx_lock \in Writer \union {handler, NoChar}
    /\ fifo \in Seq(Token) /\ wire \in Seq(Byte)
    /\ wr \in [Writer -> [pc : {"user", "putc", "sleep", "woken", "send", "again", "done"},
                          i : 0..WriteSize]]

\* The k entries of a ring of n from number a on: numbers go on, places wrap.
Mod(x, n) == x % n
Part(buf, n, a, k) == [i \in 1..k |-> buf[Mod(a + i - 1, n)]]
Write(buf, n, j, x) == [buf EXCEPT ![Mod(j, n)] = x]
IsRing(S, n, buf) == n \in Nat \ {0} /\ buf \in [0..(n - 1) -> S]
IsPart(S, n, buf, a, k, f) ==
    f \in Seq(S) /\ Len(f) = k /\ \A i \in 1..k : f[i] = buf[Mod(a + i - 1, n)]

\* t is s with x put in at place k.
Inserted(s, t, k, x) ==
    /\ Len(t) = Len(s) + 1 /\ k \in 1..Len(t) /\ t[k] = x
    /\ \A i \in 1..Len(s) : s[i] = IF i < k THEN t[i] ELSE t[i + 1]

\* How far it is from index a to b
Dist(a, b) == (b - a) % UINT

\* The indices are in order and at most INPUT_BUF_SIZE apart.
RingInv == Dist(cons.r, cons.w) + Dist(cons.w, cons.e) <= INPUT_BUF_SIZE

\* While the handler echoes it holds cons.lock, and there still is room for the
\* character that it will store.
EchoInv ==
    irq.pc \in {"echo", "echo_write"} =>
        /\ cons_lock
        /\ irq.c \in Char \union {BS, KILL}
        /\ irq.c \notin {BS, KILL} =>
             Dist(cons.r, cons.w) + Dist(cons.w, cons.e) < INPUT_BUF_SIZE

\* A read goes on only if what it has got does not end a line.
LineInv == \A p \in Reader : rd[p].pc # "user" /\ got[p] # <<>> => got[p][Len(got[p])] # NL

\* uart_tx_lock is held by whoever is in uartstart(), who goes on to send only
\* if there is something; a writer that is not done has bytes left.
LockInv ==
    /\ tx.w - tx.r \in 0..UART_TX_BUF_SIZE
    /\ \A p \in Writer : tx_lock = p <=> wr[p].pc \in {"send", "again"}
    /\ tx_lock = handler <=> irq.pc \in {"send", "again"}
    /\ \A p \in Writer : wr[p].pc # "done" => wr[p].i < WriteSize
    /\ irq.pc = "send" => tx.r # tx.w
    /\ \A p \in Writer : wr[p].pc = "send" => tx.r # tx.w

\* Who has found the FIFO empty has a place in it: one in uartstart(), and the
\* handler in uartputc_sync().
Sending == irq.pc = "send" \/ \E p \in Writer : wr[p].pc = "send"
FifoInv ==
    /\ Len(fifo) <= 2
    /\ Sending \/ irq.pc = "echo_write" => Len(fifo) <= 1
    /\ Sending /\ irq.pc = "echo_write" => Len(fifo) = 0

\* The bytes that are out, or on their way, are each writer's in order.
Ring == Part(tx.buf, UART_TX_BUF_SIZE, tx.r, tx.w - tx.r)
Put == [p \in Writer |-> put_by(p)]
Whole(s, n) ==
    /\ \A p \in Writer : \A b \in 0..(n[p] - 1) :
          \E i \in 1..Len(s) : s[i] # ECHO /\ s[i][1] = p /\ s[i][2] = b
    /\ \A i \in 1..Len(s) : s[i] # ECHO => s[i][2] < n[s[i][1]]
InOrder(s) == \A i, j \in 1..Len(s) :
    i < j /\ s[i] # ECHO /\ s[j] # ECHO /\ s[i][1] = s[j][1] => s[i][2] < s[j][2]
Cat(a, b, c) == a \o b \o c
Good(a, b, c, n) ==
    /\ a \in Seq(Byte) /\ b \in Seq(Token) /\ c \in Seq(Byte)
    /\ Whole(Cat(a, b, c), n) /\ InOrder(Cat(a, b, c))
OutInv == Good(wire, fifo, Ring, Put)

InputInv ==
    InputTypes /\ cons_lock \in BOOLEAN /\ RingInv /\ EchoInv /\ LineInv /\ ReaderMustWait
OutputInv == OutputTypes /\ LockInv /\ FifoInv /\ OutInv
IInv == InputInv /\ OutputInv

-----------------------------------------------------------------------------
\* Arithmetic of the indices.

\* Quotient and remainder.
LEMMA DivMod ==
    ASSUME NEW x \in Int, NEW n \in Nat \ {0}
    PROVE  x \div n \in Int /\ x % n \in 0..(n - 1) /\ x = n * (x \div n) + (x % n)
OBVIOUS

\* A remainder is known by any division that leaves it.
LEMMA ModUnique ==
    ASSUME NEW x \in Int, NEW n \in Nat \ {0}, NEW q \in Int, NEW r \in 0..(n - 1),
           x = n * q + r
    PROVE  x % n = r
OBVIOUS

\* Multiples of n do not change a remainder.
LEMMA ModShift ==
    ASSUME NEW x \in Int, NEW k \in Int, NEW n \in Nat \ {0}
    PROVE  (x + n * k) % n = x % n
<1>1. PICK q \in Int, r \in 0..(n - 1) : x = n * q + r
  BY DivMod, Zenon
<1>2. x + n * k = n * (q + k) + r /\ q + k \in Int
  BY <1>1
<1>3. (x + n * k) % n = r
  BY <1>1, <1>2, ModUnique
<1>4. x % n = r
  BY <1>1, ModUnique
<1> QED
  BY <1>3, <1>4

\* Fewer than n apart, two numbers have different places in a ring of n.
LEMMA ModApart ==
    ASSUME NEW x \in Int, NEW y \in Int, NEW n \in Nat \ {0}, x < y, y < x + n
    PROVE  x % n # y % n
<1>1. PICK q \in Int, r \in 0..(n - 1) : x = n * q + r
  BY DivMod, Zenon
<1>2. PICK p \in Int, s \in 0..(n - 1) : y = n * p + s
  BY DivMod, Zenon
<1>3. ASSUME r = s PROVE FALSE
  <2>1. y - x = n * (p - q)
    BY <1>1, <1>2, <1>3
  <2>2. CASE p - q <= 0
    <3>1. n * (p - q) <= 0
      BY <2>2
    <3> QED
      BY <2>1, <3>1
  <2>3. CASE p - q >= 1
    <3>1. n * (p - q) >= n
      BY <2>3
    <3> QED
      BY <2>1, <3>1
  <2> QED
    BY <2>2, <2>3
<1>4. x % n = r /\ y % n = s
  BY <1>1, <1>2, ModUnique
<1> QED
  BY <1>3, <1>4

\* The sizes, and that the input ring divides the range of its indices.
LEMMA Sizes ==
    /\ INPUT_BUF_SIZE \in Nat \ {0} /\ UART_TX_BUF_SIZE \in Nat \ {0} /\ UINT \in Nat \ {0}
    /\ UINT > INPUT_BUF_SIZE /\ WriteSize \in Nat \ {0}
    /\ \E q \in Int : UINT = INPUT_BUF_SIZE * q
<1>1. UINT \in Int /\ INPUT_BUF_SIZE \in Nat \ {0} /\ UINT % INPUT_BUF_SIZE = 0
  BY ConsoleAssumption
<1>2. /\ UINT \div INPUT_BUF_SIZE \in Int
      /\ UINT = INPUT_BUF_SIZE * (UINT \div INPUT_BUF_SIZE) + (UINT % INPUT_BUF_SIZE)
  BY <1>1, DivMod
<1>3. PICK q \in Int : q = UINT \div INPUT_BUF_SIZE
  BY <1>2
<1>4. UINT = INPUT_BUF_SIZE * q + 0
  BY <1>1, <1>2, <1>3, Zenon
<1>5. UINT = INPUT_BUF_SIZE * q
  BY <1>1, <1>4
<1> QED
  BY <1>5, ConsoleAssumption

\* An index that passes the end of a uint starts again.
LEMMA Wrap ==
    ASSUME NEW x \in Int, 0 <= x + UINT, x < UINT + UINT
    PROVE  x % UINT = IF x < 0 THEN x + UINT ELSE IF x < UINT THEN x ELSE x - UINT
<1>1. CASE x < 0
  <2>1. x = UINT * (-1) + (x + UINT) /\ x + UINT \in 0..(UINT - 1)
    BY <1>1, Sizes
  <2> QED
    BY <1>1, <2>1, Sizes, ModUnique
<1>2. CASE 0 <= x /\ x < UINT
  <2>1. x = UINT * 0 + x /\ x \in 0..(UINT - 1)
    BY <1>2, Sizes
  <2> QED
    BY <1>2, <2>1, Sizes, ModUnique
<1>3. CASE x >= UINT
  <2>1. x = UINT * 1 + (x - UINT) /\ x - UINT \in 0..(UINT - 1)
    BY <1>3, Sizes
  <2> QED
    BY <1>3, <2>1, Sizes, ModUnique
<1> QED
  BY <1>1, <1>2, <1>3, Sizes

\* How far two indices are apart.
LEMMA DistIs ==
    ASSUME NEW a \in 0..(UINT - 1), NEW b \in 0..(UINT - 1)
    PROVE  /\ Dist(a, b) = IF b < a THEN b - a + UINT ELSE b - a
           /\ Dist(a, b) \in 0..(UINT - 1)
           /\ a = b <=> Dist(a, b) = 0
           /\ add(b, -a) = Dist(a, b)
<1>1. PICK x \in Int : x = b - a
  BY Sizes
<1>2. 0 <= x + UINT /\ x < UINT + UINT
  BY <1>1, Sizes
<1>0. x % UINT = IF x < 0 THEN x + UINT ELSE IF x < UINT THEN x ELSE x - UINT
  BY <1>2, Wrap, Zenon
<1>3. Dist(a, b) = x % UINT
  BY <1>1 DEF Dist
<1>4. b + (-a) = x
  BY <1>1, Sizes
<1>5. add(b, -a) = x % UINT
  BY <1>4 DEF add
<1> QED
  BY <1>0, <1>1, <1>2, <1>3, <1>5, Sizes

\* An index moved on by m.
LEMMA AddIs ==
    ASSUME NEW a \in 0..(UINT - 1), NEW m \in 0..UINT
    PROVE  /\ add(a, m) = IF a + m < UINT THEN a + m ELSE a + m - UINT
           /\ add(a, m) \in 0..(UINT - 1)
<1>1. PICK x \in Int : x = a + m
  BY Sizes
<1>2. 0 <= x + UINT /\ x < UINT + UINT
  BY <1>1, Sizes
<1>0. x % UINT = IF x < 0 THEN x + UINT ELSE IF x < UINT THEN x ELSE x - UINT
  BY <1>2, Wrap, Zenon
<1>3. add(a, m) = x % UINT
  BY <1>1 DEF add
<1> QED
  BY <1>0, <1>1, <1>2, <1>3, Sizes

\* An index moved back by one.
LEMMA BackIs ==
    ASSUME NEW a \in 0..(UINT - 1)
    PROVE  /\ add(a, -1) = IF a = 0 THEN UINT - 1 ELSE a - 1
           /\ add(a, -1) \in 0..(UINT - 1)
<1>1. PICK x \in Int : x = a + (-1)
  BY Sizes
<1>2. 0 <= x + UINT /\ x < UINT + UINT
  BY <1>1, Sizes
<1>0. x % UINT = IF x < 0 THEN x + UINT ELSE IF x < UINT THEN x ELSE x - UINT
  BY <1>2, Wrap, Zenon
<1>3. add(a, -1) = x % UINT
  BY <1>1 DEF add
<1> QED
  BY <1>0, <1>1, <1>2, <1>3, Sizes

\* The place of an index in the ring is the same before and after it wraps.
LEMMA Place ==
    ASSUME NEW x \in Int, NEW y \in Int, x = y \/ x = y + UINT
    PROVE  x % INPUT_BUF_SIZE = y % INPUT_BUF_SIZE
<1>1. PICK q \in Int : UINT = INPUT_BUF_SIZE * q
  BY Sizes
<1>2. (y + INPUT_BUF_SIZE * q) % INPUT_BUF_SIZE = y % INPUT_BUF_SIZE
  BY Sizes, ModShift, Zenon
<1> QED
  BY <1>1, <1>2

\* The place of the i-th entry from index a on.
LEMMA PlaceOf ==
    ASSUME NEW a \in 0..(UINT - 1), NEW i \in 0..UINT
    PROVE  /\ ((a + i) % UINT) % INPUT_BUF_SIZE = (a + i) % INPUT_BUF_SIZE
           /\ (a + i) % INPUT_BUF_SIZE \in 0..(INPUT_BUF_SIZE - 1)
<1>1. PICK x \in Int : x = a + i
  BY Sizes
<1>2. PICK y \in Int : y = x % UINT
  BY <1>1, Sizes
<1>3. x = y \/ x = y + UINT
  <2>1. add(a, i) = IF a + i < UINT THEN a + i ELSE a + i - UINT
    BY AddIs
  <2>2. y = add(a, i)
    BY <1>1, <1>2 DEF add
  <2> QED
    BY <1>1, <2>1, <2>2, Sizes
<1>4. x % INPUT_BUF_SIZE = y % INPUT_BUF_SIZE
  BY <1>3, Place
<1>5. x % INPUT_BUF_SIZE \in 0..(INPUT_BUF_SIZE - 1)
  BY Sizes, DivMod
<1> QED
  BY <1>1, <1>2, <1>4, <1>5

-----------------------------------------------------------------------------
\* Sequences.

\* A function on 1..n is a sequence of length n.
LEMMA Listed ==
    ASSUME NEW S, NEW n \in Nat, NEW f, f = [i \in 1..n |-> f[i]], \A i \in 1..n : f[i] \in S
    PROVE  f \in Seq(S) /\ Len(f) = n
OBVIOUS

\* Sequences with the same elements at the same places are equal.
LEMMA Equal ==
    ASSUME NEW S, NEW s \in Seq(S), NEW t \in Seq(S), Len(s) = Len(t),
           \A i \in 1..Len(s) : s[i] = t[i]
    PROVE  s = t
OBVIOUS

\* One sequence after the other.
LEMMA Joins ==
    ASSUME NEW S, NEW s \in Seq(S), NEW t \in Seq(S)
    PROVE  /\ s \o t \in Seq(S) /\ Len(s \o t) = Len(s) + Len(t)
           /\ \A i \in 1..(Len(s) + Len(t)) :
                 (s \o t)[i] = IF i <= Len(s) THEN s[i] ELSE t[i - Len(s)]
OBVIOUS

\* An element put at the end.
LEMMA Appends ==
    ASSUME NEW S, NEW s \in Seq(S), NEW x \in S
    PROVE  /\ Append(s, x) \in Seq(S) /\ Len(Append(s, x)) = Len(s) + 1
           /\ \A i \in 1..Len(s) : Append(s, x)[i] = s[i]
           /\ Append(s, x)[Len(s) + 1] = x
OBVIOUS

\* The first element taken away.
LEMMA Tails ==
    ASSUME NEW S, NEW s \in Seq(S), s # <<>>
    PROVE  /\ Tail(s) \in Seq(S) /\ Len(Tail(s)) = Len(s) - 1 /\ Len(s) >= 1
           /\ Head(s) = s[1] /\ Head(s) \in S
           /\ \A i \in 1..(Len(s) - 1) : Tail(s)[i] = s[i + 1]
OBVIOUS

\* A sequence of bytes is one of bytes and echoes.
LEMMA Bytes ==
    ASSUME NEW s \in Seq(Byte)
    PROVE  s \in Seq(Token)
BY DEF Token

-----------------------------------------------------------------------------
\* Three sequences after one another: what left the UART, what is in it, and
\* what is in uart_tx_buf.

\* What is left of a sequence without its first entry.
LEMMA IsTail ==
    ASSUME NEW S, NEW c \in Seq(S), NEW e \in Seq(S),
           Len(c) = Len(e) + 1, \A i \in 1..Len(e) : e[i] = c[i + 1]
    PROVE  e = Tail(c) /\ c # <<>>
OBVIOUS

\* What a sequence is with one more entry.
LEMMA IsAppend ==
    ASSUME NEW S, NEW c \in Seq(S), NEW e \in Seq(S), NEW x \in S,
           Len(e) = Len(c) + 1, \A i \in 1..Len(c) : e[i] = c[i], e[Len(c) + 1] = x
    PROVE  e = Append(c, x)
OBVIOUS

\* They are a sequence.
LEMMA Cats ==
    ASSUME NEW S, NEW a \in Seq(S), NEW b \in Seq(S), NEW c \in Seq(S)
    PROVE  Cat(a, b, c) \in Seq(S)
BY DEF Cat

\* A byte goes from the last to the second ...
LEMMA Shift ==
    ASSUME NEW S, NEW a \in Seq(S), NEW b \in Seq(S), NEW c \in Seq(S), c # <<>>
    PROVE  Cat(a, Append(b, Head(c)), Tail(c)) = Cat(a, b, c)
<1>1. Len(a \o Append(b, c[1]) \o Tail(c)) = Len(a \o b \o c)
  OBVIOUS
<1>2. ASSUME NEW i \in 1..Len(a \o b \o c)
      PROVE  (a \o Append(b, c[1]) \o Tail(c))[i] = (a \o b \o c)[i]
  OBVIOUS
<1>3. a \o Append(b, c[1]) \o Tail(c) \in Seq(S) /\ a \o b \o c \in Seq(S)
  OBVIOUS
<1>4. Head(c) = c[1]
  OBVIOUS
<1> QED
  BY <1>1, <1>2, <1>3, <1>4, Equal, Zenon DEF Cat

\* ... and from there to the first.
LEMMA ShiftOut ==
    ASSUME NEW S, NEW a \in Seq(S), NEW b \in Seq(S), NEW c \in Seq(S), b # <<>>
    PROVE  Cat(Append(a, Head(b)), Tail(b), c) = Cat(a, b, c)
<1>1. Len(Append(a, b[1]) \o Tail(b) \o c) = Len(a \o b \o c)
  OBVIOUS
<1>2. ASSUME NEW i \in 1..Len(a \o b \o c)
      PROVE  (Append(a, b[1]) \o Tail(b) \o c)[i] = (a \o b \o c)[i]
  OBVIOUS
<1>3. Append(a, b[1]) \o Tail(b) \o c \in Seq(S) /\ a \o b \o c \in Seq(S)
  OBVIOUS
<1>4. Head(b) = b[1]
  OBVIOUS
<1> QED
  BY <1>1, <1>2, <1>3, <1>4, Equal, Zenon DEF Cat

\* A byte is put at the end, ...
LEMMA PutEnd ==
    ASSUME NEW S, NEW a \in Seq(S), NEW b \in Seq(S), NEW c \in Seq(S), NEW x \in S
    PROVE  Inserted(Cat(a, b, c), Cat(a, b, Append(c, x)), Len(Cat(a, b, c)) + 1, x)
BY DEF Inserted, Cat

\* ... put in at the end of the second ...
LEMMA PutIn ==
    ASSUME NEW S, NEW a \in Seq(S), NEW b \in Seq(S), NEW c \in Seq(S), NEW x \in S
    PROVE  Inserted(Cat(a, b, c), Cat(a, Append(b, x), c), Len(a) + Len(b) + 1, x)
BY DEF Inserted, Cat

\* ... or taken out at its beginning.
LEMMA TakeOut ==
    ASSUME NEW S, NEW a \in Seq(S), NEW b \in Seq(S), NEW c \in Seq(S), b # <<>>
    PROVE  Inserted(Cat(a, Tail(b), c), Cat(a, b, c), Len(a) + 1, Head(b))
BY DEF Inserted, Cat

-----------------------------------------------------------------------------
\* Parts of a ring.

\* Fewer than n entries are at different places.
LEMMA ModIs ==
    ASSUME NEW n \in Nat \ {0}
    PROVE  /\ \A x \in Int : Mod(x, n) \in 0..(n - 1)
           /\ \A x, y \in Int : x < y /\ y < x + n => Mod(x, n) # Mod(y, n)
<1>1. ASSUME NEW x \in Int PROVE Mod(x, n) \in 0..(n - 1)
  BY DivMod, Zenon DEF Mod
<1>2. ASSUME NEW x \in Int, NEW y \in Int, x < y, y < x + n PROVE Mod(x, n) # Mod(y, n)
  BY <1>2, ModApart, Zenon DEF Mod
<1> QED
  BY <1>1, <1>2, Zenon

\* A part is a sequence of the entries.
LEMMA PartIs ==
    ASSUME NEW S, NEW n, NEW buf, IsRing(S, n, buf), NEW a \in Int, NEW k \in Nat
    PROVE  IsPart(S, n, buf, a, k, Part(buf, n, a, k))
<1> DEFINE f == Part(buf, n, a, k)
<1>0. n \in Nat \ {0} /\ buf \in [0..(n - 1) -> S]
  BY Zenon DEF IsRing
<1>1. \A i \in 1..k : a + i - 1 \in Int
  OBVIOUS
<1>2. \A i \in 1..k : f[i] = buf[Mod(a + i - 1, n)]
  BY Zenon DEF Part
<1>3. \A i \in 1..k : f[i] \in S
  BY <1>0, <1>1, <1>2, ModIs, Zenon
<1>4. f = [i \in 1..k |-> f[i]]
  BY Zenon DEF Part
<1> HIDE DEF f
<1>5. f \in Seq(S) /\ Len(f) = k
  BY <1>3, <1>4, Listed, Zenon
<1> QED
  BY <1>2, <1>5, Zenon DEF f, IsPart

\* A sequence with the entries is the part.
LEMMA ThePart ==
    ASSUME NEW S, NEW n, NEW buf, IsRing(S, n, buf), NEW a \in Int, NEW k \in Nat,
           NEW f, IsPart(S, n, buf, a, k, f)
    PROVE  f = Part(buf, n, a, k)
<1>1. IsPart(S, n, buf, a, k, Part(buf, n, a, k))
  BY PartIs, Zenon
<1> DEFINE g == Part(buf, n, a, k)
<1> HIDE DEF g
<1>2. f \in Seq(S) /\ g \in Seq(S) /\ Len(f) = Len(g) /\ \A i \in 1..Len(f) : f[i] = g[i]
  BY <1>1, Zenon DEF IsPart, g
<1>3. f = g
  BY <1>2, Equal, Zenon
<1> QED
  BY <1>3, Zenon DEF g

Spared(S, n, buf, a, k, j, x) ==
    /\ IsRing(S, n, Write(buf, n, j, x))
    /\ Part(Write(buf, n, j, x), n, a, k) = Part(buf, n, a, k)

\* An entry elsewhere does not matter.
LEMMA PartSame ==
    ASSUME NEW S, NEW n, NEW buf, IsRing(S, n, buf), NEW a \in Int, NEW k \in Nat,
           NEW j \in Int, a + k <= j, j < a + n, NEW x \in S
    PROVE  Spared(S, n, buf, a, k, j, x)
<1> DEFINE u == Write(buf, n, j, x)
<1>0. n \in Nat \ {0} /\ buf \in [0..(n - 1) -> S]
  BY Zenon DEF IsRing
<1>1. IsRing(S, n, u)
  BY <1>0, Zenon DEF IsRing, Write
<1>2. ASSUME NEW i \in 1..k PROVE u[Mod(a + i - 1, n)] = buf[Mod(a + i - 1, n)]
  <2>1. a + i - 1 \in Int /\ a + i - 1 < j /\ j < a + i - 1 + n
    BY <1>0
  <2>2. Mod(a + i - 1, n) # Mod(j, n) /\ Mod(a + i - 1, n) \in 0..(n - 1)
    BY <1>0, <2>1, ModIs, Zenon
  <2> QED
    BY <1>0, <2>2, Zenon DEF Write
<1> HIDE DEF u
<1>3. IsPart(S, n, buf, a, k, Part(buf, n, a, k))
  BY PartIs, Zenon
<1>4. IsPart(S, n, u, a, k, Part(buf, n, a, k))
  BY <1>2, <1>3, Zenon DEF IsPart
<1>5. Part(buf, n, a, k) = Part(u, n, a, k)
  BY <1>1, <1>4, ThePart, SMT
<1> QED
  BY <1>1, <1>5, Zenon DEF u, Spared

\* One entry more.
LEMMA PartMore ==
    ASSUME NEW S, NEW n, NEW buf, IsRing(S, n, buf), NEW a \in Int, NEW k \in Nat
    PROVE  Part(buf, n, a, k + 1) = Append(Part(buf, n, a, k), buf[Mod(a + k, n)])
<1>1. IsPart(S, n, buf, a, k, Part(buf, n, a, k))
  BY PartIs, Zenon
<1>2. k + 1 \in Nat /\ a + k \in Int
  OBVIOUS
<1>3. IsPart(S, n, buf, a, k + 1, Part(buf, n, a, k + 1))
  BY <1>2, PartIs, Zenon
<1>4. k + 1 \in 1..(k + 1) /\ a + (k + 1) - 1 = a + k /\ \A i \in 1..k : i \in 1..(k + 1)
  OBVIOUS
<1>5. buf[Mod(a + k, n)] \in S
  BY <1>2, ModIs, Zenon DEF IsRing
<1> DEFINE f == Part(buf, n, a, k)
           g == Part(buf, n, a, k + 1)
           x == buf[Mod(a + k, n)]
<1> HIDE DEF f, g, x
<1>6. g[k + 1] = x /\ \A i \in 1..k : g[i] = f[i]
  BY <1>1, <1>3, <1>4, Zenon DEF IsPart, f, g, x
<1>7. f \in Seq(S) /\ g \in Seq(S) /\ Len(f) = k /\ Len(g) = k + 1 /\ x \in S
  BY <1>1, <1>3, <1>5, Zenon DEF IsPart, f, g, x
<1>8. g = Append(f, x)
  BY <1>6, <1>7, IsAppend
<1> QED
  BY <1>8, Zenon DEF f, g, x

\* One entry put in at the end of a part.
LEMMA PartPut ==
    ASSUME NEW S, NEW n, NEW buf, IsRing(S, n, buf), NEW a \in Int, NEW k \in Nat, k < n,
           NEW x \in S
    PROVE  /\ IsRing(S, n, Write(buf, n, a + k, x))
           /\ Part(Write(buf, n, a + k, x), n, a, k + 1) = Append(Part(buf, n, a, k), x)
<1> DEFINE u == Write(buf, n, a + k, x)
<1>0. n \in Nat \ {0} /\ buf \in [0..(n - 1) -> S]
  BY Zenon DEF IsRing
<1>1. a + k \in Int /\ a + k <= a + k /\ a + k < a + n
  BY <1>0
<1>2. u[Mod(a + k, n)] = x
  BY <1>0, <1>1, ModIs, Zenon DEF Write
<1>3. IsRing(S, n, u) /\ Part(u, n, a, k) = Part(buf, n, a, k)
  <2>1. Spared(S, n, buf, a, k, a + k, x)
    BY <1>1, PartSame, Zenon
  <2> QED
    BY <2>1, Zenon DEF Spared
<1> HIDE DEF u
<1>4. Part(u, n, a, k + 1) = Append(Part(u, n, a, k), u[Mod(a + k, n)])
  BY <1>3, PartMore, Zenon
<1> QED
  BY <1>2, <1>3, <1>4, Zenon DEF u

\* A part without its first m entries, and its first m entries.
Cut(n, buf, a, k, m) ==
    /\ Part(buf, n, a + m, k - m) = SubSeq(Part(buf, n, a, k), m + 1, k)
    /\ Part(buf, n, a, m) = SubSeq(Part(buf, n, a, k), 1, m)

\* They are parts, too.
LEMMA PartCut ==
    ASSUME NEW S, NEW n, NEW buf, IsRing(S, n, buf), NEW a \in Int, NEW k \in Nat, NEW m \in 0..k
    PROVE  Cut(n, buf, a, k, m)
<1>0. m \in Nat /\ k - m \in Nat /\ a + m \in Int
  OBVIOUS
<1>1. IsPart(S, n, buf, a, k, Part(buf, n, a, k))
  BY PartIs, Zenon
<1>2. PICK f \in Seq(S) : f = Part(buf, n, a, k)
  BY <1>1, Zenon DEF IsPart
<1>3. Len(f) = k /\ \A i \in 1..k : f[i] = buf[Mod(a + i - 1, n)]
  BY <1>1, <1>2, Zenon DEF IsPart
<1>4. /\ SubSeq(f, m + 1, k) \in Seq(S) /\ Len(SubSeq(f, m + 1, k)) = k - m
      /\ \A i \in 1..(k - m) : SubSeq(f, m + 1, k)[i] = f[m + i]
  <2>1. Len(f) = k
    BY <1>3
  <2> QED
    BY <2>1
<1>5. /\ SubSeq(f, 1, m) \in Seq(S) /\ Len(SubSeq(f, 1, m)) = m
      /\ \A i \in 1..m : SubSeq(f, 1, m)[i] = f[i]
  <2>1. Len(f) = k
    BY <1>3
  <2> QED
    BY <2>1
<1>6. ASSUME NEW i \in 1..(k - m) PROVE m + i \in 1..k /\ a + m + i - 1 = a + (m + i) - 1
  OBVIOUS
<1>7. ASSUME NEW i \in 1..m PROVE i \in 1..k
  OBVIOUS
<1>8. IsPart(S, n, buf, a + m, k - m, SubSeq(f, m + 1, k))
  BY <1>3, <1>4, <1>6, Zenon DEF IsPart
<1>9. IsPart(S, n, buf, a, m, SubSeq(f, 1, m))
  BY <1>3, <1>5, <1>7, Zenon DEF IsPart
<1> DEFINE g == SubSeq(f, m + 1, k)
           h == SubSeq(f, 1, m)
           b == a + m
           j == k - m
<1> HIDE DEF g, h, b, j
<1>10. /\ IsPart(S, n, buf, b, j, g) /\ b \in Int /\ j \in Nat
       /\ IsPart(S, n, buf, a, m, h) /\ m \in Nat
  BY <1>0, <1>8, <1>9, Zenon DEF g, h, b, j
<1>11. g = Part(buf, n, b, j)
  BY <1>10, ThePart, SMT
<1>12. h = Part(buf, n, a, m)
  BY <1>10, ThePart, SMT
<1> QED
  BY <1>2, <1>11, <1>12, Zenon DEF g, h, b, j, Cut

\* Two parts that follow each other.
Joint(n, buf, a, k, m) ==
    Part(buf, n, a, k + m) = Part(buf, n, a, k) \o Part(buf, n, a + k, m)

\* They are one.
LEMMA PartJoin ==
    ASSUME NEW S, NEW n, NEW buf, IsRing(S, n, buf), NEW a \in Int, NEW k \in Nat, NEW m \in Nat
    PROVE  Joint(n, buf, a, k, m)
<1>0. k + m \in Nat /\ a + k \in Int
  OBVIOUS
<1>1. /\ IsPart(S, n, buf, a, k, Part(buf, n, a, k))
      /\ IsPart(S, n, buf, a + k, m, Part(buf, n, a + k, m))
  BY <1>0, PartIs, Zenon
<1>2. PICK f \in Seq(S), g \in Seq(S) : f = Part(buf, n, a, k) /\ g = Part(buf, n, a + k, m)
  BY <1>1, Zenon DEF IsPart
<1>3. /\ Len(f) = k /\ \A i \in 1..k : f[i] = buf[Mod(a + i - 1, n)]
      /\ Len(g) = m /\ \A i \in 1..m : g[i] = buf[Mod(a + k + i - 1, n)]
  BY <1>1, <1>2, Zenon DEF IsPart
<1>4. /\ f \o g \in Seq(S) /\ Len(f \o g) = Len(f) + Len(g)
      /\ \A i \in 1..(Len(f) + Len(g)) :
           (f \o g)[i] = IF i <= Len(f) THEN f[i] ELSE g[i - Len(f)]
  BY Joins, Zenon
<1>5. ASSUME NEW i \in 1..(k + m) PROVE (f \o g)[i] = buf[Mod(a + i - 1, n)]
  <2>1. (f \o g)[i] = IF i <= k THEN f[i] ELSE g[i - k]
    BY <1>3, <1>4, Zenon
  <2>2. CASE i <= k
    <3>1. i \in 1..k
      BY <2>2
    <3> QED
      BY <1>3, <2>1, <2>2, <3>1, Zenon
  <2>3. CASE ~(i <= k)
    <3>1. i - k \in 1..m /\ a + k + (i - k) - 1 = a + i - 1
      BY <2>3
    <3> QED
      BY <1>3, <2>1, <2>3, <3>1, Zenon
  <2> QED
    BY <2>2, <2>3, Zenon
<1>6. IsPart(S, n, buf, a, k + m, f \o g)
  BY <1>3, <1>4, <1>5, Zenon DEF IsPart
<1> DEFINE h == f \o g
           j == k + m
<1> HIDE DEF h, j
<1>7. IsPart(S, n, buf, a, j, h) /\ j \in Nat
  BY <1>0, <1>6, Zenon DEF h, j
<1>8. h = Part(buf, n, a, j)
  BY <1>7, ThePart, SMT
<1> QED
  BY <1>2, <1>8, Zenon DEF h, j, Joint

\* Parts of two rings with the same entries.
Alike(n, buf, a, u, b, k) == \A i \in 1..k : u[Mod(b + i - 1, n)] = buf[Mod(a + i - 1, n)]
Agree(S, n, buf, a, u, b, k) == Part(u, n, b, k) = Part(buf, n, a, k)

\* They are the same.
LEMMA PartAgree ==
    ASSUME NEW S, NEW n, NEW buf, IsRing(S, n, buf), NEW u, IsRing(S, n, u),
           NEW a \in Int, NEW b \in Int, NEW k \in Nat, Alike(n, buf, a, u, b, k)
    PROVE  Agree(S, n, buf, a, u, b, k)
<1>1. IsPart(S, n, buf, a, k, Part(buf, n, a, k))
  BY PartIs, Zenon
<1>2. IsPart(S, n, u, b, k, Part(buf, n, a, k))
  BY <1>1, Zenon DEF IsPart, Alike
<1>3. Part(buf, n, a, k) = Part(u, n, b, k)
  BY <1>2, ThePart, SMT
<1> QED
  BY <1>3, Zenon DEF Agree

-----------------------------------------------------------------------------
\* The output: each writer's bytes, in order, whatever the echoes between them.

\* The bytes of s and no others are in t, in the same order: g says where from.
LEMMA Moved ==
    ASSUME NEW s \in Seq(Token), NEW t \in Seq(Token),
           NEW n \in [Writer -> 0..WriteSize], NEW g,
           \A j \in 1..Len(t) : t[j] # ECHO => g[j] \in 1..Len(s) /\ s[g[j]] = t[j],
           \A i, j \in 1..Len(t) : i < j /\ t[i] # ECHO /\ t[j] # ECHO => g[i] < g[j],
           \A i \in 1..Len(s) : s[i] # ECHO => \E j \in 1..Len(t) : t[j] = s[i],
           Whole(s, n), InOrder(s)
    PROVE  Whole(t, n) /\ InOrder(t)
<1>1. ASSUME NEW p \in Writer, NEW b \in 0..(n[p] - 1)
      PROVE  \E j \in 1..Len(t) : t[j] # ECHO /\ t[j][1] = p /\ t[j][2] = b
  <2>1. PICK i \in 1..Len(s) : s[i] # ECHO /\ s[i][1] = p /\ s[i][2] = b
    BY DEF Whole
  <2>2. PICK j \in 1..Len(t) : t[j] = s[i]
    BY <2>1, Zenon
  <2> QED
    BY <2>1, <2>2, Zenon
<1>2. ASSUME NEW j \in 1..Len(t), t[j] # ECHO
      PROVE  t[j][2] < n[t[j][1]]
  BY <1>2, Zenon DEF Whole
<1>3. ASSUME NEW i \in 1..Len(t), NEW j \in 1..Len(t),
             i < j, t[i] # ECHO, t[j] # ECHO, t[i][1] = t[j][1]
      PROVE  t[i][2] < t[j][2]
  <2>1. PICK x \in 1..Len(s), y \in 1..Len(s) : x < y /\ s[x] = t[i] /\ s[y] = t[j]
    BY <1>3, Zenon
  <2>2. s[x] # ECHO /\ s[y] # ECHO /\ s[x][1] = s[y][1]
    BY <1>3, <2>1, Zenon
  <2>3. s[x][2] < s[y][2]
    BY <2>1, <2>2, Zenon DEF InOrder
  <2> QED
    BY <2>1, <2>3, Zenon
<1>4. Whole(t, n)
  BY <1>1, <1>2, Zenon DEF Whole
<1>5. InOrder(t)
  BY <1>3, Zenon DEF InOrder
<1> QED
  BY <1>4, <1>5

\* A writer's next byte is put at the end.
LEMMA NextByte ==
    ASSUME NEW s \in Seq(Token), NEW t, NEW n \in [Writer -> 0..WriteSize],
           NEW p \in Writer, n[p] < WriteSize, NEW x, x # ECHO, x[1] = p, x[2] = n[p],
           Inserted(s, t, Len(s) + 1, x), Whole(s, n), InOrder(s)
    PROVE  Whole(t, [n EXCEPT ![p] = n[p] + 1]) /\ InOrder(t)
<1> DEFINE m == [n EXCEPT ![p] = n[p] + 1]
<1>0. /\ Len(s) \in Nat /\ \A i \in 1..Len(s) : s[i] \in Byte \union {ECHO}
      /\ Len(t) = Len(s) + 1 /\ (\A i \in 1..Len(s) : t[i] = s[i]) /\ t[Len(s) + 1] = x
  BY DEF Inserted, Token
<1>1. \A i \in 1..Len(t) : i \in 1..Len(s) \/ i = Len(s) + 1
  BY <1>0
<1>2. ASSUME NEW q \in Writer, NEW b \in 0..(m[q] - 1)
      PROVE  \E i \in 1..Len(t) : t[i] # ECHO /\ t[i][1] = q /\ t[i][2] = b
  <2>1. CASE q = p /\ b = n[p]
    <3>1. Len(s) + 1 \in 1..Len(t)
      BY <1>0
    <3> QED
      BY <1>0, <2>1, <3>1
  <2>2. CASE ~(q = p /\ b = n[p])
    <3>1. b \in 0..(n[q] - 1)
      BY <2>2
    <3>2. PICK i \in 1..Len(s) : s[i] # ECHO /\ s[i][1] = q /\ s[i][2] = b
      BY <3>1, Zenon DEF Whole
    <3> QED
      BY <1>0, <3>2
  <2> QED
    BY <2>1, <2>2
<1>3. ASSUME NEW i \in 1..Len(t), t[i] # ECHO
      PROVE  t[i][2] < m[t[i][1]]
  <2>1. CASE i = Len(s) + 1
    BY <1>0, <2>1
  <2>2. CASE i \in 1..Len(s)
    <3>1. s[i] \in Byte /\ s[i] = t[i] /\ s[i][2] < n[s[i][1]]
      BY <1>0, <1>3, <2>2 DEF Whole
    <3>2. s[i][1] \in Writer /\ s[i][2] \in Nat
      BY <3>1 DEF Byte
    <3> QED
      BY <3>1, <3>2
  <2> QED
    BY <1>1, <2>1, <2>2
<1>4. ASSUME NEW i \in 1..Len(t), NEW j \in 1..Len(t),
             i < j, t[i] # ECHO, t[j] # ECHO, t[i][1] = t[j][1]
      PROVE  t[i][2] < t[j][2]
  <2>1. i \in 1..Len(s) /\ s[i] = t[i]
    BY <1>0, <1>1, <1>4
  <2>2. CASE j \in 1..Len(s)
    BY <1>0, <1>4, <2>1, <2>2 DEF InOrder
  <2>3. CASE j = Len(s) + 1
    BY <1>0, <1>4, <2>1, <2>3 DEF Whole
  <2> QED
    BY <1>1, <2>2, <2>3
<1>5. Whole(t, m)
  BY <1>2, <1>3, Zenon DEF Whole
<1>6. InOrder(t)
  BY <1>4, Zenon DEF InOrder
<1> QED
  BY <1>5, <1>6

\* Echoes do not count: one is put in at place k ...
LEMMA EchoIn ==
    ASSUME NEW s \in Seq(Token), NEW t \in Seq(Token),
           NEW n \in [Writer -> 0..WriteSize], NEW k, Inserted(s, t, k, ECHO),
           Whole(s, n), InOrder(s)
    PROVE  Whole(t, n) /\ InOrder(t)
<1>0. /\ Len(t) = Len(s) + 1 /\ k \in 1..Len(t) /\ t[k] = ECHO
      /\ \A i \in 1..Len(s) : s[i] = IF i < k THEN t[i] ELSE t[i + 1]
  BY Zenon DEF Inserted
<1> DEFINE g == [j \in 1..Len(t) |-> IF j < k THEN j ELSE j - 1]
<1>1. ASSUME NEW j \in 1..Len(t), t[j] # ECHO
      PROVE  g[j] \in 1..Len(s) /\ s[g[j]] = t[j]
  BY <1>0, <1>1
<1>2. ASSUME NEW i \in 1..Len(t), NEW j \in 1..Len(t), i < j, t[i] # ECHO, t[j] # ECHO
      PROVE  g[i] < g[j]
  BY <1>0, <1>2
<1>3. ASSUME NEW i \in 1..Len(s)
      PROVE  \E j \in 1..Len(t) : t[j] = s[i]
  <2>1. i \in 1..Len(t) /\ i + 1 \in 1..Len(t)
    BY <1>0
  <2> QED
    BY <1>0, <2>1
<1>4. /\ \A j \in 1..Len(t) : t[j] # ECHO => g[j] \in 1..Len(s) /\ s[g[j]] = t[j]
      /\ \A i, j \in 1..Len(t) : i < j /\ t[i] # ECHO /\ t[j] # ECHO => g[i] < g[j]
      /\ \A i \in 1..Len(s) : s[i] # ECHO => \E j \in 1..Len(t) : t[j] = s[i]
  BY <1>1, <1>2, <1>3, Zenon
<1> HIDE DEF g
<1> QED
  BY <1>4, Moved, Zenon

\* ... or taken out.
LEMMA EchoOut ==
    ASSUME NEW s \in Seq(Token), NEW t \in Seq(Token),
           NEW n \in [Writer -> 0..WriteSize], NEW k, Inserted(t, s, k, ECHO),
           Whole(s, n), InOrder(s)
    PROVE  Whole(t, n) /\ InOrder(t)
<1>0. /\ Len(s) = Len(t) + 1 /\ k \in 1..Len(s) /\ s[k] = ECHO
      /\ \A j \in 1..Len(t) : t[j] = IF j < k THEN s[j] ELSE s[j + 1]
  BY Zenon DEF Inserted
<1> DEFINE g == [j \in 1..Len(t) |-> IF j < k THEN j ELSE j + 1]
<1>1. ASSUME NEW j \in 1..Len(t), t[j] # ECHO
      PROVE  g[j] \in 1..Len(s) /\ s[g[j]] = t[j]
  BY <1>0, <1>1
<1>2. ASSUME NEW i \in 1..Len(t), NEW j \in 1..Len(t), i < j, t[i] # ECHO, t[j] # ECHO
      PROVE  g[i] < g[j]
  BY <1>0, <1>2
<1>3. ASSUME NEW i \in 1..Len(s), s[i] # ECHO
      PROVE  \E j \in 1..Len(t) : t[j] = s[i]
  <2>1. CASE i < k
    <3>1. i \in 1..Len(t) /\ t[i] = s[i]
      BY <1>0, <2>1
    <3> QED
      BY <3>1, Zenon
  <2>2. CASE i > k
    <3>1. i - 1 \in 1..Len(t) /\ t[i - 1] = s[i]
      BY <1>0, <2>2
    <3> QED
      BY <3>1, Zenon
  <2> QED
    BY <1>0, <1>3, <2>1, <2>2
<1>4. /\ \A j \in 1..Len(t) : t[j] # ECHO => g[j] \in 1..Len(s) /\ s[g[j]] = t[j]
      /\ \A i, j \in 1..Len(t) : i < j /\ t[i] # ECHO /\ t[j] # ECHO => g[i] < g[j]
      /\ \A i \in 1..Len(s) : s[i] # ECHO => \E j \in 1..Len(t) : t[j] = s[i]
  BY <1>1, <1>2, <1>3, Zenon
<1> HIDE DEF g
<1> QED
  BY <1>4, Moved, Zenon

\* What is on its way stays good when uartstart() sends a byte, ...
LEMMA GoodSend ==
    ASSUME NEW a, NEW b, NEW c, NEW n, Good(a, b, c, n), c # <<>>
    PROVE  Good(a, Append(b, Head(c)), Tail(c), n)
<1>1. a \in Seq(Token) /\ b \in Seq(Token) /\ c \in Seq(Token) /\ a \in Seq(Byte) /\ c \in Seq(Byte)
  BY Bytes, Zenon DEF Good
<1>2. Tail(c) \in Seq(Byte) /\ Head(c) \in Token
  BY <1>1, Tails, Zenon DEF Token
<1>3. Append(b, Head(c)) \in Seq(Token)
  BY <1>1, <1>2, Appends, Zenon
<1>4. Cat(a, Append(b, Head(c)), Tail(c)) = Cat(a, b, c)
  BY <1>1, Shift
<1> QED
  BY <1>1, <1>2, <1>3, <1>4, Zenon DEF Good

\* ... when a byte leaves the UART, ...
LEMMA GoodOut ==
    ASSUME NEW a, NEW b, NEW c, NEW n, Good(a, b, c, n), b # <<>>, Head(b) # ECHO
    PROVE  Good(Append(a, Head(b)), Tail(b), c, n)
<1>1. a \in Seq(Token) /\ b \in Seq(Token) /\ c \in Seq(Token) /\ a \in Seq(Byte) /\ c \in Seq(Byte)
  BY Bytes, Zenon DEF Good
<1>2. Tail(b) \in Seq(Token) /\ Head(b) \in Token
  BY <1>1, Tails, Zenon
<1>3. Head(b) \in Byte
  BY <1>2, Zenon DEF Token
<1>4. Append(a, Head(b)) \in Seq(Byte)
  BY <1>1, <1>3, Appends, Zenon
<1>5. Cat(Append(a, Head(b)), Tail(b), c) = Cat(a, b, c)
  BY <1>1, ShiftOut
<1> QED
  BY <1>1, <1>2, <1>4, <1>5, Zenon DEF Good

\* ... when an echo does, ...
LEMMA GoodEchoOut ==
    ASSUME NEW a, NEW b, NEW c, NEW n \in [Writer -> 0..WriteSize], Good(a, b, c, n),
           b # <<>>, Head(b) = ECHO
    PROVE  Good(a, Tail(b), c, n)
<1>1. a \in Seq(Token) /\ b \in Seq(Token) /\ c \in Seq(Token) /\ a \in Seq(Byte) /\ c \in Seq(Byte)
  BY Bytes, Zenon DEF Good
<1>2. Tail(b) \in Seq(Token)
  BY <1>1, Tails, Zenon
<1>3. Cat(a, Tail(b), c) \in Seq(Token) /\ Cat(a, b, c) \in Seq(Token)
  BY <1>1, <1>2, Cats, Zenon
<1>4. Inserted(Cat(a, Tail(b), c), Cat(a, b, c), Len(a) + 1, ECHO)
  BY <1>1, TakeOut, Zenon
<1>5. Whole(Cat(a, b, c), n) /\ InOrder(Cat(a, b, c))
  BY Zenon DEF Good
<1>6. Whole(Cat(a, Tail(b), c), n) /\ InOrder(Cat(a, Tail(b), c))
  BY <1>3, <1>4, <1>5, EchoOut, Zenon
<1> QED
  BY <1>1, <1>2, <1>6, Zenon DEF Good

\* ... when consputc() puts one in ...
LEMMA GoodEchoIn ==
    ASSUME NEW a, NEW b, NEW c, NEW n \in [Writer -> 0..WriteSize], Good(a, b, c, n)
    PROVE  Good(a, Append(b, ECHO), c, n)
<1>1. a \in Seq(Token) /\ b \in Seq(Token) /\ c \in Seq(Token) /\ a \in Seq(Byte) /\ c \in Seq(Byte)
  BY Bytes, Zenon DEF Good
<1>2. ECHO \in Token
  BY Zenon DEF Token
<1>3. Append(b, ECHO) \in Seq(Token)
  BY <1>1, <1>2, Appends, Zenon
<1>4. Cat(a, Append(b, ECHO), c) \in Seq(Token) /\ Cat(a, b, c) \in Seq(Token)
  BY <1>1, <1>3, Cats, Zenon
<1>5. Inserted(Cat(a, b, c), Cat(a, Append(b, ECHO), c), Len(a) + Len(b) + 1, ECHO)
  BY <1>1, <1>2, PutIn, Zenon
<1>6. Whole(Cat(a, b, c), n) /\ InOrder(Cat(a, b, c))
  BY Zenon DEF Good
<1>7. Whole(Cat(a, Append(b, ECHO), c), n) /\ InOrder(Cat(a, Append(b, ECHO), c))
  BY <1>4, <1>5, <1>6, EchoIn, Zenon
<1> QED
  BY <1>1, <1>3, <1>7, Zenon DEF Good

\* ... and when uartputc() puts a writer's next byte into the ring.
LEMMA GoodPut ==
    ASSUME NEW a, NEW b, NEW c, NEW n \in [Writer -> 0..WriteSize], Good(a, b, c, n),
           NEW p \in Writer, n[p] < WriteSize
    PROVE  Good(a, b, Append(c, <<p, n[p]>>), [n EXCEPT ![p] = n[p] + 1])
<1> DEFINE x == <<p, n[p]>>
<1>1. x \in Byte /\ x[1] = p /\ x[2] = n[p]
  BY Sizes DEF Byte
<1>2. x # ECHO
  <2>1. n[p] \in 0..(WriteSize - 1)
    BY Sizes
  <2> QED
    BY <2>1, ConsoleAssumption, Zenon
<1> HIDE DEF x
<1>3. a \in Seq(Token) /\ b \in Seq(Token) /\ c \in Seq(Token) /\ a \in Seq(Byte) /\ c \in Seq(Byte)
  BY Bytes, Zenon DEF Good
<1>4. x \in Token
  BY <1>1, Zenon DEF Token
<1>5. Append(c, x) \in Seq(Byte)
  BY <1>1, <1>3, Appends, Zenon
<1>6. Cat(a, b, c) \in Seq(Token)
  BY <1>3, Cats, Zenon
<1>7. Inserted(Cat(a, b, c), Cat(a, b, Append(c, x)), Len(Cat(a, b, c)) + 1, x)
  BY <1>3, <1>4, PutEnd, Zenon
<1>8. Whole(Cat(a, b, c), n) /\ InOrder(Cat(a, b, c))
  BY Zenon DEF Good
<1>9. /\ Whole(Cat(a, b, Append(c, x)), [n EXCEPT ![p] = n[p] + 1])
      /\ InOrder(Cat(a, b, Append(c, x)))
  BY <1>1, <1>2, <1>6, <1>7, <1>8, NextByte, Zenon
<1> QED
  BY <1>3, <1>5, <1>9, Zenon DEF Good, x

-----------------------------------------------------------------------------
\* Steps that touch the output.

\* A part whose first entry is taken out.
Takes(S, n, buf, a, k, x) ==
    /\ IsRing(S, n, Write(buf, n, a, x))
    /\ Part(Write(buf, n, a, x), n, a + 1, k - 1) = Tail(Part(buf, n, a, k))
    /\ Part(buf, n, a, k) # <<>> /\ Head(Part(buf, n, a, k)) = buf[Mod(a, n)]

\* It is, whatever takes its place.
LEMMA PartTake ==
    ASSUME NEW S, NEW n, NEW buf, IsRing(S, n, buf), NEW a \in Int, NEW k \in Nat,
           1 <= k, k <= n, NEW x \in S
    PROVE  Takes(S, n, buf, a, k, x)
<1>0. n \in Nat \ {0}
  BY Zenon DEF IsRing
<1>1. 1 \in 0..k /\ k - 1 \in Nat /\ a + 1 \in Int /\ a + n \in Int
  BY <1>0
<1>2. a + 1 + (k - 1) <= a + n /\ a + n < a + 1 + n
  BY <1>0
<1>3. Write(buf, n, a + n, x) = Write(buf, n, a, x)
  <2>1. a + n * 1 = a + n /\ 1 \in Int
    BY <1>0
  <2>2. (a + n * 1) % n = a % n
    BY <1>0, <2>1, ModShift, Zenon
  <2>3. Mod(a + n, n) = Mod(a, n)
    BY <2>1, <2>2, Zenon DEF Mod
  <2> QED
    BY <2>3, Zenon DEF Write
<1>4. /\ IsRing(S, n, Write(buf, n, a + n, x))
      /\ Part(Write(buf, n, a + n, x), n, a + 1, k - 1) = Part(buf, n, a + 1, k - 1)
  <2>1. Spared(S, n, buf, a + 1, k - 1, a + n, x)
    BY <1>1, <1>2, PartSame, Zenon
  <2> QED
    BY <2>1, Zenon DEF Spared
<1>5. Part(buf, n, a + 1, k - 1) = SubSeq(Part(buf, n, a, k), 1 + 1, k)
  <2>1. Cut(n, buf, a, k, 1)
    BY <1>1, PartCut, Zenon
  <2> QED
    BY <2>1, Zenon DEF Cut
<1>6. IsPart(S, n, buf, a, k, Part(buf, n, a, k))
  BY PartIs, Zenon
<1>7. PICK f \in Seq(S) : f = Part(buf, n, a, k)
  BY <1>6, Zenon DEF IsPart
<1>8. Len(f) = k /\ \A i \in 1..k : f[i] = buf[Mod(a + i - 1, n)]
  BY <1>6, <1>7, Zenon DEF IsPart
<1>9. f # <<>> /\ Head(f) = f[1] /\ Tail(f) = SubSeq(f, 1 + 1, k)
  <2>1. Len(f) = k
    BY <1>8
  <2> QED
    BY <2>1
<1>10. 1 \in 1..k /\ a + 1 - 1 = a
  OBVIOUS
<1>11. f[1] = buf[Mod(a, n)]
  BY <1>8, <1>10, Zenon
<1> QED
  BY <1>3, <1>4, <1>5, <1>7, <1>9, <1>11, Zenon DEF Takes

\* What the invariant says of uart_tx_buf.
LEMMA TxIs ==
    ASSUME OutputTypes, LockInv
    PROVE  /\ IsRing(Byte \union {NoChar}, UART_TX_BUF_SIZE, tx.buf)
           /\ tx.r \in Nat /\ tx.r \in Int /\ tx.w \in Nat /\ tx.w - tx.r \in Nat
           /\ tx.w - tx.r <= UART_TX_BUF_SIZE /\ UART_TX_BUF_SIZE \in Nat
<1>1. tx \in [buf : [0..(UART_TX_BUF_SIZE - 1) -> Byte \union {NoChar}], r : Nat, w : Nat]
  BY Zenon DEF OutputTypes
<1>2. tx.buf \in [0..(UART_TX_BUF_SIZE - 1) -> Byte \union {NoChar}] /\ tx.r \in Nat /\ tx.w \in Nat
  BY <1>1
<1>3. UART_TX_BUF_SIZE \in Nat \ {0} /\ tx.w - tx.r \in 0..UART_TX_BUF_SIZE
  BY Sizes, Zenon DEF LockInv
<1>4. tx.w - tx.r \in Nat /\ tx.w - tx.r <= UART_TX_BUF_SIZE /\ UART_TX_BUF_SIZE \in Nat /\ tx.r \in Int
  BY <1>2, <1>3
<1> QED
  BY <1>2, <1>3, <1>4, Zenon DEF IsRing

\* What it says of the writers.
LEMMA WritersAre ==
    ASSUME OutputTypes, LockInv
    PROVE  /\ \A p \in Writer : wr[p].i \in 0..WriteSize
           /\ \A p \in Writer : Put[p] = wr[p].i + (IF wr[p].pc \in {"send", "again"} THEN 1 ELSE 0)
           /\ Put \in [Writer -> 0..WriteSize]
           /\ NoChar \notin Writer /\ handler \notin Writer /\ NoChar # handler
<1>1. wr \in [Writer -> [pc : {"user", "putc", "sleep", "woken", "send", "again", "done"},
                         i : 0..WriteSize]]
  BY Zenon DEF OutputTypes
<1>2. \A p \in Writer : wr[p].i \in 0..WriteSize
  BY <1>1
<1>3. \A p \in Writer : Put[p] = wr[p].i + (IF wr[p].pc \in {"send", "again"} THEN 1 ELSE 0)
  BY Zenon DEF Put, put_by
<1>4. ASSUME NEW p \in Writer
      PROVE  wr[p].i + (IF wr[p].pc \in {"send", "again"} THEN 1 ELSE 0) \in 0..WriteSize
  <2>1. wr[p].pc # "done" => wr[p].i < WriteSize
    BY Zenon DEF LockInv
  <2>2. wr[p].i \in 0..WriteSize
    BY <1>2, Zenon
  <2>3. PICK i \in 0..WriteSize : i = wr[p].i
    BY <2>2, Zenon
  <2>4. CASE wr[p].pc \in {"send", "again"}
    <3>1. i < WriteSize
      BY <2>1, <2>3, <2>4
    <3>2. i + 1 \in 0..WriteSize
      BY <3>1, Sizes
    <3> QED
      BY <2>3, <2>4, <3>2, Zenon
  <2>5. CASE wr[p].pc \notin {"send", "again"}
    <3>1. i + 0 \in 0..WriteSize
      BY Sizes
    <3> QED
      BY <2>3, <2>5, <3>1, Zenon
  <2> QED
    BY <2>4, <2>5, Zenon
<1>5. Put \in [Writer -> 0..WriteSize]
  BY <1>4, Zenon DEF Put, put_by
<1>6. NoChar \notin Writer /\ handler \notin Writer /\ NoChar # handler
  BY ConsoleAssumption, Zenon DEF handler
<1> QED
  BY <1>2, <1>3, <1>5, <1>6, Zenon

\* The steps that leave the output alone, also when uartputc_sync() has found
\* the UART idle.
LEMMA OutputFrame ==
    ASSUME OutputInv, UNCHANGED <<tx, tx_lock, wr, fifo, wire>>,
           irq.pc \notin {"send", "again"}, irq'.pc \notin {"send", "again"},
           irq'.pc = "echo_write" => irq.pc = "echo_write" \/ fifo = <<>>
    PROVE  OutputInv'
<1>1. OutputTypes'
  BY Zenon DEF OutputInv, OutputTypes, Byte, Token
<1>2. LockInv'
  BY DEF OutputInv, LockInv
<1>3. OutInv'
  <2>1. Ring' = Ring /\ Put' = Put
    BY Zenon DEF Ring, Part, Put, put_by
  <2> QED
    BY <2>1, Zenon DEF OutputInv, OutInv
<1>4. FifoInv'
  <2>1. fifo = <<>> => Len(fifo) = 0
    OBVIOUS
  <2>2. Sending' => Sending
    BY DEF Sending
  <2>3. CASE fifo = <<>>
    BY <2>1, <2>3 DEF FifoInv
  <2>4. CASE irq'.pc = "echo_write" => irq.pc = "echo_write"
    BY <2>2, <2>4, Zenon DEF OutputInv, FifoInv
  <2> QED
    BY <2>3, <2>4, Zenon
<1> QED
  BY <1>1, <1>2, <1>3, <1>4, Zenon DEF OutputInv

\* uartstart() moves a byte from the ring to the UART.
LEMMA SendStep ==
    ASSUME OutputInv, send, tx.r # tx.w, Put' = Put
    PROVE  /\ OutInv' /\ tx'.w - tx'.r \in 0..UART_TX_BUF_SIZE
           /\ tx' \in [buf : [0..(UART_TX_BUF_SIZE - 1) -> Byte \union {NoChar}], r : Nat, w : Nat]
           /\ fifo' \in Seq(Token) /\ Len(fifo') = Len(fifo) + 1 /\ Len(fifo) \in Nat
<1> DEFINE n == UART_TX_BUF_SIZE
           S == Byte \union {NoChar}
           u == Write(tx.buf, n, tx.r, NoChar)
           k == tx.w - tx.r
<1>0. OutputTypes /\ LockInv /\ OutInv
  BY Zenon DEF OutputInv
<1>1. /\ IsRing(S, n, tx.buf) /\ tx.r \in Nat /\ tx.r \in Int /\ tx.w \in Nat
      /\ k \in Nat /\ k <= n /\ n \in Nat
  BY <1>0, TxIs, Zenon
<1>2. 1 <= k
  BY <1>1
<1>3. NoChar \in S
  BY Zenon
<1>4. tx'.buf = u /\ tx'.r = tx.r + 1 /\ tx'.w = tx.w
  <2>1. tx \in [buf : [0..(UART_TX_BUF_SIZE - 1) -> Byte \union {NoChar}], r : Nat, w : Nat]
    BY <1>0, Zenon DEF OutputTypes
  <2> QED
    BY <2>1 DEF send, Write, Mod
<1>5. fifo' = Append(fifo, tx.buf[Mod(tx.r, n)]) /\ wire' = wire
  BY Zenon DEF send, Mod
<1>6. tx'.w - tx'.r = k - 1 /\ k - 1 \in 0..n /\ tx.r + 1 \in Nat
  BY <1>1, <1>2, <1>4
<1> HIDE DEF k, n, S, u
<1>7. /\ IsRing(S, n, u) /\ Part(u, n, tx.r + 1, k - 1) = Tail(Part(tx.buf, n, tx.r, k))
      /\ Part(tx.buf, n, tx.r, k) # <<>> /\ Head(Part(tx.buf, n, tx.r, k)) = tx.buf[Mod(tx.r, n)]
  <2>1. Takes(S, n, tx.buf, tx.r, k, NoChar)
    BY <1>1, <1>2, <1>3, PartTake, Zenon
  <2> QED
    BY <2>1, Zenon DEF u, Takes
<1>8. Ring = Part(tx.buf, n, tx.r, k)
  BY Zenon DEF Ring, n, k
<1>9. Ring' = Part(u, n, tx.r + 1, k - 1)
  BY <1>4, <1>6, Zenon DEF Ring, n
<1>10. Ring' = Tail(Ring) /\ Ring # <<>> /\ fifo' = Append(fifo, Head(Ring))
  BY <1>5, <1>7, <1>8, <1>9, Zenon
<1>11. Good(wire, fifo, Ring, Put)
  BY <1>0, Zenon DEF OutInv
<1>12. Good(wire, Append(fifo, Head(Ring)), Tail(Ring), Put)
  BY <1>10, <1>11, GoodSend, Zenon
<1>13. OutInv'
  BY <1>5, <1>10, <1>12, Zenon DEF OutInv
<1>14. tx' = [buf |-> u, r |-> tx.r + 1, w |-> tx.w]
  <2>1. tx \in [buf : [0..(UART_TX_BUF_SIZE - 1) -> Byte \union {NoChar}], r : Nat, w : Nat]
    BY <1>0, Zenon DEF OutputTypes
  <2> QED
    BY <2>1, Zenon DEF send, Write, Mod, u, n
<1>15. u \in [0..(UART_TX_BUF_SIZE - 1) -> Byte \union {NoChar}]
  BY <1>7, Zenon DEF IsRing, n, S
<1>16. tx' \in [buf : [0..(UART_TX_BUF_SIZE - 1) -> Byte \union {NoChar}], r : Nat, w : Nat]
  BY <1>1, <1>6, <1>14, <1>15
<1>17. fifo \in Seq(Token) /\ fifo' \in Seq(Token)
  BY <1>5, <1>10, <1>11, <1>12, Zenon DEF Good
<1>18. Len(fifo') = Len(fifo) + 1 /\ Len(fifo) \in Nat
  <2>1. PICK y : fifo' = Append(fifo, y)
    BY <1>5, Zenon
  <2> QED
    BY <1>17, <2>1
<1> QED
  BY <1>6, <1>13, <1>16, <1>17, <1>18, Zenon DEF n

\* The writers, when p's entry alone changes ...
LEMMA WriterStep ==
    ASSUME OutputTypes, NEW p \in Writer, NEW v, wr' = [wr EXCEPT ![p] = v]
    PROVE  wr'[p] = v /\ \A q \in Writer : q # p => wr'[q] = wr[q]
<1>1. wr \in [Writer -> [pc : {"user", "putc", "sleep", "woken", "send", "again", "done"},
                         i : 0..WriteSize]]
  BY Zenon DEF OutputTypes
<1> QED
  BY <1>1, Zenon

\* ... and when those who sleep are woken.
LEMMA WakeupStep ==
    ASSUME OutputTypes, NEW q \in Writer
    PROVE  /\ wakeup_writers[q].i = wr[q].i
           /\ wakeup_writers[q].pc = IF wr[q].pc = "sleep" THEN "woken" ELSE wr[q].pc
           /\ wakeup_writers[q] \in
                 [pc : {"user", "putc", "sleep", "woken", "send", "again", "done"}, i : 0..WriteSize]
<1>1. wr[q] \in [pc : {"user", "putc", "sleep", "woken", "send", "again", "done"}, i : 0..WriteSize]
  BY Zenon DEF OutputTypes
<1>2. wakeup_writers[q] = IF wr[q].pc = "sleep" THEN [wr[q] EXCEPT !.pc = "woken"] ELSE wr[q]
  BY Zenon DEF wakeup_writers
<1>3. CASE wr[q].pc = "sleep"
  <2>1. wakeup_writers[q] = [wr[q] EXCEPT !.pc = "woken"]
    BY <1>2, <1>3, Zenon
  <2> QED
    BY <1>1, <1>3, <2>1
<1>4. CASE wr[q].pc # "sleep"
  BY <1>1, <1>2, <1>4, Zenon
<1> QED
  BY <1>3, <1>4, Zenon

\* The handler sends.
LEMMA IntrSend ==
    ASSUME OutputInv, uartintr_send, irq'.pc = "again"
    PROVE  OutputInv'
<1>0. OutputTypes /\ LockInv /\ OutInv /\ FifoInv /\ irq.pc = "send" /\ send /\ wr' = wakeup_writers
  BY Zenon DEF OutputInv, uartintr_send
<1>1. tx.r # tx.w /\ tx_lock = handler
  BY <1>0 DEF LockInv
<1>2. ASSUME NEW q \in Writer
      PROVE  /\ wr'[q].i = wr[q].i
             /\ wr'[q].pc = IF wr[q].pc = "sleep" THEN "woken" ELSE wr[q].pc
             /\ wr[q].pc \notin {"send", "again"}
  <2>1. wr[q].pc \notin {"send", "again"}
    BY <1>0, <1>1, WritersAre, Zenon DEF LockInv
  <2> QED
    BY <1>0, <2>1, WakeupStep, Zenon
<1>3. Put' = Put
  <2>1. ASSUME NEW q \in Writer PROVE put_by(q)' = put_by(q)
    BY <1>2 DEF put_by
  <2> QED
    BY <2>1, Zenon DEF Put
<1>4. /\ OutInv' /\ tx'.w - tx'.r \in 0..UART_TX_BUF_SIZE
      /\ tx' \in [buf : [0..(UART_TX_BUF_SIZE - 1) -> Byte \union {NoChar}], r : Nat, w : Nat]
      /\ fifo' \in Seq(Token) /\ Len(fifo') = Len(fifo) + 1 /\ Len(fifo) \in Nat
  BY <1>0, <1>1, <1>3, SendStep, Zenon
<1>5. tx_lock' = tx_lock /\ wire' = wire
  BY <1>0, Zenon DEF send
<1>6. wr' \in [Writer -> [pc : {"user", "putc", "sleep", "woken", "send", "again", "done"},
                          i : 0..WriteSize]]
  BY <1>0, WakeupStep, Zenon DEF wakeup_writers
<1>7. OutputTypes'
  <2>1. tx_lock \in Writer \union {handler, NoChar} /\ wire \in Seq(Byte)
    BY <1>0, Zenon DEF OutputTypes
  <2> QED
    BY <1>4, <1>5, <1>6, <2>1, Zenon DEF OutputTypes
<1>8. LockInv'
  <2>1. ASSUME NEW q \in Writer PROVE tx_lock' # q /\ wr'[q].pc \notin {"send", "again"}
    BY <1>0, <1>1, <1>2, <1>5, WritersAre
  <2>2. ASSUME NEW q \in Writer, wr'[q].pc # "done" PROVE wr'[q].i < WriteSize
    BY <1>0, <1>2, <2>2 DEF LockInv
  <2>3. tx_lock' = handler
    BY <1>1, <1>5, Zenon
  <2> QED
    BY <1>4, <2>1, <2>2, <2>3 DEF LockInv
<1>9. FifoInv'
  <2>1. ~Sending'
    BY <1>2 DEF Sending
  <2>2. Sending
    BY <1>0, Zenon DEF Sending
  <2>3. Len(fifo) <= 1
    BY <1>0, <2>2, Zenon DEF FifoInv
  <2> QED
    BY <1>4, <2>1, <2>3 DEF FifoInv
<1> QED
  BY <1>4, <1>7, <1>8, <1>9, Zenon DEF OutputInv

\* A writer sends.
LEMMA WriterSend ==
    ASSUME OutputInv, NEW p \in Writer, uartstart_send(p)
    PROVE  OutputInv'
<1>0. OutputTypes /\ LockInv /\ OutInv /\ FifoInv /\ wr[p].pc = "send" /\ send /\ irq' = irq
  BY Zenon DEF OutputInv, uartstart_send
<1>1. tx.r # tx.w /\ tx_lock = p
  BY <1>0 DEF LockInv
<1>2. irq.pc \notin {"send", "again"} /\ irq'.pc = irq.pc
  <2>1. tx_lock # handler
    BY <1>0, <1>1, WritersAre, Zenon
  <2> QED
    BY <1>0, <2>1, Zenon DEF LockInv
<1>3. /\ wr' \in [Writer -> [pc : {"user", "putc", "sleep", "woken", "send", "again", "done"},
                             i : 0..WriteSize]]
      /\ wr'[p].i = wr[p].i /\ wr'[p].pc = "again"
      /\ \A q \in Writer : q # p => wr'[q] = wakeup_writers[q]
  <2>1. wakeup_writers \in [Writer -> [pc : {"user", "putc", "sleep", "woken", "send", "again", "done"},
                                       i : 0..WriteSize]]
    BY <1>0, WakeupStep, Zenon DEF wakeup_writers
  <2>2. wakeup_writers[p].i = wr[p].i
    BY <1>0, WakeupStep, Zenon
  <2>3. PICK f \in [Writer -> [pc : {"user", "putc", "sleep", "woken", "send", "again", "done"},
                               i : 0..WriteSize]] : f = wakeup_writers
    BY <2>1, Zenon
  <2>4. wr' = [f EXCEPT ![p].pc = "again"]
    BY <2>3, Zenon DEF uartstart_send
  <2>5. wr' \in [Writer -> [pc : {"user", "putc", "sleep", "woken", "send", "again", "done"},
                            i : 0..WriteSize]]
    BY <2>4
  <2>6. wr'[p].i = f[p].i /\ wr'[p].pc = "again" /\ \A q \in Writer : q # p => wr'[q] = f[q]
    BY <2>4
  <2> QED
    BY <2>2, <2>3, <2>5, <2>6, Zenon
<1>4. ASSUME NEW q \in Writer, q # p
      PROVE  /\ wr'[q].i = wr[q].i
             /\ wr'[q].pc = IF wr[q].pc = "sleep" THEN "woken" ELSE wr[q].pc
             /\ wr[q].pc \notin {"send", "again"}
  <2>1. wr[q].pc \notin {"send", "again"}
    BY <1>0, <1>1, <1>4, Zenon DEF LockInv
  <2> QED
    BY <1>0, <1>3, <1>4, <2>1, WakeupStep, Zenon
<1>5. Put' = Put
  <2>1. ASSUME NEW q \in Writer PROVE put_by(q)' = put_by(q)
    <3>1. CASE q = p
      BY <1>0, <1>3, <3>1 DEF put_by
    <3>2. CASE q # p
      BY <1>4, <3>2 DEF put_by
    <3> QED
      BY <3>1, <3>2, Zenon
  <2> QED
    BY <2>1, Zenon DEF Put
<1>6. /\ OutInv' /\ tx'.w - tx'.r \in 0..UART_TX_BUF_SIZE
      /\ tx' \in [buf : [0..(UART_TX_BUF_SIZE - 1) -> Byte \union {NoChar}], r : Nat, w : Nat]
      /\ fifo' \in Seq(Token) /\ Len(fifo') = Len(fifo) + 1 /\ Len(fifo) \in Nat
  BY <1>0, <1>1, <1>5, SendStep, Zenon
<1>7. tx_lock' = tx_lock /\ wire' = wire
  BY <1>0, Zenon DEF send
<1>8. OutputTypes'
  <2>1. tx_lock \in Writer \union {handler, NoChar} /\ wire \in Seq(Byte)
    BY <1>0, Zenon DEF OutputTypes
  <2> QED
    BY <1>3, <1>6, <1>7, <2>1, Zenon DEF OutputTypes
<1>9. LockInv'
  <2>1. ASSUME NEW q \in Writer PROVE tx_lock' = q <=> wr'[q].pc \in {"send", "again"}
    BY <1>1, <1>3, <1>4, <1>7
  <2>2. ASSUME NEW q \in Writer, wr'[q].pc # "done" PROVE wr'[q].i < WriteSize
    BY <1>0, <1>3, <1>4, <2>2 DEF LockInv
  <2>3. tx_lock' = handler <=> irq'.pc \in {"send", "again"}
    BY <1>0, <1>1, <1>2, <1>7, WritersAre, Zenon
  <2>4. ASSUME NEW q \in Writer PROVE wr'[q].pc # "send"
    BY <1>3, <1>4
  <2>5. irq'.pc # "send"
    BY <1>2
  <2> QED
    BY <1>6, <2>1, <2>2, <2>3, <2>4, <2>5, Zenon DEF LockInv
<1>10. FifoInv'
  <2>1. ~Sending'
    BY <1>2, <1>3, <1>4 DEF Sending
  <2>2. Sending
    BY <1>0, Zenon DEF Sending
  <2>3. Len(fifo) <= 1 /\ (irq.pc = "echo_write" => Len(fifo) = 0)
    BY <1>0, <2>2, Zenon DEF FifoInv
  <2> QED
    BY <1>2, <1>6, <2>1, <2>3 DEF FifoInv
<1> QED
  BY <1>6, <1>8, <1>9, <1>10, Zenon DEF OutputInv

\* Nobody else is in uartstart().
Alone(p) ==
    /\ irq.pc \notin {"send", "again"}
    /\ \A q \in Writer : q # p => wr[q].pc \notin {"send", "again"}

\* The top of uartstart()'s loop, run by a writer while the ring is t.
LEMMA PutStep ==
    ASSUME OutputTypes, LockInv, NEW p \in Writer, Alone(p), wr[p].pc # "done",
           NEW t, put(p, t), t.w - t.r \in 0..UART_TX_BUF_SIZE,
           fifo' = fifo, irq' = irq, FifoInv
    PROVE  /\ LockInv' /\ FifoInv' /\ tx_lock' \in Writer \union {handler, NoChar}
           /\ wr' \in [Writer -> [pc : {"user", "putc", "sleep", "woken", "send", "again", "done"},
                                  i : 0..WriteSize]]
           /\ Put'[p] = wr[p].i + 1 /\ \A q \in Writer : q # p => Put'[q] = Put[q]
<1>1. /\ wr'[p] = putc_next(p, t) /\ \A q \in Writer : q # p => wr'[q] = wr[q]
  BY WriterStep, Zenon DEF put
<1>2. PICK i \in 0..(WriteSize - 1) : i = wr[p].i
  <2>1. wr[p].i \in 0..WriteSize /\ wr[p].i < WriteSize
    BY WritersAre, Zenon DEF LockInv
  <2> QED
    BY <2>1, Sizes
<1>3. i + 1 \in 0..WriteSize /\ i \in 0..WriteSize /\ (i + 1 # WriteSize => i + 1 < WriteSize) /\ i < WriteSize
      /\ i + 1 + 0 = i + 1
  BY Sizes
<1>4. \/ /\ may_send(t) /\ wr'[p].pc = "send" /\ wr'[p].i = i
      \/ /\ ~may_send(t) /\ wr'[p].pc \in {"putc", "done"} /\ wr'[p].i = i + 1
         /\ wr'[p].pc # "done" => i + 1 # WriteSize
  BY <1>1, <1>2 DEF putc_next
<1>5. wr'[p] \in [pc : {"user", "putc", "sleep", "woken", "send", "again", "done"}, i : 0..WriteSize]
  BY <1>1, <1>2, <1>3 DEF putc_next
<1>6. wr' \in [Writer -> [pc : {"user", "putc", "sleep", "woken", "send", "again", "done"},
                          i : 0..WriteSize]]
  <2>1. wr \in [Writer -> [pc : {"user", "putc", "sleep", "woken", "send", "again", "done"},
                           i : 0..WriteSize]]
    BY Zenon DEF OutputTypes
  <2>2. wr' = [wr EXCEPT ![p] = wr'[p]]
    BY <1>1, Zenon DEF put
  <2> QED
    BY <1>5, <2>1, <2>2, Zenon
<1>7. tx_lock' = IF may_send(t) THEN p ELSE NoChar
  BY Zenon DEF put, held_by
<1>8. tx' = t
  BY Zenon DEF put
<1>9. Put'[p] = wr[p].i + 1 /\ \A q \in Writer : q # p => Put'[q] = Put[q]
  <2>1. \A q \in Writer : Put'[q] = wr'[q].i + (IF wr'[q].pc \in {"send", "again"} THEN 1 ELSE 0)
    BY Zenon DEF Put, put_by
  <2>2. \A q \in Writer : Put[q] = wr[q].i + (IF wr[q].pc \in {"send", "again"} THEN 1 ELSE 0)
    BY Zenon DEF Put, put_by
  <2>3. Put'[p] = i + 1
    BY <1>3, <1>4, <2>1
  <2> QED
    BY <1>1, <1>2, <2>1, <2>2, <2>3, Zenon
<1>10. irq'.pc = irq.pc /\ irq.pc \notin {"send", "again"}
  BY Zenon DEF Alone
<1>11. LockInv'
  <2>1. ASSUME NEW q \in Writer PROVE tx_lock' = q <=> wr'[q].pc \in {"send", "again"}
    <3>1. CASE q = p
      BY <1>4, <1>7, <3>1, WritersAre
    <3>2. CASE q # p
      <4>1. tx_lock' # q
        BY <1>7, <3>2, WritersAre, Zenon
      <4> QED
        BY <1>1, <3>2, <4>1, Zenon DEF Alone
    <3> QED
      BY <3>1, <3>2, Zenon
  <2>2. ASSUME NEW q \in Writer, wr'[q].pc # "done" PROVE wr'[q].i < WriteSize
    <3>1. CASE q = p
      BY <1>3, <1>4, <2>2, <3>1
    <3>2. CASE q # p
      BY <1>1, <2>2, <3>2, Zenon DEF LockInv
    <3> QED
      BY <3>1, <3>2, Zenon
  <2>3. tx_lock' = handler <=> irq'.pc \in {"send", "again"}
    BY <1>7, <1>10, WritersAre, Zenon
  <2>4. irq'.pc # "send"
    BY <1>10
  <2>5. ASSUME NEW q \in Writer, wr'[q].pc = "send" PROVE tx'.r # tx'.w
    <3>1. CASE q = p
      BY <1>4, <1>8, <2>5, <3>1 DEF may_send
    <3>2. CASE q # p
      BY <1>1, <2>5, <3>2 DEF Alone
    <3> QED
      BY <3>1, <3>2, Zenon
  <2> QED
    BY <1>8, <2>1, <2>2, <2>3, <2>4, <2>5, Zenon DEF LockInv
<1>12. FifoInv'
  <2>1. CASE may_send(t)
    <3>1. fifo = <<>>
      BY <2>1, Zenon DEF may_send
    <3> QED
      BY <3>1 DEF FifoInv
  <2>2. CASE ~may_send(t)
    <3>1. ASSUME NEW q \in Writer PROVE wr'[q].pc # "send"
      BY <1>1, <1>4, <2>2 DEF Alone
    <3>2. ~Sending'
      BY <1>10, <3>1 DEF Sending
    <3> QED
      BY <1>10, <3>2, Zenon DEF FifoInv
  <2> QED
    BY <2>1, <2>2, Zenon
<1> QED
  BY <1>6, <1>7, <1>9, <1>11, <1>12, Zenon

\* The top of the loop, run by a writer that has sent a byte.
LEMMA WriterAgain ==
    ASSUME OutputInv, NEW p \in Writer, uartstart_again(p)
    PROVE  OutputInv'
<1>0. /\ OutputTypes /\ LockInv /\ OutInv /\ FifoInv /\ wr[p].pc = "again" /\ put(p, tx)
      /\ fifo' = fifo /\ irq' = irq /\ wire' = wire /\ tx' = tx
  BY Zenon DEF OutputInv, uartstart_again, put
<1>1. tx_lock = p
  BY <1>0 DEF LockInv
<1>2. Alone(p) /\ tx.w - tx.r \in 0..UART_TX_BUF_SIZE
  BY <1>0, <1>1, WritersAre, Zenon DEF Alone, LockInv
<1>3. wr[p].pc # "done"
  BY <1>0
<1>4. /\ LockInv' /\ FifoInv' /\ tx_lock' \in Writer \union {handler, NoChar}
      /\ wr' \in [Writer -> [pc : {"user", "putc", "sleep", "woken", "send", "again", "done"},
                             i : 0..WriteSize]]
      /\ Put'[p] = wr[p].i + 1 /\ \A q \in Writer : q # p => Put'[q] = Put[q]
  BY <1>0, <1>2, <1>3, PutStep, Zenon
<1>5. Put' = Put
  <2>1. Put[p] = wr[p].i + 1
    BY <1>0, WritersAre
  <2>2. \A q \in Writer : Put'[q] = Put[q]
    BY <1>4, <2>1, Zenon
  <2> QED
    BY <2>2, Zenon DEF Put
<1>6. Ring' = Ring
  BY <1>0, Zenon DEF Ring
<1>7. OutInv'
  BY <1>0, <1>5, <1>6, Zenon DEF OutInv
<1>8. OutputTypes'
  BY <1>0, <1>4, Zenon DEF OutputTypes
<1> QED
  BY <1>4, <1>7, <1>8, Zenon DEF OutputInv

\* A ring with one more entry.
Puts(S, n, buf, a, k, x) ==
    /\ IsRing(S, n, Write(buf, n, a + k, x))
    /\ Part(Write(buf, n, a + k, x), n, a, k + 1) = Append(Part(buf, n, a, k), x)

\* It has, while there is room.
LEMMA PartPuts ==
    ASSUME NEW S, NEW n, NEW buf, IsRing(S, n, buf), NEW a \in Int, NEW k \in Nat, k < n,
           NEW x \in S
    PROVE  Puts(S, n, buf, a, k, x)
BY PartPut, SMT DEF Puts

\* A writer that is not in uartstart() goes on elsewhere.
LEMMA PcStep ==
    ASSUME OutputInv, NEW p \in Writer, wr[p].pc \in {"user", "putc", "woken"},
           NEW v \in {"putc", "sleep"}, wr' = [wr EXCEPT ![p].pc = v],
           UNCHANGED <<tx, tx_lock, fifo, irq, wire>>
    PROVE  OutputInv'
<1>0. OutputTypes /\ LockInv /\ OutInv /\ FifoInv
  BY Zenon DEF OutputInv
<1>1. wr[p].pc \notin {"send", "again", "done"} /\ v \notin {"send", "again", "done"}
  OBVIOUS
<1>2. wr \in [Writer -> [pc : {"user", "putc", "sleep", "woken", "send", "again", "done"},
                         i : 0..WriteSize]]
  BY <1>0, Zenon DEF OutputTypes
<1>3. /\ wr' \in [Writer -> [pc : {"user", "putc", "sleep", "woken", "send", "again", "done"},
                             i : 0..WriteSize]]
      /\ wr'[p].pc = v /\ wr'[p].i = wr[p].i
      /\ \A q \in Writer : q # p => wr'[q] = wr[q]
  BY <1>2
<1>4. Put' = Put
  <2>1. ASSUME NEW q \in Writer PROVE put_by(q)' = put_by(q)
    BY <1>1, <1>3 DEF put_by
  <2> QED
    BY <2>1, Zenon DEF Put
<1>5. Ring' = Ring
  BY Zenon DEF Ring
<1>6. OutInv'
  BY <1>0, <1>4, <1>5, Zenon DEF OutInv
<1>7. OutputTypes'
  BY <1>0, <1>3, Zenon DEF OutputTypes
<1>8. ASSUME NEW q \in Writer
      PROVE  /\ wr'[q].pc \in {"send", "again"} <=> wr[q].pc \in {"send", "again"}
             /\ wr'[q].pc = "send" <=> wr[q].pc = "send"
  BY <1>1, <1>3
<1>9. ASSUME NEW q \in Writer, wr'[q].pc # "done" PROVE wr'[q].i < WriteSize
  <2>1. CASE q = p
    BY <1>0, <1>1, <1>3, <2>1 DEF LockInv
  <2>2. CASE q # p
    BY <1>0, <1>3, <1>9, <2>2, Zenon DEF LockInv
  <2> QED
    BY <2>1, <2>2, Zenon
<1>10. LockInv'
  BY <1>0, <1>8, <1>9, Zenon DEF LockInv
<1>11. FifoInv'
  BY <1>0, <1>8, Zenon DEF FifoInv, Sending
<1> QED
  BY <1>6, <1>7, <1>10, <1>11, Zenon DEF OutputInv

\* A writer puts its next byte into the ring, or waits while that is full.
LEMMA WriterPuts ==
    ASSUME OutputInv, NEW p \in Writer, uartputc(p)
    PROVE  OutputInv'
<1>0. /\ OutputTypes /\ LockInv /\ OutInv /\ FifoInv /\ tx_lock = NoChar
      /\ wr[p].pc \in {"putc", "woken"} /\ fifo' = fifo /\ irq' = irq /\ wire' = wire
  BY Zenon DEF OutputInv, uartputc
<1>1. Alone(p) /\ wr[p].pc \notin {"send", "again", "done"}
  <2>1. NoChar \notin Writer /\ NoChar # handler
    BY <1>0, WritersAre, Zenon
  <2>2. Alone(p)
    BY <1>0, <2>1, Zenon DEF Alone, LockInv
  <2> QED
    BY <1>0, <2>2
<1>2. Put[p] = wr[p].i /\ Put[p] < WriteSize /\ Put \in [Writer -> 0..WriteSize]
  <2>1. /\ Put[p] = wr[p].i + (IF wr[p].pc \in {"send", "again"} THEN 1 ELSE 0)
        /\ wr[p].i \in 0..WriteSize /\ Put \in [Writer -> 0..WriteSize]
    BY <1>0, WritersAre, Zenon
  <2>2. Put[p] = wr[p].i + 0
    BY <1>1, <2>1, Zenon
  <2>3. wr[p].i < WriteSize
    BY <1>0, <1>1, Zenon DEF LockInv
  <2>4. Put[p] = wr[p].i
    BY <2>1, <2>2
  <2> QED
    BY <2>1, <2>3, <2>4, Zenon
<1>3. CASE full
  <2>1. wr' = [wr EXCEPT ![p].pc = "sleep"] /\ tx' = tx /\ tx_lock' = tx_lock
    BY <1>3, Zenon DEF uartputc
  <2>2. UNCHANGED <<tx, tx_lock, fifo, irq, wire>>
    BY <1>0, <2>1, Zenon
  <2>3. wr[p].pc \in {"user", "putc", "woken"} /\ "sleep" \in {"putc", "sleep"}
    BY <1>0
  <2> QED
    BY <2>1, <2>2, <2>3, PcStep, Zenon
<1>4. CASE ~full
  <2> DEFINE n == UART_TX_BUF_SIZE
             S == Byte \union {NoChar}
             x == <<p, wr[p].i>>
             k == tx.w - tx.r
             u == Write(tx.buf, n, tx.r + k, x)
             t == [tx EXCEPT !.buf[tx.w % UART_TX_BUF_SIZE] = <<p, wr[p].i>>, !.w = @ + 1]
  <2>1. put(p, t)
    BY <1>4, Zenon DEF uartputc
  <2>2. /\ IsRing(S, n, tx.buf) /\ tx.r \in Nat /\ tx.r \in Int /\ tx.w \in Nat
        /\ k \in Nat /\ k <= n /\ n \in Nat
    BY <1>0, TxIs, Zenon
  <2>3. k < n /\ tx.r + k = tx.w /\ (tx.w + 1) - tx.r = k + 1 /\ k + 1 \in 0..n
    BY <1>4, <2>2 DEF full
  <2>4. x \in Byte /\ x \in S
    <3>1. wr[p].i \in 0..(WriteSize - 1)
      BY <1>2, Sizes
    <3> QED
      BY <3>1 DEF Byte
  <2>5. t = [buf |-> u, r |-> tx.r, w |-> tx.w + 1]
    <3>1. tx \in [buf : [0..(UART_TX_BUF_SIZE - 1) -> Byte \union {NoChar}], r : Nat, w : Nat]
      BY <1>0, Zenon DEF OutputTypes
    <3>2. u = Write(tx.buf, n, tx.w, x)
      BY <2>3, Zenon
    <3>3. u = [tx.buf EXCEPT ![Mod(tx.w, n)] = x] /\ t = [tx EXCEPT !.buf[Mod(tx.w, n)] = x, !.w = @ + 1]
      BY <3>2, Zenon DEF Write, Mod
    <3> HIDE DEF u, x, n, t
    <3> QED
      BY <3>1, <3>3, Zenon
  <2> HIDE DEF n, S, x, k, u, t
  <2>0. t.buf = u /\ t.r = tx.r /\ t.w = tx.w + 1
    BY <2>5
  <2>6. IsRing(S, n, u) /\ Part(u, n, tx.r, k + 1) = Append(Part(tx.buf, n, tx.r, k), x)
    <3>1. Puts(S, n, tx.buf, tx.r, k, x)
      BY <2>2, <2>3, <2>4, PartPuts, Zenon
    <3> QED
      BY <3>1, Zenon DEF Puts, u
  <2>7. t.w - t.r = k + 1
    BY <2>0, <2>3, Zenon
  <2>8. tx' = t
    BY <2>1, Zenon DEF put
  <2>9. Ring' = Append(Ring, <<p, Put[p]>>)
    <3>1. Ring = Part(tx.buf, n, tx.r, k)
      BY Zenon DEF Ring, n, k
    <3>2. Ring' = Part(u, n, tx.r, k + 1)
      BY <2>0, <2>7, <2>8, Zenon DEF Ring, n
    <3> QED
      BY <1>2, <2>6, <3>1, <3>2, Zenon DEF x
  <2>10. /\ LockInv' /\ FifoInv' /\ tx_lock' \in Writer \union {handler, NoChar}
         /\ wr' \in [Writer -> [pc : {"user", "putc", "sleep", "woken", "send", "again", "done"},
                                i : 0..WriteSize]]
         /\ Put'[p] = wr[p].i + 1 /\ \A q \in Writer : q # p => Put'[q] = Put[q]
    <3>1. t.w - t.r \in 0..UART_TX_BUF_SIZE
      BY <2>3, <2>7, Zenon DEF n
    <3>2. wr[p].pc # "done"
      BY <1>1
    <3> QED
      BY <1>0, <1>1, <2>1, <3>1, <3>2, PutStep, Zenon
  <2>11. Put' = [Put EXCEPT ![p] = Put[p] + 1]
    <3>1. Put' = [q \in Writer |-> Put'[q]]
      BY Zenon DEF Put
    <3>2. [Put EXCEPT ![p] = Put[p] + 1] = [q \in Writer |-> IF q = p THEN Put[p] + 1 ELSE Put[q]]
      BY <1>2, Zenon
    <3> QED
      BY <1>2, <2>10, <3>1, <3>2
  <2>12. Good(wire, fifo, Append(Ring, <<p, Put[p]>>), [Put EXCEPT ![p] = Put[p] + 1])
    BY <1>0, <1>2, GoodPut, Zenon DEF OutInv
  <2>13. OutInv'
    BY <1>0, <2>9, <2>11, <2>12, Zenon DEF OutInv
  <2>14. t \in [buf : [0..(UART_TX_BUF_SIZE - 1) -> Byte \union {NoChar}], r : Nat, w : Nat]
    <3>1. u \in [0..(UART_TX_BUF_SIZE - 1) -> Byte \union {NoChar}]
      BY <2>6, Zenon DEF IsRing, n, S
    <3>2. tx.w + 1 \in Nat
      BY <2>2
    <3> QED
      BY <2>2, <2>5, <3>1, <3>2
  <2>15. OutputTypes'
    BY <1>0, <2>8, <2>10, <2>14, Zenon DEF OutputTypes
  <2> QED
    BY <2>10, <2>13, <2>15, Zenon DEF OutputInv
<1> QED
  BY <1>3, <1>4, Zenon

\* The top of the loop, run by the handler.
LEMMA IntrStep ==
    ASSUME OutputInv, uartintr_start \/ uartintr_again
    PROVE  OutputInv'
<1>0. /\ OutputTypes /\ LockInv /\ OutInv /\ FifoInv /\ held_by(handler, tx) /\ intr_next(tx)
      /\ tx' = tx /\ wr' = wr /\ fifo' = fifo /\ wire' = wire
  BY Zenon DEF OutputInv, uartintr_start, uartintr_again
<1>1. irq'.pc = (IF may_send(tx) THEN "send" ELSE "none") /\ tx_lock' = IF may_send(tx) THEN handler ELSE NoChar
  <2>1. irq' = [pc |-> IF may_send(tx) THEN "send" ELSE "none", c |-> NoChar]
    BY <1>0, Zenon DEF intr_next
  <2>2. irq'.pc = IF may_send(tx) THEN "send" ELSE "none"
    BY <2>1
  <2> QED
    BY <1>0, <2>2, Zenon DEF held_by
<1>2. /\ NoChar \notin Writer /\ handler \notin Writer /\ NoChar # handler
      /\ \A q \in Writer : wr[q].pc \notin {"send", "again"}
  <2>1. NoChar \notin Writer /\ handler \notin Writer /\ NoChar # handler
    BY <1>0, WritersAre, Zenon
  <2>2. tx_lock = NoChar \/ tx_lock = handler
    <3>1. CASE uartintr_start
      BY <3>1, Zenon DEF uartintr_start
    <3>2. CASE uartintr_again
      BY <1>0, <3>2 DEF uartintr_again, LockInv
    <3> QED
      BY <3>1, <3>2, Zenon
  <2> QED
    BY <1>0, <2>1, <2>2, Zenon DEF LockInv
<1>3. OutInv' /\ OutputTypes'
  <2>1. Ring' = Ring /\ Put' = Put
    BY <1>0, Zenon DEF Ring, Put, put_by
  <2>2. tx_lock' \in Writer \union {handler, NoChar}
    BY <1>1, Zenon
  <2> QED
    BY <1>0, <2>1, <2>2, Zenon DEF OutInv, OutputTypes
<1>4. LockInv'
  <2>1. \A q \in Writer : tx_lock' # q /\ wr'[q].pc \notin {"send", "again"}
    BY <1>0, <1>1, <1>2, Zenon
  <2>2. tx_lock' = handler <=> irq'.pc \in {"send", "again"}
    BY <1>1, <1>2
  <2>3. irq'.pc = "send" => tx'.r # tx'.w
    BY <1>0, <1>1 DEF may_send
  <2>4. \A q \in Writer : wr'[q].pc # "send"
    BY <2>1
  <2> QED
    BY <1>0, <2>1, <2>2, <2>3, <2>4, Zenon DEF LockInv
<1>5. FifoInv'
  <2>1. CASE may_send(tx)
    <3>1. fifo' = <<>>
      BY <1>0, <2>1, Zenon DEF may_send
    <3> QED
      BY <3>1 DEF FifoInv
  <2>2. CASE ~may_send(tx)
    <3>1. irq'.pc = "none" /\ \A q \in Writer : wr'[q].pc # "send"
      BY <1>0, <1>1, <1>2, <2>2
    <3>2. ~Sending' /\ irq'.pc # "echo_write"
      BY <3>1 DEF Sending
    <3> QED
      BY <1>0, <3>2, Zenon DEF FifoInv
  <2> QED
    BY <2>1, <2>2, Zenon
<1> QED
  BY <1>3, <1>4, <1>5, Zenon DEF OutputInv

\* A byte or an echo leaves the UART.
LEMMA TransmitStep ==
    ASSUME OutputInv, transmit
    PROVE  OutputInv'
<1>0. /\ OutputTypes /\ LockInv /\ OutInv /\ FifoInv /\ fifo # <<>> /\ fifo' = Tail(fifo)
      /\ wire' = (IF Head(fifo) = ECHO THEN wire ELSE Append(wire, Head(fifo)))
      /\ tx' = tx /\ tx_lock' = tx_lock /\ wr' = wr /\ irq' = irq
  BY Zenon DEF OutputInv, transmit, outputv
<1>1. Ring' = Ring /\ Put' = Put
  BY <1>0, Zenon DEF Ring, Put, put_by
<1>2. Good(wire, fifo, Ring, Put) /\ Put \in [Writer -> 0..WriteSize]
  BY <1>0, WritersAre, Zenon DEF OutInv
<1>3. Good(wire', fifo', Ring, Put)
  <2>1. CASE Head(fifo) = ECHO
    BY <1>0, <1>2, <2>1, GoodEchoOut, Zenon
  <2>2. CASE Head(fifo) # ECHO
    BY <1>0, <1>2, <2>2, GoodOut, Zenon
  <2> QED
    BY <2>1, <2>2, Zenon
<1>4. OutInv'
  BY <1>1, <1>3, Zenon DEF OutInv
<1>5. OutputTypes'
  BY <1>0, <1>3, Zenon DEF OutputTypes, Good
<1>6. LockInv'
  BY <1>0, Zenon DEF LockInv
<1>7. FifoInv'
  <2>1. fifo \in Seq(Token)
    BY <1>0, Zenon DEF OutputTypes
  <2>2. Len(fifo') = Len(fifo) - 1 /\ Len(fifo) \in Nat /\ Len(fifo) >= 1
    BY <1>0, <2>1
  <2>3. Sending' = Sending
    BY <1>0, Zenon DEF Sending
  <2> QED
    BY <1>0, <2>2, <2>3 DEF FifoInv
<1> QED
  BY <1>4, <1>5, <1>6, <1>7, Zenon DEF OutputInv

\* consputc() puts an echo into the UART.
LEMMA EchoStep ==
    ASSUME OutputInv, irq.pc = "echo_write", fifo' = Append(fifo, ECHO),
           irq'.pc \in {"echo", "getc"}, UNCHANGED <<tx, tx_lock, wr, wire>>
    PROVE  OutputInv'
<1>0. OutputTypes /\ LockInv /\ OutInv /\ FifoInv
  BY Zenon DEF OutputInv
<1>1. Ring' = Ring /\ Put' = Put
  BY Zenon DEF Ring, Put, put_by
<1>2. Good(wire, fifo, Ring, Put) /\ Put \in [Writer -> 0..WriteSize]
  BY <1>0, WritersAre, Zenon DEF OutInv
<1>3. Good(wire', fifo', Ring, Put)
  BY <1>2, GoodEchoIn, Zenon
<1>4. OutInv'
  BY <1>1, <1>3, Zenon DEF OutInv
<1>5. OutputTypes'
  BY <1>0, <1>3, Zenon DEF OutputTypes, Good
<1>6. LockInv'
  BY <1>0 DEF LockInv
<1>7. FifoInv'
  <2>1. fifo \in Seq(Token)
    BY <1>0, Zenon DEF OutputTypes
  <2>2. Len(fifo') = Len(fifo) + 1 /\ Len(fifo) \in Nat
    BY <2>1
  <2>3. Sending' <=> Sending
    BY DEF Sending
  <2>4. irq'.pc # "echo_write"
    OBVIOUS
  <2> QED
    BY <1>0, <2>2, <2>3, <2>4 DEF FifoInv
<1> QED
  BY <1>4, <1>5, <1>6, <1>7, Zenon DEF OutputInv

\* At the beginning nothing is on its way.
LEMMA OutputStart ==
    ASSUME Init
    PROVE  OutputInv
<1>1. /\ tx.buf = [i \in 0..(UART_TX_BUF_SIZE - 1) |-> NoChar] /\ tx.r = 0 /\ tx.w = 0
      /\ tx \in [buf : [0..(UART_TX_BUF_SIZE - 1) -> Byte \union {NoChar}], r : Nat, w : Nat]
  BY DEF Init
<1>2. tx_lock = NoChar /\ fifo = <<>> /\ wire = <<>> /\ irq.pc = "none"
  BY DEF Init
<1>3. /\ wr \in [Writer -> [pc : {"user", "putc", "sleep", "woken", "send", "again", "done"},
                            i : 0..WriteSize]]
      /\ \A p \in Writer : wr[p].pc = "user" /\ wr[p].i = 0
  BY Sizes DEF Init
<1>4. OutputTypes
  <2>1. fifo \in Seq(Token) /\ wire \in Seq(Byte)
    BY <1>2
  <2> QED
    BY <1>1, <1>2, <1>3, <2>1, Zenon DEF OutputTypes
<1>5. LockInv
  <2>1. NoChar \notin Writer /\ handler # NoChar
    BY ConsoleAssumption, Zenon DEF handler
  <2>2. tx.w - tx.r \in 0..UART_TX_BUF_SIZE
    BY <1>1, Sizes
  <2>3. \A p \in Writer : tx_lock # p /\ wr[p].pc \notin {"send", "again"}
    BY <1>2, <1>3, <2>1
  <2>4. \A p \in Writer : wr[p].i < WriteSize
    BY <1>3, Sizes
  <2> QED
    BY <1>2, <2>1, <2>2, <2>3, <2>4 DEF LockInv
<1>6. FifoInv
  <2>1. Len(fifo) = 0
    BY <1>2
  <2> QED
    BY <2>1 DEF FifoInv
<1>7. OutInv
  <2>1. Put \in [Writer -> 0..WriteSize] /\ \A p \in Writer : Put[p] = 0
    <3>1. \A p \in Writer : Put[p] = wr[p].i + (IF wr[p].pc \in {"send", "again"} THEN 1 ELSE 0)
      BY <1>4, <1>5, WritersAre, Zenon
    <3>2. \A p \in Writer : Put[p] = 0
      BY <1>3, <3>1
    <3> QED
      BY <1>4, <1>5, <3>2, WritersAre, Zenon
  <2>2. tx.w - tx.r = 0
    BY <1>1
  <2>3. Ring = <<>>
    <3>1. Ring = Part(tx.buf, UART_TX_BUF_SIZE, tx.r, 0)
      BY <2>2, Zenon DEF Ring
    <3> QED
      BY <3>1 DEF Part
  <2>4. Cat(wire, fifo, Ring) = <<>>
    BY <1>2, <2>3 DEF Cat
  <2>5. Len(Cat(wire, fifo, Ring)) = 0
    BY <2>4
  <2>6. Whole(Cat(wire, fifo, Ring), Put) /\ InOrder(Cat(wire, fifo, Ring))
    BY <2>1, <2>5 DEF Whole, InOrder
  <2>7. Ring \in Seq(Byte)
    BY <2>3
  <2> QED
    BY <1>4, <2>6, <2>7, Zenon DEF OutInv, Good, OutputTypes
<1> QED
  BY <1>4, <1>5, <1>6, <1>7, Zenon DEF OutputInv

\* What the invariant says of the output is what OutputSound asks for.
LEMMA Conserved ==
    ASSUME OutputInv
    PROVE  FifoHolds /\ OutputConserved
<1>0. OutputTypes /\ LockInv /\ OutInv /\ FifoInv
  BY Zenon DEF OutputInv
<1>1. FifoHolds
  <2>1. fifo \in Seq(Token)
    BY <1>0, Zenon DEF OutputTypes
  <2> QED
    BY <1>0, <2>1, ConsoleAssumption DEF FifoInv, FifoHolds
<1>2. ring = Ring
  BY Zenon DEF ring, Ring, Part, Mod
<1> DEFINE out == wire \o fifo \o ring
           bytes == {out[i] : i \in 1..Len(out)} \ {ECHO}
           wanted == UNION {{p} \X (0..(put_by(p) - 1)) : p \in Writer}
<1>3. Whole(out, Put) /\ InOrder(out) /\ out \in Seq(Token)
  <2>1. Good(wire, fifo, Ring, Put)
    BY <1>0, Zenon DEF OutInv
  <2>2. Cat(wire, fifo, Ring) \in Seq(Token)
    BY <2>1, Bytes, Cats, Zenon DEF Good
  <2> QED
    BY <1>2, <2>1, <2>2, Zenon DEF Good, Cat
<1>4. \A p \in Writer : Put[p] = put_by(p)
  BY Zenon DEF Put
<1> HIDE DEF out
<1>5. \A i \in 1..Len(out) : out[i] # ECHO => out[i] \in Byte
  <2>1. \A i \in 1..Len(out) : out[i] \in Token
    BY <1>3
  <2> QED
    BY <2>1, Zenon DEF Token
<1>6. ASSUME NEW x \in bytes PROVE x \in wanted
  <2>1. PICK i \in 1..Len(out) : x = out[i] /\ x # ECHO
    BY Zenon
  <2>2. x \in Byte /\ x[2] < Put[x[1]]
    BY <1>3, <1>5, <2>1, Zenon DEF Whole
  <2>3. PICK p \in Writer, b \in 0..(WriteSize - 1) : x = <<p, b>>
    BY <2>2 DEF Byte
  <2>4. b < put_by(p)
    BY <1>4, <2>2, <2>3
  <2>5. put_by(p) \in 0..WriteSize
    BY <1>0, <1>4, WritersAre, Zenon
  <2>6. b \in 0..(put_by(p) - 1)
    BY <2>4, <2>5, Sizes
  <2>7. x \in {p} \X (0..(put_by(p) - 1))
    BY <2>3, <2>6
  <2> QED
    BY <2>7, Zenon
<1>7. ASSUME NEW x \in wanted PROVE x \in bytes
  <2>1. PICK p \in Writer : x \in {p} \X (0..(put_by(p) - 1))
    BY Zenon
  <2>2. PICK b \in 0..(put_by(p) - 1) : x = <<p, b>>
    BY <2>1
  <2>3. PICK i \in 1..Len(out) : out[i] # ECHO /\ out[i][1] = p /\ out[i][2] = b
    <3>1. b \in 0..(Put[p] - 1)
      BY <1>4, <2>2
    <3> QED
      BY <1>3, <3>1 DEF Whole
  <2>4. out[i] = <<p, b>>
    <3>1. out[i] \in Byte
      BY <1>5, <2>3, Zenon
    <3> QED
      BY <2>3, <3>1 DEF Byte
  <2> QED
    BY <2>2, <2>3, <2>4, Zenon
<1>8. bytes = wanted
  BY <1>6, <1>7, Zenon
<1>9. OutputConserved
  BY <1>3, <1>8, Zenon DEF OutputConserved, out, InOrder
<1> QED
  BY <1>1, <1>9, Zenon

-----------------------------------------------------------------------------
\* The input ring: dr characters from cons.r on are complete, the next dl edited.

Cell == Char \union {NoChar}
At(k, dr, dl) ==
    /\ dr \in Nat /\ dl \in Nat /\ dr + dl <= INPUT_BUF_SIZE
    /\ k.r \in 0..(UINT - 1) /\ k.w = add(k.r, dr) /\ k.e = add(k.r, dr + dl)
    /\ IsRing(Cell, INPUT_BUF_SIZE, k.buf)
Reads(k, dr, dl) ==
    /\ Slice(k.buf, k.r, k.w) = Part(k.buf, INPUT_BUF_SIZE, k.r, dr)
    /\ Slice(k.buf, k.w, k.e) = Part(k.buf, INPUT_BUF_SIZE, k.r + dr, dl)
    /\ Dist(k.r, k.w) = dr /\ Dist(k.w, k.e) = dl
    /\ k.w \in 0..(UINT - 1) /\ k.e \in 0..(UINT - 1)
Shows(k, dr, dl, s, t) ==
    /\ At(k, dr, dl)
    /\ Part(k.buf, INPUT_BUF_SIZE, k.r, dr) = s
    /\ Part(k.buf, INPUT_BUF_SIZE, k.r + dr, dl) = t

\* An index moved on twice ...
LEMMA AddAdd ==
    ASSUME NEW a \in 0..(UINT - 1), NEW x \in Nat, NEW y \in Nat, x + y <= UINT
    PROVE  add(add(a, x), y) = add(a, x + y) /\ add(a, x) \in 0..(UINT - 1)
<1>1. x \in 0..UINT /\ y \in 0..UINT /\ x + y \in 0..UINT
  BY Sizes
<1>2. /\ add(a, x) = (IF a + x < UINT THEN a + x ELSE a + x - UINT)
      /\ add(a, x) \in 0..(UINT - 1)
  BY <1>1, AddIs, Zenon
<1>3. PICK s \in 0..(UINT - 1) : s = add(a, x)
  BY <1>2, Zenon
<1>4. add(s, y) = IF s + y < UINT THEN s + y ELSE s + y - UINT
  BY <1>1, AddIs, Zenon
<1>5. add(a, x + y) = IF a + (x + y) < UINT THEN a + (x + y) ELSE a + (x + y) - UINT
  BY <1>1, AddIs, Zenon
<1>6. s = IF a + x < UINT THEN a + x ELSE a + x - UINT
  BY <1>2, <1>3, Zenon
<1>7. add(s, y) = add(a, x + y)
  BY <1>4, <1>5, <1>6, Sizes
<1> QED
  BY <1>2, <1>3, <1>7, Zenon

\* ... or on and back by one.
LEMMA AddBack ==
    ASSUME NEW a \in 0..(UINT - 1), NEW x \in Nat, 1 <= x, x <= UINT
    PROVE  add(add(a, x), -1) = add(a, x - 1)
<1>1. x \in 0..UINT /\ x - 1 \in 0..UINT
  BY Sizes
<1>2. /\ add(a, x) = (IF a + x < UINT THEN a + x ELSE a + x - UINT)
      /\ add(a, x) \in 0..(UINT - 1)
  BY <1>1, AddIs, Zenon
<1>3. PICK s \in 0..(UINT - 1) : s = add(a, x)
  BY <1>2, Zenon
<1>4. add(s, -1) = IF s = 0 THEN UINT - 1 ELSE s - 1
  BY BackIs, Zenon
<1>5. add(a, x - 1) = IF a + (x - 1) < UINT THEN a + (x - 1) ELSE a + (x - 1) - UINT
  BY <1>1, AddIs, Zenon
<1>6. s = IF a + x < UINT THEN a + x ELSE a + x - UINT
  BY <1>2, <1>3, Zenon
<1>7. add(s, -1) = add(a, x - 1)
  BY <1>4, <1>5, <1>6, Sizes
<1> QED
  BY <1>3, <1>7, Zenon

\* How far an index is from where it was.
LEMMA DistAdd ==
    ASSUME NEW a \in 0..(UINT - 1), NEW x \in Nat, x < UINT
    PROVE  Dist(a, add(a, x)) = x
<1>1. x \in 0..UINT
  BY Sizes
<1>2. /\ add(a, x) = (IF a + x < UINT THEN a + x ELSE a + x - UINT)
      /\ add(a, x) \in 0..(UINT - 1)
  BY <1>1, AddIs, Zenon
<1>3. PICK s \in 0..(UINT - 1) : s = add(a, x)
  BY <1>2, Zenon
<1>4. s = IF a + x < UINT THEN a + x ELSE a + x - UINT
  BY <1>2, <1>3, Zenon
<1>5. Dist(a, s) = IF s < a THEN s - a + UINT ELSE s - a
  BY DistIs, Zenon
<1>6. Dist(a, s) = x
  BY <1>4, <1>5, Sizes
<1> QED
  BY <1>3, <1>6, Zenon

\* An index moved on by its distance to another is that one.
LEMMA AddDist ==
    ASSUME NEW a \in 0..(UINT - 1), NEW b \in 0..(UINT - 1)
    PROVE  add(a, Dist(a, b)) = b /\ Dist(a, b) \in Nat
<1>1. /\ Dist(a, b) = (IF b < a THEN b - a + UINT ELSE b - a) /\ Dist(a, b) \in 0..(UINT - 1)
  BY DistIs, Zenon
<1>2. PICK x \in 0..(UINT - 1) : x = Dist(a, b)
  BY <1>1, Zenon
<1>3. x \in 0..UINT /\ x \in Nat
  BY Sizes
<1>4. add(a, x) = IF a + x < UINT THEN a + x ELSE a + x - UINT
  BY <1>3, AddIs, Zenon
<1>5. x = IF b < a THEN b - a + UINT ELSE b - a
  BY <1>1, <1>2, Zenon
<1>6. add(a, x) = b
  BY <1>4, <1>5, Sizes
<1> QED
  BY <1>2, <1>3, <1>6, Zenon

\* The place of an index that was moved on.
LEMMA PlaceAdd ==
    ASSUME NEW a \in 0..(UINT - 1), NEW x \in Nat, x <= UINT
    PROVE  \A i \in Int : Mod(add(a, x) + i, INPUT_BUF_SIZE) = Mod(a + x + i, INPUT_BUF_SIZE)
<1>1. x \in 0..UINT
  BY Sizes
<1>2. /\ add(a, x) = (IF a + x < UINT THEN a + x ELSE a + x - UINT)
      /\ add(a, x) \in 0..(UINT - 1)
  BY <1>1, AddIs, Zenon
<1>3. PICK s \in 0..(UINT - 1) : s = add(a, x)
  BY <1>2, Zenon
<1>4. s = IF a + x < UINT THEN a + x ELSE a + x - UINT
  BY <1>2, <1>3, Zenon
<1>5. ASSUME NEW i \in Int PROVE Mod(s + i, INPUT_BUF_SIZE) = Mod(a + x + i, INPUT_BUF_SIZE)
  <2>1. PICK u \in Int, v \in Int : u = a + x + i /\ v = s + i
    BY Sizes
  <2>2. u = v \/ u = v + UINT
    BY <1>4, <2>1, Sizes
  <2>3. u % INPUT_BUF_SIZE = v % INPUT_BUF_SIZE
    BY <2>2, Place, Zenon
  <2> QED
    BY <2>1, <2>3, Zenon DEF Mod
<1> QED
  BY <1>3, <1>5, Zenon

\* A slice of the ring is a part of it.
LEMMA SliceIs ==
    ASSUME NEW buf, NEW a \in 0..(UINT - 1), NEW b \in 0..(UINT - 1)
    PROVE  Slice(buf, a, b) = Part(buf, INPUT_BUF_SIZE, a, Dist(a, b))
<1>1. Dist(a, b) \in 0..(UINT - 1)
  BY DistIs, Zenon
<1>2. ASSUME NEW i \in 1..Dist(a, b)
      PROVE  ((a + i - 1) % UINT) % INPUT_BUF_SIZE = Mod(a + i - 1, INPUT_BUF_SIZE)
  <2>1. i - 1 \in 0..UINT
    BY <1>1, Sizes
  <2> QED
    BY <2>1, PlaceOf, Zenon DEF Mod
<1>3. Slice(buf, a, b) = [i \in 1..Dist(a, b) |-> buf[((a + i - 1) % UINT) % INPUT_BUF_SIZE]]
  BY Zenon DEF Slice, Dist
<1>4. Part(buf, INPUT_BUF_SIZE, a, Dist(a, b)) = [i \in 1..Dist(a, b) |-> buf[Mod(a + i - 1, INPUT_BUF_SIZE)]]
  BY Zenon DEF Part
<1>5. [i \in 1..Dist(a, b) |-> buf[((a + i - 1) % UINT) % INPUT_BUF_SIZE]]
        = [i \in 1..Dist(a, b) |-> buf[Mod(a + i - 1, INPUT_BUF_SIZE)]]
  BY <1>2, Zenon
<1> QED
  BY <1>3, <1>4, <1>5, Zenon

\* The place of an index itself.
LEMMA PlaceAt ==
    ASSUME NEW a \in 0..(UINT - 1), NEW x \in Nat, x <= UINT
    PROVE  Mod(add(a, x), INPUT_BUF_SIZE) = Mod(a + x, INPUT_BUF_SIZE)
<1>1. 0 \in Int /\ a + x + 0 = a + x
  BY Sizes
<1>2. PICK s \in Int : s = add(a, x)
  <2>1. x \in 0..UINT
    BY Sizes
  <2>2. add(a, x) \in 0..(UINT - 1)
    BY <2>1, AddIs, Zenon
  <2> QED
    BY <2>2, Sizes
<1>3. s + 0 = s
  OBVIOUS
<1>4. Mod(add(a, x) + 0, INPUT_BUF_SIZE) = Mod(a + x + 0, INPUT_BUF_SIZE)
  BY <1>1, PlaceAdd, Zenon
<1> QED
  BY <1>1, <1>2, <1>3, <1>4, Zenon

\* What the indices make of the ring.
LEMMA ReadsIs ==
    ASSUME NEW k, NEW dr, NEW dl, At(k, dr, dl)
    PROVE  Reads(k, dr, dl)
<1>0. /\ dr \in Nat /\ dl \in Nat /\ dr + dl <= INPUT_BUF_SIZE
      /\ k.r \in 0..(UINT - 1) /\ k.w = add(k.r, dr) /\ k.e = add(k.r, dr + dl)
      /\ IsRing(Cell, INPUT_BUF_SIZE, k.buf)
  BY Zenon DEF At
<1>1. dr < UINT /\ dl < UINT /\ dr + dl <= UINT /\ dr <= UINT /\ dr + dl \in Nat
  BY <1>0, Sizes
<1>2. k.w \in 0..(UINT - 1) /\ k.e = add(k.w, dl)
  <2>1. add(add(k.r, dr), dl) = add(k.r, dr + dl) /\ add(k.r, dr) \in 0..(UINT - 1)
    BY <1>0, <1>1, AddAdd
  <2> QED
    BY <1>0, <2>1, Zenon
<1>3. Dist(k.r, k.w) = dr
  BY <1>0, <1>1, DistAdd, Zenon
<1>4. Dist(k.w, k.e) = dl
  BY <1>0, <1>1, <1>2, DistAdd, Zenon
<1>5. k.e \in 0..(UINT - 1)
  <2>1. dl \in 0..UINT
    BY <1>0, <1>1, Sizes
  <2> QED
    BY <1>2, <2>1, AddIs, Zenon
<1>6. /\ Slice(k.buf, k.r, k.w) = Part(k.buf, INPUT_BUF_SIZE, k.r, Dist(k.r, k.w))
      /\ Slice(k.buf, k.w, k.e) = Part(k.buf, INPUT_BUF_SIZE, k.w, Dist(k.w, k.e))
  BY <1>0, <1>2, <1>5, SliceIs, Zenon
<1>7. Part(k.buf, INPUT_BUF_SIZE, k.w, dl) = Part(k.buf, INPUT_BUF_SIZE, k.r + dr, dl)
  <2>1. \A i \in 1..dl : i - 1 \in Int
    BY <1>0
  <2>2. \A i \in 1..dl : Mod(k.w + (i - 1), INPUT_BUF_SIZE) = Mod(k.r + dr + (i - 1), INPUT_BUF_SIZE)
    BY <1>0, <1>1, <2>1, PlaceAdd, Zenon
  <2>3. k.w \in Int /\ k.r + dr \in Int
    BY <1>0, <1>2, Sizes
  <2>4. Alike(INPUT_BUF_SIZE, k.buf, k.r + dr, k.buf, k.w, dl)
    BY <2>2, Zenon DEF Alike
  <2> QED
    <3>1. Agree(Cell, INPUT_BUF_SIZE, k.buf, k.r + dr, k.buf, k.w, dl)
      BY <1>0, <2>3, <2>4, PartAgree, Zenon
    <3> QED
      BY <3>1, Zenon DEF Agree
<1> QED
  BY <1>2, <1>3, <1>4, <1>5, <1>6, <1>7, Zenon DEF Reads

\* Any indices that are in order can be looked at so.
LEMMA AtIs ==
    ASSUME NEW k, k.r \in 0..(UINT - 1), k.w \in 0..(UINT - 1), k.e \in 0..(UINT - 1),
           IsRing(Cell, INPUT_BUF_SIZE, k.buf),
           Dist(k.r, k.w) + Dist(k.w, k.e) <= INPUT_BUF_SIZE
    PROVE  At(k, Dist(k.r, k.w), Dist(k.w, k.e))
<1>1. /\ add(k.r, Dist(k.r, k.w)) = k.w /\ Dist(k.r, k.w) \in Nat
      /\ add(k.w, Dist(k.w, k.e)) = k.e /\ Dist(k.w, k.e) \in Nat
  BY AddDist, Zenon
<1>2. Dist(k.r, k.w) + Dist(k.w, k.e) <= UINT
  BY <1>1, Sizes
<1>3. add(add(k.r, Dist(k.r, k.w)), Dist(k.w, k.e)) = add(k.r, Dist(k.r, k.w) + Dist(k.w, k.e))
  BY <1>1, <1>2, AddAdd, Zenon
<1>4. k.e = add(k.r, Dist(k.r, k.w) + Dist(k.w, k.e))
  BY <1>1, <1>3, Zenon
<1> QED
  BY <1>1, <1>4, Zenon DEF At

\* A backspace takes the last character of the line.
LEMMA Erases ==
    ASSUME NEW k, NEW dr, NEW dl, At(k, dr, dl), 1 <= dl,
           NEW u, u.r = k.r, u.w = k.w, u.e = add(k.e, -1),
           u.buf = Write(k.buf, INPUT_BUF_SIZE, add(k.e, -1), NoChar)
    PROVE  Shows(u, dr, dl - 1, Part(k.buf, INPUT_BUF_SIZE, k.r, dr),
                 SubSeq(Part(k.buf, INPUT_BUF_SIZE, k.r + dr, dl), 1, dl - 1))
<1> DEFINE n == INPUT_BUF_SIZE
<1>0. /\ dr \in Nat /\ dl \in Nat /\ dr + dl <= n
      /\ k.r \in 0..(UINT - 1) /\ k.w = add(k.r, dr) /\ k.e = add(k.r, dr + dl)
      /\ IsRing(Cell, n, k.buf)
  BY Zenon DEF At
<1>1. PICK r \in 0..(UINT - 1) : r = k.r
  BY <1>0, Zenon
<1>2. PICK buf : buf = k.buf
  OBVIOUS
<1>3. /\ dr + dl \in Nat /\ 1 <= dr + dl /\ dr + dl <= UINT /\ dl - 1 \in Nat /\ dr + (dl - 1) = dr + dl - 1
      /\ dr + dl - 1 \in Nat /\ dr + dl - 1 <= UINT /\ dr + (dl - 1) <= n /\ dl - 1 \in 0..dl
  BY <1>0, Sizes
<1>4. r \in Int /\ r + dr \in Int /\ r + (dr + dl - 1) \in Int /\ n \in Nat
      /\ r + dr <= r + (dr + dl - 1) /\ r + (dr + dl - 1) < r + n
      /\ r + dr + (dl - 1) <= r + (dr + dl - 1) /\ r + (dr + dl - 1) < r + dr + n
  BY <1>0, Sizes
<1>5. u.e = add(r, dr + dl - 1)
  <2>1. add(add(r, dr + dl), -1) = add(r, (dr + dl) - 1)
    BY <1>3, AddBack
  <2>2. (dr + dl) - 1 = dr + dl - 1
    BY <1>0
  <2> QED
    BY <1>0, <1>1, <2>1, <2>2, Zenon
<1>6. Mod(add(k.e, -1), n) = Mod(r + (dr + dl - 1), n)
  BY <1>3, <1>5, PlaceAt, Zenon
<1>7. u.buf = Write(buf, n, r + (dr + dl - 1), NoChar)
  BY <1>2, <1>6, Zenon DEF Write
<1>8. NoChar \in Cell /\ IsRing(Cell, n, buf)
  BY <1>0, <1>2, Zenon DEF Cell
<1> DEFINE j == r + (dr + dl - 1)
           l == dl - 1
           a == r + dr
<1> HIDE DEF n, j, l, a
<1>9. /\ IsRing(Cell, n, Write(buf, n, j, NoChar))
      /\ Part(Write(buf, n, j, NoChar), n, r, dr) = Part(buf, n, r, dr)
  <2>1. r \in Int /\ dr \in Nat /\ j \in Int /\ r + dr <= j /\ j < r + n
    BY <1>0, <1>4, Zenon DEF j
  <2>2. Spared(Cell, n, buf, r, dr, j, NoChar)
    BY <1>8, <2>1, PartSame, Zenon
  <2> QED
    BY <2>2, Zenon DEF Spared
<1>10. Part(Write(buf, n, j, NoChar), n, a, l) = Part(buf, n, a, l)
  <2>1. a \in Int /\ l \in Nat /\ j \in Int /\ a + l <= j /\ j < a + n
    BY <1>3, <1>4, Zenon DEF j, a, l
  <2>2. Spared(Cell, n, buf, a, l, j, NoChar)
    BY <1>8, <2>1, PartSame, Zenon
  <2> QED
    BY <2>2, Zenon DEF Spared
<1>11. Part(buf, n, a, l) = SubSeq(Part(buf, n, a, dl), 1, l)
  <2>1. a \in Int /\ dl \in Nat /\ l \in 0..dl
    BY <1>0, <1>3, <1>4, Zenon DEF a, l
  <2>2. Cut(n, buf, a, dl, l)
    BY <1>8, <2>1, PartCut, Zenon
  <2> QED
    BY <2>2, Zenon DEF Cut
<1>12. u.buf = Write(buf, n, j, NoChar)
  BY <1>7, Zenon DEF j
<1>13. At(u, dr, dl - 1)
  BY <1>0, <1>1, <1>3, <1>5, <1>9, <1>12, Zenon DEF At, n
<1> QED
  BY <1>1, <1>2, <1>9, <1>10, <1>11, <1>12, <1>13, Zenon DEF Shows, n, a, l

\* A character is added to the line.
LEMMA Stores ==
    ASSUME NEW k, NEW dr, NEW dl, At(k, dr, dl), dr + dl < INPUT_BUF_SIZE, NEW c \in Cell,
           NEW u, u.r = k.r, u.w = k.w, u.e = add(k.e, 1),
           u.buf = Write(k.buf, INPUT_BUF_SIZE, k.e, c)
    PROVE  Shows(u, dr, dl + 1, Part(k.buf, INPUT_BUF_SIZE, k.r, dr),
                 Append(Part(k.buf, INPUT_BUF_SIZE, k.r + dr, dl), c))
<1> DEFINE n == INPUT_BUF_SIZE
<1>0. /\ dr \in Nat /\ dl \in Nat /\ dr + dl <= n
      /\ k.r \in 0..(UINT - 1) /\ k.w = add(k.r, dr) /\ k.e = add(k.r, dr + dl)
      /\ IsRing(Cell, n, k.buf)
  BY Zenon DEF At
<1>1. PICK r \in 0..(UINT - 1) : r = k.r
  BY <1>0, Zenon
<1>2. PICK buf : buf = k.buf
  OBVIOUS
<1>3. /\ dr + dl \in Nat /\ dr + dl <= UINT /\ dl + 1 \in Nat /\ 1 \in Nat /\ dr + dl + 1 <= UINT
      /\ dr + (dl + 1) = dr + dl + 1 /\ dr + (dl + 1) <= n /\ dl < n
  BY <1>0, Sizes
<1>4. r \in Int /\ r + dr \in Int /\ r + (dr + dl) \in Int /\ n \in Nat
      /\ r + dr <= r + (dr + dl) /\ r + (dr + dl) < r + n /\ r + dr + dl = r + (dr + dl)
  BY <1>0, Sizes
<1>5. u.e = add(r, dr + (dl + 1))
  <2>1. add(add(r, dr + dl), 1) = add(r, dr + dl + 1)
    BY <1>3, AddAdd
  <2> QED
    BY <1>0, <1>1, <1>3, <2>1, Zenon
<1>6. Mod(k.e, n) = Mod(r + (dr + dl), n)
  BY <1>0, <1>1, <1>3, PlaceAt, Zenon
<1>7. u.buf = Write(buf, n, r + (dr + dl), c)
  BY <1>2, <1>6, Zenon DEF Write
<1>8. IsRing(Cell, n, buf)
  BY <1>0, <1>2, Zenon
<1> DEFINE j == r + (dr + dl)
           a == r + dr
<1> HIDE DEF n, j, a
<1>9. /\ IsRing(Cell, n, Write(buf, n, j, c))
      /\ Part(Write(buf, n, j, c), n, r, dr) = Part(buf, n, r, dr)
  <2>1. r \in Int /\ dr \in Nat /\ j \in Int /\ r + dr <= j /\ j < r + n
    BY <1>0, <1>4, Zenon DEF j
  <2>2. Spared(Cell, n, buf, r, dr, j, c)
    BY <1>8, <2>1, PartSame, Zenon
  <2> QED
    BY <2>2, Zenon DEF Spared
<1>10. Part(Write(buf, n, a + dl, c), n, a, dl + 1) = Append(Part(buf, n, a, dl), c)
  <2>1. a \in Int /\ dl \in Nat /\ dl < n
    BY <1>0, <1>3, <1>4, Zenon DEF a
  <2>2. Puts(Cell, n, buf, a, dl, c)
    BY <1>8, <2>1, PartPuts, Zenon
  <2> QED
    BY <2>2, Zenon DEF Puts
<1>11. u.buf = Write(buf, n, j, c) /\ a + dl = j
  BY <1>4, <1>7, Zenon DEF j, a
<1>12. At(u, dr, dl + 1)
  BY <1>0, <1>1, <1>3, <1>5, <1>9, <1>11, Zenon DEF At, n
<1> QED
  BY <1>1, <1>2, <1>9, <1>10, <1>11, <1>12, Zenon DEF Shows, n, a

\* The line is complete.
LEMMA Completes ==
    ASSUME NEW k, NEW dr, NEW dl, At(k, dr, dl),
           NEW u, u.r = k.r, u.w = k.e, u.e = k.e, u.buf = k.buf
    PROVE  Shows(u, dr + dl, 0,
                 Part(k.buf, INPUT_BUF_SIZE, k.r, dr) \o Part(k.buf, INPUT_BUF_SIZE, k.r + dr, dl), <<>>)
<1>0. /\ dr \in Nat /\ dl \in Nat /\ dr + dl <= INPUT_BUF_SIZE
      /\ k.r \in 0..(UINT - 1) /\ k.w = add(k.r, dr) /\ k.e = add(k.r, dr + dl)
      /\ IsRing(Cell, INPUT_BUF_SIZE, k.buf)
  BY Zenon DEF At
<1>1. dr + dl \in Nat /\ 0 \in Nat /\ dr + dl + 0 = dr + dl
  BY <1>0
<1>2. At(u, dr + dl, 0)
  BY <1>0, <1>1, Zenon DEF At
<1>3. PICK r \in Int : r = k.r
  BY <1>0, Sizes
<1>4. PICK buf : buf = k.buf
  OBVIOUS
<1>5. IsRing(Cell, INPUT_BUF_SIZE, buf)
  BY <1>0, <1>4, Zenon
<1>6. Part(buf, INPUT_BUF_SIZE, r, dr + dl)
        = Part(buf, INPUT_BUF_SIZE, r, dr) \o Part(buf, INPUT_BUF_SIZE, r + dr, dl)
  <2>1. Joint(INPUT_BUF_SIZE, buf, r, dr, dl)
    BY <1>0, <1>5, PartJoin, Zenon
  <2> QED
    BY <2>1, Zenon DEF Joint
<1>7. Part(buf, INPUT_BUF_SIZE, r + (dr + dl), 0) = <<>>
  BY DEF Part
<1> QED
  BY <1>2, <1>3, <1>4, <1>6, <1>7, Zenon DEF Shows

\* The first m of the unread indices lie less than a turn before the rest.
LEMMA Before ==
    ASSUME NEW r \in Int, NEW m \in Nat, m <= UINT, NEW n \in Nat, NEW x \in Int,
           r + m <= x, x < r + n, NEW i \in 0..(m - 1)
    PROVE  i \in Nat /\ i <= UINT /\ r + i \in Int /\ r + i < x /\ x < r + i + n
  BY Sizes

\* A read takes the first m characters.
LEMMA Consumes ==
    ASSUME NEW k, NEW dr, NEW dl, At(k, dr, dl), NEW m \in 0..dr,
           NEW u, u.r = add(k.r, m), u.w = k.w, u.e = k.e,
           u.buf = [j \in 0..(INPUT_BUF_SIZE - 1) |->
                      IF \E i \in 0..(m - 1) : j = Mod(add(k.r, i), INPUT_BUF_SIZE)
                      THEN NoChar ELSE k.buf[j]]
    PROVE  Shows(u, dr - m, dl, SubSeq(Part(k.buf, INPUT_BUF_SIZE, k.r, dr), m + 1, dr),
                 Part(k.buf, INPUT_BUF_SIZE, k.r + dr, dl))
<1> DEFINE n == INPUT_BUF_SIZE
<1>0. /\ dr \in Nat /\ dl \in Nat /\ dr + dl <= n
      /\ k.r \in 0..(UINT - 1) /\ k.w = add(k.r, dr) /\ k.e = add(k.r, dr + dl)
      /\ IsRing(Cell, n, k.buf)
  BY Zenon DEF At
<1>1. PICK r \in 0..(UINT - 1) : r = k.r
  BY <1>0, Zenon
<1>2. PICK s : s = add(r, m)
  OBVIOUS
<1>3. /\ m \in Nat /\ dr - m \in Nat /\ m <= UINT /\ m + (dr - m) = dr /\ m + (dr - m + dl) = dr + dl
      /\ dr <= UINT /\ dr + dl <= UINT /\ (dr - m) + dl \in Nat /\ (dr - m) + dl <= n /\ n \in Nat \ {0}
      /\ r \in Int /\ r + m \in Int /\ r + dr \in Int
  BY <1>0, Sizes
<1>4. s \in 0..(UINT - 1) /\ add(s, dr - m) = add(r, dr) /\ add(s, (dr - m) + dl) = add(r, dr + dl)
  <2>1. add(add(r, m), dr - m) = add(r, m + (dr - m)) /\ add(r, m) \in 0..(UINT - 1)
    BY <1>3, AddAdd
  <2>2. add(add(r, m), (dr - m) + dl) = add(r, m + ((dr - m) + dl))
    BY <1>3, AddAdd
  <2> QED
    BY <1>2, <1>3, <2>1, <2>2, Zenon
<1>5. s \in Int /\ s + (dr - m) \in Int
  BY <1>3, <1>4, Sizes
<1>6. IsRing(Cell, n, u.buf)
  <2>1. k.buf \in [0..(n - 1) -> Cell] /\ NoChar \in Cell /\ n \in Nat \ {0}
    BY <1>0, Zenon DEF IsRing, Cell
  <2> DEFINE c(j) == IF \E i \in 0..(m - 1) : j = Mod(add(k.r, i), INPUT_BUF_SIZE) THEN NoChar ELSE k.buf[j]
  <2>2. ASSUME NEW j \in 0..(n - 1) PROVE c(j) \in Cell
    <3>1. k.buf[j] \in Cell
      BY <2>1, Zenon
    <3> QED
      BY <2>1, <3>1, Zenon
  <2>3. u.buf = [j \in 0..(n - 1) |-> c(j)]
    BY Zenon
  <2> HIDE DEF c
  <2>4. u.buf \in [0..(n - 1) -> Cell]
    BY <2>2, <2>3, Zenon
  <2> QED
    BY <2>1, <2>4, Zenon DEF IsRing
<1>7. At(u, dr - m, dl)
  BY <1>0, <1>1, <1>2, <1>3, <1>4, <1>6, Zenon DEF At
<1>8. ASSUME NEW x \in Int, r + m <= x, x < r + n PROVE u.buf[Mod(x, n)] = k.buf[Mod(x, n)]
  <2>1. Mod(x, n) \in 0..(n - 1)
    BY <1>3, ModIs, Zenon
  <2>2. ASSUME NEW i \in 0..(m - 1) PROVE Mod(x, n) # Mod(add(k.r, i), n)
    <3>1. i \in Nat /\ i <= UINT /\ r + i \in Int /\ r + i < x /\ x < r + i + n
      BY <1>3, <1>8, Before, Zenon
    <3>2. Mod(add(r, i), n) = Mod(r + i, n)
      BY <3>1, PlaceAt, Zenon
    <3>3. Mod(r + i, n) # Mod(x, n)
      BY <1>3, <3>1, ModIs, Zenon
    <3> QED
      BY <1>1, <3>2, <3>3, Zenon
  <2> QED
    BY <2>1, <2>2, Zenon
<1>9. \A i \in Int : Mod(s + i, n) = Mod(r + m + i, n)
  BY <1>2, <1>3, PlaceAdd, Zenon
<1>10. Alike(n, k.buf, r + m, u.buf, s, dr - m)
  <2>1. ASSUME NEW i \in 1..(dr - m) PROVE u.buf[Mod(s + (i - 1), n)] = k.buf[Mod(r + m + (i - 1), n)]
    <3>1. i - 1 \in Int /\ r + m + (i - 1) \in Int /\ r + m <= r + m + (i - 1) /\ r + m + (i - 1) < r + n
      BY <1>0, <1>3
    <3> QED
      BY <1>8, <1>9, <3>1, Zenon
  <2> QED
    BY <2>1, Zenon DEF Alike
<1>11. Alike(n, k.buf, r + dr, u.buf, s + (dr - m), dl)
  <2>1. ASSUME NEW i \in 1..dl
        PROVE  u.buf[Mod(s + (dr - m) + (i - 1), n)] = k.buf[Mod(r + dr + (i - 1), n)]
    <3>1. /\ (dr - m) + (i - 1) \in Int /\ r + dr + (i - 1) \in Int /\ r + m <= r + dr + (i - 1)
          /\ r + dr + (i - 1) < r + n
      BY <1>0, <1>3
    <3>2. /\ s + (dr - m) + (i - 1) = s + ((dr - m) + (i - 1))
          /\ r + m + ((dr - m) + (i - 1)) = r + dr + (i - 1)
      BY <1>0, <1>3, <1>5
    <3> QED
      BY <1>8, <1>9, <3>1, <3>2, Zenon
  <2> QED
    BY <2>1, Zenon DEF Alike
<1>12. PICK buf : buf = k.buf
  OBVIOUS
<1>13. PICK v : v = u.buf
  OBVIOUS
<1> HIDE DEF n
<1>14. IsRing(Cell, n, buf) /\ IsRing(Cell, n, v)
  BY <1>0, <1>6, <1>12, <1>13, Zenon
<1>15. Part(v, n, s, dr - m) = Part(buf, n, r + m, dr - m)
  <2>1. Alike(n, buf, r + m, v, s, dr - m)
    BY <1>10, <1>12, <1>13, Zenon
  <2>2. Agree(Cell, n, buf, r + m, v, s, dr - m)
    BY <1>3, <1>5, <1>14, <2>1, PartAgree, Zenon
  <2> QED
    BY <2>2, Zenon DEF Agree
<1>16. Part(v, n, s + (dr - m), dl) = Part(buf, n, r + dr, dl)
  <2>1. Alike(n, buf, r + dr, v, s + (dr - m), dl)
    BY <1>11, <1>12, <1>13, Zenon
  <2>2. Agree(Cell, n, buf, r + dr, v, s + (dr - m), dl)
    BY <1>0, <1>3, <1>5, <1>14, <2>1, PartAgree, Zenon
  <2> QED
    BY <2>2, Zenon DEF Agree
<1>17. Part(buf, n, r + m, dr - m) = SubSeq(Part(buf, n, r, dr), m + 1, dr)
  <2>1. Cut(n, buf, r, dr, m)
    BY <1>0, <1>3, <1>14, PartCut, Zenon
  <2> QED
    BY <2>1, Zenon DEF Cut
<1> QED
  BY <1>1, <1>2, <1>7, <1>12, <1>13, <1>15, <1>16, <1>17, Zenon DEF Shows, n

\* The characters that a read looks at.
LEMMA AtReady ==
    ASSUME NEW k, NEW dr, NEW dl, At(k, dr, dl)
    PROVE  /\ avail(k) = dr
           /\ \A i \in 0..(dr - 1) : at(k, i) = Part(k.buf, INPUT_BUF_SIZE, k.r, dr)[i + 1]
           /\ \A m \in 0..dr : [i \in 1..m |-> at(k, i - 1)] = SubSeq(Part(k.buf, INPUT_BUF_SIZE, k.r, dr), 1, m)
           /\ Part(k.buf, INPUT_BUF_SIZE, k.r, dr) \in Seq(Cell)
           /\ Len(Part(k.buf, INPUT_BUF_SIZE, k.r, dr)) = dr
<1> DEFINE n == INPUT_BUF_SIZE
<1>0. /\ dr \in Nat /\ dl \in Nat /\ dr + dl <= n /\ k.r \in 0..(UINT - 1) /\ IsRing(Cell, n, k.buf)
  BY Zenon DEF At
<1>1. Reads(k, dr, dl)
  BY ReadsIs, Zenon
<1>2. avail(k) = dr
  <2>1. Dist(k.r, k.w) = dr /\ k.w \in 0..(UINT - 1)
    BY <1>1, Zenon DEF Reads
  <2>2. add(k.w, -k.r) = Dist(k.r, k.w)
    BY <1>0, <2>1, DistIs, Zenon
  <2> QED
    BY <2>1, <2>2, Zenon DEF avail
<1>3. ASSUME NEW i \in 0..(dr - 1) PROVE at(k, i) = k.buf[Mod(k.r + i, n)]
  <2>1. i \in Nat /\ i <= UINT
    BY <1>0, Sizes
  <2>2. Mod(add(k.r, i), n) = Mod(k.r + i, n)
    BY <1>0, <2>1, PlaceAt, Zenon
  <2> QED
    BY <2>2, Zenon DEF at, Mod
<1>4. PICK r \in Int : r = k.r
  BY <1>0, Sizes
<1>5. PICK buf : buf = k.buf
  OBVIOUS
<1> HIDE DEF n
<1>6. IsPart(Cell, n, buf, r, dr, Part(buf, n, r, dr))
  BY <1>0, <1>4, <1>5, PartIs, Zenon
<1>7. ASSUME NEW i \in 0..(dr - 1) PROVE at(k, i) = Part(buf, n, r, dr)[i + 1]
  <2>1. i + 1 \in 1..dr /\ r + (i + 1) - 1 = r + i
    BY <1>0
  <2> QED
    BY <1>3, <1>4, <1>5, <1>6, <2>1, Zenon DEF IsPart
<1>8. ASSUME NEW m \in 0..dr
      PROVE  [i \in 1..m |-> at(k, i - 1)] = SubSeq(Part(buf, n, r, dr), 1, m)
  <2>1. Part(buf, n, r, m) = SubSeq(Part(buf, n, r, dr), 1, m)
    <3>1. Cut(n, buf, r, dr, m)
      BY <1>0, <1>5, PartCut, Zenon
    <3> QED
      BY <3>1, Zenon DEF Cut
  <2>2. ASSUME NEW i \in 1..m PROVE at(k, i - 1) = buf[Mod(r + i - 1, n)]
    <3>1. i - 1 \in 0..(dr - 1)
      BY <1>0
    <3> QED
      BY <1>3, <1>4, <1>5, <3>1, Zenon
  <2>3. Part(buf, n, r, m) = [i \in 1..m |-> buf[Mod(r + i - 1, n)]]
    BY Zenon DEF Part
  <2>4. [i \in 1..m |-> at(k, i - 1)] = [i \in 1..m |-> buf[Mod(r + i - 1, n)]]
    BY <2>2, Zenon
  <2> QED
    BY <2>1, <2>3, <2>4, Zenon
<1> QED
  BY <1>2, <1>4, <1>5, <1>6, <1>7, <1>8, Zenon DEF n, IsPart

\* The console's buffer as readers know it: s is complete, t is being edited.
Cons == [buf : [0..(INPUT_BUF_SIZE - 1) -> Char \union {NoChar}],
         r : 0..(UINT - 1), w : 0..(UINT - 1), e : 0..(UINT - 1)]
View(k, dr, dl, s, t) ==
    /\ k \in Cons /\ At(k, dr, dl)
    /\ Dist(k.r, k.w) = dr /\ Dist(k.w, k.e) = dl
    /\ s = Slice(k.buf, k.r, k.w) /\ t = Slice(k.buf, k.w, k.e)
    /\ s = Part(k.buf, INPUT_BUF_SIZE, k.r, dr) /\ t = Part(k.buf, INPUT_BUF_SIZE, k.r + dr, dl)
    /\ s \in Seq(Cell) /\ t \in Seq(Cell) /\ Len(s) = dr /\ Len(t) = dl
    /\ dr \in Nat /\ dl \in Nat /\ dr + dl <= INPUT_BUF_SIZE

\* A ring whose indices are in order has a view.
LEMMA ViewAt ==
    ASSUME NEW k \in Cons, NEW dr, NEW dl, At(k, dr, dl)
    PROVE  View(k, dr, dl, Part(k.buf, INPUT_BUF_SIZE, k.r, dr), Part(k.buf, INPUT_BUF_SIZE, k.r + dr, dl))
<1>1. Reads(k, dr, dl)
  BY ReadsIs, Zenon
<1>2. /\ dr \in Nat /\ dl \in Nat /\ dr + dl <= INPUT_BUF_SIZE
      /\ k.r \in 0..(UINT - 1) /\ IsRing(Cell, INPUT_BUF_SIZE, k.buf)
  BY Zenon DEF At
<1>3. k.r \in Int /\ k.r + dr \in Int
  BY <1>2, Sizes
<1>4. /\ IsPart(Cell, INPUT_BUF_SIZE, k.buf, k.r, dr, Part(k.buf, INPUT_BUF_SIZE, k.r, dr))
      /\ IsPart(Cell, INPUT_BUF_SIZE, k.buf, k.r + dr, dl, Part(k.buf, INPUT_BUF_SIZE, k.r + dr, dl))
  BY <1>2, <1>3, PartIs, Zenon
<1> QED
  BY <1>1, <1>2, <1>4, Zenon DEF View, Reads, IsPart

\* The fields of the ring.
LEMMA ConsIs ==
    ASSUME NEW k \in Cons
    PROVE  /\ k.r \in 0..(UINT - 1) /\ k.w \in 0..(UINT - 1) /\ k.e \in 0..(UINT - 1)
           /\ IsRing(Cell, INPUT_BUF_SIZE, k.buf)
           /\ k = [buf |-> k.buf, r |-> k.r, w |-> k.w, e |-> k.e]
<1>1. INPUT_BUF_SIZE \in Nat \ {0}
  BY Sizes
<1>2. k.buf \in [0..(INPUT_BUF_SIZE - 1) -> Char \union {NoChar}]
  BY DEF Cons
<1>3. /\ k.r \in 0..(UINT - 1) /\ k.w \in 0..(UINT - 1) /\ k.e \in 0..(UINT - 1)
      /\ k = [buf |-> k.buf, r |-> k.r, w |-> k.w, e |-> k.e]
  BY DEF Cons
<1> QED
  BY <1>1, <1>2, <1>3, Zenon DEF IsRing, Cell

Fields(u, b, r, w, e) == u \in Cons /\ u.buf = b /\ u.r = r /\ u.w = w /\ u.e = e

\* Four fields of the right types are a ring.
LEMMA ConsOf ==
    ASSUME NEW b, IsRing(Cell, INPUT_BUF_SIZE, b),
           NEW r \in 0..(UINT - 1), NEW w \in 0..(UINT - 1), NEW e \in 0..(UINT - 1),
           NEW u, u = [buf |-> b, r |-> r, w |-> w, e |-> e]
    PROVE  Fields(u, b, r, w, e)
<1>1. b \in [0..(INPUT_BUF_SIZE - 1) -> Char \union {NoChar}]
  BY Zenon DEF IsRing, Cell
<1>2. u \in Cons
  BY <1>1, Zenon DEF Cons
<1> QED
  BY <1>2, Zenon DEF Fields

\* Whatever the indices are, if they are in order.
LEMMA ViewIs ==
    ASSUME NEW k \in Cons, Dist(k.r, k.w) + Dist(k.w, k.e) <= INPUT_BUF_SIZE
    PROVE  View(k, Dist(k.r, k.w), Dist(k.w, k.e), Slice(k.buf, k.r, k.w), Slice(k.buf, k.w, k.e))
<1>1. At(k, Dist(k.r, k.w), Dist(k.w, k.e))
  BY AtIs, ConsIs, Zenon
<1>2. View(k, Dist(k.r, k.w), Dist(k.w, k.e), Part(k.buf, INPUT_BUF_SIZE, k.r, Dist(k.r, k.w)),
           Part(k.buf, INPUT_BUF_SIZE, k.r + Dist(k.r, k.w), Dist(k.w, k.e)))
  BY <1>1, ViewAt, Zenon
<1> QED
  BY <1>2, Zenon DEF View

\* The line is empty, or nothing is complete, when two indices meet; and all
\* of it is as long as the way from the first to the last.
LEMMA ViewEnds ==
    ASSUME NEW k, NEW dr, NEW dl, NEW s, NEW t, View(k, dr, dl, s, t)
    PROVE  /\ k.e = k.w <=> dl = 0
           /\ k.r = k.w <=> dr = 0
           /\ add(k.e, -k.r) = dr + dl
           /\ avail(k) = dr
<1>1. k \in Cons /\ At(k, dr, dl) /\ Dist(k.r, k.w) = dr /\ Dist(k.w, k.e) = dl
  BY Zenon DEF View
<1>2. k.r \in 0..(UINT - 1) /\ k.w \in 0..(UINT - 1) /\ k.e \in 0..(UINT - 1)
  BY <1>1, ConsIs, Zenon
<1>3. (k.w = k.e <=> dl = 0) /\ (k.r = k.w <=> dr = 0)
  BY <1>1, <1>2, DistIs, Zenon
<1>4. dr + dl \in Nat /\ dr + dl < UINT /\ k.e = add(k.r, dr + dl)
  <2>1. dr \in Nat /\ dl \in Nat /\ dr + dl <= INPUT_BUF_SIZE /\ k.e = add(k.r, dr + dl)
    BY <1>1, Zenon DEF At
  <2> QED
    BY <2>1, Sizes
<1>5. Dist(k.r, k.e) = dr + dl
  BY <1>2, <1>4, DistAdd, Zenon
<1>6. add(k.e, -k.r) = Dist(k.r, k.e)
  BY <1>2, DistIs, Zenon
<1>7. avail(k) = dr
  BY <1>1, AtReady, Zenon
<1> QED
  BY <1>3, <1>5, <1>6, <1>7, Zenon

\* A ring that shows s and t has them for its view.
LEMMA ViewShown ==
    ASSUME NEW k \in Cons, NEW dr, NEW dl, NEW s, NEW t, Shows(k, dr, dl, s, t)
    PROVE  View(k, dr, dl, s, t)
<1>1. /\ At(k, dr, dl) /\ Part(k.buf, INPUT_BUF_SIZE, k.r, dr) = s
      /\ Part(k.buf, INPUT_BUF_SIZE, k.r + dr, dl) = t
  BY Zenon DEF Shows
<1>2. View(k, dr, dl, Part(k.buf, INPUT_BUF_SIZE, k.r, dr), Part(k.buf, INPUT_BUF_SIZE, k.r + dr, dl))
  BY <1>1, ViewAt, Zenon
<1> QED
  BY <1>1, <1>2, Zenon

\* What erased() does ...
LEMMA ViewErased ==
    ASSUME NEW k, NEW dr, NEW dl, NEW s, NEW t, View(k, dr, dl, s, t), k.e # k.w
    PROVE  1 <= dl /\ View(erased(k), dr, dl - 1, s, SubSeq(t, 1, dl - 1))
<1>1. /\ k \in Cons /\ At(k, dr, dl) /\ dl \in Nat /\ Dist(k.w, k.e) = dl
      /\ s = Part(k.buf, INPUT_BUF_SIZE, k.r, dr) /\ t = Part(k.buf, INPUT_BUF_SIZE, k.r + dr, dl)
  BY Zenon DEF View
<1>2. /\ k.r \in 0..(UINT - 1) /\ k.w \in 0..(UINT - 1) /\ k.e \in 0..(UINT - 1)
      /\ IsRing(Cell, INPUT_BUF_SIZE, k.buf)
      /\ k = [buf |-> k.buf, r |-> k.r, w |-> k.w, e |-> k.e]
  BY <1>1, ConsIs, Zenon
<1>3. 1 <= dl
  <2>1. dl # 0
    BY ViewEnds, Zenon
  <2> QED
    BY <1>1, <2>1
<1>4. PICK b : b = Write(k.buf, INPUT_BUF_SIZE, add(k.e, -1), NoChar)
  OBVIOUS
<1>5. PICK u : u = erased(k)
  OBVIOUS
<1>6. u = [buf |-> b, r |-> k.r, w |-> k.w, e |-> add(k.e, -1)]
  BY <1>2, <1>4, <1>5, Zenon DEF erased, Write, Mod
<1>7. IsRing(Cell, INPUT_BUF_SIZE, b)
  BY <1>2, <1>4, Zenon DEF IsRing, Cell, Write
<1>8. add(k.e, -1) \in 0..(UINT - 1)
  BY <1>2, BackIs, Zenon
<1>9. u \in Cons /\ u.buf = b /\ u.r = k.r /\ u.w = k.w /\ u.e = add(k.e, -1)
  <2>1. Fields(u, b, k.r, k.w, add(k.e, -1))
    BY <1>2, <1>6, <1>7, <1>8, ConsOf, Zenon
  <2> QED
    BY <2>1, Zenon DEF Fields
<1>10. Shows(u, dr, dl - 1, s, SubSeq(t, 1, dl - 1))
  BY <1>1, <1>3, <1>4, <1>9, Erases, Zenon
<1>11. View(u, dr, dl - 1, s, SubSeq(t, 1, dl - 1))
  BY <1>9, <1>10, ViewShown, Zenon
<1> QED
  BY <1>3, <1>5, <1>11, Zenon

\* ... stored() ...
LEMMA ViewStored ==
    ASSUME NEW k, NEW dr, NEW dl, NEW s, NEW t, View(k, dr, dl, s, t),
           dr + dl < INPUT_BUF_SIZE, NEW c \in Char
    PROVE  View(stored(k, c), dr, dl + 1, s, Append(t, c))
<1>1. /\ k \in Cons /\ At(k, dr, dl)
      /\ s = Part(k.buf, INPUT_BUF_SIZE, k.r, dr) /\ t = Part(k.buf, INPUT_BUF_SIZE, k.r + dr, dl)
  BY Zenon DEF View
<1>2. /\ k.r \in 0..(UINT - 1) /\ k.w \in 0..(UINT - 1) /\ k.e \in 0..(UINT - 1)
      /\ IsRing(Cell, INPUT_BUF_SIZE, k.buf)
      /\ k = [buf |-> k.buf, r |-> k.r, w |-> k.w, e |-> k.e]
  BY <1>1, ConsIs, Zenon
<1>3. c \in Cell
  BY Zenon DEF Cell
<1>4. PICK b : b = Write(k.buf, INPUT_BUF_SIZE, k.e, c)
  OBVIOUS
<1>5. PICK u : u = stored(k, c)
  OBVIOUS
<1>6. u = [buf |-> b, r |-> k.r, w |-> k.w, e |-> add(k.e, 1)]
  BY <1>2, <1>4, <1>5, Zenon DEF stored, Write, Mod
<1>7. IsRing(Cell, INPUT_BUF_SIZE, b)
  BY <1>2, <1>3, <1>4, Zenon DEF IsRing, Write
<1>8. add(k.e, 1) \in 0..(UINT - 1)
  <2>1. 1 \in 0..UINT
    BY Sizes
  <2> QED
    BY <1>2, <2>1, AddIs, Zenon
<1>9. u \in Cons /\ u.buf = b /\ u.r = k.r /\ u.w = k.w /\ u.e = add(k.e, 1)
  <2>1. Fields(u, b, k.r, k.w, add(k.e, 1))
    BY <1>2, <1>6, <1>7, <1>8, ConsOf, Zenon
  <2> QED
    BY <2>1, Zenon DEF Fields
<1>10. Shows(u, dr, dl + 1, s, Append(t, c))
  BY <1>1, <1>3, <1>4, <1>9, Stores, Zenon
<1>11. View(u, dr, dl + 1, s, Append(t, c))
  BY <1>9, <1>10, ViewShown, Zenon
<1> QED
  BY <1>5, <1>11, Zenon

\* ... the end of a line ...
LEMMA ViewCompleted ==
    ASSUME NEW k, NEW dr, NEW dl, NEW s, NEW t, View(k, dr, dl, s, t)
    PROVE  View([k EXCEPT !.w = k.e], dr + dl, 0, s \o t, <<>>)
<1>1. /\ k \in Cons /\ At(k, dr, dl)
      /\ s = Part(k.buf, INPUT_BUF_SIZE, k.r, dr) /\ t = Part(k.buf, INPUT_BUF_SIZE, k.r + dr, dl)
  BY Zenon DEF View
<1>2. /\ k.r \in 0..(UINT - 1) /\ k.w \in 0..(UINT - 1) /\ k.e \in 0..(UINT - 1)
      /\ IsRing(Cell, INPUT_BUF_SIZE, k.buf)
      /\ k = [buf |-> k.buf, r |-> k.r, w |-> k.w, e |-> k.e]
  BY <1>1, ConsIs, Zenon
<1>3. PICK u : u = [k EXCEPT !.w = k.e]
  BY Zenon
<1>4. u = [buf |-> k.buf, r |-> k.r, w |-> k.e, e |-> k.e]
  BY <1>2, <1>3, Zenon
<1>5. u \in Cons /\ u.buf = k.buf /\ u.r = k.r /\ u.w = k.e /\ u.e = k.e
  <2>1. Fields(u, k.buf, k.r, k.e, k.e)
    BY <1>2, <1>4, ConsOf, Zenon
  <2> QED
    BY <2>1, Zenon DEF Fields
<1>6. Shows(u, dr + dl, 0, s \o t, <<>>)
  BY <1>1, <1>5, Completes, Zenon
<1>7. View(u, dr + dl, 0, s \o t, <<>>)
  BY <1>5, <1>6, ViewShown, Zenon
<1> QED
  BY <1>3, <1>7, Zenon

\* ... and a read do to them.
LEMMA ViewTaken ==
    ASSUME NEW k, NEW dr, NEW dl, NEW s, NEW t, View(k, dr, dl, s, t), NEW m \in 0..dr
    PROVE  View(taken(k, m), dr - m, dl, SubSeq(s, m + 1, dr), t)
<1>1. /\ k \in Cons /\ At(k, dr, dl) /\ dr \in Nat /\ dl \in Nat /\ dr + dl <= INPUT_BUF_SIZE
      /\ s = Part(k.buf, INPUT_BUF_SIZE, k.r, dr) /\ t = Part(k.buf, INPUT_BUF_SIZE, k.r + dr, dl)
  BY Zenon DEF View
<1>2. /\ k.r \in 0..(UINT - 1) /\ k.w \in 0..(UINT - 1) /\ k.e \in 0..(UINT - 1)
      /\ IsRing(Cell, INPUT_BUF_SIZE, k.buf)
      /\ k = [buf |-> k.buf, r |-> k.r, w |-> k.w, e |-> k.e]
  BY <1>1, ConsIs, Zenon
<1>3. PICK b : b = [j \in 0..(INPUT_BUF_SIZE - 1) |->
                      IF \E i \in 0..(m - 1) : j = Mod(add(k.r, i), INPUT_BUF_SIZE)
                      THEN NoChar ELSE k.buf[j]]
  BY Zenon
<1>4. PICK u : u = taken(k, m)
  OBVIOUS
<1>5. u = [buf |-> b, r |-> add(k.r, m), w |-> k.w, e |-> k.e]
  BY <1>2, <1>3, <1>4, Zenon DEF taken, Mod
<1>6. IsRing(Cell, INPUT_BUF_SIZE, b)
  <2> DEFINE c(j) == IF \E i \in 0..(m - 1) : j = Mod(add(k.r, i), INPUT_BUF_SIZE) THEN NoChar ELSE k.buf[j]
  <2>1. k.buf \in [0..(INPUT_BUF_SIZE - 1) -> Cell] /\ INPUT_BUF_SIZE \in Nat \ {0} /\ NoChar \in Cell
    BY <1>2, Zenon DEF IsRing, Cell
  <2>2. ASSUME NEW j \in 0..(INPUT_BUF_SIZE - 1) PROVE c(j) \in Cell
    <3>1. k.buf[j] \in Cell
      BY <2>1, Zenon
    <3> QED
      BY <2>1, <3>1, Zenon
  <2>3. b = [j \in 0..(INPUT_BUF_SIZE - 1) |-> c(j)]
    BY <1>3, Zenon
  <2> HIDE DEF c
  <2>4. b \in [0..(INPUT_BUF_SIZE - 1) -> Cell]
    BY <2>2, <2>3, Zenon
  <2> QED
    BY <2>1, <2>4, Zenon DEF IsRing
<1>7. add(k.r, m) \in 0..(UINT - 1)
  <2>1. m \in 0..UINT
    BY <1>1, Sizes
  <2> QED
    BY <1>2, <2>1, AddIs, Zenon
<1>8. u \in Cons /\ u.buf = b /\ u.r = add(k.r, m) /\ u.w = k.w /\ u.e = k.e
  <2>1. Fields(u, b, add(k.r, m), k.w, k.e)
    BY <1>2, <1>5, <1>6, <1>7, ConsOf, Zenon
  <2> QED
    BY <2>1, Zenon DEF Fields
<1>9. u.buf = [j \in 0..(INPUT_BUF_SIZE - 1) |->
                 IF \E i \in 0..(m - 1) : j = Mod(add(k.r, i), INPUT_BUF_SIZE)
                 THEN NoChar ELSE k.buf[j]]
  BY <1>3, <1>8, Zenon
<1>10. Shows(u, dr - m, dl, SubSeq(s, m + 1, dr), t)
  BY <1>1, <1>8, <1>9, Consumes, Zenon
<1>11. View(u, dr - m, dl, SubSeq(s, m + 1, dr), t)
  BY <1>8, <1>10, ViewShown, Zenon
<1> QED
  BY <1>4, <1>11, Zenon

Seen(k, dr, s) ==
    /\ \A i \in 0..(dr - 1) : at(k, i) = s[i + 1]
    /\ \A m \in 0..dr : [i \in 1..m |-> at(k, i - 1)] = SubSeq(s, 1, m)

\* What a read sees of the complete input.
LEMMA ViewRead ==
    ASSUME NEW k, NEW dr, NEW dl, NEW s, NEW t, View(k, dr, dl, s, t)
    PROVE  Seen(k, dr, s)
<1>1. At(k, dr, dl) /\ s = Part(k.buf, INPUT_BUF_SIZE, k.r, dr)
  BY Zenon DEF View
<1>2. /\ \A i \in 0..(dr - 1) : at(k, i) = Part(k.buf, INPUT_BUF_SIZE, k.r, dr)[i + 1]
      /\ \A m \in 0..dr : [i \in 1..m |-> at(k, i - 1)] = SubSeq(Part(k.buf, INPUT_BUF_SIZE, k.r, dr), 1, m)
  BY <1>1, AtReady, Zenon
<1> QED
  BY <1>1, <1>2, Zenon DEF Seen

-----------------------------------------------------------------------------
\* The steps of the input.

Irq == [pc : {"none", "getc", "echo", "echo_write", "send", "again"},
        c : Char \union {BS, KILL, NoChar}]
Rd == [Reader -> [pc : {"user", "sleep", "woken"}, n : Nat]]

\* The console's buffer has a view.
LEMMA InputView ==
    ASSUME InputInv
    PROVE  \E dr, dl, s, t : View(cons, dr, dl, s, t)
<1>1. cons \in Cons /\ Dist(cons.r, cons.w) + Dist(cons.w, cons.e) <= INPUT_BUF_SIZE
  BY Zenon DEF InputInv, InputTypes, RingInv, Cons
<1> QED
  BY <1>1, ViewIs, Zenon

\* The parts of the invariant after a step.
LEMMA InputNext ==
    ASSUME NEW dr, NEW dl, NEW s, NEW t, View(cons', dr, dl, s, t),
           rx' \in Seq(Typable), irq' \in Irq, rd' \in Rd, got' \in [Reader -> Seq(Cell)],
           cons_lock' \in BOOLEAN, EchoInv', LineInv', ReaderMustWait'
    PROVE  InputInv'
<1>1. /\ cons' \in Cons /\ Dist(cons'.r, cons'.w) = dr /\ Dist(cons'.w, cons'.e) = dl
      /\ dr + dl <= INPUT_BUF_SIZE
  BY Zenon DEF View
<1>2. InputTypes'
  BY <1>1, Zenon DEF InputTypes, Cons, Irq, Rd, Cell, Char, Typable
<1>3. RingInv'
  BY <1>1, Zenon DEF RingInv, Dist
<1> QED
  BY <1>2, <1>3, Zenon DEF InputInv

Becomes(s, t, u, v) ==
    /\ Slice(cons.buf, cons.r, cons.w) = s /\ Slice(cons.buf, cons.w, cons.e) = t
    /\ Slice(cons.buf, cons.r, cons.w)' = u /\ Slice(cons.buf, cons.w, cons.e)' = v

\* What terminal the console is, before and after a step.
LEMMA TerminalIs ==
    ASSUME NEW dr, NEW dl, NEW s, NEW t, View(cons, dr, dl, s, t),
           NEW er, NEW el, NEW u, NEW v, View(cons', er, el, u, v)
    PROVE  Becomes(s, t, u, v)
  BY Zenon DEF View, Slice, Becomes

\* The steps that leave the buffer and the readers alone.
LEMMA InputFrame ==
    ASSUME InputInv, UNCHANGED <<cons, rd, got>>,
           rx' \in Seq(Typable), irq' \in Irq, cons_lock' \in BOOLEAN, EchoInv'
    PROVE  InputInv' /\ UNCHANGED T!tvars
<1>1. cons' = cons /\ rd' = rd /\ got' = got
  OBVIOUS
<1>2. PICK dr, dl, s, t : View(cons, dr, dl, s, t)
  BY InputView, Zenon
<1>3. View(cons', dr, dl, s, t)
  BY <1>1, <1>2, Zenon
<1>4. rd' \in Rd /\ got' \in [Reader -> Seq(Cell)]
  BY <1>1, Zenon DEF InputInv, InputTypes, Rd, Cell
<1>5. LineInv' /\ ReaderMustWait'
  BY <1>1, Zenon DEF InputInv, LineInv, ReaderMustWait
<1>6. InputInv'
  BY <1>3, <1>4, <1>5, InputNext, Zenon
<1>7. UNCHANGED T!tvars
  BY <1>1, Zenon DEF T!tvars, Slice
<1> QED
  BY <1>6, <1>7, Zenon

\* Backspace and ^U, at the character and after each echo.
LEMMA EraseStep ==
    ASSUME InputInv, cons' = erased(cons), cons.e # cons.w, UNCHANGED <<rd, got>>,
           rx' \in Seq(Typable), irq' \in Irq, cons_lock' = TRUE, irq'.c \in {BS, KILL}
    PROVE  InputInv' /\ T!TerminalNext
<1>1. rd' = rd /\ got' = got
  OBVIOUS
<1>2. PICK dr, dl, s, t : View(cons, dr, dl, s, t)
  BY InputView, Zenon
<1>3. 1 <= dl /\ View(cons', dr, dl - 1, s, SubSeq(t, 1, dl - 1))
  BY <1>2, ViewErased, Zenon
<1>4. rd' \in Rd /\ got' \in [Reader -> Seq(Cell)]
  BY <1>1, Zenon DEF InputInv, InputTypes, Rd, Cell
<1>5. LineInv'
  BY <1>1, Zenon DEF InputInv, LineInv
<1>6. ReaderMustWait'
  <2>1. (cons.r = cons.w <=> dr = 0) /\ (cons'.r = cons'.w <=> dr = 0)
    BY <1>2, <1>3, ViewEnds, Zenon
  <2> QED
    BY <1>1, <2>1, Zenon DEF InputInv, ReaderMustWait
<1>7. EchoInv'
  BY Zenon DEF EchoInv
<1>8. InputInv'
  <2>1. cons_lock' \in BOOLEAN
    OBVIOUS
  <2> QED
    BY <1>3, <1>4, <1>5, <1>6, <1>7, <2>1, InputNext, Zenon
<1>9. T!Erase
  <2>1. t # <<>> /\ Len(t) = dl
    <3>1. t \in Seq(Cell) /\ Len(t) = dl /\ dl \in Nat
      BY <1>2, Zenon DEF View
    <3> QED
      BY <1>3, <3>1
  <2>2. Becomes(s, t, s, SubSeq(t, 1, dl - 1))
    BY <1>2, <1>3, TerminalIs, Zenon
  <2> QED
    BY <1>1, <2>1, <2>2, Zenon DEF T!Erase, Becomes
<1> QED
  BY <1>8, <1>9, Zenon DEF T!TerminalNext

\* A character is stored, and may complete the line.
LEMMA StoreStep ==
    ASSUME InputInv, irq.pc \in {"echo", "echo_write"}, irq.c \notin {BS, KILL},
           store(stored(cons, irq.c), irq.c), released, UNCHANGED <<got, rx>>
    PROVE  InputInv' /\ T!TerminalNext
<1>1. PICK c : c = irq.c
  OBVIOUS
<1>2. got' = got /\ rx' = rx /\ irq' = [pc |-> "getc", c |-> NoChar] /\ cons_lock' = FALSE
  BY Zenon DEF released
<1>3. PICK dr, dl, s, t : View(cons, dr, dl, s, t)
  BY InputView, Zenon
<1>4. c \in Char /\ dr + dl < INPUT_BUF_SIZE
  BY <1>1, <1>3, Zenon DEF InputInv, EchoInv, View
<1>5. PICK k : k = stored(cons, c)
  OBVIOUS
<1>6. View(k, dr, dl + 1, s, Append(t, c))
  BY <1>3, <1>4, <1>5, ViewStored, Zenon
<1>7. /\ dr \in Nat /\ dl \in Nat /\ dl + 1 \in Nat /\ dr + (dl + 1) = dl + dr + 1 /\ dr + dl = dl + dr
      /\ Len(s) = dr /\ Len(t) = dl
  <2>1. dr \in Nat /\ dl \in Nat /\ Len(s) = dr /\ Len(t) = dl
    BY <1>3, Zenon DEF View
  <2> QED
    BY <2>1
<1>8. complete(k, c) <=> c \in {NL, EOF} \/ dl + dr + 1 = INPUT_BUF_SIZE
  BY <1>6, <1>7, ViewEnds, Zenon DEF complete
<1>9. rx' \in Seq(Typable) /\ irq' \in Irq /\ got' \in [Reader -> Seq(Cell)] /\ cons_lock' \in BOOLEAN
  <2>1. irq' \in Irq /\ cons_lock' \in BOOLEAN
    BY <1>2, Zenon DEF Irq
  <2> QED
    BY <1>2, <2>1, Zenon DEF InputInv, InputTypes, Cell
<1>10. EchoInv'
  BY <1>2, Zenon DEF EchoInv
<1>11. rd \in Rd
  BY Zenon DEF InputInv, InputTypes, Rd
<1>12. CASE complete(k, c)
  <2>1. cons' = [k EXCEPT !.w = k.e] /\ rd' = wakeup_readers
    BY <1>1, <1>5, <1>12, Zenon DEF store
  <2>2. View(cons', dr + (dl + 1), 0, s \o Append(t, c), <<>>)
    BY <1>6, <2>1, ViewCompleted, Zenon
  <2>3. \A p \in Reader : /\ rd'[p] \in [pc : {"user", "sleep", "woken"}, n : Nat]
                          /\ rd'[p].pc # "sleep" /\ (rd'[p].pc # "user" => rd[p].pc # "user")
    <3> TAKE p \in Reader
    <3>1. rd[p] \in [pc : {"user", "sleep", "woken"}, n : Nat]
      BY <1>11, Zenon DEF Rd
    <3>2. rd'[p] = IF rd[p].pc = "sleep" THEN [rd[p] EXCEPT !.pc = "woken"] ELSE rd[p]
      BY <2>1, Zenon DEF wakeup_readers
    <3> QED
      BY <3>1, <3>2
  <2>4. rd' \in Rd
    <3>1. rd' = [p \in Reader |-> rd'[p]]
      BY <2>1, Zenon DEF wakeup_readers
    <3> QED
      BY <2>3, <3>1, Zenon DEF Rd
  <2>5. LineInv' /\ ReaderMustWait'
    BY <1>2, <2>3, Zenon DEF InputInv, LineInv, ReaderMustWait
  <2>6. InputInv'
    BY <1>9, <1>10, <2>2, <2>4, <2>5, InputNext, Zenon
  <2>7. Becomes(s, t, s \o Append(t, c), <<>>)
    BY <1>3, <2>2, TerminalIs, Zenon
  <2>8. Len(t) + Len(s) < INPUT_BUF_SIZE /\ (c \in {NL, EOF} \/ Len(t) + Len(s) + 1 = INPUT_BUF_SIZE)
    BY <1>4, <1>7, <1>8, <1>12, Zenon
  <2>9. T!Key(c)
    BY <1>2, <2>7, <2>8, Zenon DEF T!Key, Becomes
  <2> QED
    BY <1>4, <2>6, <2>9, Zenon DEF T!TerminalNext, Char
<1>13. CASE ~complete(k, c)
  <2>1. cons' = k /\ rd' = rd
    BY <1>1, <1>5, <1>13, Zenon DEF store
  <2>2. View(cons', dr, dl + 1, s, Append(t, c))
    BY <1>6, <2>1, Zenon
  <2>3. ReaderMustWait'
    <3>1. (cons.r = cons.w <=> dr = 0) /\ (cons'.r = cons'.w <=> dr = 0)
      BY <1>3, <2>2, ViewEnds, Zenon
    <3> QED
      BY <2>1, <3>1, Zenon DEF InputInv, ReaderMustWait
  <2>4. LineInv'
    BY <1>2, <2>1, Zenon DEF InputInv, LineInv
  <2>5. InputInv'
    BY <1>9, <1>10, <1>11, <2>1, <2>2, <2>3, <2>4, InputNext, Zenon
  <2>6. Becomes(s, t, s, Append(t, c))
    BY <1>3, <2>2, TerminalIs, Zenon
  <2>7. Len(t) + Len(s) < INPUT_BUF_SIZE /\ ~(c \in {NL, EOF} \/ Len(t) + Len(s) + 1 = INPUT_BUF_SIZE)
    BY <1>4, <1>7, <1>8, <1>13, Zenon
  <2>8. T!Key(c)
    BY <1>2, <2>6, <2>7, Zenon DEF T!Key, Becomes
  <2> QED
    BY <1>4, <2>5, <2>8, Zenon DEF T!TerminalNext, Char
<1> QED
  BY <1>12, <1>13, Zenon

Ends(S, g, s, m, h) ==
    /\ h \in Seq(S)
    /\ m > 0 => h # <<>> /\ h[Len(h)] = s[m]
    /\ m = 0 => h = g

\* A read's bytes after those it has got.
LEMMA LastOf ==
    ASSUME NEW S, NEW g \in Seq(S), NEW s \in Seq(S), NEW m \in 0..Len(s),
           NEW h, h = g \o SubSeq(s, 1, m)
    PROVE  Ends(S, g, s, m, h)
<1>1. SubSeq(s, 1, m) \in Seq(S) /\ Len(SubSeq(s, 1, m)) = m /\ \A i \in 1..m : SubSeq(s, 1, m)[i] = s[i]
  OBVIOUS
<1>2. PICK f \in Seq(S) : f = SubSeq(s, 1, m) /\ Len(f) = m /\ \A i \in 1..m : f[i] = s[i]
  BY <1>1, Zenon
<1>3. h = g \o f
  BY <1>2, Zenon
<1>4. h \in Seq(S) /\ (m > 0 => h # <<>> /\ h[Len(h)] = s[m])
  <2>0. /\ g \o f \in Seq(S) /\ Len(g \o f) = Len(g) + Len(f)
        /\ \A i \in 1..(Len(g) + Len(f)) : (g \o f)[i] = IF i <= Len(g) THEN g[i] ELSE f[i - Len(g)]
    BY Joins, Zenon
  <2>1. /\ h \in Seq(S) /\ Len(h) = Len(g) + Len(f)
        /\ \A i \in 1..Len(h) : h[i] = IF i <= Len(g) THEN g[i] ELSE f[i - Len(g)]
    BY <1>3, <2>0, Zenon
  <2>2. Len(g) \in Nat /\ Len(f) = m /\ m \in Nat
    BY <1>2
  <2>3. ASSUME m > 0 PROVE h[Len(h)] = s[m] /\ Len(h) # 0
    <3>1. Len(h) \in 1..Len(h) /\ ~(Len(h) <= Len(g)) /\ Len(h) - Len(g) = m /\ m \in 1..m /\ Len(h) # 0
      BY <2>1, <2>2, <2>3, Z3
    <3> QED
      BY <1>2, <2>1, <3>1, Zenon
  <2>4. h = <<>> => Len(h) = 0
    OBVIOUS
  <2> QED
    BY <2>1, <2>3, <2>4, Zenon
<1>5. m = 0 => h = g
  BY <1>2, <1>3
<1> QED
  BY <1>4, <1>5, Zenon DEF Ends

\* A read, from its start or from its sleep on.
LEMMA ReadStep ==
    ASSUME InputInv, NEW p \in Reader, NEW n \in Nat, NEW g,
           g = <<>> \/ (g = got[p] /\ rd[p].pc # "user"), read_loop(p, n, g),
           ~cons_lock, UNCHANGED <<cons_lock, rx, irq>>
    PROVE  InputInv' /\ T!TerminalNext
<1> DEFINE line(m) == m = n \/ (m > 0 /\ at(cons, m - 1) = NL)
           eof(m) == ~line(m) /\ m < avail(cons) /\ at(cons, m) = EOF
<1>1. PICK m \in 0..n :
        /\ m <= avail(cons)
        /\ \A i \in 0..(m - 1) : at(cons, i) # EOF /\ (at(cons, i) = NL => i = m - 1)
        /\ line(m) \/ eof(m) \/ m = avail(cons)
        /\ cons' = taken(cons, IF eof(m) /\ m = 0 /\ g = <<>> THEN 1 ELSE m)
        /\ got' = [got EXCEPT ![p] = g \o [i \in 1..m |-> at(cons, i - 1)]]
        /\ rd' = [rd EXCEPT ![p] = IF line(m) \/ eof(m) \/ killed[p] THEN [pc |-> "user", n |-> 0]
                                   ELSE [pc |-> "sleep", n |-> n - m]]
  BY Zenon DEF read_loop
<1> HIDE DEF line, eof
<1>2. PICK dr, dl, s, t : View(cons, dr, dl, s, t)
  BY InputView, Zenon
<1>3. dr \in Nat /\ dl \in Nat /\ s \in Seq(Cell) /\ Len(s) = dr
  BY <1>2, Zenon DEF View
<1>4. avail(cons) = dr /\ (cons.r = cons.w <=> dr = 0)
  BY <1>2, ViewEnds, Zenon
<1>5. m \in 0..dr /\ m \in 0..Len(s) /\ m \in Nat /\ n - m \in Nat
  <2>1. m <= dr
    BY <1>1, <1>4, Zenon
  <2> QED
    BY <1>3, <2>1
<1>0. Seen(cons, dr, s)
  BY <1>2, ViewRead, Zenon
<1>6. \A i \in 0..(dr - 1) : at(cons, i) = s[i + 1]
  BY <1>0, Zenon DEF Seen
<1>7. [i \in 1..m |-> at(cons, i - 1)] = SubSeq(s, 1, m)
  BY <1>0, <1>5, Zenon DEF Seen
<1>8. rd \in Rd /\ got \in [Reader -> Seq(Cell)] /\ irq \in Irq /\ rx \in Seq(Typable) /\ cons_lock \in BOOLEAN
  BY Zenon DEF InputInv, InputTypes, Rd, Cell, Irq
<1>9. g \in Seq(Cell)
  <2>1. <<>> \in Seq(Cell)
    OBVIOUS
  <2> QED
    BY <1>8, <2>1, Zenon
<1>10. PICK h : h = g \o SubSeq(s, 1, m)
  BY Zenon
<1>11. h \in Seq(Cell) /\ (m > 0 => h # <<>> /\ h[Len(h)] = s[m]) /\ (m = 0 => h = g)
  <2>1. Ends(Cell, g, s, m, h)
    BY <1>3, <1>5, <1>9, <1>10, LastOf, Zenon
  <2> QED
    BY <2>1, Zenon DEF Ends
<1>12. got' = [got EXCEPT ![p] = h]
  BY <1>1, <1>7, <1>10, Zenon
<1>13. got' \in [Reader -> Seq(Cell)] /\ rx' \in Seq(Typable) /\ irq' \in Irq /\ cons_lock' \in BOOLEAN
  BY <1>8, <1>11, <1>12, Zenon
<1>14. EchoInv'
  BY Zenon DEF InputInv, EchoInv
<1>15. rd' \in Rd /\ (\A q \in Reader \ {p} : rd'[q] = rd[q])
  <2>1. [pc |-> "user", n |-> 0] \in [pc : {"user", "sleep", "woken"}, n : Nat]
    OBVIOUS
  <2>2. [pc |-> "sleep", n |-> n - m] \in [pc : {"user", "sleep", "woken"}, n : Nat]
    BY <1>5, Zenon
  <2> QED
    BY <1>1, <1>8, <2>1, <2>2, Zenon DEF Rd
<1>16. rd'[p].pc # "user" => ~line(m) /\ ~eof(m)
  BY <1>1, <1>8, Zenon DEF Rd
<1>17. m > 0 => m - 1 \in 0..(dr - 1) /\ m - 1 + 1 = m
  BY <1>3, <1>5
<1>18. LineInv'
  <2>1. ASSUME rd'[p].pc # "user", h # <<>> PROVE h[Len(h)] # NL
    <3>1. CASE m > 0
      <4>1. at(cons, m - 1) # NL
        BY <1>16, <2>1, <3>1, Zenon DEF line
      <4> QED
        BY <1>6, <1>11, <1>17, <3>1, <4>1, Zenon
    <3>2. CASE m = 0
      <4>1. h = g /\ g = got[p] /\ rd[p].pc # "user" /\ got[p] # <<>>
        BY <1>11, <2>1, <3>2, Zenon
      <4>2. got[p][Len(got[p])] # NL
        BY <4>1, Zenon DEF InputInv, LineInv
      <4> QED
        BY <4>1, <4>2, Zenon
    <3>3. m > 0 \/ m = 0
      BY <1>5
    <3> QED
      BY <3>1, <3>2, <3>3, Zenon
  <2>2. ASSUME NEW q \in Reader, rd'[q].pc # "user", got'[q] # <<>> PROVE got'[q][Len(got'[q])] # NL
    <3>1. CASE q = p
      <4>1. got'[q] = h
        BY <1>8, <1>12, <3>1, Zenon
      <4> QED
        BY <2>1, <2>2, <3>1, <4>1, Zenon
    <3>2. CASE q # p
      <4>1. got'[q] = got[q] /\ rd'[q] = rd[q]
        BY <1>8, <1>12, <1>15, <3>2, Zenon
      <4> QED
        BY <2>2, <4>1, Zenon DEF InputInv, LineInv
    <3> QED
      BY <3>1, <3>2, Zenon
  <2> QED
    BY <2>2, Zenon DEF LineInv
<1>19. CASE eof(m) /\ m = 0 /\ g = <<>>
  <2>1. cons' = taken(cons, 1) /\ 1 \in 0..dr /\ 0 \in 0..(dr - 1) /\ at(cons, 0) = EOF /\ dr # 0
    <3>1. m < dr /\ at(cons, 0) = EOF
      BY <1>4, <1>19, Zenon DEF eof
    <3>2. 1 \in 0..dr /\ 0 \in 0..(dr - 1) /\ dr # 0
      BY <1>3, <1>19, <3>1
    <3> QED
      BY <1>1, <1>19, <3>1, <3>2, Zenon
  <2>2. View(cons', dr - 1, dl, SubSeq(s, 1 + 1, dr), t)
    BY <1>2, <2>1, ViewTaken, Zenon
  <2>3. s # <<>> /\ Head(s) = EOF /\ Tail(s) = SubSeq(s, 1 + 1, dr)
    <3>1. s[0 + 1] = EOF
      BY <1>6, <2>1, Zenon
    <3>2. s # <<>> /\ Head(s) = s[0 + 1] /\ Tail(s) = SubSeq(s, 1 + 1, dr)
      BY <1>3, <2>1
    <3> QED
      BY <3>1, <3>2, Zenon
  <2>4. ReaderMustWait'
    <3>1. ASSUME NEW q \in Reader, rd'[q].pc = "sleep" PROVE FALSE
      <4>1. CASE q = p
        BY <1>16, <1>19, <3>1, <4>1, Zenon
      <4>2. CASE q # p
        BY <1>4, <1>15, <2>1, <3>1, <4>2, Zenon DEF InputInv, ReaderMustWait
      <4> QED
        BY <4>1, <4>2, Zenon
    <3> QED
      BY <3>1, Zenon DEF ReaderMustWait
  <2>5. InputInv'
    BY <1>13, <1>14, <1>15, <1>18, <2>2, <2>4, InputNext, Zenon
  <2>6. Becomes(s, t, Tail(s), t)
    BY <1>2, <2>2, <2>3, TerminalIs, Zenon
  <2>7. T!Take(p, <<>>)
    <3>1. got' = [got EXCEPT ![p] = <<>>]
      BY <1>11, <1>12, <1>19, Zenon
    <3> QED
      BY <2>3, <2>6, <3>1, Zenon DEF T!Take, Becomes
  <2>8. T!Read(p)
    BY <2>6, <2>7, Zenon DEF T!Read, Becomes
  <2> QED
    BY <2>5, <2>8, Zenon DEF T!TerminalNext
<1>20. CASE ~(eof(m) /\ m = 0 /\ g = <<>>)
  <2>1. cons' = taken(cons, m)
    BY <1>1, <1>20, Zenon
  <2>2. View(cons', dr - m, dl, SubSeq(s, m + 1, dr), t)
    BY <1>2, <1>5, <2>1, ViewTaken, Zenon
  <2>3. ReaderMustWait'
    <3>1. cons'.r = cons'.w <=> dr - m = 0
      BY <2>2, ViewEnds, Zenon
    <3>2. ASSUME NEW q \in Reader, rd'[q].pc = "sleep" PROVE dr - m = 0
      <4>1. CASE q = p
        <5>1. m = dr
          BY <1>1, <1>4, <1>16, <3>2, <4>1, Zenon
        <5> QED
          BY <1>3, <5>1
      <4>2. CASE q # p
        <5>1. dr = 0
          BY <1>4, <1>15, <3>2, <4>2, Zenon DEF InputInv, ReaderMustWait
        <5> QED
          BY <1>5, <5>1
      <4> QED
        BY <4>1, <4>2, Zenon
    <3> QED
      BY <3>1, <3>2, Zenon DEF ReaderMustWait
  <2>4. InputInv'
    BY <1>13, <1>14, <1>15, <1>18, <2>2, <2>3, InputNext, Zenon
  <2>5. Becomes(s, t, SubSeq(s, m + 1, Len(s)), t)
    BY <1>2, <1>3, <2>2, TerminalIs, Zenon
  <2>6. \A i \in 1..m : SubSeq(s, 1, m)[i] # EOF /\ (SubSeq(s, 1, m)[i] = NL => i = m)
    <3> TAKE i \in 1..m
    <3>1. SubSeq(s, 1, m)[i] = s[i]
      BY <1>3, <1>5
    <3>2. i - 1 \in 0..(m - 1) /\ i - 1 \in 0..(dr - 1) /\ i - 1 + 1 = i /\ (i - 1 = m - 1 => i = m)
      BY <1>3, <1>5
    <3> QED
      BY <1>1, <1>6, <3>1, <3>2, Zenon
  <2>7. g # <<>> /\ m > 0 => g[Len(g)] # NL
    BY Zenon DEF InputInv, LineInv
  <2>8. T!Take(p, g)
    BY <1>5, <1>10, <1>12, <2>5, <2>6, <2>7, Zenon DEF T!Take, Becomes
  <2>9. T!Read(p)
    BY <2>5, <2>8, Zenon DEF T!Read, Becomes
  <2> QED
    BY <2>4, <2>9, Zenon DEF T!TerminalNext
<1> QED
  BY <1>19, <1>20, Zenon

\* The handler goes on with the same character.
LEMMA IrqPc ==
    ASSUME NEW q \in Irq, NEW v \in {"none", "getc", "echo", "echo_write", "send", "again"}
    PROVE  /\ [q EXCEPT !.pc = v] \in Irq
           /\ [q EXCEPT !.pc = v].pc = v /\ [q EXCEPT !.pc = v].c = q.c
  BY DEF Irq

\* uartgetc() and consoleintr() up to its echo.
LEMMA GetcStep ==
    ASSUME InputInv, uartgetc
    PROVE  InputInv' /\ (T!TerminalNext \/ UNCHANGED T!tvars)
<1>1. /\ irq.pc = "getc" /\ rx # <<>> /\ rx' = Tail(rx) /\ consoleintr(Head(rx))
      /\ rd' = rd /\ got' = got
  BY Zenon DEF uartgetc
<1>2. rx \in Seq(Typable) /\ irq \in Irq /\ cons_lock \in BOOLEAN
  BY Zenon DEF InputInv, InputTypes, Irq
<1>3. Head(rx) \in Typable /\ Tail(rx) \in Seq(Typable)
  BY <1>1, <1>2
<1>4. PICK c \in Typable : c = Head(rx)
  BY <1>3, Zenon
<1>5. consoleintr(c) /\ rx' \in Seq(Typable)
  BY <1>1, <1>3, <1>4, Zenon
<1>6. ASSUME cons' = cons, irq' = irq, cons_lock' = cons_lock
      PROVE  InputInv' /\ UNCHANGED T!tvars
  <2>1. UNCHANGED <<cons, rd, got>> /\ irq' \in Irq /\ cons_lock' \in BOOLEAN
    BY <1>1, <1>2, <1>6, Zenon
  <2>2. EchoInv'
    BY <1>1, <1>6, Zenon DEF EchoInv
  <2> QED
    BY <1>5, <2>1, <2>2, InputFrame, Zenon
<1>7. ASSUME echoes(c), c \in Char \union {BS, KILL} PROVE irq' \in Irq /\ cons_lock' = TRUE /\ irq'.c = c
  <2>1. irq' = [pc |-> "echo", c |-> c] /\ cons_lock' = TRUE
    BY <1>7, Zenon DEF echoes
  <2>2. c \in Char \union {BS, KILL, NoChar}
    BY <1>7, Zenon
  <2> QED
    BY <2>1, <2>2, Zenon DEF Irq
<1>8. CASE c = INTR
  <2>1. cons' = cons /\ irq' = irq /\ cons_lock' = cons_lock
    BY <1>5, <1>8, Zenon DEF consoleintr
  <2> QED
    BY <1>6, <2>1, Zenon
<1>9. CASE c # INTR /\ c \in {BS, KILL}
  <2>1. CASE erasable(cons, c)
    <3>1. cons' = erased(cons) /\ echoes(c) /\ cons.e # cons.w
      BY <1>5, <1>9, <2>1, Zenon DEF consoleintr, erasable
    <3>2. irq' \in Irq /\ cons_lock' = TRUE /\ irq'.c \in {BS, KILL}
      BY <1>7, <1>9, <3>1, Zenon
    <3>3. UNCHANGED <<rd, got>>
      BY <1>1, Zenon
    <3> QED
      BY <1>5, <3>1, <3>2, <3>3, EraseStep, Zenon
  <2>2. CASE ~erasable(cons, c)
    <3>1. cons' = cons /\ irq' = irq /\ cons_lock' = cons_lock
      BY <1>5, <1>9, <2>2, Zenon DEF consoleintr
    <3> QED
      BY <1>6, <3>1, Zenon
  <2> QED
    BY <2>1, <2>2, Zenon
<1>10. CASE c # INTR /\ c \notin {BS, KILL}
  <2>1. CASE add(cons.e, -cons.r) < INPUT_BUF_SIZE
    <3>1. cons' = cons /\ echoes(c)
      BY <1>5, <1>10, <2>1, Zenon DEF consoleintr
    <3>2. irq' \in Irq /\ cons_lock' = TRUE /\ irq'.c = c
      BY <1>7, <1>10, <3>1, Zenon DEF Typable
    <3>3. Dist(cons.r, cons.w) + Dist(cons.w, cons.e) < INPUT_BUF_SIZE
      <4>1. PICK dr, dl, s, t : View(cons, dr, dl, s, t)
        BY InputView, Zenon
      <4>2. add(cons.e, -cons.r) = dr + dl
        BY <4>1, ViewEnds, Zenon
      <4>3. Dist(cons.r, cons.w) = dr /\ Dist(cons.w, cons.e) = dl
        BY <4>1, Zenon DEF View
      <4> QED
        BY <2>1, <4>2, <4>3, Zenon
    <3>4. EchoInv'
      <4>1. Dist(cons'.r, cons'.w) + Dist(cons'.w, cons'.e) < INPUT_BUF_SIZE
        BY <3>1, <3>3, Zenon
      <4>2. irq'.c \in Char \union {BS, KILL}
        BY <1>10, <3>2, Zenon DEF Typable
      <4> QED
        BY <3>2, <4>1, <4>2, Zenon DEF EchoInv, Dist, Char
    <3>5. UNCHANGED <<cons, rd, got>> /\ cons_lock' \in BOOLEAN
      BY <1>1, <3>1, <3>2, Zenon
    <3> QED
      BY <1>5, <3>2, <3>4, <3>5, InputFrame, Zenon
  <2>2. CASE ~(add(cons.e, -cons.r) < INPUT_BUF_SIZE)
    <3>1. cons' = cons /\ irq' = irq /\ cons_lock' = cons_lock
      BY <1>5, <1>10, <2>2, Zenon DEF consoleintr
    <3> QED
      BY <1>6, <3>1, Zenon
  <2> QED
    BY <2>1, <2>2, Zenon
<1> QED
  BY <1>8, <1>9, <1>10, Zenon

\* consoleintr() after an echo.
LEMMA EndStep ==
    ASSUME InputInv, consputc_end
    PROVE  /\ InputInv' /\ (T!TerminalNext \/ UNCHANGED T!tvars)
           /\ irq'.pc \in {"echo", "getc"}
<1>1. irq.pc = "echo_write" /\ got' = got /\ rx' = rx
  BY Zenon DEF consputc_end
<1>2. rx' \in Seq(Typable) /\ irq \in Irq
  BY <1>1, Zenon DEF InputInv, InputTypes, Irq
<1>3. CASE irq.c = KILL /\ erasable(cons, KILL) /\ cons' = erased(cons)
           /\ irq' = [irq EXCEPT !.pc = "echo"] /\ UNCHANGED <<rd, cons_lock>>
  <2>1. irq' \in Irq /\ irq'.pc = "echo" /\ irq'.c \in {BS, KILL}
    <3>1. [irq EXCEPT !.pc = "echo"] \in Irq /\ [irq EXCEPT !.pc = "echo"].pc = "echo"
          /\ [irq EXCEPT !.pc = "echo"].c = irq.c
      BY <1>2, IrqPc, Zenon
    <3> QED
      BY <1>3, <3>1, Zenon
  <2>2. cons_lock' = TRUE
    <3>1. cons_lock
      BY <1>1, Zenon DEF InputInv, EchoInv
    <3>2. cons_lock' = cons_lock /\ cons_lock \in BOOLEAN
      BY <1>3, Zenon DEF InputInv
    <3> QED
      BY <3>1, <3>2, Zenon
  <2>3. UNCHANGED <<rd, got>> /\ cons.e # cons.w
    BY <1>1, <1>3, Zenon DEF erasable
  <2> QED
    BY <1>2, <1>3, <2>1, <2>2, <2>3, EraseStep, Zenon
<1>4. ASSUME released
      PROVE  irq' \in Irq /\ irq'.pc = "getc" /\ cons_lock' \in BOOLEAN /\ EchoInv'
  <2>1. irq' = [pc |-> "getc", c |-> NoChar] /\ cons_lock' = FALSE
    BY <1>4, Zenon DEF released
  <2>2. irq' \in Irq /\ irq'.pc = "getc" /\ cons_lock' \in BOOLEAN
    BY <2>1, Zenon DEF Irq
  <2> QED
    BY <2>2, Zenon DEF EchoInv
<1>5. CASE released /\ UNCHANGED <<cons, rd>>
  <2>1. UNCHANGED <<cons, rd, got>>
    BY <1>1, <1>5, Zenon
  <2> QED
    BY <1>2, <1>4, <1>5, <2>1, InputFrame, Zenon
<1>6. CASE irq.c \notin {BS, KILL} /\ store(stored(cons, irq.c), irq.c) /\ released
  <2>1. irq.pc \in {"echo", "echo_write"} /\ UNCHANGED <<got, rx>>
    BY <1>1, Zenon
  <2> QED
    BY <1>4, <1>6, <2>1, StoreStep, Zenon
<1> QED
  BY <1>3, <1>5, <1>6, Zenon DEF consputc_end

\* The steps that the input has no part in.
LEMMA InputSame ==
    ASSUME InputInv, UNCHANGED <<cons, rd, got, cons_lock, rx>>,
           irq' = irq \/ (irq' \in Irq /\ irq'.pc \notin {"echo", "echo_write"})
    PROVE  InputInv' /\ UNCHANGED T!tvars
<1>1. cons' = cons /\ rd' = rd /\ got' = got /\ cons_lock' = cons_lock /\ rx' = rx
  OBVIOUS
<1>2. rx' \in Seq(Typable) /\ irq' \in Irq /\ cons_lock' \in BOOLEAN
  BY <1>1, Zenon DEF InputInv, InputTypes, Irq
<1>3. EchoInv'
  <2>1. CASE irq' = irq
    <3>1. EchoInv /\ cons_lock \in BOOLEAN
      BY Zenon DEF InputInv
    <3>2. cons_lock => cons_lock'
      BY <3>1, Zenon
    <3> QED
      BY <1>1, <2>1, <3>1, <3>2, Zenon DEF EchoInv
  <2>2. CASE irq'.pc \notin {"echo", "echo_write"}
    BY <2>2, Zenon DEF EchoInv
  <2> QED
    BY <2>1, <2>2, Zenon
<1> QED
  BY <1>1, <1>2, <1>3, InputFrame, Zenon

\* The steps that the output has no part in.
LEMMA OutputSame ==
    ASSUME OutputInv, UNCHANGED <<tx, tx_lock, wr, fifo, wire, irq>>
    PROVE  OutputInv'
<1>1. tx' = tx /\ tx_lock' = tx_lock /\ wr' = wr /\ fifo' = fifo /\ wire' = wire /\ irq' = irq
  OBVIOUS
<1>2. OutputTypes'
  BY <1>1, Zenon DEF OutputInv, OutputTypes, Byte, Token
<1>3. LockInv'
  BY <1>1, Zenon DEF OutputInv, LockInv
<1>4. FifoInv'
  BY <1>1, Zenon DEF OutputInv, FifoInv, Sending
<1>5. OutInv'
  <2>1. Ring' = Ring /\ Put' = Put
    BY <1>1, Zenon DEF Ring, Part, Put, put_by
  <2> QED
    BY <1>1, <2>1, Zenon DEF OutputInv, OutInv
<1> QED
  BY <1>2, <1>3, <1>4, <1>5, Zenon DEF OutputInv

-----------------------------------------------------------------------------
\* The results.

\* Initially everything is empty.
LEMMA InputStart ==
    ASSUME Init
    PROVE  InputInv /\ T!TerminalInit
<1> DEFINE b == [i \in 0..(INPUT_BUF_SIZE - 1) |-> NoChar]
<1>0. /\ cons = [buf |-> b, r |-> 0, w |-> 0, e |-> 0] /\ cons_lock = FALSE /\ rx = <<>>
      /\ irq = [pc |-> "none", c |-> NoChar]
      /\ rd = [p \in Reader |-> [pc |-> "user", n |-> 0]] /\ got = [p \in Reader |-> <<>>]
  BY Zenon DEF Init
<1>1. IsRing(Cell, INPUT_BUF_SIZE, b)
  BY Sizes, Zenon DEF IsRing, Cell
<1> HIDE DEF b
<1>2. 0 \in 0..(UINT - 1) /\ 0 + 0 <= INPUT_BUF_SIZE /\ 0 = 0
  BY Sizes
<1>3. cons \in Cons /\ cons.buf = b /\ cons.r = 0 /\ cons.w = 0 /\ cons.e = 0
  <2>1. Fields(cons, b, 0, 0, 0)
    BY <1>0, <1>1, <1>2, ConsOf, Zenon
  <2> QED
    BY <2>1, Zenon DEF Fields
<1>4. Dist(0, 0) = 0
  BY <1>2, DistIs, Zenon
<1>5. View(cons, 0, 0, Slice(cons.buf, cons.r, cons.w), Slice(cons.buf, cons.w, cons.e))
  BY <1>2, <1>3, <1>4, ViewIs, Zenon
<1>6. Slice(cons.buf, cons.r, cons.w) = <<>> /\ Slice(cons.buf, cons.w, cons.e) = <<>>
  <2>1. ASSUME NEW s \in Seq(Cell), Len(s) = 0 PROVE s = <<>>
    BY <2>1
  <2> QED
    BY <1>5, <2>1, Zenon DEF View
<1>7. T!TerminalInit
  BY <1>0, <1>6, Zenon DEF T!TerminalInit
<1>8. InputTypes
  <2>1. rx \in Seq(Typable) /\ <<>> \in Seq(Char \union {NoChar})
    BY <1>0
  <2>2. irq \in [pc : {"none", "getc", "echo", "echo_write", "send", "again"},
                 c : Char \union {BS, KILL, NoChar}]
    BY <1>0, Zenon
  <2>3. rd \in [Reader -> [pc : {"user", "sleep", "woken"}, n : Nat]]
    BY <1>0
  <2>4. got \in [Reader -> Seq(Char \union {NoChar})]
    BY <1>0, <2>1, Zenon
  <2> QED
    BY <1>3, <2>1, <2>2, <2>3, <2>4, Zenon DEF InputTypes, Cons
<1>9. RingInv
  BY <1>2, <1>3, <1>4, Zenon DEF RingInv
<1>10. EchoInv
  BY <1>0, Zenon DEF EchoInv
<1>11. LineInv /\ ReaderMustWait
  BY <1>0, <1>3, Zenon DEF LineInv, ReaderMustWait
<1>12. cons_lock \in BOOLEAN
  BY <1>0, Zenon
<1> QED
  BY <1>7, <1>8, <1>9, <1>10, <1>11, <1>12, Zenon DEF InputInv

\* Every step keeps the invariant, and is one of the terminal or none.
LEMMA Step ==
    ASSUME IInv, [Next]_vars
    PROVE  IInv' /\ (T!TerminalNext \/ UNCHANGED T!tvars)
<1> DEFINE Done == IInv' /\ (T!TerminalNext \/ UNCHANGED T!tvars)
<1>0. InputInv /\ OutputInv
  BY Zenon DEF IInv
<1>1. irq \in Irq /\ irq.pc \in {"none", "getc", "echo", "echo_write", "send", "again"}
  BY <1>0 DEF InputInv, InputTypes, Irq
<1>2. ASSUME InputInv' /\ (T!TerminalNext \/ UNCHANGED T!tvars), OutputInv' PROVE Done
  BY <1>2, Zenon DEF IInv
<1> HIDE DEF Done
<1>3. ASSUME NEW p \in Reader, consoleread(p) PROVE Done
  <2>1. PICK n \in ReadSize : ~cons_lock /\ read_loop(p, n, <<>>)
          /\ UNCHANGED <<cons_lock, tx, tx_lock, rx, fifo, pending, irq, wr, killed, wire, typed>>
    BY <1>3, Zenon DEF consoleread
  <2>2. n \in Nat
    BY ConsoleAssumption, Zenon
  <2>3. UNCHANGED <<cons_lock, rx, irq>> /\ UNCHANGED <<tx, tx_lock, wr, fifo, wire, irq>>
    BY <2>1, Zenon
  <2>4. InputInv' /\ T!TerminalNext
    BY <1>0, <2>1, <2>2, <2>3, ReadStep, Zenon
  <2> QED
    BY <1>0, <1>2, <2>3, <2>4, OutputSame, Zenon
<1>4. ASSUME NEW p \in Reader, consoleread_woken(p) PROVE Done
  <2>1. /\ rd[p].pc = "woken" /\ ~cons_lock /\ read_loop(p, rd[p].n, got[p])
        /\ UNCHANGED <<cons_lock, tx, tx_lock, rx, fifo, pending, irq, wr, killed, wire, typed>>
    BY <1>4, Zenon DEF consoleread_woken
  <2>2. rd[p].n \in Nat
    BY <1>0 DEF InputInv, InputTypes
  <2>3. UNCHANGED <<cons_lock, rx, irq>> /\ UNCHANGED <<tx, tx_lock, wr, fifo, wire, irq>>
    BY <2>1, Zenon
  <2>4. rd[p].pc # "user"
    BY <2>1
  <2>5. InputInv' /\ T!TerminalNext
    BY <1>0, <2>1, <2>2, <2>3, <2>4, ReadStep, Zenon
  <2> QED
    BY <1>0, <1>2, <2>3, <2>5, OutputSame, Zenon
<1>5. ASSUME UNCHANGED <<cons, rd, got, cons_lock, rx>>,
             irq' = irq \/ (irq' \in Irq /\ irq'.pc \notin {"echo", "echo_write"}), OutputInv'
      PROVE  Done
  BY <1>0, <1>2, <1>5, InputSame, Zenon
<1>6. ASSUME NEW p \in Writer, consolewrite(p) \/ uartputc(p) \/ uartstart_send(p) \/ uartstart_again(p)
      PROVE  Done
  <2>1. UNCHANGED <<cons, rd, got, cons_lock, rx>> /\ irq' = irq
    BY <1>6, Zenon DEF consolewrite, uartputc, uartstart_send, uartstart_again, send, inputv
  <2>2. CASE consolewrite(p)
    <3>1. /\ wr[p].pc \in {"user", "putc", "woken"} /\ "putc" \in {"putc", "sleep"}
          /\ wr' = [wr EXCEPT ![p].pc = "putc"] /\ UNCHANGED <<tx, tx_lock, fifo, irq, wire>>
      BY <2>2, Zenon DEF consolewrite
    <3>2. OutputInv'
      BY <1>0, <3>1, PcStep, Zenon
    <3> QED
      BY <1>5, <2>1, <3>2, Zenon
  <2>3. CASE uartputc(p)
    BY <1>0, <1>5, <2>1, <2>3, WriterPuts, Zenon
  <2>4. CASE uartstart_send(p)
    BY <1>0, <1>5, <2>1, <2>4, WriterSend, Zenon
  <2>5. CASE uartstart_again(p)
    BY <1>0, <1>5, <2>1, <2>5, WriterAgain, Zenon
  <2> QED
    BY <1>6, <2>2, <2>3, <2>4, <2>5, Zenon
<1>7. ASSUME plic_claim PROVE Done
  <2>1. /\ irq.pc = "none" /\ irq' = [irq EXCEPT !.pc = "getc"]
        /\ UNCHANGED <<cons, rd, got, cons_lock, rx>> /\ UNCHANGED <<tx, tx_lock, wr, fifo, wire>>
    BY <1>7, Zenon DEF plic_claim, inputv, outputv
  <2>2. irq' \in Irq /\ irq'.pc = "getc"
    BY <1>1, <2>1, IrqPc, Zenon
  <2>3. /\ irq'.pc \notin {"echo", "echo_write"} /\ irq'.pc \notin {"send", "again"}
        /\ irq.pc \notin {"send", "again"} /\ irq'.pc # "echo_write"
    BY <2>1, <2>2, Zenon
  <2> QED
    BY <1>0, <1>5, <2>1, <2>2, <2>3, OutputFrame, Zenon
<1>8. ASSUME uartgetc PROVE Done
  <2>1. InputInv' /\ (T!TerminalNext \/ UNCHANGED T!tvars)
    BY <1>0, <1>8, GetcStep, Zenon
  <2>2. irq.pc = "getc" /\ consoleintr(Head(rx)) /\ UNCHANGED <<tx, tx_lock, wr, fifo, wire>>
    BY <1>8, Zenon DEF uartgetc, outputv
  <2>3. irq' = irq \/ irq' = [pc |-> "echo", c |-> Head(rx)]
    BY <2>2, Zenon DEF consoleintr, echoes
  <2>4. /\ irq.pc \notin {"send", "again"} /\ irq'.pc \notin {"send", "again"} /\ irq'.pc # "echo_write"
    BY <2>2, <2>3
  <2> QED
    BY <1>0, <1>2, <2>1, <2>2, <2>4, OutputFrame, Zenon
<1>9. ASSUME uartputc_sync PROVE Done
  <2>1. /\ irq.pc = "echo" /\ fifo = <<>> /\ irq' = [irq EXCEPT !.pc = "echo_write"]
        /\ UNCHANGED <<cons, rd, got>> /\ UNCHANGED <<cons_lock, rx>>
        /\ UNCHANGED <<tx, tx_lock, wr, fifo, wire>>
    BY <1>9, Zenon DEF uartputc_sync, inputv, outputv
  <2>2. irq' \in Irq /\ irq'.pc = "echo_write" /\ irq'.c = irq.c
    BY <1>1, <2>1, IrqPc, Zenon
  <2>3. cons_lock' \in BOOLEAN /\ rx' \in Seq(Typable) /\ (cons_lock => cons_lock')
    BY <1>0, <2>1, Zenon DEF InputInv, InputTypes
  <2>4. EchoInv'
    BY <1>0, <2>1, <2>2, <2>3, Zenon DEF InputInv, EchoInv
  <2>5. InputInv' /\ UNCHANGED T!tvars
    BY <1>0, <2>1, <2>2, <2>3, <2>4, InputFrame, Zenon
  <2>6. irq.pc \notin {"send", "again"} /\ irq'.pc \notin {"send", "again"}
    BY <2>1, <2>2, Zenon
  <2> QED
    BY <1>0, <1>2, <2>1, <2>5, <2>6, OutputFrame, Zenon
<1>10. ASSUME consputc_end PROVE Done
  <2>1. /\ InputInv' /\ (T!TerminalNext \/ UNCHANGED T!tvars) /\ irq'.pc \in {"echo", "getc"}
    BY <1>0, <1>10, EndStep, Zenon
  <2>2. irq.pc = "echo_write" /\ fifo' = Append(fifo, ECHO) /\ UNCHANGED <<tx, tx_lock, wr, wire>>
    BY <1>10, Zenon DEF consputc_end, outputv
  <2> QED
    BY <1>0, <1>2, <2>1, <2>2, EchoStep, Zenon
<1>11. ASSUME uartintr_start \/ uartintr_again PROVE Done
  <2>1. UNCHANGED <<cons, rd, got, cons_lock, rx>> /\ intr_next(tx)
    BY <1>11, Zenon DEF uartintr_start, uartintr_again, inputv
  <2>2. irq' \in Irq /\ irq'.pc \notin {"echo", "echo_write"}
    BY <2>1 DEF intr_next, Irq
  <2> QED
    BY <1>0, <1>5, <1>11, <2>1, <2>2, IntrStep, Zenon
<1>12. ASSUME uartintr_send PROVE Done
  <2>1. UNCHANGED <<cons, rd, got, cons_lock, rx>> /\ irq' = [irq EXCEPT !.pc = "again"]
    BY <1>12, Zenon DEF uartintr_send, send, inputv
  <2>2. irq' \in Irq /\ irq'.pc = "again"
    BY <1>1, <2>1, IrqPc, Zenon
  <2>3. irq'.pc \notin {"echo", "echo_write"}
    BY <2>2
  <2> QED
    BY <1>0, <1>5, <1>12, <2>1, <2>2, <2>3, IntrSend, Zenon
<1>13. ASSUME type PROVE Done
  <2>1. PICK c \in Plain \union {NL, EOF, BS, KILL, INTR} : rx' = Append(rx, c)
          /\ UNCHANGED <<inputv, outputv, cons_lock, fifo, irq, wire>>
    BY <1>13, Zenon DEF type
  <2>2. UNCHANGED <<cons, rd, got>> /\ cons_lock' = cons_lock /\ irq' = irq
        /\ UNCHANGED <<tx, tx_lock, wr, fifo, wire, irq>>
    BY <2>1, Zenon DEF inputv, outputv
  <2>3. rx' \in Seq(Typable)
    <3>1. c \in Typable
      BY Zenon DEF Typable, Char
    <3>2. rx \in Seq(Typable)
      BY <1>0, Zenon DEF InputInv, InputTypes
    <3> QED
      BY <2>1, <3>1, <3>2, Appends, Zenon
  <2>4. cons_lock' \in BOOLEAN /\ irq' \in Irq /\ (cons_lock => cons_lock')
    BY <1>0, <1>1, <2>2, Zenon DEF InputInv
  <2>5. EchoInv'
    BY <1>0, <2>2, <2>4, Zenon DEF InputInv, EchoInv
  <2>6. InputInv' /\ UNCHANGED T!tvars
    BY <1>0, <2>2, <2>3, <2>4, <2>5, InputFrame, Zenon
  <2> QED
    BY <1>0, <1>2, <2>2, <2>6, OutputSame, Zenon
<1>14. ASSUME transmit PROVE Done
  <2>1. UNCHANGED <<cons, rd, got, cons_lock, rx>> /\ irq' = irq
    BY <1>14, Zenon DEF transmit, inputv
  <2> QED
    BY <1>0, <1>5, <1>14, <2>1, TransmitStep, Zenon
<1>15. ASSUME UNCHANGED vars PROVE Done
  <2>1. UNCHANGED <<cons, rd, got, cons_lock, rx>> /\ irq' = irq /\ UNCHANGED <<tx, tx_lock, wr, fifo, wire, irq>>
    BY <1>15, Zenon DEF vars
  <2> QED
    BY <1>0, <1>5, <2>1, OutputSame, Zenon
<1>16. Done
  <2>1. CASE read
    BY <1>3, <2>1, Zenon DEF read
  <2>2. CASE write
    BY <1>6, <2>2, Zenon DEF write
  <2>3. CASE handle
    BY <1>7, <1>8, <1>9, <1>10, <1>11, <1>12, <2>3, Zenon DEF handle
  <2> QED
    BY <1>4, <1>13, <1>14, <1>15, <2>1, <2>2, <2>3, Zenon DEF Next
<1> QED
  BY <1>16, Zenon DEF Done

\* The invariant holds initially, ...
LEMMA Start == Init => IInv /\ T!TerminalInit
  BY InputStart, OutputStart, Zenon DEF IInv

\* ... and implies what is wanted of the output and of the readers.
LEMMA Means == IInv => OutputSound /\ ReaderMustWait
<1> SUFFICES ASSUME IInv PROVE OutputSound /\ ReaderMustWait
  OBVIOUS
<1>1. InputInv /\ OutputInv
  BY Zenon DEF IInv
<1>2. FifoHolds /\ OutputConserved
  BY <1>1, Conserved, Zenon
<1>3. cons \in Cons
  BY <1>1, Zenon DEF InputInv, InputTypes, Cons
<1>4. cons.r \in 0..(UINT - 1) /\ cons.w \in 0..(UINT - 1) /\ cons.e \in 0..(UINT - 1)
  BY <1>3, ConsIs, Zenon
<1>5. tx.w - tx.r \in 0..UART_TX_BUF_SIZE /\ tx_lock \in Writer \union {handler, NoChar}
  BY <1>1, Zenon DEF OutputInv, LockInv, OutputTypes
<1>6. \A p \in Reader : rd[p].pc \in {"user", "sleep", "woken"}
  <2>1. rd \in [Reader -> [pc : {"user", "sleep", "woken"}, n : Nat]]
    BY <1>1, Zenon DEF InputInv, InputTypes
  <2> QED
    BY <2>1
<1>7. \A p \in Writer : wr[p].i \in 0..WriteSize
  <2>1. wr \in [Writer -> [pc : {"user", "putc", "sleep", "woken", "send", "again", "done"},
                           i : 0..WriteSize]]
    BY <1>1, Zenon DEF OutputInv, OutputTypes
  <2> QED
    BY <2>1
<1>8. TypeOK
  BY <1>1, <1>4, <1>5, <1>6, <1>7, Zenon DEF TypeOK, InputInv
<1> QED
  BY <1>1, <1>2, <1>8, Zenon DEF OutputSound, InputInv

\* Every state of the console satisfies the invariant.
THEOREM Invariance == Spec => []IInv
<1>1. Init => IInv
  BY Start, Zenon
<1>2. IInv /\ [Next]_vars => IInv'
  BY Step, Zenon
<1> QED
  BY <1>1, <1>2, PTL DEF Spec

\* For any number of writers, any sizes of the rings and any typing: each byte
\* of a write() is in uart_tx_buf, in the UART or on the wire, once and in order,
\* and the UART's FIFO never overflows although uartputc_sync() takes no lock.
THEOREM OutputIsSound == Spec => []OutputSound
<1>1. IInv => OutputSound
  BY Means, Zenon
<1> QED
  BY <1>1, Invariance, PTL

\* For any number of readers, no wakeup of consoleread() is lost.
THEOREM ReadersWait == Spec => []ReaderMustWait
<1>1. IInv => ReaderMustWait
  BY Means, Zenon
<1> QED
  BY <1>1, Invariance, PTL

\* consoleread() and consoleintr() on their ring, its indices wrapping at UINT,
\* are a terminal with line editing.
THEOREM ConsoleIsTerminal == Spec => IsTerminal
<1>1. Init => T!TerminalInit
  BY Start, Zenon
<1>2. IInv /\ [Next]_vars => [T!TerminalNext]_(T!tvars)
  BY Step, Zenon
<1> QED
  BY <1>1, <1>2, Invariance, PTL DEF Spec, IsTerminal, T!TerminalSpec
=============================================================================
