------------------------------ MODULE Console -------------------------------
(***************************************************************************)
(* The console (console.c) on its serial port (uart.c), with the way of    *)
(* its interrupts through the PLIC (plic.c, devintr() of trap.c): readers, *)
(* writers, the interrupt handler and the device.                          *)
(*                                                                         *)
(* A section under a lock is one step unless it spins on the device or     *)
(* tests the device and writes to it later: consputc() and uartstart() do. *)
(* Entries of the rings that were read or erased are cleared, since        *)
(* nothing looks at them again.                                            *)
(* The handler runs on one CPU at a time: the PLIC lets one of them claim  *)
(* the UART's interrupt until it is completed.  consputc() is one token in *)
(* the transmit FIFO, whatever it prints.                                  *)
(***************************************************************************)
EXTENDS Integers, Sequences

CONSTANTS
    Reader, Writer,     \* processes in consoleread() and in consolewrite()
    Plain, NL, EOF,     \* characters typed: ordinary ones, '\n', ^D
    BS, KILL, INTR,     \* backspace, ^U, ^C
    ECHO,               \* what consputc() sends
    NoChar,             \* contents of unused entries
    INPUT_BUF_SIZE, UART_TX_BUF_SIZE,
    UINT,               \* number of values of cons.r, cons.w and cons.e (2^32)
    fg,                 \* the process with the highest pid, a child of the shell
    ReadSize,           \* lengths of reads
    WriteSize,          \* length of each write
    MaxTyped,           \* how many characters are typed
    RXSIZE, FIFOSIZE    \* capacities of the receive and the transmit FIFO (16)

ASSUME ConsoleAssumption ==
    /\ INPUT_BUF_SIZE \in Nat \ {0} /\ UART_TX_BUF_SIZE \in Nat \ {0}
    /\ UINT \in Nat /\ UINT > INPUT_BUF_SIZE /\ UINT % INPUT_BUF_SIZE = 0
    /\ FIFOSIZE \in Nat /\ FIFOSIZE >= 2
    /\ ReadSize \subseteq Nat /\ WriteSize \in Nat \ {0} /\ fg \in Reader
    /\ NoChar \notin Writer /\ NoChar # "handler" /\ "handler" \notin Writer
    /\ \A p \in Writer : \A i \in 0..(WriteSize - 1) : ECHO # <<p, i>>

VARIABLES
    cons,       \* cons.buf, cons.r, cons.w, cons.e
    cons_lock,  \* cons.lock is held over a spin on the device
    tx,         \* uart_tx_buf, uart_tx_r, uart_tx_w
    tx_lock,    \* who holds uart_tx_lock, NoChar if nobody
    rx, fifo,   \* the UART's receive and transmit FIFOs
    pending,    \* the UART's interrupt is pending in the PLIC
    irq,        \* the handler: where it is, and the character it handles
    rd,         \* the readers: where they are, bytes still wanted
    got,        \* what each reader's current or last read has got
    wr,         \* the writers: where they are, bytes put so far
    killed,     \* p->killed of the readers
    wire,       \* the writers' bytes that left the UART
    typed       \* how many characters were typed

inputv == <<cons, got, rd, killed>>
outputv == <<tx, tx_lock, wr>>
vars == <<cons, cons_lock, tx, tx_lock, rx, fifo, pending, irq, rd, got, wr, killed, wire, typed>>

handler == "handler"
add(a, b) == (a + b) % UINT

Init ==
    /\ cons = [buf |-> [i \in 0..(INPUT_BUF_SIZE - 1) |-> NoChar], r |-> 0, w |-> 0, e |-> 0]
    /\ cons_lock = FALSE
    /\ tx = [buf |-> [i \in 0..(UART_TX_BUF_SIZE - 1) |-> NoChar], r |-> 0, w |-> 0]
    /\ tx_lock = NoChar
    /\ rx = <<>> /\ fifo = <<>> /\ pending = FALSE /\ wire = <<>> /\ typed = 0
    /\ irq = [pc |-> "none", c |-> NoChar]
    /\ rd = [p \in Reader |-> [pc |-> "user", n |-> 0]]
    /\ got = [p \in Reader |-> <<>>]
    /\ wr = [p \in Writer |-> [pc |-> "user", i |-> 0]]
    /\ killed = [p \in Reader |-> FALSE]

-----------------------------------------------------------------------------
(* consoleread() *)

\* The complete input: how much there is, and its i-th character from 0 on
avail(k) == add(k.w, -k.r)
at(k, i) == k.buf[add(k.r, i) % INPUT_BUF_SIZE]

\* cons after the first m characters were read
taken(k, m) ==
    [k EXCEPT !.r = add(@, m),
              !.buf = [j \in 0..(INPUT_BUF_SIZE - 1) |->
                         IF \E i \in 0..(m - 1) : j = add(k.r, i) % INPUT_BUF_SIZE
                         THEN NoChar ELSE k.buf[j]]]

\* The loop of a read that wants n more bytes and has got g: it copies m and
\* returns when it has them all, after a '\n' or at an end of file, which is left
\* for the next read unless this one has got nothing.  When the input ends first
\* it sleeps, or returns if the process is killed.
read_loop(p, n, g) == \E m \in 0..n :
    LET line == m = n \/ (m > 0 /\ at(cons, m - 1) = NL)
        eof == ~line /\ m < avail(cons) /\ at(cons, m) = EOF
    IN  /\ m <= avail(cons)
        /\ \A i \in 0..(m - 1) : at(cons, i) # EOF /\ (at(cons, i) = NL => i = m - 1)
        /\ line \/ eof \/ m = avail(cons)
        /\ cons' = taken(cons, IF eof /\ m = 0 /\ g = <<>> THEN 1 ELSE m)
        /\ got' = [got EXCEPT ![p] = g \o [i \in 1..m |-> at(cons, i - 1)]]
        /\ rd' = [rd EXCEPT ![p] = IF line \/ eof \/ killed[p] THEN [pc |-> "user", n |-> 0]
                                   ELSE [pc |-> "sleep", n |-> n - m]]

consoleread(p) == \E n \in ReadSize :
    /\ rd[p].pc = "user" /\ ~killed[p] /\ ~cons_lock
    /\ read_loop(p, n, <<>>)
    /\ UNCHANGED <<cons_lock, tx, tx_lock, rx, fifo, pending, irq, wr, killed, wire, typed>>

consoleread_woken(p) ==
    /\ rd[p].pc = "woken" /\ ~cons_lock
    /\ read_loop(p, rd[p].n, got[p])
    /\ UNCHANGED <<cons_lock, tx, tx_lock, rx, fifo, pending, irq, wr, killed, wire, typed>>

-----------------------------------------------------------------------------
(* uart.c: consolewrite() puts one byte after the other into the ring.      *)

full == tx.w = tx.r + UART_TX_BUF_SIZE

\* The top of uartstart()'s loop, run by a while the ring is t: go on to send,
\* or return, which releases uart_tx_lock.

may_send(t) == t.r # t.w /\ fifo = <<>>
held_by(a, t) == tx_lock' = IF may_send(t) THEN a ELSE NoChar

\* Writer p after a call of uartputc() whose uartstart() saw ring t.
putc_next(p, t) ==
    IF may_send(t) THEN [pc |-> "send", i |-> wr[p].i]
    ELSE [pc |-> IF wr[p].i + 1 = WriteSize THEN "done" ELSE "putc", i |-> wr[p].i + 1]

put(p, t) ==
    /\ tx' = t
    /\ held_by(p, t)
    /\ wr' = [wr EXCEPT ![p] = putc_next(p, t)]

consolewrite(p) ==
    /\ wr[p].pc = "user"
    /\ wr' = [wr EXCEPT ![p].pc = "putc"]
    /\ UNCHANGED <<inputv, cons_lock, tx, tx_lock, rx, fifo, pending, irq, wire, typed>>

uartputc(p) ==
    /\ wr[p].pc \in {"putc", "woken"} /\ tx_lock = NoChar
    /\ IF full
       THEN wr' = [wr EXCEPT ![p].pc = "sleep"] /\ UNCHANGED <<tx, tx_lock>>
       ELSE put(p, [tx EXCEPT !.buf[tx.w % UART_TX_BUF_SIZE] = <<p, wr[p].i>>, !.w = @ + 1])
    /\ UNCHANGED <<inputv, cons_lock, rx, fifo, pending, irq, wire, typed>>

\* The rest of a round of uartstart(): take a byte, wake the writers, send it.
\* mutant: nobody is woken
wakeup_writers_none == wr

wakeup_writers ==
    [p \in Writer |-> IF wr[p].pc = "sleep" THEN [wr[p] EXCEPT !.pc = "woken"] ELSE wr[p]]

\* mutant: uart_tx_r is not advanced
send_same ==
    /\ fifo' = Append(fifo, tx.buf[tx.r % UART_TX_BUF_SIZE])
    /\ UNCHANGED <<tx, tx_lock, inputv, cons_lock, rx, pending, wire, typed>>

send ==
    /\ tx' = [tx EXCEPT !.buf[tx.r % UART_TX_BUF_SIZE] = NoChar, !.r = @ + 1]
    /\ fifo' = Append(fifo, tx.buf[tx.r % UART_TX_BUF_SIZE])
    /\ UNCHANGED <<tx_lock, inputv, cons_lock, rx, pending, wire, typed>>

uartstart_send(p) ==
    /\ wr[p].pc = "send"
    /\ send
    /\ wr' = [wakeup_writers EXCEPT ![p].pc = "again"]
    /\ UNCHANGED irq

uartstart_again(p) ==
    /\ wr[p].pc = "again"
    /\ put(p, tx)
    /\ UNCHANGED <<inputv, cons_lock, rx, fifo, pending, irq, wire, typed>>

-----------------------------------------------------------------------------
(* The handler: devintr(), uartintr(), consoleintr(). *)

plic_claim ==
    /\ pending /\ irq.pc = "none"
    /\ pending' = FALSE
    /\ irq' = [irq EXCEPT !.pc = "getc"]
    /\ UNCHANGED <<inputv, outputv, cons_lock, rx, fifo, wire, typed>>

\* consoleintr(c) for the character at the head of rx, up to its first consputc().
echoes(c) == irq' = [pc |-> "echo", c |-> c] /\ cons_lock' = TRUE
erased(k) == [k EXCEPT !.e = add(@, -1), !.buf[add(k.e, -1) % INPUT_BUF_SIZE] = NoChar]
\* mutant: complete lines can be erased
erasable_read(k, c) == k.e # k.r

\* ^U stops at a '\n', too.
erasable(k, c) == k.e # k.w /\ (c = KILL => k.buf[add(k.e, -1) % INPUT_BUF_SIZE] # NL)

consoleintr(c) ==
    IF c = INTR
    THEN killed' = [killed EXCEPT ![fg] = TRUE] /\ UNCHANGED <<cons, irq, cons_lock>>
    ELSE IF c \in {BS, KILL}
    THEN /\ UNCHANGED killed
         /\ IF erasable(cons, c)
            THEN cons' = erased(cons) /\ echoes(c)
            ELSE UNCHANGED <<cons, irq, cons_lock>>
    ELSE /\ UNCHANGED <<cons, killed>>
         /\ IF add(cons.e, -cons.r) < INPUT_BUF_SIZE
            THEN echoes(c)
            ELSE UNCHANGED <<irq, cons_lock>>

uartgetc ==
    /\ irq.pc = "getc" /\ rx # <<>>
    /\ rx' = Tail(rx)
    /\ consoleintr(Head(rx))
    /\ UNCHANGED <<outputv, rd, got, fifo, pending, wire, typed>>

\* uartputc_sync(): spin until the UART is idle, then write.
uartputc_sync ==
    /\ irq.pc = "echo" /\ fifo = <<>>
    /\ irq' = [irq EXCEPT !.pc = "echo_write"]
    /\ UNCHANGED <<inputv, outputv, cons_lock, rx, fifo, pending, wire, typed>>

\* The rest of consoleintr() after consputc(): ^U erases on; a character is
\* stored, and a complete line wakes the readers.
stored(k, c) == [k EXCEPT !.buf[k.e % INPUT_BUF_SIZE] = c, !.e = add(@, 1)]
complete(k, c) == c \in {NL, EOF} \/ add(k.e, -k.r) = INPUT_BUF_SIZE

wakeup_readers ==
    [p \in Reader |-> IF rd[p].pc = "sleep" THEN [rd[p] EXCEPT !.pc = "woken"] ELSE rd[p]]

\* mutant: a buffer full without a newline wakes nobody
store_unwoken(k, c) ==
    IF complete(k, c)
    THEN cons' = [k EXCEPT !.w = k.e] /\ rd' = IF c \in {NL, EOF} THEN wakeup_readers ELSE rd
    ELSE cons' = k /\ UNCHANGED rd

store(k, c) ==
    IF complete(k, c) THEN cons' = [k EXCEPT !.w = k.e] /\ rd' = wakeup_readers
    ELSE cons' = k /\ UNCHANGED rd

released == irq' = [pc |-> "getc", c |-> NoChar] /\ cons_lock' = FALSE

consputc_end ==
    /\ irq.pc = "echo_write"
    /\ fifo' = Append(fifo, ECHO)
    /\ \/ /\ irq.c = KILL /\ erasable(cons, KILL)
          /\ cons' = erased(cons)
          /\ irq' = [irq EXCEPT !.pc = "echo"]
          /\ UNCHANGED <<rd, cons_lock>>
       \/ /\ irq.c = BS \/ (irq.c = KILL /\ ~erasable(cons, KILL))
          /\ released
          /\ UNCHANGED <<cons, rd>>
       \/ /\ irq.c \notin {BS, KILL}
          /\ store(stored(cons, irq.c), irq.c)
          /\ released
    /\ UNCHANGED <<outputv, got, killed, rx, pending, wire, typed>>

\* uartintr() after its input loop: uartstart(), and plic_complete() at its end.

intr_next(t) == irq' = [pc |-> IF may_send(t) THEN "send" ELSE "none", c |-> NoChar]

uartintr_start ==
    /\ irq.pc = "getc" /\ rx = <<>> /\ tx_lock = NoChar
    /\ held_by(handler, tx)
    /\ intr_next(tx)
    /\ UNCHANGED <<inputv, cons_lock, tx, wr, rx, fifo, pending, wire, typed>>

uartintr_send ==
    /\ irq.pc = "send"
    /\ send
    /\ wr' = wakeup_writers
    /\ irq' = [irq EXCEPT !.pc = "again"]

uartintr_again ==
    /\ irq.pc = "again"
    /\ held_by(handler, tx)
    /\ intr_next(tx)
    /\ UNCHANGED <<inputv, cons_lock, tx, wr, rx, fifo, pending, wire, typed>>

-----------------------------------------------------------------------------
(* The device: a key, and a byte leaving the UART; both raise its interrupt. *)

type == \E c \in Plain \union {NL, EOF, BS, KILL, INTR} :
    /\ typed < MaxTyped /\ Len(rx) < RXSIZE
    /\ typed' = typed + 1
    /\ rx' = Append(rx, c)
    /\ pending' = TRUE
    /\ UNCHANGED <<inputv, outputv, cons_lock, fifo, irq, wire>>

transmit ==
    /\ fifo # <<>>
    /\ fifo' = Tail(fifo)
    /\ wire' = IF Head(fifo) = ECHO THEN wire ELSE Append(wire, Head(fifo))
    /\ pending' = (pending \/ fifo' = <<>>)
    /\ UNCHANGED <<inputv, outputv, cons_lock, rx, irq, typed>>

read == \E p \in Reader : consoleread(p)
write == \E p \in Writer :
    consolewrite(p) \/ uartputc(p) \/ uartstart_send(p) \/ uartstart_again(p)
handle == plic_claim \/ uartgetc \/ uartputc_sync \/ consputc_end
            \/ uartintr_start \/ uartintr_send \/ uartintr_again

Next == read \/ (\E p \in Reader : consoleread_woken(p)) \/ write \/ handle \/ type \/ transmit

Spec == Init /\ [][Next]_vars

\* Interrupts are taken, the UART sends, and processes that can run do run.
Fairness ==
    /\ WF_vars(handle) /\ WF_vars(transmit)
    /\ \A p \in Reader : WF_vars(consoleread_woken(p))
    /\ \A p \in Writer : WF_vars(consolewrite(p) \/ uartputc(p)) /\ WF_vars(uartstart_send(p) \/ uartstart_again(p))
FairSpec == Spec /\ Fairness

-----------------------------------------------------------------------------
(* Properties. *)

\* The entries of the input ring from index a to b
Slice(buf, a, b) ==
    [i \in 1..((b - a) % UINT) |-> buf[((a + i - 1) % UINT) % INPUT_BUF_SIZE]]

\* The ring indices of both buffers and the locks' holders have their types.
TypeOK ==
    /\ cons.r \in 0..(UINT - 1) /\ cons.w \in 0..(UINT - 1) /\ cons.e \in 0..(UINT - 1)
    /\ tx.w - tx.r \in 0..UART_TX_BUF_SIZE
    /\ cons_lock \in BOOLEAN /\ tx_lock \in Writer \union {handler, NoChar}
    /\ \A p \in Reader : rd[p].pc \in {"user", "sleep", "woken"}
    /\ \A p \in Writer : wr[p].i \in 0..WriteSize

\* The UART's FIFO never overflows although uartputc_sync() does not take
\* uart_tx_lock: its test of LSR and uartstart()'s may both see it idle before
\* either writes, so each CPU may have one byte more in it.
FifoHolds == Len(fifo) <= FIFOSIZE

\* Every byte of a write() goes out once and in order: what left the UART, what
\* is in it and what is in uart_tx_buf are, for each writer, its bytes so far,
\* between those of others and the echoes.
ring == [i \in 1..(tx.w - tx.r) |-> tx.buf[(tx.r + i - 1) % UART_TX_BUF_SIZE]]
put_by(p) == wr[p].i + (IF wr[p].pc \in {"send", "again"} THEN 1 ELSE 0)
OutputConserved ==
    LET out == wire \o fifo \o ring
        bytes == {out[i] : i \in 1..Len(out)} \ {ECHO}
    IN  /\ bytes = UNION {{p} \X (0..(put_by(p) - 1)) : p \in Writer}
        /\ \A i, j \in 1..Len(out) :
              i < j /\ out[i] # ECHO /\ out[j] # ECHO /\ out[i][1] = out[j][1] =>
                 out[i][2] < out[j][2]

\* A reader sleeps only while there is nothing for it: no wakeup is lost between
\* consoleread()'s test and its sleep().
ReaderMustWait == \A p \in Reader : rd[p].pc = "sleep" => cons.r = cons.w

\* consoleread, consoleintr and their ring, indices wrapping at UINT, are a
\* terminal with line editing.
T == INSTANCE Terminal WITH
        Size <- INPUT_BUF_SIZE,
        line <- Slice(cons.buf, cons.w, cons.e),
        ready <- Slice(cons.buf, cons.r, cons.w)
IsTerminal == T!TerminalSpec

\* Every write() ends and all its bytes are sent: whoever finds the UART busy, or
\* the ring full, is helped by the interrupt of the byte that is in its way.
WritesEnd == <>(\A p \in Writer : wr[p].pc = "done") /\ <>[](tx.r = tx.w /\ fifo = <<>>)

\* Keys are always handled in the end, also those that come while the handler
\* echoes or sends.
KeysHandled == []<>(rx = <<>>)

\* No character of the output is lost, doubled or sent into a full FIFO.
OutputSound == TypeOK /\ FifoHolds /\ OutputConserved

\* Every write ends with its characters on the wire and every key is handled.
AllServed == WritesEnd /\ KeysHandled
=============================================================================
