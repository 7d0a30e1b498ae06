------------------------------ MODULE Terminal ------------------------------
(***************************************************************************)
(* What the console promises to those who read it (console.c): the line    *)
(* being edited is invisible to readers until it is complete, and a read   *)
(* returns, in order and once, bytes of complete lines: at most its own    *)
(* length, never beyond the end of a line, and nothing for an end of file. *)
(***************************************************************************)
EXTENDS Naturals, Sequences

CONSTANTS Reader, Size, NL, EOF, Plain

VARIABLES line,     \* the characters being edited
          ready,    \* complete input that nobody has read yet
          got       \* what each reader's current or last read has got

tvars == <<line, ready, got>>

TerminalInit == line = <<>> /\ ready = <<>> /\ got = [p \in Reader |-> <<>>]

\* A character is dropped when Size are waiting; the line is complete at its
\* end, at an end of file and when nothing more fits.
Key(c) ==
    /\ Len(line) + Len(ready) < Size
    /\ IF c \in {NL, EOF} \/ Len(line) + Len(ready) + 1 = Size
       THEN line' = <<>> /\ ready' = ready \o Append(line, c)
       ELSE line' = Append(line, c) /\ UNCHANGED ready
    /\ UNCHANGED got

Erase ==
    /\ line # <<>>
    /\ line' = SubSeq(line, 1, Len(line) - 1)
    /\ UNCHANGED <<ready, got>>

\* A read that has got g so far takes n bytes; one that has got nothing may
\* take an end of file instead.
Take(p, g) ==
    \/ \E n \in 0..Len(ready) :
          LET bytes == SubSeq(ready, 1, n)
          IN  /\ \A i \in 1..n : bytes[i] # EOF /\ (bytes[i] = NL => i = n)
              /\ g # <<>> /\ n > 0 => g[Len(g)] # NL
              /\ got' = [got EXCEPT ![p] = g \o bytes]
              /\ ready' = SubSeq(ready, n + 1, Len(ready))
    \/ /\ g = <<>> /\ ready # <<>> /\ Head(ready) = EOF
       /\ got' = [got EXCEPT ![p] = <<>>]
       /\ ready' = Tail(ready)

Read(p) == (Take(p, <<>>) \/ Take(p, got[p])) /\ UNCHANGED line

TerminalNext == (\E c \in Plain \union {NL, EOF} : Key(c)) \/ Erase \/ (\E p \in Reader : Read(p))

TerminalSpec == TerminalInit /\ [][TerminalNext]_tvars
=============================================================================
