------------------------------ MODULE Channel ------------------------------
(***************************************************************************)
(* What a pipe promises: a queue of at most Capacity bytes.  Bytes go in   *)
(* at one end while both ends are open, come out at the other in the same  *)
(* order, each once, and may be lost only with the whole queue, when both  *)
(* ends are closed.                                                        *)
(***************************************************************************)
EXTENDS Naturals, Sequences

CONSTANTS Byte, Capacity

VARIABLES queue, writable, readable

vars == <<queue, writable, readable>>

Init == queue = <<>> /\ writable = TRUE /\ readable = TRUE

Put ==
    /\ writable /\ readable
    /\ Len(queue) < Capacity
    /\ \E b \in Byte : queue' = Append(queue, b)
    /\ UNCHANGED <<writable, readable>>

Get ==
    /\ readable
    /\ queue # <<>>
    /\ queue' = Tail(queue)
    /\ UNCHANGED <<writable, readable>>

CloseWriter ==
    /\ writable
    /\ writable' = FALSE
    /\ UNCHANGED <<queue, readable>>

CloseReader ==
    /\ readable
    /\ readable' = FALSE
    /\ UNCHANGED <<queue, writable>>

Next == Put \/ Get \/ CloseWriter \/ CloseReader

Spec == Init /\ [][Next]_vars
=============================================================================
