-------------------------------- MODULE MCVm --------------------------------
(* Vm for TLC: programs of one and two segments, damaged ones among them.   *)
EXTENDS Vm

Seg(vaddr, memsz, filesz, perm, whole) ==
    [vaddr |-> vaddr, memsz |-> memsz, filesz |-> filesz, perm |-> perm, whole |-> whole]

Text == Seg(0, 3, 2, {"X"}, TRUE)
Run(segs, args) == [elf |-> TRUE, segs |-> segs, args |-> args]

Execs ==
    {Run(<<Text>>, <<2>>),
     Run(<<Text, Seg(4, 2, 1, {"W"}, TRUE)>>, <<3>>),
     Run(<<Text>>, <<0>>),
     Run(<<Text>>, <<1, 1>>),
     Run(<<Text, Seg(4, 4, 4, {"W"}, FALSE)>>, <<>>),
     Run(<<Text, Seg(2, 4, 4, {"W"}, TRUE)>>, <<>>),
     [elf |-> FALSE, segs |-> <<>>, args |-> <<>>]}

Increments == {6, -3, -100}

\* Pages are interchangeable: states that differ only in which page is where are
\* one.  A state in which a page is lost or held twice is kept apart.
RECURSIVE Shape(_, _)
Shape(t, level) ==
    [i \in {j \in DOMAIN mem[t] : valid(mem[t][j])} |->
        <<mem[t][i].perm,
          IF level > 0 THEN Shape(mem[t][i].pa, level - 1)
          ELSE IF mem[t][i].pa \in Page THEN mem[mem[t][i].pa] ELSE "trampoline">>]

Renumbered ==
    <<[p \in Proc |-> <<proc[p].state, proc[p].sz>>],
      [p \in Live |-> Shape(proc[p].pt, LEVELS - 1)],
      ret, panic, TypeOK /\ PagesConserved>>
=============================================================================
