------------------------------- MODULE Shell --------------------------------
(***************************************************************************)
(* init, the shell and the processes it starts: how runcmd() (sh.c) forks, *)
(* connects and waits for the parts of a command, with what it uses of the *)
(* kernel's process table, descriptor tables and pipes.                    *)
(*                                                                         *)
(* A descriptor refers to the console, a file (its name and mode) or an    *)
(* end of a pipe.  A pipe is named by the line and the place in the line's *)
(* tree of the command that made it.  A program started by exec() reads    *)
(* its input up to the end and exits: from a pipe the end comes when no    *)
(* process has the write end open.  fork() fails when the table is full;   *)
(* open(), pipe() and exec() may always fail.  The calls between two forks *)
(* or waits of one process concern its own descriptors only and are one    *)
(* step.                                                                   *)
(***************************************************************************)
EXTENDS Parse, TLC

CONSTANTS NPROC,      \* entries of the process table besides init's
          Scripts     \* the sequences of lines that may be typed

VARIABLES proc,       \* the process table
          init,       \* where init is: "fork", "wait" or "dead"
          shell,      \* init's pid: the process it started as shell
          input,      \* the lines that were typed
          next,       \* the number of the next line to read
          cut         \* ghost: fork() failed in the middle of a pipe

vars == <<proc, init, shell, input, next, cut>>

Slot == 1..NPROC
Init0 == 0            \* init, as the parent of others
Console == <<"console">>
File(name, mode) == <<"file", name, mode>>
End(job, path, end) == <<"pipe", job, path, end>>

Unused == [st |-> "unused", parent |-> Init0, pc |-> "none", cmd |-> Exec(<<>>), path |-> <<>>,
           job |-> 0, fd |-> <<>>, p |-> <<>>, left |-> 0, fg |-> TRUE]

Running(i) == proc[i].st = "running"
Free == {i \in Slot : proc[i].st = "unused"}
slot == CHOOSE i \in Free : \A j \in Free : i <= j

-----------------------------------------------------------------------------
(* Descriptor tables. *)

Lowest(fd) == CHOOSE n \in 0..Cardinality(DOMAIN fd) :
                  n \notin DOMAIN fd /\ \A m \in 0..n - 1 : m \in DOMAIN fd
opened(fd, f) == Lowest(fd) :> f @@ fd
closed(fd, n) == [m \in DOMAIN fd \ {n} |-> fd[m]]
dup(fd, n) == opened(fd, fd[n])

pipe_fds(fd, job, path) == opened(opened(fd, End(job, path, "r")), End(job, path, "w"))
\* What pipe() stores in p[0] and p[1].
pipe_p(fd) == <<Lowest(fd), Lowest(opened(fd, Console))>>

\* mutant: the parts of a pipe keep the ends they do not use
connect_kept(fd, n, p, k) == closed(dup(closed(fd, n), p[k]), p[k])

\* close(n); dup(p[k]); close(p[0]); close(p[1])
connect(fd, n, p, k) == closed(closed(dup(closed(fd, n), p[k]), p[1]), p[2])

WriteEndOpen(job, path) ==
    \E i \in Slot : \E n \in DOMAIN proc[i].fd : proc[i].fd[n] = End(job, path, "w")

-----------------------------------------------------------------------------
(* fork, exit and wait, as the kernel does them. *)

exit(i) ==
    proc' = [k \in Slot |->
                IF k = i THEN [Unused EXCEPT !.st = "zombie", !.parent = proc[i].parent, !.fg = proc[i].fg]
                ELSE IF proc[k].parent = i THEN [proc[k] EXCEPT !.parent = Init0]
                ELSE proc[k]]

\* The table after i forked a child that is to run cmd, i itself being at pc.
forked(i, pc, child_pc, cmd, step, fg) ==
    [proc EXCEPT ![i].pc = pc,
                 ![slot] = [proc[i] EXCEPT !.parent = i, !.pc = child_pc, !.cmd = cmd,
                                           !.path = @ \o step, !.fg = @ /\ fg]]

\* fork1(): panic() when there is no process left.
fork1(i, pc, child_pc, cmd, step, fg) ==
    IF Free # {} THEN proc' = forked(i, pc, child_pc, cmd, step, fg) ELSE exit(i)

Zombies(i) == {k \in Slot : proc[k].st = "zombie" /\ proc[k].parent = i}
Children(i) == {k \in Slot : proc[k].st # "unused" /\ proc[k].parent = i}

\* wait(0), after which i is as in me; it returns at once without children.
wait(i, me) ==
    \/ \E k \in Zombies(i) : proc' = [proc EXCEPT ![k] = Unused, ![i] = me]
    \/ Children(i) = {} /\ proc' = [proc EXCEPT ![i] = me]

-----------------------------------------------------------------------------
(* runcmd(cmd): one action for each case of the switch. *)

At(i, pc) == Running(i) /\ proc[i].pc = pc
Runs(i, type) == At(i, "run") /\ proc[i].cmd.type = type
Same == UNCHANGED <<init, shell, input, next, cut>>

runcmd_exec(i) ==
    /\ Runs(i, "EXEC")
    /\ \/ proc[i].cmd.argv # <<>> /\ proc' = [proc EXCEPT ![i].pc = "program"]
       \/ exit(i)
    /\ Same

runcmd_redir(i) ==
    /\ Runs(i, "REDIR")
    /\ LET c == proc[i].cmd
       IN  \/ proc' = [proc EXCEPT ![i].fd = opened(closed(@, c.fd), File(c.file, c.mode)),
                                   ![i].cmd = c.cmd, ![i].path = Append(@, "c")]
           \/ exit(i)
    /\ Same

runcmd_list(i) ==
    /\ Runs(i, "LIST")
    /\ fork1(i, "list", "run", proc[i].cmd.left, <<"l">>, TRUE)
    /\ Same

list_wait(i) ==
    /\ At(i, "list")
    /\ wait(i, [proc[i] EXCEPT !.pc = "run", !.cmd = @.right, !.path = Append(@, "r")])
    /\ Same

runcmd_pipe(i) ==
    /\ Runs(i, "PIPE")
    /\ \/ proc' = [proc EXCEPT ![i].pc = "left", ![i].p = pipe_p(proc[i].fd),
                               ![i].fd = pipe_fds(@, proc[i].job, proc[i].path)]
       \/ exit(i)
    /\ Same

pipe_left(i) ==
    /\ At(i, "left")
    /\ fork1(i, "right", "writer", proc[i].cmd.left, <<"l">>, TRUE)
    /\ Same

pipe_right(i) ==
    /\ At(i, "right")
    /\ fork1(i, "close", "reader", proc[i].cmd.right, <<"r">>, TRUE)
    /\ cut' = (cut \/ Free = {})
    /\ UNCHANGED <<init, shell, input, next>>

\* What the two children do before they call runcmd().
pipe_child(i) ==
    /\ At(i, "writer") \/ At(i, "reader")
    /\ proc' = [proc EXCEPT ![i].pc = "run", ![i].p = <<>>,
                            ![i].fd = IF proc[i].pc = "writer" THEN connect(@, 1, proc[i].p, 2)
                                                               ELSE connect(@, 0, proc[i].p, 1)]
    /\ Same

\* mutant: the parent closes its write end only after it has waited
pipe_close_late(i) ==
    /\ At(i, "close")
    /\ proc' = [proc EXCEPT ![i].pc = "wait", ![i].left = 2, ![i].fd = closed(@, proc[i].p[1])]
    /\ Same

pipe_close(i) ==
    /\ At(i, "close")
    /\ proc' = [proc EXCEPT ![i].pc = "wait", ![i].left = 2,
                            ![i].fd = closed(closed(@, proc[i].p[1]), proc[i].p[2])]
    /\ Same

\* mutant: one wait() for both children
pipe_wait_once(i) ==
    /\ At(i, "wait")
    /\ IF proc[i].left = 1 THEN exit(i) ELSE wait(i, [proc[i] EXCEPT !.left = 1])
    /\ Same

pipe_wait(i) ==
    /\ At(i, "wait")
    /\ IF proc[i].left = 0 THEN exit(i) ELSE wait(i, [proc[i] EXCEPT !.left = @ - 1])
    /\ Same

runcmd_back(i) ==
    /\ Runs(i, "BACK")
    /\ fork1(i, "exit", "run", proc[i].cmd.cmd, <<"c">>, FALSE)
    /\ Same

back_exit(i) == At(i, "exit") /\ exit(i) /\ Same

-----------------------------------------------------------------------------
(* The shell's main loop, the child that parses, programs and init. *)

cd == <<"c", "d", Blank>>
exits == <<"e", "x", "i", "t">>

\* getcmd() and parse_buffer() up to fork1(); cd is done by the shell itself.
getcmd(i) ==
    /\ At(i, "prompt")
    /\ \/ /\ next > Len(input)
          /\ exit(i) /\ UNCHANGED next
       \/ /\ next <= Len(input) /\ next' = next + 1
          /\ IF IsPrefix(exits, input[next]) THEN exit(i)
             ELSE proc' = [proc EXCEPT ![i].pc = IF IsPrefix(cd, input[next]) THEN "prompt" ELSE "fork"]
    /\ UNCHANGED <<init, shell, input, cut>>

parse_buffer(i) ==
    /\ At(i, "fork")
    /\ fork1(i, "command", "parse", Exec(<<>>), <<>>, TRUE)
    /\ Same

shell_wait(i) ==
    /\ At(i, "command")
    /\ wait(i, [proc[i] EXCEPT !.pc = "prompt"])
    /\ Same

\* What parsecmd() makes of each line.
parsecmd_of == [l \in UNION {Range(s) : s \in Scripts} |-> parsecmd(l)]

\* parsecmd() in the child; panic() ends only the child.
parse(i) ==
    /\ At(i, "parse")
    /\ LET c == parsecmd_of[input[next - 1]]
       IN  IF c.ok THEN proc' = [proc EXCEPT ![i].pc = "run", ![i].job = next - 1, ![i].cmd = c.cmd]
                   ELSE exit(i)
    /\ Same

\* A program has read its input to the end and exits.
program(i) ==
    /\ At(i, "program")
    /\ 0 \in DOMAIN proc[i].fd => LET f == proc[i].fd[0]
                                  IN  f[1] = "pipe" => ~WriteEndOpen(f[2], f[3])
    /\ exit(i)
    /\ Same

\* init: fork() and exec("sh"); the console is open as 0, 1 and 2.
init_fork ==
    /\ init = "fork"
    /\ IF Free = {} THEN init' = "dead" /\ UNCHANGED <<proc, shell>>
       ELSE /\ proc' = [proc EXCEPT ![slot] = [Unused EXCEPT !.st = "running", !.pc = "prompt",
                                                            !.fd = [n \in 0..2 |-> Console]]]
            /\ shell' = slot
            /\ init' = "wait"
    /\ UNCHANGED <<input, next, cut>>

init_wait ==
    /\ init = "wait"
    /\ \E k \in Zombies(Init0) :
           /\ proc' = [proc EXCEPT ![k] = Unused]
           /\ init' = IF k = shell THEN "fork" ELSE "wait"
    /\ UNCHANGED <<shell, input, next, cut>>

-----------------------------------------------------------------------------
Init ==
    /\ proc = [i \in Slot |-> Unused]
    /\ init = "fork" /\ shell = 0
    /\ input \in Scripts /\ next = 1
    /\ cut = FALSE

\* exit() of init is a panic of the kernel: nothing runs after it.
Step(i) ==
    /\ init # "dead"
    /\ \/ runcmd_exec(i) \/ runcmd_redir(i) \/ runcmd_list(i) \/ list_wait(i)
       \/ runcmd_pipe(i) \/ pipe_left(i) \/ pipe_right(i) \/ pipe_child(i)
       \/ pipe_close(i) \/ pipe_wait(i) \/ runcmd_back(i) \/ back_exit(i)
       \/ getcmd(i) \/ parse_buffer(i) \/ shell_wait(i) \/ parse(i) \/ program(i)

Next == (\E i \in Slot : Step(i)) \/ init_fork \/ init_wait

Spec == Init /\ [][Next]_vars
FairSpec == /\ Spec
            /\ \A i \in Slot : WF_vars(Step(i))
            /\ WF_vars(init_fork) /\ WF_vars(init_wait)

-----------------------------------------------------------------------------
TypeOK ==
    /\ \A i \in Slot :
           /\ proc[i].st \in {"unused", "running", "zombie"}
           /\ proc[i].parent \in 0..NPROC
           /\ proc[i].left \in 0..2
           /\ DOMAIN proc[i].fd \subseteq 0..4
           /\ proc[i].st # "running" => proc[i].fd = <<>>
    /\ init \in {"fork", "wait", "dead"}
    /\ shell \in 0..NPROC
    /\ next \in 1..Len(input) + 1

(* The recursive descent accepts exactly the lines the grammar gives a      *)
(* meaning to, and what exec() and open() then read from the buffer, with   *)
(* the NULs of nulterminate() in it, is that meaning.  (parsecmd)           *)
ParseAgrees ==
    \A i \in Slot : At(i, "parse") => Parsed(input[next - 1]) = Meaning(input[next - 1])

\* The descriptors 0, 1 and 2 the program at place rest of the tree is to have.
RECURSIVE Wanted(_, _, _, _, _)
Wanted(tree, rest, here, job, fd) ==
    IF rest = <<>> THEN fd
    ELSE CASE tree.type = "REDIR" ->
                  Wanted(tree.cmd, Tail(rest), Append(here, "c"), job,
                         [fd EXCEPT ![tree.fd] = File(tree.file, tree.mode)])
           [] tree.type = "BACK" -> Wanted(tree.cmd, Tail(rest), Append(here, "c"), job, fd)
           [] tree.type = "LIST" ->
                  Wanted(IF Head(rest) = "l" THEN tree.left ELSE tree.right,
                         Tail(rest), Append(here, Head(rest)), job, fd)
           [] tree.type = "PIPE" /\ Head(rest) = "l" ->
                  Wanted(tree.left, Tail(rest), Append(here, "l"), job,
                         [fd EXCEPT ![1] = End(job, here, "w")])
           [] tree.type = "PIPE" /\ Head(rest) = "r" ->
                  Wanted(tree.right, Tail(rest), Append(here, "r"), job,
                         [fd EXCEPT ![0] = End(job, here, "r")])

(* A program is started with the input and output its place in the line     *)
(* gives it and no other descriptor: no end of a pipe leaks into it.        *)
FdsWanted ==
    \A i \in Slot : At(i, "program") =>
        proc[i].fd = Wanted(CHOOSE t \in Meaning(input[proc[i].job]) : TRUE, proc[i].path, <<>>,
                            proc[i].job, [n \in 0..2 |-> Console])

\* The calls of wait() a process still has to make for children it has.
Pending(i) ==
    CASE proc[i].pc \in {"list", "command", "right", "exit"} -> 1
      [] proc[i].pc = "close" -> 2
      [] proc[i].pc = "wait" -> proc[i].left
      [] OTHER -> 0

(* Nothing tells the shell which child its wait(0) is to return.  It needs  *)
(* no such test: every process has exactly the children it is about to wait *)
(* for, background commands and orphans being init's.                       *)
WaitsMatch == \A i \in Slot : Cardinality(Children(i)) = Pending(i)

(* When the shell prompts again, every process of the lines before has      *)
(* ended but those after a "&"; the one exception is the left side of a     *)
(* pipe whose right side could not be forked.  (runcmd, parse_buffer)       *)
ForegroundDone ==
    \A i, k \in Slot : At(i, "prompt") /\ Running(k) /\ proc[k].fg /\ ~cut => k = i

(* Whatever is typed, the prompt comes back: no part of a command waits for *)
(* the end of a pipe that a process waiting for it holds open, and a shell  *)
(* that ended is restarted, unless init itself found the table full.        *)
PromptReturns == []<>(init = "dead" \/ \E i \in Slot : At(i, "prompt"))

\* Every wait(0) is for the children it is meant for, and the prompt comes
\* only after them.
JobsWaited == TypeOK /\ WaitsMatch /\ ForegroundDone
=============================================================================
