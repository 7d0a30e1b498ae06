------------------------------- MODULE Parse --------------------------------
(***************************************************************************)
(* The parser of the shell (sh.c): gettoken and the recursive descent, over *)
(* lines of characters, and a grammar it is compared with.                 *)
(*                                                                         *)
(* b is the buffer: the line and a final NUL.  A parser returns ok (FALSE: *)
(* it called panic), the position s it came to, in *ps, and the command.  A   *)
(* word is the pair of its bounds <<q, eq>>, as in argv and eargv; one     *)
(* letter stands for all characters of words.                              *)
(***************************************************************************)
EXTENDS Naturals, SequencesExt

CONSTANT MAXARGS

NUL == "0"
Symbols == {"<", "|", ">", "&", ";", "(", ")"}
Letters == {"a"}
Blank == " "

Exec(args) == [type |-> "EXEC", argv |-> args]
Redir(cmd, file, mode, fd) ==
    [type |-> "REDIR", cmd |-> cmd, file |-> file, mode |-> mode, fd |-> fd]
Pipe(left, right) == [type |-> "PIPE", left |-> left, right |-> right]
List(left, right) == [type |-> "LIST", left |-> left, right |-> right]
Back(cmd) == [type |-> "BACK", cmd |-> cmd]

-----------------------------------------------------------------------------
(* Tokens. *)

RECURSIVE skip(_, _)
skip(b, s) == IF b[s] = Blank THEN skip(b, s + 1) ELSE s

\* mutant: a word ends at a blank only
RECURSIVE word_end_blank(_, _)
word_end_blank(b, s) == IF b[s] \in {Blank, NUL} THEN s ELSE word_end_blank(b, s + 1)

RECURSIVE word_end(_, _)
word_end(b, s) == IF b[s] \in Symbols \union {Blank, NUL} THEN s ELSE word_end(b, s + 1)

Token(b, tok, q, eq) == [tok |-> tok, q |-> q, eq |-> eq, s |-> skip(b, eq)]

token_at(b, s) ==
    IF b[s] = NUL THEN Token(b, NUL, s, s)
    ELSE IF b[s] = ">" /\ b[s + 1] = ">" THEN Token(b, "+", s, s + 2)
    ELSE IF b[s] \in Symbols THEN Token(b, b[s], s, s + 1)
    ELSE Token(b, "a", s, word_end(b, s))

gettoken(b, s) == token_at(b, skip(b, s))
peek(b, s, toks) == b[skip(b, s)] \in toks

-----------------------------------------------------------------------------
(* The recursive descent; r is the result of what was parsed before. *)

Fail(r) == [r EXCEPT !.ok = FALSE]

\* The redirections from r.s on are added to r.redirs.
redircmd(r, op, t) ==
    [r EXCEPT !.s = t.s,
              !.redirs = Append(@, [file |-> <<t.q, t.eq>>, mode |-> op,
                                    fd |-> IF op = "<" THEN 0 ELSE 1])]

RECURSIVE parseredirs(_, _), redir_file(_, _, _, _)
parseredirs(b, r) ==
    IF ~r.ok \/ ~peek(b, r.s, {"<", ">"}) THEN r
    ELSE redir_file(b, r, gettoken(b, r.s).tok, gettoken(b, gettoken(b, r.s).s))
redir_file(b, r, op, t) ==
    IF t.tok # "a" THEN Fail(r) ELSE parseredirs(b, redircmd(r, op, t))

\* cmd inside the redirections it was given, the first innermost.
RECURSIVE wrap(_, _)
wrap(cmd, redirs) ==
    IF redirs = <<>> THEN cmd
    ELSE wrap(Redir(cmd, Head(redirs).file, Head(redirs).mode, Head(redirs).fd), Tail(redirs))
wrapped(r) == [r EXCEPT !.cmd = wrap(@, r.redirs), !.redirs = <<>>]

RECURSIVE parseargs(_, _), arg(_, _, _)
parseargs(b, r) ==
    IF ~r.ok THEN r
    ELSE IF peek(b, r.s, {"|", ")", "&", ";", NUL}) THEN wrapped(r)
    ELSE arg(b, r, gettoken(b, r.s))
arg(b, r, t) ==
    IF t.tok # "a" \/ Len(r.cmd.argv) + 1 >= MAXARGS THEN Fail(r)
    ELSE parseargs(b, parseredirs(b, [r EXCEPT !.s = t.s,
                                               !.cmd.argv = Append(@, <<t.q, t.eq>>)]))

\* What a parser makes of the command r that comes after it, if that was parsed.
with(r, cmd) == IF r.ok THEN [r EXCEPT !.cmd = cmd] ELSE r
start(s) == [ok |-> TRUE, s |-> s, cmd |-> Exec(<<>>), redirs |-> <<>>]

RECURSIVE parseline(_, _), line_rest(_, _), list_rest(_, _), parsepipe(_, _), pipe_rest(_, _),
          piped(_, _), parseexec(_, _), parseblock(_, _)

parseline(b, s) == line_rest(b, parsepipe(b, s))
line_rest(b, r) ==
    IF ~r.ok THEN r
    ELSE IF peek(b, r.s, {"&"})
    THEN line_rest(b, [r EXCEPT !.s = gettoken(b, r.s).s, !.cmd = Back(@)])
    ELSE IF peek(b, r.s, {";"}) THEN list_rest(r.cmd, parseline(b, gettoken(b, r.s).s))
    ELSE r
list_rest(left, r) == with(r, List(left, r.cmd))

parsepipe(b, s) == pipe_rest(b, parseexec(b, s))
pipe_rest(b, r) ==
    IF r.ok /\ peek(b, r.s, {"|"}) THEN piped(r.cmd, parsepipe(b, gettoken(b, r.s).s)) ELSE r
piped(left, r) == with(r, Pipe(left, r.cmd))

\* parseblock() after the parseline() between its parentheses.
parseblock(b, r) ==
    IF ~r.ok \/ ~peek(b, r.s, {")"}) THEN Fail(r)
    ELSE wrapped(parseredirs(b, [r EXCEPT !.s = gettoken(b, r.s).s]))

parseexec(b, s) ==
    IF peek(b, s, {"("}) THEN parseblock(b, parseline(b, gettoken(b, s).s))
    ELSE parseargs(b, parseredirs(b, start(s)))

\* nulterminate(): where it stores a NUL.
RECURSIVE ends(_)
ends(cmd) ==
    CASE cmd.type = "EXEC" -> {cmd.argv[i][2] : i \in DOMAIN cmd.argv}
      [] cmd.type = "REDIR" -> ends(cmd.cmd) \union {cmd.file[2]}
      [] cmd.type \in {"PIPE", "LIST"} -> ends(cmd.left) \union ends(cmd.right)
      [] cmd.type = "BACK" -> ends(cmd.cmd)

nulterminate(b, cmd) == [i \in DOMAIN b |-> IF i \in ends(cmd) THEN NUL ELSE b[i]]

\* The string that starts at q in the buffer: what the program sees.
Str(buf, q) == SubSeq(buf, q, (CHOOSE e \in q..Len(buf) : buf[e] = NUL /\ \A i \in q..e - 1 : buf[i] # NUL) - 1)

\* The command with its words read from the buffer, as exec() and open() do.
RECURSIVE Seen(_, _)
Seen(buf, cmd) ==
    CASE cmd.type = "EXEC" -> Exec([i \in DOMAIN cmd.argv |-> Str(buf, cmd.argv[i][1])])
      [] cmd.type = "REDIR" -> Redir(Seen(buf, cmd.cmd), Str(buf, cmd.file[1]), cmd.mode, cmd.fd)
      [] cmd.type = "PIPE" -> Pipe(Seen(buf, cmd.left), Seen(buf, cmd.right))
      [] cmd.type = "LIST" -> List(Seen(buf, cmd.left), Seen(buf, cmd.right))
      [] cmd.type = "BACK" -> Back(Seen(buf, cmd.cmd))

parsed(b, r) ==
    [ok |-> r.ok /\ b[skip(b, r.s)] = NUL, cmd |-> Seen(nulterminate(b, r.cmd), r.cmd)]

parsecmd(line) == parsed(line \o <<NUL, NUL>>, parseline(line \o <<NUL, NUL>>, 1))

-----------------------------------------------------------------------------
(* What a line should mean, said without a parser: its tokens, and the      *)
(* trees a grammar gives to a sequence of tokens.  Here a word is its       *)
(* characters.                                                              *)
(*   line  ::=  pipe "&"*  |  pipe "&"* ";" line                            *)
(*   pipe  ::=  exec  |  exec "|" pipe                                      *)
(*   exec  ::=  (word | redir)*  |  "(" line ")" redir*                     *)
(*   redir ::=  ("<" | ">" | ">>") word                                     *)

Word(w) == [tok |-> "a", word |-> w]
Symbol(c) == [tok |-> c, word |-> <<>>]
From(seq, i) == SubSeq(seq, i, Len(seq))
Letter(line, k) == k \in DOMAIN line /\ line[k] \in Letters

\* The tokens of line: maximal runs of letters, ">>" before ">", symbols.
RECURSIVE Tokens(_)
Tokens(line) ==
    IF line = <<>> THEN <<>>
    ELSE IF Head(line) = Blank THEN Tokens(Tail(line))
    ELSE IF IsPrefix(<<">", ">">>, line) THEN <<Symbol("+")>> \o Tokens(From(line, 3))
    ELSE IF Head(line) \in Symbols THEN <<Symbol(Head(line))>> \o Tokens(Tail(line))
    ELSE LET n == CHOOSE k \in 1..Len(line) :
                     (\A i \in 1..k : Letter(line, i)) /\ ~Letter(line, k + 1)
         IN  <<Word(SubSeq(line, 1, n))>> \o Tokens(From(line, n + 1))

\* The positions of ts at which token tok stands, and the two sides of one.
Places(ts, tok) == {i \in DOMAIN ts : ts[i].tok = tok}
Before(ts, i) == SubSeq(ts, 1, i - 1)
After(ts, i) == From(ts, i + 1)

Op(ts, i) == ts[i].tok \in {"<", ">", "+"}
OpsHaveFiles(ts) == \A i \in DOMAIN ts : Op(ts, i) => i + 1 \in Places(ts, "a")
Args(ts) == {i \in Places(ts, "a") : i = 1 \/ ~Op(ts, i - 1)}
Pick(ts, S) == [k \in 1..Cardinality(S) |-> ts[SetToSortSeq(S, <)[k]]]

\* cmd with the redirections of ts: the first one is the innermost.
Redirected(cmd, ts) ==
    FoldLeft(LAMBDA c, i : IF Op(ts, i)
                           THEN Redir(c, ts[i + 1].word, ts[i].tok, IF ts[i].tok = "<" THEN 0 ELSE 1)
                           ELSE c,
             cmd, [i \in DOMAIN ts |-> i])

RECURSIVE LineTrees(_), BackTrees(_), PipeTrees(_), ExecTrees(_)
LineTrees(ts) ==
    BackTrees(ts) \union
    UNION {{List(l, r) : l \in BackTrees(Before(ts, i)), r \in LineTrees(After(ts, i))} : i \in Places(ts, ";")}
BackTrees(ts) ==
    IF ts # <<>> /\ Last(ts).tok = "&" THEN {Back(c) : c \in BackTrees(Front(ts))} ELSE PipeTrees(ts)
PipeTrees(ts) ==
    ExecTrees(ts) \union
    UNION {{Pipe(l, r) : l \in ExecTrees(Before(ts, i)), r \in PipeTrees(After(ts, i))} : i \in Places(ts, "|")}
ExecTrees(ts) ==
    IF ts # <<>> /\ Head(ts).tok = "("
    THEN UNION {{Redirected(c, After(ts, i)) : c \in LineTrees(SubSeq(ts, 2, i - 1))} :
                i \in {j \in Places(ts, ")") : Args(After(ts, j)) = {} /\ OpsHaveFiles(After(ts, j))
                                           /\ \A k \in j + 1..Len(ts) : Op(ts, k) \/ ts[k].tok = "a"}}
    ELSE IF /\ \A i \in DOMAIN ts : Op(ts, i) \/ ts[i].tok = "a"
            /\ OpsHaveFiles(ts) /\ Cardinality(Args(ts)) < MAXARGS
    THEN {Redirected(Exec([k \in 1..Cardinality(Args(ts)) |-> Pick(ts, Args(ts))[k].word]), ts)}
    ELSE {}

Meaning(line) == LineTrees(Tokens(line))
Parsed(line) == IF parsecmd(line).ok THEN {parsecmd(line).cmd} ELSE {}
=============================================================================
