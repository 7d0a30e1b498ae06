------------------------------ MODULE MCShell -------------------------------
(* Lines for Shell: every line of less than MaxLen characters, those of     *)
(* MaxLen characters without blanks, and some sequences of longer ones with *)
(* nested pipes, blocks, lists and background commands.                     *)
EXTENDS Shell

CONSTANT MaxLen

Line(n) == [1..n -> Symbols \union (IF n < MaxLen THEN {"a", Blank} ELSE {"a"})]

Sessions ==
    {<<l>> : l \in UNION {Line(n) : n \in 0..MaxLen}}
    \union {<<<<"a", "&">>, <<"a", "|", "a">>>>,
            <<<<"(", "a", "|", "a", ")", "&">>, <<"a">>>>,
            <<<<"a", "|", "a", "|", "a">>, <<"a">>>>,
            <<<<"a", "|", "a", "&", ";", "a">>>>,
            <<<<"(", "a", "<", "a", ";", "a", ")", "|", "a", ">", "a">>>>,
            <<<<"a", Blank, "a", Blank, "a">>, <<"c", "d", Blank, "a">>, <<"e", "x", "i", "t">>>>,
            <<<<"a", ">", "a", ">", ">", "a", "|", "(", "a", ")", "<", "a">>>>}
=============================================================================
