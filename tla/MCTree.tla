------------------------------- MODULE MCTree -------------------------------
(* Small file trees for TLC, with paths of one or two elements, one of which *)
(* is longer than a name may be.                                           *)
EXTENDS Tree, TLC

A == <<"a", "b">>
B == <<"b">>
Slash == <<"/">>
TwoNames == {A, B}

C(op, path) == [op |-> op, path |-> path, new |-> <<>>]
L(old, new) == [op |-> "link", path |-> old, new |-> new]

Flat ==
    {C("create", A), C("create", B), C("mkdir", Slash \o A \o <<"c">>),
     C("unlink", A), C("unlink", B), C("create", Slash \o Slash \o A \o Slash \o Slash \o B),
     C("chdir", A \o Slash), C("chdir", DotDot), L(A, B), C("open", A), C("unlink", Slash)}
=============================================================================
