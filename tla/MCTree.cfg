SPECIFICATION Spec
CONSTANTS
    Proc = {p1, p2}
    initproc = p1
    Name <- TwoNames
    DIRSIZ = 2
    NINODES = 3
    NINODE = 3
    NFILE = 1
    NOFILE = 2
    Call <- Flat
    MaxCalls = 4
INVARIANTS NamesAndUse CountsExact CopyCurrent 
