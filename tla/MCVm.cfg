CONSTANTS
    Proc = {p1, p2}
    initproc = p1
    NPAGE = 18
    LEVELS = 3
    ENTRIES = 4
    PGSIZE = 4
    Exec <- Execs
    MAXARG = 2
    ALIGN = 2
    Sbrk <- Increments
    Addr = {7}
    CopyAddr = {0, 3, 7, 11, 250, 255, 256}
    MaxSz = 16
SPECIFICATION Spec
VIEW Renumbered
INVARIANTS PagesSound SpacesSound 
PROPERTIES ImagesKept
