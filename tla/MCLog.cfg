CONSTANTS
    Proc = {p1, p2, p3}
    Block = {b1, b2}
    Val = {v1, v2}
    NotCached = NotCached
    MAXOPBLOCKS = 2
    LOGSIZE = 4
    NLog = 4
    OpBlocks = 1
SPECIFICATION FairSpec
INVARIANTS RecyclableIsClean SleeperHasWaker 
PROPERTIES CrashAtomic LogProgress
