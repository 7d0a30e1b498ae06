CONSTANTS
    Main = main
    Thread = {main, a, b, c}
    None = None
    Lock = {l}
    NTHREAD = 3
    TIDS = 8
SPECIFICATION FairSpec
CHECK_DEADLOCK FALSE
INVARIANTS ThreadsSound
PROPERTIES ThreadsProgress
