SPECIFICATION FairSpec
CONSTANTS
    NPROC = 4
    KillPids <- OnePid
INVARIANTS SlotsSound WaiterHasLiveChild
PROPERTIES ExitReaped
