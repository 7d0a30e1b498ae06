CONSTANTS
    MAXARGS = 3
    NPROC = 5
    MaxLen = 4
    Scripts <- Sessions
SPECIFICATION FairSpec
\* The kernel stops for good when init finds the process table full.
CHECK_DEADLOCK FALSE
INVARIANTS ParseAgrees FdsWanted JobsWaited
PROPERTIES PromptReturns
