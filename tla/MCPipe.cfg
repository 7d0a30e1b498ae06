SPECIFICATION Spec
CONSTANTS
    Writer = {w1, w2}
    Reader = {r1, r2}
    Byte = {0, 1}
    PIPESIZE = 2
    UINT = 4
    N = 2
SYMMETRY Symmetry
CHECK_DEADLOCK FALSE
INVARIANTS PipeSound
PROPERTIES IsChannel
