SPECIFICATION Spec
CONSTANTS
    Buf = {b1, b2, b3}
    Block = {k1, k2}
    Value = {v1, v2}
    NUM = 8
    UINT16 = 8
SYMMETRY Symmetry
INVARIANTS QueueSound NothingIsMissed
PROPERTIES IsBlockDevice
