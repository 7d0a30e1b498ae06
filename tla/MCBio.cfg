SPECIFICATION Spec
CONSTANTS
    Process = {p1, p2}
    Buf = {1, 2, 3}
    Block = {k1, k2, k3, k4}
    Value = {v1, v2}
    MaxPin = 1
SYMMETRY Symmetry
INVARIANTS Coherent BuffersHeld
