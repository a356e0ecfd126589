CONSTANTS
    Ids = {i, j, k, l}
    None = None
    WalkCap = 3
    MaxPending = 2
    MaxFaults = 1
SYMMETRY Alike
SPECIFICATION Spec
INVARIANTS KnownSource
CHECK_DEADLOCK FALSE
