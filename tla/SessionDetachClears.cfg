SPECIFICATION Spec
CONSTANTS
    i1 = i1
    i2 = i2
    Imsis = {i1, i2}
    MaxProcs = 3
    MaxFaults = 0
    None = None
CHECK_DEADLOCK FALSE
INVARIANTS DetachClears
