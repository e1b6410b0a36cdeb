SPECIFICATION AlertSpec
CONSTANTS
    ACs = {a1, a2}
    Scanning = {}
    Conns = {c1, c2}
    None = None
    MaxFaults = 1
CHECK_DEADLOCK FALSE
PROPERTY AlertClears
