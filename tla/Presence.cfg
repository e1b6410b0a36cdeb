SPECIFICATION FairSpec
CONSTANTS
    ACs = {a1, a2}
    Scanning = {a2}
    Conns = {c1, c2}
    None = None
    MaxFaults = 2
CHECK_DEADLOCK FALSE
INVARIANTS TypeOK TableExact
PROPERTIES BackShown GoneShown
