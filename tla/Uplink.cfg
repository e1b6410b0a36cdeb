SPECIFICATION FairUplink
CONSTANTS
    Edr = {e1, e2}
    Other = {o1}
    RingSize = 1
    WalSize = 1
    WalBatch = 1
    Window = 1
    MaxFaults = 2
    MaxWorkers = 1
CHECK_DEADLOCK FALSE
INVARIANTS CenterTypeOK LogKept AtMostOnce
PROPERTIES RingDrains WritersReturn
