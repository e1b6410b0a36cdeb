SPECIFICATION Spec
CONSTANTS
    p1 = p1
    p2 = p2
    Partitions <- TwoPartitions
    Log <- TwoLogs
    Assignments <- AnyAssignment
    ColdStart = "newest"
    BatchSize = 1
    SendsFail = TRUE
    MaxFaults = 1
INVARIANTS CommittedLeftBuffer  RowsBacked
