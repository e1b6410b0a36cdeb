SPECIFICATION Spec
CONSTANTS
    p1 = p1
    p2 = p2
    Partitions <- OnePartition
    Log <- RecordThenRows
    Assignments <- WholeAssignment
    ColdStart = "oldest"
    BatchSize = 1
    SendsFail = TRUE
    MaxFaults = 2
INVARIANTS  TypeOK CommittedHandled
PROPERTIES HandoverComplete KeepsPromise
