SPECIFICATION FairSpec
CONSTANTS
    p1 = p1
    p2 = p2
    Partitions <- OnePartition
    Log <- OneRow
    Assignments <- WholeAssignment
    ColdStart = "oldest"
    BatchSize = 1
    SendsFail = FALSE
    MaxFaults = 2
PROPERTY CommitsCatchUp
