SPECIFICATION FairSpec
CONSTANTS
    Messages = {m1, m2, m3}
    Reliable = {m1}
    InputSize = 1
    FallbackSize = 1
    MaxRetries = 2
    MaxFaults = 2
CHECK_DEADLOCK FALSE
INVARIANTS TypeOK Accounted LengthAgrees
PROPERTIES CountsDrops LeavesQueue Settles
