SPECIFICATION FairSpec
CONSTANTS
    Hosts = {h1}
    Users = {u1}
    Dispatchers = {m1, m2}
    Timers = {a1}
    MaxRetries = 1
    MaxRuns = 1
    MaxFaults = 1
CHECK_DEADLOCK FALSE
INVARIANTS OneDispatcher
PROPERTIES TaskEnds
