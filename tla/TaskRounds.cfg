SPECIFICATION Spec
CONSTANTS
    Hosts = {h1, h2}
    Users = {u1}
    Dispatchers = {m1}
    Timers = {a1}
    MaxRetries = 1
    MaxRuns = 1
    MaxFaults = 1
SYMMETRY Symmetry
CHECK_DEADLOCK FALSE
INVARIANTS TypeOK FirstRoundInv FirstRoundExact NoHostForgotten PartialHasResults
