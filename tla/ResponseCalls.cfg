SPECIFICATION Spec
CONSTANTS
    Keys = {k1, k2}
    Users = {u1, u2}
    Calls = {c1, c2}
    MaxFaults = 1
SYMMETRY Symmetry
CHECK_DEADLOCK FALSE
INVARIANTS TypeOK ResponseInv FourEyes OutcomeTrue CalmAgrees
