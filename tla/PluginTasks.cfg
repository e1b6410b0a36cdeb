SPECIFICATION Spec
CONSTANTS
    Slots = {i1, i2, i3}
    None = None
    MaxRestarts = 1
    MaxFaults = 2
    MaxRetries = 1
    MaxGiven = 1
CHECK_DEADLOCK FALSE
INVARIANTS TasksTypeOK OneProcess PoisonBounded
SYMMETRY Symmetry
