SPECIFICATION FairSpec
CONSTANTS
    Managers = {m1, m2}
    None = None
CHECK_DEADLOCK FALSE
PROPERTY DownForgotten
