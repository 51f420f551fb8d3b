SPECIFICATION FairSpec
CONSTANTS
    Device = {d1, d2}
    Journaled = {}
    Title = {a, b}
    None = None
    MaxTime = 2
    MaxOps = 3
    MaxFails = 1
    MaxVersion = 9
PROPERTIES Converges
CHECK_DEADLOCK FALSE
