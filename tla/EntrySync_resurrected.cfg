SPECIFICATION WishSpec
CONSTANTS
    Device = {d1, d2}
    Body = {a}
    None = None
    MaxStart = 0
    PerMinute = 1
    BatchSize = 1
    MaxOps = 2
    MaxFails = 0
    MaxEvents = 2
INVARIANTS RemovedStays
CHECK_DEADLOCK FALSE
