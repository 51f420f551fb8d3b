SPECIFICATION FairSpec
CONSTANTS
    Device = {d1, d2}
    Body = {a}
    None = None
    MaxStart = 1
    PerMinute = 2
    BatchSize = 1
    MaxOps = 3
    MaxFails = 1
    MaxEvents = 3
INVARIANTS TypeOK DeletionRemembered RestorationRemembered
PROPERTIES TombstoneStands 
CHECK_DEADLOCK FALSE
