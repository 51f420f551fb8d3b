SPECIFICATION Spec
CONSTANTS
    Device = {d1, d2}
    Journaled = {d1}
    Title = {a}
    None = None
    MaxTime = 3
    MaxOps = 4
    MaxFails = 1
    MaxVersion = 9
INVARIANTS TypeOK VersionNamesTimer
PROPERTIES  RecordIsVersioned
CHECK_DEADLOCK FALSE
