SPECIFICATION FairSpec
CONSTANTS
    a = a
    b = b
    c = c
    d1 = d1
    d2 = d2
    Leaf = {a, c}
    synced = c
    MaxCells = 100
    MaxLines = 3
    Text <- FlatPads
    Empty <- Nothing
    Starts <- NewOrSynced
    Imports <- NewOrSynced
    Block <- Leaf
    Blocks <- Leaves
    Erases <- FlatTakenOut
    Edited <- FlatEdits
    MergeTexts <- TabledMerge
    Device = {d1, d2}
    NoText = NoText
    MaxEdits = 2
    MaxFails = 1
    MaxVersion = 9
INVARIANTS VersionNamesText
PROPERTIES TextStays Converges
CHECK_DEADLOCK FALSE
