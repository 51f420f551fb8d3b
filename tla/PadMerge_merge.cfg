SPECIFICATION Spec
CONSTANTS
    a = a
    b = b
    c = c
    d = d
    Leaf = {a, b, c, d}
    MaxCells = 100
    MaxLines = 2
    MaxEdits = 3
SYMMETRY Symmetry
INVARIANTS WrittenStays BothApply NothingReturns
CHECK_DEADLOCK FALSE
