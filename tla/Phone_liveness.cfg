SPECIFICATION AnyFairSpec
CONSTANTS
    None = None
    a = a
    b = b
    c = c
    Title = {a, b}
    Content = {a, b, c}
    Users = {u, v}
    Devices = {p, r}
    Phones = {p}
    Plain = {a}
    Todo = {t}
    MaxMade = 4
    MaxFails = 2
    Parts = {"timer", "pad"}
    Time = 2
    Taps = 2
    Auths = 2
INVARIANTS LinesStay
PROPERTIES  EditsReach
CHECK_DEADLOCK FALSE
