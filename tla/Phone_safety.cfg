SPECIFICATION AnySpec
CONSTANTS
    None = None
    a = a
    b = b
    c = c
    Title = {a, b}
    Content = {a, b, c}
    Users = {u, v}
    Devices = {p, r}
    Phones = {p}
    Plain = {a}
    Todo = {t}
    MaxMade = 4
    MaxFails = 2
    Parts = {"timer", "log", "session", "keys"}
    Time = 3
    Taps = 2
    Auths = 3
INVARIANTS Typed  QueuedFirst EachActivityLives 
INVARIANTS KeysAgree
PROPERTIES StopsWhatItSaw
CHECK_DEADLOCK FALSE
