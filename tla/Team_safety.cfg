SPECIFICATION AnySpec
CONSTANTS
    None = None
    Automatic = Automatic
    a = a
    b = b
    c = c
    mine = mine
    yours = yours
    e1 = e1
    e2 = e2
    p = p
    q = q
    x = x
    y = y
    me = me
    you = you
    Users = {a, b, c}
    Creator = a
    Devices = {mine, yours}
    Desktops = {yours}
    Entries = {e1, e2}
    Projects = {p, q}
    Owner <- MCOwner
    Author <- MCAuthor
    Project <- MCProject
    MaxMoves = 4
    MaxEpochs = 2
    Pinnable = {x, y}
    Movable = {x, y, z}
    First <- MCFirst
    Accounts = {me, you}
    Palette = {p}
    Picks = 2
    Outs = 1
    Parts = {"sharing", "colors", "renames"}
    Choices = 0
    Changes = 2
    Fails = 1
INVARIANTS Consent Typed  
PROPERTIES RemovedSeeNothingNew ChoiceStands
CHECK_DEADLOCK FALSE
