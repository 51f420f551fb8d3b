SPECIFICATION DeskFairSpec
CONSTANTS
    None = None
    Unread = Unread
    Cold = Cold
    Text = {a}
    Todo = {t}
    User = {u, v}
    job = job
    home = home
    office = office
INVARIANTS Typed  TokenOfItsSession ViewsAgree RecordsHold
 
CHECK_DEADLOCK FALSE
