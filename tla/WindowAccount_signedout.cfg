SPECIFICATION Spec
CONSTANTS
    User = {u, v}
    None = None
    Cold = Cold
    MaxCookies = 2
    MaxMounts = 2
    MaxTaps = 2
    MaxOthers = 1
PROPERTIES SignedOutStays
CHECK_DEADLOCK FALSE
