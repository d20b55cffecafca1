SPECIFICATION Spec
CONSTANTS
    None = None
    Pixels = {p1, p2}
    Calls = {o1, o2}
    Remembered = 1
    Keys = 2
    MaxChanges = 1
    MaxRetargets = 1
    MaxCancels = 1
PROPERTIES
    RevokedStartsNothing
CHECK_DEADLOCK FALSE
