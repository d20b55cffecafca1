\* Two local X11 or macOS sessions on one channel, whose releases never raise.
SPECIFICATION FairSpec
CONSTANTS
    None = None
    Callers = {a, b}
    Local = TRUE
    Windows = FALSE
    Signals = FALSE
    MaxOps = 3
    MaxFail = 0
INVARIANT
    OneUpPerPress
PROPERTY
    EventuallyUp
CHECK_DEADLOCK FALSE
