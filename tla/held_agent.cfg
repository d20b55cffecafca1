\* The remote agent on X11 or macOS, whose releases may raise.
SPECIFICATION Spec
CONSTANTS
    None = None
    Callers = {agent}
    Local = FALSE
    Windows = FALSE
    Signals = FALSE
    MaxOps = 5
    MaxFail = 2
INVARIANTS
    TypeOK
    Custody
    NothingStranded
CHECK_DEADLOCK FALSE
