\* The remote agent on Windows: releases may raise or be lost, and a signal
\* may arrive.
SPECIFICATION Spec
CONSTANTS
    None = None
    Callers = {agent}
    Local = FALSE
    Windows = TRUE
    Signals = TRUE
    MaxOps = 5
    MaxFail = 2
INVARIANTS
    SignalWindow
CHECK_DEADLOCK FALSE
