\* A signal reaches the agent.
SPECIFICATION Spec
CONSTANTS
    None = None
    Callers = {agent}
    Local = FALSE
    Windows = FALSE
    Signals = TRUE
    MaxOps = 2
    MaxFail = 0
INVARIANT
    NothingStranded
CHECK_DEADLOCK FALSE
