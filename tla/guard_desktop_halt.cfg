\* A human interrupts a desktop-tool write.
SPECIFICATION Spec
CONSTANTS
    None = None
    Sessions = {a}
    TargetClock = FALSE
    RemoteOverlay = FALSE
    Overridden = {}
    Ops = {"desktop"}
    Burst = 1
    MaxOps = 2
    MaxHuman = 1
    MaxClears = 0
INVARIANT
    HaltPersisted
CHECK_DEADLOCK FALSE
