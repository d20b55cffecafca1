\* A local X11 or macOS desktop driven by two sessions.
SPECIFICATION Spec
CONSTANTS
    None = None
    Sessions = {a, b}
    TargetClock = FALSE
    RemoteOverlay = FALSE
    Overridden = {}
    Ops = {"type", "press", "release"}
    Burst = 2
    MaxOps = 2
    MaxHuman = 1
    MaxClears = 1
SYMMETRY SessionSymmetry
INVARIANTS
    TypeOK
    LateBound
    LatchedIsSilent
    HumanGapDetected
    HaltPersisted
    PauseBound
PROPERTIES
    KeepsHaltLatch
CHECK_DEADLOCK FALSE
