\* A halted session outlives the resume.
SPECIFICATION Spec
CONSTANTS
    None = None
    Sessions = {a}
    TargetClock = FALSE
    RemoteOverlay = FALSE
    Overridden = {}
    Ops = {"click"}
    Burst = 1
    MaxOps = 2
    MaxHuman = 1
    MaxClears = 1
PROPERTY
    ResumeSticks
CHECK_DEADLOCK FALSE
