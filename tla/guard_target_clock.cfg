\* A remote Windows desktop: target clock, remote overlay, one of the two
\* sessions mounted with an operator presence override.
SPECIFICATION FairSpec
CONSTANTS
    None = None
    Sessions = {a, b}
    TargetClock = TRUE
    RemoteOverlay = TRUE
    Overridden = {a}
    Ops = {"type", "press"}
    Burst = 2
    MaxOps = 1
    MaxHuman = 1
    MaxClears = 0
INVARIANTS
    GuardHolds
PROPERTIES
    WriteEnds
CHECK_DEADLOCK FALSE
