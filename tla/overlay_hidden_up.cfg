SPECIFICATION Spec
CONSTANTS
    Handles = {h1}
    MaxLaunches = 2
    MaxClicks = 2
    None = None
INVARIANTS
    StillShown
CHECK_DEADLOCK FALSE
