SPECIFICATION Spec
CONSTANTS
    Handles = {h1}
    MaxLaunches = 2
    MaxClicks = 2
    None = None
INVARIANTS
    NoClickSkipped
CHECK_DEADLOCK FALSE
