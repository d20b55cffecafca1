\* A batch beside a call of the desktop tool: one retarget, two cancellations.
SPECIFICATION Spec
CONSTANTS
    None = None
    Batches = {"batch"}
    Flats = {}
    Desktops = {"desk"}
    Script <- MCScript
    Targets = {"laptop", "mac"}
    Home = "laptop"
    Banded = {"laptop"}
    Policy <- MCPolicy
    MaxRetargets = 1
    MaxCancels = 2
INVARIANTS
    InputPinned
    Connected
    BandKept
    Truthful
PROPERTIES
    CallsEnd
CHECK_DEADLOCK FALSE
