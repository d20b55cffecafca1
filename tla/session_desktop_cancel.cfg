\* A desktop call that is cancelled while it raises the band.
SPECIFICATION Spec
CONSTANTS
    None = None
    Batches = {"batch"}
    Flats = {}
    Desktops = {"desk"}
    Script <- MCScript
    Targets = {"laptop", "mac"}
    Home = "laptop"
    Banded = {"laptop"}
    Policy <- MCPolicy
    MaxRetargets = 1
    MaxCancels = 1
INVARIANT DesktopDepthReturned
CHECK_DEADLOCK FALSE
