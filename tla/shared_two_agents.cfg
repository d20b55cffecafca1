\* A new consumer connects while the old transport is torn down.
SPECIFICATION Spec
CONSTANTS
    None = None
    Handles = {a, b}
    Refusals = FALSE
INVARIANT
    AtMostOneAgent
CHECK_DEADLOCK FALSE
