\* Two backends over one transport, one call each: both have id 1.
SPECIFICATION Spec
CONSTANTS
    None = None
    Garbage = Garbage
    Backends = {"a", "b"}
    MaxCalls = 1
    ReadOnly = TRUE
    Writes = {2}
    Required = {"input"}
INVARIANTS
    OwnAnswer
CHECK_DEADLOCK FALSE
