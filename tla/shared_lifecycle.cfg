\* Three consumers of a target whose agents never refuse; and one remote backend
\* with two calls that may overlap on the connection.
SPECIFICATION MCSpec
CONSTANTS
    None = None
    Handles = {a, b, c}
    Refusals = FALSE
    Garbage = Garbage
    Backends = {"b"}
    MaxCalls = 2
    ReadOnly = TRUE
    Writes = {2}
    Required = {"input"}
INVARIANTS
    TypeOK
    NoEarlyTeardown
    AgentsAccounted
    OneLastingAgent
    Paired
PROPERTY AtMostOnce
CHECK_DEADLOCK FALSE
