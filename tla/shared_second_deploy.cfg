\* A refused handshake leaves its agent to the next deploy.
SPECIFICATION Spec
CONSTANTS
    None = None
    Handles = {a, b}
    Refusals = TRUE
INVARIANT
    OneLastingAgent
CHECK_DEADLOCK FALSE
