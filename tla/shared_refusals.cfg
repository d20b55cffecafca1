\* The same with handshakes that may be refused, and fair calls.
SPECIFICATION FairSpec
CONSTANTS
    None = None
    Handles = {a, b, c}
    Refusals = TRUE
PROPERTIES
    WaitersServed
    HandedOutHealthy
    NoSilentReconnect
CHECK_DEADLOCK FALSE
