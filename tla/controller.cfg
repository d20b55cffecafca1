\* Three attempts at a backend, two callers of the cleanup, one cancellation; one
\* band handle with two window processes and a click; two screenshots that may
\* share a call id; two mounts of the hook and two adapters.
SPECIFICATION MCSpec
CONSTANTS
    None = None
    Builds = {b0, b1, b2}
    b0 = b0
    b1 = b1
    b2 = b2
    core = core
    other = other
    First = b0
    Callers = {core, other}
    MaxCancels = 1
    Handles = {h1}
    MaxLaunches = 2
    MaxClicks = 1
    Results = {r1, r2}
    Ids = {c1, c2}
    MaxInline = 1
    Capacity = 1
    MaxMessages = 2
    Mounts = {m1, m2}
    Adapters = {a1, a2}
    HasBudget = TRUE
INVARIANTS
    Custody
    CleanIsFinal
    BandAccounted
    PicturesTrue
PROPERTIES
    CleanupAnswers
    BandsEnd
    ProviderShared
CHECK_DEADLOCK FALSE
