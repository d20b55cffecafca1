\* Three agents on two names; two sessions that disclose and one that does not;
\* two captures of two displays, each of which may change once; three observed calls,
\* a text of two characters, one change of the screen, of the binding, one cancellation.
SPECIFICATION MCSpec
CONSTANTS
    None = None
    Agents = {a1, a2, a3}
    Names = {n1, n2}
    NoHandle = NoHandle
    Refused = Refused
    Sessions = {s1, s2, s3}
    Declining = {s3}
    s1 = s1
    s2 = s2
    s3 = s3
    Displays = {d1, d2}
    MaxCaptures = 2
    MaxChanges = 1
    Pixels = {p1, p2}
    Calls = {o1, o2, o3}
    Remembered = 1
    Keys = 2
    MaxRetargets = 1
    MaxCancels = 1
SYMMETRY Symmetric
INVARIANTS
    Disclosed
    ObservedSafe
PROPERTIES
    SweepSafe
    CaptureGuarded
CHECK_DEADLOCK FALSE
