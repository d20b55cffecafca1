\* A second session that adopts the overlay of the first.
SPECIFICATION Spec
CONSTANTS
    None = None
    NoHandle = NoHandle
    Refused = Refused
    Sessions = {s1, s2, s3}
    Declining = {s3}
    s1 = s1
    s2 = s2
    s3 = s3
INVARIANT ButtonsExcluded
CHECK_DEADLOCK FALSE
