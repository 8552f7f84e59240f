CONSTANTS
    Requests = {r1, r2}
    None = None
    Timeout = 2
    Bound = 3
    MaxTime = 5
SPECIFICATION HomeLinkSpec
INVARIANT WithdrawnIsUnsent
CHECK_DEADLOCK FALSE
