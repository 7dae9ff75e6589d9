CONSTANTS
    slow = slow
    fast = fast
    Instances = {slow, fast}
    Offset <- ClockOffsets
    Sids = {s1}
    Calls = {c1, c2}
    Checks = {k1}
    Second = 2
    JwtTTL = 3
    Skew = 3
    MaxOffset = 2
    MaxDelay = 3
    CheckDelay = 1
    FailClosed = FALSE
    StoreFails = FALSE
    MaxTime = 9
    MaxTokens = 1
    MaxCalls = 2
SPECIFICATION Spec
CHECK_DEADLOCK FALSE
SYMMETRY Symmetry
INVARIANTS RevokedIsRejected
