CONSTANTS
    slow = slow
    fast = fast
    Instances = {slow, fast}
    Offset <- ClockOffsets
    Sids = {s1}
    Calls = {c1, c2}
    Checks = {k1}
    Second = 2
    JwtTTL = 3
    Skew = 3
    MaxOffset = 1
    MaxDelay = 2
    CheckDelay = 1
    FailClosed = TRUE
    StoreFails = TRUE
    MaxTime = 10
    MaxTokens = 1
    MaxCalls = 2
SPECIFICATION Spec
CHECK_DEADLOCK FALSE
SYMMETRY Symmetry
INVARIANTS RevokedIsRejected
PROPERTIES DenialIsBrief
