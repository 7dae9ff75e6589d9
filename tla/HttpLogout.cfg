CONSTANTS
    Null = Null
    Configs <- StrictAndRelaxed
    MaxHits = 1
    MaxRequests = 1
    Files <- SmallFiles
    MaxSize = 2
    MaxAttempts = 2
SPECIFICATION Spec
CHECK_DEADLOCK FALSE
INVARIANT LogoutRevokes
