CONSTANTS
    NoProc = NoProc
    Procs = {p1, p2}
    Ops = {"Login", "ChangePassword"}
    MaxSessions = 1
    MaxTokens = 0
    MaxRequests = 3
SPECIFICATION Spec
CHECK_DEADLOCK FALSE
PROPERTIES ChangeVerifiesCurrent
