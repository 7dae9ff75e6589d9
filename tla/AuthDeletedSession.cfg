CONSTANTS
    NoProc = NoProc
    Procs = {p1, p2}
    Ops = {"Login", "DeleteUser"}
    MaxSessions = 2
    MaxTokens = 0
    MaxRequests = 3
SPECIFICATION Spec
CHECK_DEADLOCK FALSE
INVARIANTS DeleteLeavesNoSession
