CONSTANTS
    NoProc = NoProc
    Procs = {p1, p2}
    Ops = {"Login", "RecoverPassword", "ResetPassword"}
    MaxSessions = 2
    MaxTokens = 1
    MaxRequests = 4
SPECIFICATION Spec
CHECK_DEADLOCK FALSE
INVARIANTS OldPasswordIsDead
