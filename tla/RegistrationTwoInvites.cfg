CONSTANTS
    NoProc = NoProc
    Procs = {p1, p2}
    MaxTokens = 2
    MaxRequests = 3
    MaxDeletes = 0
SPECIFICATION Spec
CHECK_DEADLOCK FALSE
INVARIANTS LatestInviteWins
