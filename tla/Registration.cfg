CONSTANTS
    NoProc = NoProc
    Procs = {p1, p2}
    MaxTokens = 4
    MaxRequests = 4
    MaxDeletes = 1
SPECIFICATION FairSpec
CHECK_DEADLOCK FALSE
INVARIANTS AppliedOnce SupersededIsDead LiveLinksBounded
PROPERTY RequestsEnd
