CONSTANTS
    NoProc = NoProc
    Procs = {p1, p2}
    Ops = {"Login", "RefreshAccessToken", "Logout", "ChangePassword", "RecoverPassword", "ResetPassword", "DeleteUser"}
    MaxSessions = 2
    MaxTokens = 1
    MaxRequests = 4
SPECIFICATION FairSpec
CHECK_DEADLOCK FALSE
PROPERTIES RequestsEnd ImplementsAccount
