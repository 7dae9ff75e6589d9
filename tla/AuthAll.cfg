CONSTANTS
    NoProc = NoProc
    Procs = {p1, p2}
    Ops = {"Login", "RefreshAccessToken", "Logout", "RevokeSession", "ChangePassword", "ResetPassword", "RecoverPassword", "RevokeUserSessions", "DeleteUser", "Expire"}
    MaxSessions = 2
    MaxTokens = 1
    MaxRequests = 4
SPECIFICATION Spec
CHECK_DEADLOCK FALSE
SYMMETRY Symmetry
INVARIANTS RefreshOnce ResetOnce OldPasswordOnlyIfRaced RevokedIsDenied OneWriter AssuredIsDenied
