---------------------------- MODULE AuthService ----------------------------
(***************************************************************************)
(* Sessions, passwords and recovery tokens of one user account:            *)
(*   internal/auth/service.go       (Login ... RevokeSession)              *)
(*   internal/user/service.go       (DeleteUser)                           *)
(*   internal/infrastructure/postgres/{postgres,auth_repository,           *)
(*                                     user_repository}.go                 *)
(*                                                                         *)
(* Each request is a process that runs one service method.  PostgreSQL     *)
(* runs READ COMMITTED: a statement sees committed rows, waits for row     *)
(* locks and re-reads the row it waited for; a transaction's writes become *)
(* visible, and its locks free, when it commits.  One action is one        *)
(* statement with the code up to the next one.                             *)
(*                                                                         *)
(* Access tokens are stateless; the Redis markers of revocation.go are     *)
(* used through what they promise: a session marker denies every token of  *)
(* the session, a user watermark every token minted before it.             *)
(***************************************************************************)
EXTENDS Naturals, FiniteSets

CONSTANTS
    Procs,        \* concurrent requests
    Ops,          \* the methods (and clock events) this instance exercises
    MaxSessions,  \* bound: logins that get as far as NewSession
    MaxTokens,    \* bound: recovery tokens
    MaxRequests   \* bound: requests in one behaviour

AllOps == {"Login", "RefreshAccessToken", "Logout", "RevokeSession", "ChangePassword",
           "ResetPassword", "RecoverPassword", "RevokeUserSessions", "DeleteUser", "Expire"}

ASSUME BoundsAssumption ==
    /\ Ops \subseteq AllOps
    /\ MaxSessions \in Nat
    /\ MaxTokens \in Nat
    /\ MaxRequests \in Nat

CONSTANT NoProc
ASSUME NoProcAssumption == NoProc \notin Procs

Sessions  == 1..MaxSessions
RecTokens == 1..MaxTokens
\* Requests are numbered; the refresh token, access token or new password a
\* request makes is named by its number (0: the account's first password).
Made == 0..MaxRequests

VARIABLES
    \* committed rows
    pw,        \* users.password
    deleted,   \* users.deleted_at IS NOT NULL
    sess,      \* sessions: state, refresh token, password of the login
    rtok,      \* password_recovery_tokens
    expired,   \* sessions past expires_at
    lapsed,    \* recovery tokens past expires_at
    \* row locks
    slock,     \* holder of each session row
    tlock,     \* holder of each recovery token row
    ulocks,    \* holders of the user row, with the lock mode
    \* requests
    pc, op,    \* where each request is, and the method it runs
    id,        \* its number
    target,    \* the session or recovery token it is about
    arg,       \* the refresh token presented
    known,     \* the password it read and verified outside its transaction
    row,       \* the session row it read
    todo,      \* rows its UPDATE of the user's sessions has still to lock
    reqs,      \* requests so far
    logins,    \* sessions made by NewSession so far
    recoveries,\* tokens made by NewPasswordRecoveryToken so far
    \* Redis
    smark,     \* sessions with a revocation marker
    killed,    \* access tokens minted before the user's watermark
    throttled, \* is the recover-password key set?
    \* what clients hold
    minted,    \* access tokens signed
    atoks,     \* access tokens handed out
    rts,       \* refresh tokens handed out
    mailed,    \* recovery tokens mailed
    \* history
    uses,      \* successful refreshes with each refresh token
    resets,    \* successful resets with each recovery token
    raced,     \* sessions whose login overlapped a password change
    unmarked,  \* sessions whose revocation marker was never written
    assured    \* sessions an administrator was told are revoked

rowVars    == <<pw, deleted, sess, rtok, expired, lapsed>>
lockVars   == <<slock, tlock, ulocks>>
reqVars    == <<pc, op, id, target, arg, known, row, todo>>
countVars  == <<reqs, logins, recoveries>>
redisVars  == <<smark, killed, throttled>>
clientVars == <<minted, atoks, rts, mailed>>
histVars   == <<uses, resets, raced, unmarked, assured>>
vars == <<rowVars, lockVars, reqVars, countVars, redisVars, clientVars, histVars>>

SessState == {"none", "live", "revoked"}
PC == {"idle", "store", "lock_sess", "lock_token", "lock_user", "update_user",
       "revoke", "wait_rows", "audit", "commit", "mark", "produce"}

\* Methods that end by revoking every session of the user.
Wipes == {"ChangePassword", "ResetPassword", "RevokeUserSessions", "DeleteUser"}
Changes == {"ChangePassword", "ResetPassword"}

NoRow == [st |-> "none", rt |-> 0, pw |-> 0]

Init ==
    /\ pw = 0
    /\ deleted = FALSE
    /\ sess = [s \in Sessions |-> NoRow]
    /\ rtok = [t \in RecTokens |-> "none"]
    /\ expired = {} /\ lapsed = {}
    /\ slock = [s \in Sessions |-> NoProc]
    /\ tlock = [t \in RecTokens |-> NoProc]
    /\ ulocks = {}
    /\ pc = [p \in Procs |-> "idle"]
    /\ op = [p \in Procs |-> "Login"]
    /\ id = [p \in Procs |-> 0]
    /\ target = [p \in Procs |-> 0]
    /\ arg = [p \in Procs |-> 0]
    /\ known = [p \in Procs |-> 0]
    /\ row = [p \in Procs |-> NoRow]
    /\ todo = [p \in Procs |-> {}]
    /\ reqs = 0 /\ logins = 0 /\ recoveries = 0
    /\ smark = {} /\ killed = {} /\ throttled = FALSE
    /\ minted = {} /\ atoks = {} /\ rts = {} /\ mailed = {}
    /\ uses = [s \in Sessions |-> [g \in Made |-> 0]]
    /\ resets = [t \in RecTokens |-> 0]
    /\ raced = {} /\ unmarked = {} /\ assured = {}
-----------------------------------------------------------------------------
(* Row locks: SELECT ... FOR UPDATE ("update"), UPDATE of columns that are *)
(* not in a key ("nokey"), and the foreign-key check of an INSERT          *)
(* ("share").                                                              *)

Conflict(m1, m2) ==
    \/ "update" \in {m1, m2}
    \/ m1 = "nokey" /\ m2 = "nokey"

CanLockUser(p, mode) == \A l \in ulocks : l[1] # p => ~Conflict(l[2], mode)
LockUser(p, mode) == CanLockUser(p, mode) /\ ulocks' = ulocks \cup {<<p, mode>>}

Free(lock, p) == lock \in {p, NoProc}

Unlock(p) ==
    /\ slock' = [s \in Sessions |-> IF slock[s] = p THEN NoProc ELSE slock[s]]
    /\ tlock' = [t \in RecTokens |-> IF tlock[t] = p THEN NoProc ELSE tlock[t]]
    /\ ulocks' = {l \in ulocks : l[1] # p}

\* SELECT * FROM sessions ... FOR UPDATE
ReadSession(p, s) ==
    /\ Free(slock[s], p)
    /\ slock' = [slock EXCEPT ![s] = p]
    /\ row' = [row EXCEPT ![p] = sess[s]]

\* UpdateSession writes every column of the row the method holds.
UpdateSession(s, r) == sess' = [sess EXCEPT ![s] = r]

NewSession(n, k) == [st |-> "live", rt |-> n, pw |-> k]
Rotate(r, n) == [r EXCEPT !.rt = n]
Revoke(r) == [r EXCEPT !.st = "revoked"]
Usable(s) == sess[s].st = "live" /\ s \notin expired

At(p, where, methods) == pc[p] = where /\ op[p] \in methods

Goto(p, where) ==
    /\ pc' = [pc EXCEPT ![p] = where]
    /\ UNCHANGED <<op, id, target, arg, known, row, todo>>

\* The method returns, whatever it answers.
Return(p) ==
    /\ pc' = [pc EXCEPT ![p] = "idle"]
    /\ op' = [op EXCEPT ![p] = "Login"]
    /\ id' = [id EXCEPT ![p] = 0]
    /\ target' = [target EXCEPT ![p] = 0]
    /\ arg' = [arg EXCEPT ![p] = 0]
    /\ known' = [known EXCEPT ![p] = 0]
    /\ row' = [row EXCEPT ![p] = NoRow]
    /\ todo' = [todo EXCEPT ![p] = {}]

\* A request arrives: method o about t, presenting a, having read password k.
Begin(p, o, where, t, a, k) ==
    /\ pc[p] = "idle"
    /\ o \in Ops
    /\ reqs < MaxRequests
    /\ reqs' = reqs + 1
    /\ id' = [id EXCEPT ![p] = reqs + 1]
    /\ pc' = [pc EXCEPT ![p] = where]
    /\ op' = [op EXCEPT ![p] = o]
    /\ target' = [target EXCEPT ![p] = t]
    /\ arg' = [arg EXCEPT ![p] = a]
    /\ known' = [known EXCEPT ![p] = k]
    /\ UNCHANGED <<row, todo>>

\* Seeded fault: the deferred function ends neither way, and the locks stay.
RollbackKeepsLocks(p) ==
    /\ Return(p)
    /\ UNCHANGED <<rowVars, lockVars, countVars, redisVars, clientVars, histVars>>

\* Transact: fn returned an error, so the deferred function rolls back.
Rollback(p) ==
    /\ Unlock(p)
    /\ Return(p)
    /\ UNCHANGED <<rowVars, countVars, redisVars, clientVars, histVars>>

\* Transact: COMMIT.  When its answer is lost the writes stand, the caller
\* sees an error and what follows the transaction is skipped.
CommitThen(p, told, where) ==
    /\ Unlock(p)
    /\ IF told /\ where # "idle" THEN Goto(p, where) ELSE Return(p)

-----------------------------------------------------------------------------
(* Login *)

\* GetByEmail and VerifyPassword outside any transaction, NewSession,
\* generateAccessToken.  A wrong password or unknown email changes nothing.
LoginVerify(p) ==
    LET s == logins + 1 IN
    /\ ~deleted
    /\ s \in Sessions
    /\ Begin(p, "Login", "store", s, 0, pw)
    /\ logins' = s
    /\ minted' = minted \cup {<<s, reqs + 1>>}
    /\ UNCHANGED <<rowVars, lockVars, recoveries, redisVars, atoks, rts, mailed, histVars>>

StoreSession(p) ==
    /\ At(p, "store", {"Login"})
    /\ LockUser(p, "share")
    /\ Goto(p, "commit")
    /\ UNCHANGED <<rowVars, slock, tlock, countVars, redisVars, clientVars, histVars>>

\* A password change is past the point where it chose the sessions to revoke.
ChangeUnderWay == \E q \in Procs : op[q] \in Changes /\ pc[q] \in {"wait_rows", "commit"}

LoginCommit(p, told) ==
    LET s == target[p] IN
    /\ At(p, "commit", {"Login"})
    /\ sess' = [sess EXCEPT ![s] = NewSession(id[p], known[p])]
    /\ CommitThen(p, told, "idle")
    /\ atoks' = IF told THEN atoks \cup {<<s, id[p]>>} ELSE atoks
    /\ rts' = IF told THEN rts \cup {<<s, id[p]>>} ELSE rts
    /\ raced' = IF known[p] # pw \/ ChangeUnderWay THEN raced \cup {s} ELSE raced
    /\ UNCHANGED <<pw, deleted, rtok, expired, lapsed, countVars, redisVars, minted, mailed,
                   uses, resets, unmarked, assured>>

-----------------------------------------------------------------------------
(* RefreshAccessToken *)

RefreshBegin(p, s, g) ==
    /\ <<s, g>> \in rts
    /\ Begin(p, "RefreshAccessToken", "lock_sess", s, g, 0)
    /\ UNCHANGED <<rowVars, lockVars, logins, recoveries, redisVars, clientVars, histVars>>

\* Seeded fault: the row is read without FOR UPDATE.
RefreshSessionUnlocked(p) ==
    LET s == target[p] IN
    /\ At(p, "lock_sess", {"RefreshAccessToken"})
    /\ \/ (sess[s].rt # arg[p] \/ ~Usable(s)) /\ Rollback(p)
       \/ /\ sess[s].rt = arg[p] /\ Usable(s)
          /\ row' = [row EXCEPT ![p] = sess[s]]
          /\ pc' = [pc EXCEPT ![p] = "lock_user"]
          /\ UNCHANGED <<op, id, target, arg, known, todo, rowVars, lockVars, countVars,
                         redisVars, clientVars, histVars>>

\* GetSessionByRefreshTokenHash: no row has the hash, or the row is locked
\* and read; then the expiry and revocation checks.
RefreshSession(p) ==
    LET s == target[p] IN
    /\ At(p, "lock_sess", {"RefreshAccessToken"})
    /\ \/ sess[s].rt # arg[p] /\ Rollback(p)
       \/ /\ sess[s].rt = arg[p]
          /\ Free(slock[s], p)
          /\ ~Usable(s)
          /\ Rollback(p)
       \/ /\ sess[s].rt = arg[p]
          /\ Usable(s)
          /\ ReadSession(p, s)
          /\ pc' = [pc EXCEPT ![p] = "lock_user"]
          /\ UNCHANGED <<op, id, target, arg, known, todo, rowVars, tlock, ulocks, countVars,
                         redisVars, clientVars, histVars>>

\* Seeded fault: the lookup also finds deleted users.
RefreshUserDeletedToo(p) ==
    /\ At(p, "lock_user", {"RefreshAccessToken"})
    /\ LockUser(p, "update")
    /\ minted' = minted \cup {<<target[p], id[p]>>}
    /\ Goto(p, "commit")
    /\ UNCHANGED <<rowVars, slock, tlock, countVars, redisVars, atoks, rts, mailed, histVars>>

\* userRepo.GetByID, generateAccessToken.
RefreshUser(p) ==
    /\ At(p, "lock_user", {"RefreshAccessToken"})
    /\ \/ CanLockUser(p, "update") /\ deleted /\ Rollback(p)
       \/ /\ ~deleted
          /\ LockUser(p, "update")
          /\ minted' = minted \cup {<<target[p], id[p]>>}
          /\ Goto(p, "commit")
          /\ UNCHANGED <<rowVars, slock, tlock, countVars, redisVars, atoks, rts, mailed, histVars>>

RefreshCommit(p, told) ==
    LET s == target[p]
        next == <<s, id[p]>>
    IN
    /\ At(p, "commit", {"RefreshAccessToken"})
    /\ UpdateSession(s, Rotate(row[p], id[p]))
    /\ CommitThen(p, told, "idle")
    /\ atoks' = IF told THEN atoks \cup {next} ELSE atoks
    /\ rts' = IF told THEN rts \cup {next} ELSE rts
    /\ uses' = [uses EXCEPT ![s][arg[p]] = @ + 1]
    /\ UNCHANGED <<pw, deleted, rtok, expired, lapsed, countVars, redisVars, minted, mailed,
                   resets, raced, unmarked, assured>>

-----------------------------------------------------------------------------
(* Logout and RevokeSession *)

EndsOne == {"Logout", "RevokeSession"}

\* Logout is about the session of the caller's access token.
LogoutBegin(p, s) ==
    /\ \E t \in atoks : t[1] = s
    /\ Begin(p, "Logout", "lock_sess", s, 0, 0)
    /\ UNCHANGED <<rowVars, lockVars, logins, recoveries, redisVars, clientVars, histVars>>

RevokeSessionBegin(p, s) ==
    /\ sess[s].st # "none"
    /\ Begin(p, "RevokeSession", "lock_sess", s, 0, 0)
    /\ UNCHANGED <<rowVars, lockVars, logins, recoveries, redisVars, clientVars, histVars>>

\* GetSessionByID; an expired or revoked session is left as it is and the
\* transaction commits empty.
EndSession(p) ==
    LET s == target[p] IN
    /\ At(p, "lock_sess", EndsOne)
    /\ \/ Free(slock[s], p) /\ ~Usable(s) /\ Goto(p, "mark") /\ UNCHANGED slock
       \/ /\ Usable(s)
          /\ ReadSession(p, s)
          /\ pc' = [pc EXCEPT ![p] = "audit"]
          /\ UNCHANGED <<op, id, target, arg, known, todo>>
    /\ UNCHANGED <<rowVars, tlock, ulocks, countVars, redisVars, clientVars, histVars>>

\* audit.Record: actor_id references the caller's user row.
EndAudit(p) ==
    /\ At(p, "audit", EndsOne)
    /\ LockUser(p, "share")
    /\ Goto(p, "commit")
    /\ UNCHANGED <<rowVars, slock, tlock, countVars, redisVars, clientVars, histVars>>

\* Seeded fault: the revocation marker is never written.
EndCommitUnmarked(p, told) ==
    LET s == target[p] IN
    /\ At(p, "commit", EndsOne)
    /\ UpdateSession(s, Revoke(row[p]))
    /\ CommitThen(p, told, "idle")
    /\ unmarked' = IF told THEN unmarked ELSE unmarked \cup {s}
    /\ UNCHANGED <<pw, deleted, rtok, expired, lapsed, countVars, redisVars, clientVars,
                   uses, resets, raced, assured>>

EndCommit(p, told) ==
    LET s == target[p] IN
    /\ At(p, "commit", EndsOne)
    /\ UpdateSession(s, Revoke(row[p]))
    /\ CommitThen(p, told, "mark")
    /\ unmarked' = IF told THEN unmarked ELSE unmarked \cup {s}
    /\ UNCHANGED <<pw, deleted, rtok, expired, lapsed, countVars, redisVars, clientVars,
                   uses, resets, raced, assured>>

\* The sessions a method, if it succeeds, tells an administrator are revoked.
Assurance(p) ==
    CASE op[p] = "RevokeSession" -> {target[p]}
      [] op[p] \in {"RevokeUserSessions", "DeleteUser"} -> {s \in Sessions : sess[s].st = "revoked"}
      [] OTHER -> {}

\* revoker.RevokeSession.
EndMark(p) ==
    /\ At(p, "mark", EndsOne)
    /\ smark' = smark \cup {target[p]}
    /\ Return(p)
    /\ assured' = assured \cup Assurance(p)
    /\ UNCHANGED <<rowVars, lockVars, countVars, killed, throttled, clientVars,
                   uses, resets, raced, unmarked>>

-----------------------------------------------------------------------------
(* ChangePassword, ResetPassword, RevokeUserSessions and DeleteUser all    *)
(* revoke every session of the user and then write the user's watermark.   *)

\* GetByID and VerifyPassword outside the transaction.
ChangeVerify(p) ==
    /\ ~deleted
    /\ Begin(p, "ChangePassword", "update_user", 0, 0, pw)
    /\ UNCHANGED <<rowVars, lockVars, logins, recoveries, redisVars, clientVars, histVars>>

\* Seeded fault: the row is written last, after the sessions are revoked.
ChangeUpdateLast(p) ==
    /\ At(p, "update_user", {"ChangePassword"})
    /\ Goto(p, "revoke")
    /\ UNCHANGED <<rowVars, lockVars, countVars, redisVars, clientVars, histVars>>

\* userRepo.Update: WHERE id, so also on a row deleted since it was read.
ChangeUpdate(p) ==
    /\ At(p, "update_user", {"ChangePassword"})
    /\ LockUser(p, "nokey")
    /\ Goto(p, "revoke")
    /\ UNCHANGED <<rowVars, slock, tlock, countVars, redisVars, clientVars, histVars>>

ResetBegin(p, t) ==
    /\ t \in mailed
    /\ Begin(p, "ResetPassword", "lock_token", t, 0, 0)
    /\ UNCHANGED <<rowVars, lockVars, logins, recoveries, redisVars, clientVars, histVars>>

\* Seeded fault: the token is read without FOR UPDATE.
ResetTokenUnlocked(p) ==
    LET t == target[p] IN
    /\ At(p, "lock_token", {"ResetPassword"})
    /\ \/ (rtok[t] # "live" \/ t \in lapsed) /\ Rollback(p)
       \/ /\ rtok[t] = "live" /\ t \notin lapsed
          /\ Goto(p, "lock_user")
          /\ UNCHANGED <<rowVars, lockVars, countVars, redisVars, clientVars, histVars>>

\* GetPasswordRecoveryToken FOR UPDATE, Expired, IsUsed.
ResetToken(p) ==
    LET t == target[p] IN
    /\ At(p, "lock_token", {"ResetPassword"})
    /\ Free(tlock[t], p)
    /\ \/ (rtok[t] # "live" \/ t \in lapsed) /\ Rollback(p)
       \/ /\ rtok[t] = "live" /\ t \notin lapsed
          /\ tlock' = [tlock EXCEPT ![t] = p]
          /\ Goto(p, "lock_user")
          /\ UNCHANGED <<rowVars, slock, ulocks, countVars, redisVars, clientVars, histVars>>

\* userRepo.GetByID, Use, UpdatePasswordRecoveryToken, userRepo.Update.
ResetUser(p) ==
    /\ At(p, "lock_user", {"ResetPassword"})
    /\ \/ CanLockUser(p, "update") /\ deleted /\ Rollback(p)
       \/ /\ ~deleted
          /\ LockUser(p, "update")
          /\ Goto(p, "revoke")
          /\ UNCHANGED <<rowVars, slock, tlock, countVars, redisVars, clientVars, histVars>>

RevokeAllBegin(p) ==
    /\ Begin(p, "RevokeUserSessions", "revoke", 0, 0, 0)
    /\ UNCHANGED <<rowVars, lockVars, logins, recoveries, redisVars, clientVars, histVars>>

DeleteBegin(p) ==
    /\ Begin(p, "DeleteUser", "lock_user", 0, 0, 0)
    /\ UNCHANGED <<rowVars, lockVars, logins, recoveries, redisVars, clientVars, histVars>>

\* userRepo.GetByID, Delete; an account already deleted commits empty.
DeleteLock(p) ==
    /\ At(p, "lock_user", {"DeleteUser"})
    /\ \/ CanLockUser(p, "update") /\ deleted /\ Goto(p, "mark") /\ UNCHANGED ulocks
       \/ ~deleted /\ LockUser(p, "update") /\ Goto(p, "revoke")
    /\ UNCHANGED <<rowVars, slock, tlock, countVars, redisVars, clientVars, histVars>>

\* Seeded fault: a password change leaves the sessions alone.
RevokeSelectNone(p) ==
    /\ At(p, "revoke", Wipes)
    /\ Goto(p, "commit")
    /\ UNCHANGED <<rowVars, lockVars, countVars, redisVars, clientVars, histVars>>

\* authRepo.RevokeUserSessions: the rows its snapshot selects ...
RevokeSelect(p) ==
    LET live == {s \in Sessions : sess[s].st = "live"} IN
    /\ At(p, "revoke", Wipes)
    /\ todo' = [todo EXCEPT ![p] = live]
    /\ pc' = [pc EXCEPT ![p] = IF live = {} THEN "commit" ELSE "wait_rows"]
    /\ UNCHANGED <<op, id, target, arg, known, row, rowVars, lockVars, countVars, redisVars,
                   clientVars, histVars>>

\* ... are locked one after the other.
RevokeRow(p, s) ==
    /\ At(p, "wait_rows", Wipes)
    /\ s \in todo[p]
    /\ Free(slock[s], p)
    /\ slock' = [slock EXCEPT ![s] = p]
    /\ todo' = [todo EXCEPT ![p] = @ \ {s}]
    /\ pc' = [pc EXCEPT ![p] = IF todo[p] = {s} THEN "commit" ELSE "wait_rows"]
    /\ UNCHANGED <<op, id, target, arg, known, row, rowVars, tlock, ulocks, countVars, redisVars,
                   clientVars, histVars>>

\* The row it waited for may have been revoked meanwhile: then it stays.
RevokedBy(p, s) == slock[s] = p /\ sess[s].st = "live"

WipeCommit(p, told) ==
    /\ At(p, "commit", Wipes)
    /\ sess' = [s \in Sessions |-> IF RevokedBy(p, s) THEN Revoke(sess[s]) ELSE sess[s]]
    /\ pw' = IF op[p] \in Changes THEN id[p] ELSE pw
    /\ deleted' = (deleted \/ op[p] = "DeleteUser")
    /\ IF op[p] = "ResetPassword"
       THEN /\ rtok' = [rtok EXCEPT ![target[p]] = "used"]
            /\ resets' = [resets EXCEPT ![target[p]] = @ + 1]
       ELSE UNCHANGED <<rtok, resets>>
    /\ CommitThen(p, told, "mark")
    /\ unmarked' = IF told THEN unmarked ELSE unmarked \cup Sessions
    /\ UNCHANGED <<expired, lapsed, countVars, redisVars, clientVars, uses, raced, assured>>

\* revoker.RevokeAllForUser.
WipeMark(p) ==
    /\ At(p, "mark", Wipes)
    /\ killed' = killed \cup minted
    /\ Return(p)
    /\ assured' = assured \cup Assurance(p)
    /\ UNCHANGED <<rowVars, lockVars, countVars, smark, throttled, clientVars,
                   uses, resets, raced, unmarked>>

\* Seeded fault: the failure is logged by every method, as Logout does, and the
\* administrator is told that it succeeded.
MarkFailsSilently(p) ==
    /\ At(p, "mark", AllOps)
    /\ unmarked' = unmarked \cup (IF op[p] \in EndsOne THEN {target[p]} ELSE Sessions)
    /\ Return(p)
    /\ assured' = assured \cup Assurance(p)
    /\ UNCHANGED <<rowVars, lockVars, countVars, redisVars, clientVars, uses, resets, raced>>

\* Redis fails, or the process dies, before the marker is written: the methods
\* of administrators return the error, the others log it.
MarkFails(p) ==
    /\ At(p, "mark", AllOps)
    /\ unmarked' = unmarked \cup (IF op[p] \in EndsOne THEN {target[p]} ELSE Sessions)
    /\ Return(p)
    /\ UNCHANGED <<rowVars, lockVars, countVars, redisVars, clientVars, uses, resets, raced,
                   assured>>

-----------------------------------------------------------------------------
(* RecoverPassword *)

\* throttler.TryAcquire; a throttled request changes nothing.
RecoverBegin(p) ==
    LET t == recoveries + 1 IN
    /\ ~throttled
    /\ t \in RecTokens
    /\ Begin(p, "RecoverPassword", "lock_user", t, 0, 0)
    /\ throttled' = TRUE
    /\ recoveries' = t
    /\ UNCHANGED <<rowVars, lockVars, logins, smark, killed, clientVars, histVars>>

\* GetByEmail, NewPasswordRecoveryToken, StorePasswordRecoveryToken.
RecoverUser(p) ==
    /\ At(p, "lock_user", {"RecoverPassword"})
    /\ \/ CanLockUser(p, "update") /\ deleted /\ Rollback(p)
       \/ /\ ~deleted
          /\ LockUser(p, "update")
          /\ Goto(p, "commit")
          /\ UNCHANGED <<rowVars, slock, tlock, countVars, redisVars, clientVars, histVars>>

RecoverCommit(p, told) ==
    /\ At(p, "commit", {"RecoverPassword"})
    /\ rtok' = [rtok EXCEPT ![target[p]] = "live"]
    /\ CommitThen(p, told, "produce")
    /\ UNCHANGED <<pw, deleted, sess, expired, lapsed, countVars, redisVars, clientVars, histVars>>

\* ProducePasswordRecoveryEvent may fail: the token stays, no mail is sent.
RecoverProduce(p, sent) ==
    /\ At(p, "produce", {"RecoverPassword"})
    /\ mailed' = IF sent THEN mailed \cup {target[p]} ELSE mailed
    /\ Return(p)
    /\ UNCHANGED <<rowVars, lockVars, countVars, redisVars, minted, atoks, rts, histVars>>

-----------------------------------------------------------------------------
(* Failures and time *)

InTx == {"store", "lock_sess", "lock_token", "lock_user", "update_user", "revoke",
         "wait_rows", "audit", "commit"}

\* A statement fails, the request's context ends, or the process dies.
Fail(p) == pc[p] \in InTx /\ Rollback(p)

UserMode(p) ==
    CASE pc[p] = "lock_user" -> "update"
      [] pc[p] = "update_user" -> "nokey"
      [] OTHER -> "share"

\* The statement of p waits for a row that q has locked.
Waits(p, q) ==
    /\ p # q
    /\ \/ /\ pc[p] = "lock_sess"
          /\ slock[target[p]] = q
          /\ op[p] = "RefreshAccessToken" => sess[target[p]].rt = arg[p]
       \/ pc[p] = "wait_rows" /\ \E s \in todo[p] : slock[s] = q
       \/ pc[p] = "lock_token" /\ tlock[target[p]] = q
       \/ /\ pc[p] \in {"lock_user", "update_user", "store", "audit"}
          /\ \E l \in ulocks : l[1] = q /\ Conflict(l[2], UserMode(p))

\* PostgreSQL aborts a transaction of a set whose members all wait for
\* another member.
DeadlockAbort(p) ==
    /\ pc[p] \in InTx
    /\ \E S \in SUBSET Procs :
          p \in S /\ \A q \in S : pc[q] \in InTx /\ \E r \in S : Waits(q, r)
    /\ Rollback(p)

SessionExpires(s) ==
    /\ "Expire" \in Ops
    /\ sess[s].st # "none" /\ s \notin expired
    /\ expired' = expired \cup {s}
    /\ UNCHANGED <<pw, deleted, sess, rtok, lapsed, lockVars, reqVars, countVars, redisVars,
                   clientVars, histVars>>

TokenExpires(t) ==
    /\ "Expire" \in Ops
    /\ rtok[t] # "none" /\ t \notin lapsed
    /\ lapsed' = lapsed \cup {t}
    /\ UNCHANGED <<pw, deleted, sess, rtok, expired, lockVars, reqVars, countVars, redisVars,
                   clientVars, histVars>>

ThrottleExpires ==
    /\ "Expire" \in Ops
    /\ throttled
    /\ throttled' = FALSE
    /\ UNCHANGED <<rowVars, lockVars, reqVars, countVars, smark, killed, clientVars, histVars>>

-----------------------------------------------------------------------------
Arrive(p) ==
    \/ LoginVerify(p)
    \/ \E s \in Sessions : \/ \E g \in Made : RefreshBegin(p, s, g)
                           \/ LogoutBegin(p, s)
                           \/ RevokeSessionBegin(p, s)
    \/ ChangeVerify(p)
    \/ \E t \in RecTokens : ResetBegin(p, t)
    \/ RevokeAllBegin(p) \/ DeleteBegin(p) \/ RecoverBegin(p)

\* The next statement of a request.
Step(p) ==
    \/ StoreSession(p)
    \/ RefreshSession(p) \/ RefreshUser(p)
    \/ EndSession(p) \/ EndAudit(p) \/ EndMark(p)
    \/ ChangeUpdate(p) \/ ResetToken(p) \/ ResetUser(p) \/ DeleteLock(p)
    \/ RevokeSelect(p) \/ (\E s \in Sessions : RevokeRow(p, s)) \/ WipeMark(p)
    \/ RecoverUser(p)
    \/ \E told \in BOOLEAN : \/ LoginCommit(p, told)
                             \/ RefreshCommit(p, told)
                             \/ EndCommit(p, told)
                             \/ WipeCommit(p, told)
                             \/ RecoverCommit(p, told)
                             \/ RecoverProduce(p, told)

Clock ==
    \/ \E s \in Sessions : SessionExpires(s)
    \/ \E t \in RecTokens : TokenExpires(t)
    \/ ThrottleExpires

Next ==
    \/ \E p \in Procs : Arrive(p) \/ Step(p) \/ MarkFails(p) \/ Fail(p) \/ DeadlockAbort(p)
    \/ Clock

Spec == Init /\ [][Next]_vars

\* A statement that can run runs, and the deadlock detector acts.
FairSpec == Spec /\ \A p \in Procs : WF_vars(Step(p)) /\ WF_vars(DeadlockAbort(p))
-----------------------------------------------------------------------------
(* Properties *)

SessionRow == [st : SessState, rt : Made, pw : Made]
Token == Sessions \X Made

\* Types of the rows, the locks, the requests and what clients hold.
TypeOK ==
    /\ pw \in Made
    /\ deleted \in BOOLEAN
    /\ sess \in [Sessions -> SessionRow]
    /\ rtok \in [RecTokens -> {"none", "live", "used"}]
    /\ expired \subseteq Sessions
    /\ lapsed \subseteq RecTokens
    /\ slock \in [Sessions -> Procs \cup {NoProc}]
    /\ tlock \in [RecTokens -> Procs \cup {NoProc}]
    /\ ulocks \subseteq Procs \X {"update", "nokey", "share"}
    /\ pc \in [Procs -> PC]
    /\ op \in [Procs -> AllOps]
    /\ id \in [Procs -> Made]
    /\ target \in [Procs -> Nat]
    /\ arg \in [Procs -> Made]
    /\ known \in [Procs -> Made]
    /\ row \in [Procs -> SessionRow]
    /\ todo \in [Procs -> SUBSET Sessions]
    /\ reqs \in Made
    /\ logins \in 0..MaxSessions
    /\ recoveries \in 0..MaxTokens
    /\ smark \subseteq Sessions
    /\ killed \subseteq Token
    /\ throttled \in BOOLEAN
    /\ minted \subseteq Token
    /\ atoks \subseteq Token
    /\ rts \subseteq Token
    /\ mailed \subseteq RecTokens
    /\ uses \in [Sessions -> [Made -> Nat]]
    /\ resets \in [RecTokens -> Nat]
    /\ raced \subseteq Sessions
    /\ unmarked \subseteq Sessions
    /\ assured \subseteq Sessions

\* The account AccountSpec speaks of, as the committed rows hold it.
Account == INSTANCE AccountSpec WITH
    Secrets  <- Made,
    password <- pw,
    open     <- {s \in Sessions : sess[s].st = "live"},
    token    <- [s \in Sessions |-> sess[s].rt]

\* Every committed transaction acts on the account's rows as one operation of
\* AccountSpec, although Logout, RevokeSession and RefreshAccessToken write
\* back whole rows they read earlier.
ImplementsAccount == Account!AccountSpec

\* The user row is written by one transaction at a time: from its UPDATE or
\* locking read to its end, no ChangePassword, ResetPassword or DeleteUser
\* meets another one.  So the password ChangePassword verified outside its
\* transaction can be overtaken only before that UPDATE (userRepo.Update).
OneWriter ==
    \A p, q \in Procs :
        /\ {op[p], op[q]} \subseteq Wipes \ {"RevokeUserSessions"}
        /\ {pc[p], pc[q]} \subseteq {"revoke", "wait_rows", "commit"}
        => p = q

\* A refresh token buys at most one new pair, however many requests present
\* it at once (RefreshAccessToken locks the row it looks up by hash).
RefreshOnce == \A s \in Sessions, g \in Made : uses[s][g] <= 1

\* A recovery token resets the password at most once (ResetPassword).
ResetOnce == \A t \in RecTokens : resets[t] <= 1

\* No write, whole-row UpdateSession included, brings a revoked session back.
RevokedStays == \A s \in Sessions : sess[s].st = "revoked" => sess'[s].st = "revoked"
\* The same as a property of every step (UpdateSession).
RevokedForever == [][RevokedStays]_vars

\* A session opened with a password that has since been replaced is live only
\* if its login overlapped the change (RevokeUserSessions in ChangePassword and
\* ResetPassword).
OldPasswordOnlyIfRaced ==
    \A s \in Sessions : sess[s].st = "live" => sess[s].pw = pw \/ s \in raced

\* No refresh succeeds once the account's deletion has committed
\* (RefreshAccessToken re-reads the user under a lock).
NoRefreshStep == deleted => uses' = uses
\* The same as a property of every step (RefreshAccessToken).
NoRefreshAfterDelete == [][NoRefreshStep]_vars

Denied(t) == t \in killed \/ t[1] \in smark
MarkPending(p, s) == pc[p] = "mark" /\ (op[p] \in Wipes \/ target[p] = s)

\* Every access token of a revoked session is denied, once the request that
\* revoked it has written its marker (the post-commit writes of Logout,
\* RevokeSession, the password changes and DeleteUser).
RevokedIsDenied ==
    \A t \in atoks :
        sess[t[1]].st = "revoked" =>
            \/ Denied(t)
            \/ t[1] \in unmarked
            \/ \E p \in Procs : MarkPending(p, t[1])

\* A session that an administrator was told is revoked stays unusable: none of
\* its access tokens, those of a refresh that overlapped the revocation
\* included, is accepted.  No failed marker excuses it, because RevokeSession,
\* RevokeUserSessions and DeleteUser return that failure: "this endpoint exists
\* to guarantee revocation" (service.go:646), "the deletion itself stands"
\* (user/service.go:193).
AssuredIsDenied == \A t \in atoks : t[1] \in assured => Denied(t)

\* Every request ends: row-lock waits are finite and PostgreSQL breaks the
\* lock cycles that the methods' different lock orders can close.
RequestsEnd == \A p \in Procs : (pc[p] # "idle") ~> (pc[p] = "idle")

\* service.go:503, 561: "Session rows are already revoked, so refresh is dead."
OldPasswordIsDead == \A s \in Sessions : sess[s].st = "live" => sess[s].pw = pw

\* user/service.go:175: "persisting the revocation makes a committed delete
\* never leave sessions alive."
DeleteLeavesNoSession == deleted => \A s \in Sessions : sess[s].st # "live"

\* service.go:515: "ChangePassword updates the authenticated user's password
\* after verifying the current password."
VerifiedStep ==
    \A p \in Procs :
        At(p, "commit", {"ChangePassword"}) /\ pw' = id[p] /\ pw # id[p] => known[p] = pw
\* The same as a property of every step (ChangePassword).
ChangeVerifiesCurrent == [][VerifiedStep]_vars
=============================================================================
