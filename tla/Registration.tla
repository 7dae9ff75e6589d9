---------------------------- MODULE Registration ----------------------------
(***************************************************************************)
(* Invitations to create the account of one email address:                 *)
(*   internal/auth/service.go              Register, CompleteRegistration  *)
(*   internal/auth/registration_token.go   the token                       *)
(*   internal/infrastructure/postgres      registration_tokens, users      *)
(* As in AuthService a request is a process, an action is a statement, a   *)
(* row locked FOR UPDATE or by an UPDATE is locked until the transaction   *)
(* ends, and an UPDATE re-reads the row it waited for.  The partial unique *)
(* index users_email_key lets at most one insert of the email be pending.  *)
(***************************************************************************)
EXTENDS Naturals, FiniteSets

CONSTANTS
    Procs, NoProc, \* concurrent requests
    MaxTokens,     \* bound: invitations
    MaxRequests,   \* bound: Register and CompleteRegistration requests
    MaxDeletes     \* bound: deletions of the account

ASSUME RegistrationAssumption ==
    /\ NoProc \notin Procs /\ IsFiniteSet(Procs)
    /\ MaxTokens \in Nat /\ MaxRequests \in Nat /\ MaxDeletes \in Nat

Tokens == 1..MaxTokens

VARIABLES
    toks,     \* registration_tokens rows
    expired,  \* tokens past expires_at
    account,  \* is there a user with this email that is not deleted?
    tlock,    \* holder of each token row
    insert,   \* holder of the pending insert into users_email_key
    pc, target, todo,
    issued,   \* invitations made so far
    requests, \* CompleteRegistration requests so far
    deletes,
    mailed,   \* tokens whose mail was enqueued
    created,  \* history: accounts created with each token
    older,    \* history: the tokens stored when each Register chose what to revoke
    by        \* history: the request that made each token

dbVars == <<toks, expired, account>>
lockVars == <<tlock, insert>>
reqVars == <<pc, target, todo>>
countVars == <<issued, requests, deletes>>
histVars == <<created, older, by>>
vars == <<dbVars, lockVars, reqVars, countVars, mailed, histVars>>

Init ==
    /\ toks = [t \in Tokens |-> "none"]
    /\ expired = {}
    /\ account = FALSE
    /\ tlock = [t \in Tokens |-> NoProc]
    /\ insert = NoProc
    /\ pc = [p \in Procs |-> "idle"]
    /\ target = [p \in Procs |-> 0]
    /\ todo = [p \in Procs |-> {}]
    /\ issued = 0 /\ requests = 0 /\ deletes = 0
    /\ mailed = {}
    /\ created = [t \in Tokens |-> 0]
    /\ older = [t \in Tokens |-> {}]
    /\ by = [t \in Tokens |-> NoProc]

Goto(p, where) == pc' = [pc EXCEPT ![p] = where] /\ UNCHANGED <<target, todo>>

Return(p) ==
    /\ pc' = [pc EXCEPT ![p] = "idle"]
    /\ target' = [target EXCEPT ![p] = 0]
    /\ todo' = [todo EXCEPT ![p] = {}]

\* Seeded fault: the end of the transaction leaves its locks.
UnlockNothing(p) == UNCHANGED lockVars

Unlock(p) ==
    /\ tlock' = [t \in Tokens |-> IF tlock[t] = p THEN NoProc ELSE tlock[t]]
    /\ insert' = IF insert = p THEN NoProc ELSE insert

Rollback(p) ==
    /\ Unlock(p)
    /\ Return(p)
    /\ UNCHANGED <<dbVars, countVars, mailed, histVars>>

Free(lock, p) == lock \in {p, NoProc}

\* RegistrationToken.IsValid.
IsValid(t) == toks[t] = "live" /\ t \notin expired

-----------------------------------------------------------------------------
(* Register *)

\* GetByEmail finds no account (a registered email changes nothing).
RegisterLookup(p) ==
    LET t == issued + 1 IN
    /\ pc[p] = "idle"
    /\ ~account
    /\ t \in Tokens
    /\ issued + requests < MaxRequests
    /\ issued' = t
    /\ pc' = [pc EXCEPT ![p] = "select"]
    /\ target' = [target EXCEPT ![p] = t]
    /\ by' = [by EXCEPT ![t] = p]
    /\ UNCHANGED <<todo, dbVars, lockVars, requests, deletes, mailed, created, older>>

\* Seeded fault: the previous invitations are not revoked.
RegisterSelectNone(p) ==
    /\ pc[p] = "select"
    /\ older' = [older EXCEPT ![target[p]] = {t \in Tokens : toks[t] # "none"}]
    /\ Goto(p, "store")
    /\ UNCHANGED <<dbVars, lockVars, countVars, mailed, created, by>>

\* Seeded fault: the UPDATE is limited to one row.
RegisterSelectOne(p) ==
    LET live == {t \in Tokens : toks[t] = "live"} IN
    /\ pc[p] = "select"
    /\ todo' = [todo EXCEPT ![p] = {t \in live : \A u \in live : u <= t}]
    /\ older' = [older EXCEPT ![target[p]] = {t \in Tokens : toks[t] # "none"}]
    /\ pc' = [pc EXCEPT ![p] = IF live = {} THEN "store" ELSE "rows"]
    /\ UNCHANGED <<target, dbVars, lockVars, countVars, mailed, created, by>>

\* RevokeRegistrationTokens: the rows the UPDATE selects ...
RegisterSelect(p) ==
    LET live == {t \in Tokens : toks[t] = "live"} IN
    /\ pc[p] = "select"
    /\ todo' = [todo EXCEPT ![p] = live]
    /\ older' = [older EXCEPT ![target[p]] = {t \in Tokens : toks[t] # "none"}]
    /\ pc' = [pc EXCEPT ![p] = IF live = {} THEN "store" ELSE "rows"]
    /\ UNCHANGED <<target, dbVars, lockVars, countVars, mailed, created, by>>

\* ... are locked one after the other.
RegisterRow(p, t) ==
    /\ pc[p] = "rows"
    /\ t \in todo[p]
    /\ Free(tlock[t], p)
    /\ tlock' = [tlock EXCEPT ![t] = p]
    /\ todo' = [todo EXCEPT ![p] = @ \ {t}]
    /\ pc' = [pc EXCEPT ![p] = IF todo[p] = {t} THEN "store" ELSE "rows"]
    /\ UNCHANGED <<target, insert, dbVars, countVars, mailed, histVars>>

\* NewRegistrationToken, StoreRegistrationToken, audit, COMMIT.  A row it
\* waited for that was used meanwhile stays used.
RegisterCommit(p, told) ==
    /\ pc[p] = "store"
    /\ toks' = [t \in Tokens |->
                  IF t = target[p] THEN "live"
                  ELSE IF tlock[t] = p /\ toks[t] = "live" THEN "revoked" ELSE toks[t]]
    /\ Unlock(p)
    /\ IF told THEN Goto(p, "produce") ELSE Return(p)
    /\ UNCHANGED <<expired, account, countVars, mailed, histVars>>

\* ProduceRegistrationCompletionEvent may fail: the token stays.
RegisterProduce(p, sent) ==
    /\ pc[p] = "produce"
    /\ mailed' = IF sent THEN mailed \cup {target[p]} ELSE mailed
    /\ Return(p)
    /\ UNCHANGED <<dbVars, lockVars, countVars, histVars>>

-----------------------------------------------------------------------------
(* CompleteRegistration *)

CompleteBegin(p, t) ==
    /\ pc[p] = "idle"
    /\ issued + requests < MaxRequests
    /\ t \in mailed
    /\ requests' = requests + 1
    /\ pc' = [pc EXCEPT ![p] = "token"]
    /\ target' = [target EXCEPT ![p] = t]
    /\ UNCHANGED <<todo, dbVars, lockVars, issued, deletes, mailed, histVars>>

\* Seeded fault: the token is read without FOR UPDATE.
CompleteTokenUnlocked(p) ==
    LET t == target[p] IN
    /\ pc[p] = "token"
    /\ \/ ~IsValid(t) /\ Rollback(p)
       \/ /\ IsValid(t)
          /\ Goto(p, "insert")
          /\ UNCHANGED <<dbVars, lockVars, countVars, mailed, histVars>>

\* GetRegistrationToken FOR UPDATE, IsValid, HashPassword, user.New, Use.
CompleteToken(p) ==
    LET t == target[p] IN
    /\ pc[p] = "token"
    /\ Free(tlock[t], p)
    /\ \/ ~IsValid(t) /\ Rollback(p)
       \/ /\ IsValid(t)
          /\ tlock' = [tlock EXCEPT ![t] = p]
          /\ Goto(p, "insert")
          /\ UNCHANGED <<insert, dbVars, countVars, mailed, histVars>>

\* userRepo.Store: waits for a pending insert of the email, then conflicts
\* with an existing account.
CompleteInsert(p) ==
    /\ pc[p] = "insert"
    /\ Free(insert, p)
    /\ \/ account /\ Rollback(p)
       \/ /\ ~account
          /\ insert' = p
          /\ Goto(p, "commit")
          /\ UNCHANGED <<tlock, dbVars, countVars, mailed, histVars>>

CompleteCommit(p) ==
    /\ pc[p] = "commit"
    /\ toks' = [toks EXCEPT ![target[p]] = "used"]
    /\ account' = TRUE
    /\ created' = [created EXCEPT ![target[p]] = @ + 1]
    /\ Unlock(p)
    /\ Return(p)
    /\ UNCHANGED <<expired, countVars, mailed, older, by>>

-----------------------------------------------------------------------------
(* Failures, deletion of the account, time *)

InTx == {"select", "rows", "store", "token", "insert", "commit"}

Fail(p) == pc[p] \in InTx /\ Rollback(p)

Waits(p, q) ==
    /\ p # q
    /\ \/ pc[p] = "rows" /\ \E t \in todo[p] : tlock[t] = q
       \/ pc[p] = "token" /\ tlock[target[p]] = q
       \/ pc[p] = "insert" /\ insert = q

DeadlockAbort(p) ==
    /\ \E S \in SUBSET Procs : p \in S /\ \A q \in S : \E r \in S : Waits(q, r)
    /\ Rollback(p)

\* user.Service.DeleteUser, seen from the email: it becomes free again.
DeleteAccount ==
    /\ account /\ deletes < MaxDeletes
    /\ account' = FALSE
    /\ deletes' = deletes + 1
    /\ UNCHANGED <<toks, expired, lockVars, reqVars, issued, requests, mailed, histVars>>

TokenExpires(t) ==
    /\ toks[t] = "live" /\ t \notin expired
    /\ expired' = expired \cup {t}
    /\ UNCHANGED <<toks, account, lockVars, reqVars, countVars, mailed, histVars>>

Step(p) ==
    \/ RegisterSelect(p)
    \/ \E t \in Tokens : RegisterRow(p, t)
    \/ \E b \in BOOLEAN : RegisterCommit(p, b) \/ RegisterProduce(p, b)
    \/ CompleteToken(p) \/ CompleteInsert(p) \/ CompleteCommit(p)

Next ==
    \/ \E p \in Procs : \/ RegisterLookup(p)
                        \/ \E t \in Tokens : CompleteBegin(p, t)
                        \/ Step(p) \/ Fail(p) \/ DeadlockAbort(p)
    \/ DeleteAccount
    \/ \E t \in Tokens : TokenExpires(t)

Spec == Init /\ [][Next]_vars
FairSpec == Spec /\ \A p \in Procs : WF_vars(Step(p) \/ DeadlockAbort(p))

-----------------------------------------------------------------------------
(* Properties *)

\* Types of the token rows, the locks and the requests.
TypeOK ==
    /\ toks \in [Tokens -> {"none", "live", "used", "revoked"}]
    /\ expired \subseteq Tokens
    /\ account \in BOOLEAN
    /\ tlock \in [Tokens -> Procs \cup {NoProc}]
    /\ insert \in Procs \cup {NoProc}
    /\ pc \in [Procs -> {"idle", "produce"} \cup InTx]
    /\ target \in [Procs -> Tokens \cup {0}]
    /\ todo \in [Procs -> SUBSET Tokens]
    /\ issued \in 0..MaxTokens
    /\ requests \in 0..MaxRequests
    /\ deletes \in 0..MaxDeletes
    /\ mailed \subseteq Tokens
    /\ created \in [Tokens -> Nat]
    /\ older \in [Tokens -> SUBSET Tokens]
    /\ by \in [Tokens -> Procs \cup {NoProc}]

\* service.go:172: "A consumed token is never re-applied, so the created account
\* always keeps the password set on its first completion" - also when the
\* account was deleted and the email is free again.
AppliedOnce == \A t \in Tokens : created[t] <= 1

\* Re-inviting invalidates the links sent before (Register): once a Register
\* has committed, no invitation that was stored when it chose what to revoke
\* is usable, not even one that a completion had locked at that time.
SupersededIsDead ==
    \A t \in Tokens : toks[t] # "none" => \A u \in older[t] : u # t => toks[u] # "live"

\* Two Registers that overlap do not see each other's token, so several links
\* may be usable at once - but never more than there were requests at the same
\* time, however often the email is invited again (RevokeRegistrationTokens).
LiveLinksBounded == Cardinality({t \in Tokens : toks[t] = "live"}) <= Cardinality(Procs)

\* Every request ends: the row locks of two re-invitations may form a cycle,
\* which the database breaks.
RequestsEnd == \A p \in Procs : (pc[p] # "idle") ~> (pc[p] = "idle")

\* service.go:128: "re-inviting invalidates the previous link (latest invite
\* wins)".
LatestInviteWins == Cardinality({t \in Tokens : toks[t] = "live"}) <= 1
=============================================================================
