-------------------------- MODULE AuthServiceProofs --------------------------
(***************************************************************************)
(* Proofs about AuthService for any number of requests, sessions and       *)
(* recovery tokens.  The row locks carry the argument: between the         *)
(* statement that locks a row and COMMIT the row is as the request read    *)
(* it.  Steps are first put into a few classes (what they do to the        *)
(* actor, to the locks of others and to the rows); each invariant is then  *)
(* proved class by class.                                                  *)
(***************************************************************************)
EXTENDS AuthService, TLAPS

\* Most leaves are first-order reasoning, which is Zenon's; those with arithmetic,
\* records or the values of strings name SMT.
USE ZenonT(90)

-----------------------------------------------------------------------------
(* The invariant *)

\* TypeOK in the parts that change together.
RowTypes ==
    /\ pw \in Made /\ deleted \in BOOLEAN
    /\ sess \in [Sessions -> SessionRow]
    /\ rtok \in [RecTokens -> {"none", "live", "used"}]
LockTypes ==
    /\ slock \in [Sessions -> Procs \cup {NoProc}]
    /\ tlock \in [RecTokens -> Procs \cup {NoProc}]
    /\ ulocks \subseteq Procs \X {"update", "nokey", "share"}
ReqTypes ==
    /\ pc \in [Procs -> PC] /\ op \in [Procs -> AllOps]
    /\ id \in [Procs -> Made] /\ target \in [Procs -> Nat]
    /\ arg \in [Procs -> Made] /\ known \in [Procs -> Made]
    /\ row \in [Procs -> SessionRow] /\ todo \in [Procs -> SUBSET Sessions]
CountTypes ==
    /\ reqs \in Made /\ logins \in 0..MaxSessions /\ recoveries \in 0..MaxTokens
HistTypes ==
    /\ uses \in [Sessions -> [Made -> Nat]] /\ resets \in [RecTokens -> Nat]
    /\ raced \subseteq Sessions /\ unmarked \subseteq Sessions
Types == RowTypes /\ LockTypes /\ ReqTypes /\ CountTypes /\ HistTypes

\* What a request is about.
TargetInv ==
    \A p \in Procs : pc[p] # "idle" =>
        /\ op[p] \in {"Login", "RefreshAccessToken"} \cup EndsOne => target[p] \in Sessions
        /\ op[p] \in {"ResetPassword", "RecoverPassword"} => target[p] \in RecTokens

\* Holders of the user row exclude each other as PostgreSQL's lock modes say.
ExclInv == \A k, l \in ulocks : k[1] = l[1] \/ ~Conflict(k[2], l[2])

\* A request that has read a session row to write it back has it locked, and the
\* committed row is still the one it read.
HoldsSession(p) ==
    \/ op[p] = "RefreshAccessToken" /\ pc[p] \in {"lock_user", "commit"}
    \/ op[p] \in EndsOne /\ pc[p] \in {"audit", "commit"}
SessionInv ==
    \A p \in Procs : HoldsSession(p) =>
        /\ slock[target[p]] = p
        /\ row[p] = sess[target[p]] /\ row[p].st = "live"
        /\ op[p] = "RefreshAccessToken" => row[p].rt = arg[p]

\* A login is about a session that is not stored yet and nobody else's.
Opening(p) == op[p] = "Login" /\ pc[p] # "idle"
LoginInv ==
    /\ \A p \in Procs : Opening(p) => target[p] <= logins /\ sess[target[p]] = NoRow
    /\ \A p, q \in Procs : Opening(p) /\ Opening(q) /\ target[p] = target[q] => p = q
    /\ \A s \in Sessions : s > logins => sess[s] = NoRow

\* The number of a running request is its own, and no row has it as its refresh
\* token yet.
IdInv ==
    /\ \A p \in Procs : pc[p] # "idle" =>
          /\ 0 < id[p] /\ id[p] <= reqs
          /\ \A s \in Sessions : sess[s].rt # id[p]
    /\ \A p, q \in Procs : pc[p] # "idle" /\ pc[q] # "idle" /\ id[p] = id[q] => p = q
    /\ \A s \in Sessions : sess[s].rt <= reqs

\* Who writes the user row holds it; a refresh about to commit has it locked and
\* has seen that it is not deleted.
Writing == {"revoke", "wait_rows", "commit"}
UserInv ==
    \A p \in Procs :
        /\ op[p] \in {"ResetPassword", "DeleteUser"} /\ pc[p] \in Writing => <<p, "update">> \in ulocks
        /\ op[p] = "ChangePassword" /\ pc[p] \in Writing => <<p, "nokey">> \in ulocks
        /\ op[p] = "RefreshAccessToken" /\ pc[p] = "commit" => <<p, "update">> \in ulocks /\ ~deleted

CoreInv == Types /\ TargetInv /\ ExclInv /\ SessionInv /\ LoginInv /\ IdInv /\ UserInv

\* A refresh token that was used is no session's refresh token any more, and no
\* running request will make it again.
UsesInv ==
    \A s \in Sessions, g \in Made : uses[s][g] # 0 =>
        /\ uses[s][g] = 1 /\ g <= reqs
        /\ sess[s].rt # g
        /\ \A p \in Procs : pc[p] # "idle" => id[p] # g

\* A reset past its lookup holds a live token; a recovery is about a token that
\* is not stored yet; a token that was used stays used.
ResetInv ==
    /\ \A p \in Procs :
          op[p] = "ResetPassword" /\ pc[p] \in {"lock_user"} \cup Writing =>
              tlock[target[p]] = p /\ rtok[target[p]] = "live"
    /\ \A p \in Procs :
          op[p] = "RecoverPassword" /\ pc[p] # "idle" =>
              /\ target[p] <= recoveries
              /\ pc[p] \in {"lock_user", "commit"} => rtok[target[p]] = "none"
    /\ \A p, q \in Procs :
          /\ op[p] = "RecoverPassword" /\ op[q] = "RecoverPassword"
          /\ pc[p] # "idle" /\ pc[q] # "idle" /\ target[p] = target[q]
          => p = q
    /\ \A t \in RecTokens :
          /\ t > recoveries => rtok[t] = "none"
          /\ resets[t] # 0 => resets[t] = 1 /\ rtok[t] = "used"

\* A password change that has chosen its sessions has locked or will lock every
\* live one, but for those whose login it races.
ChangeInv ==
    /\ OldPasswordOnlyIfRaced
    /\ \A p \in Procs :
          op[p] \in Changes /\ pc[p] \in {"wait_rows", "commit"} =>
              \A s \in Sessions : sess[s].st = "live" =>
                  \/ slock[s] = p \/ s \in raced
                  \/ pc[p] = "wait_rows" /\ s \in todo[p]

\* Access tokens are signed before they are handed out.
MintedInv ==
    /\ RevokedIsDenied
    /\ atoks \subseteq minted /\ minted \subseteq Token
    /\ \A p \in Procs :
          op[p] \in {"Login", "RefreshAccessToken"} /\ pc[p] = "commit" => <<target[p], id[p]>> \in minted
    /\ \A p \in Procs : op[p] = "Login" /\ pc[p] = "store" => <<target[p], id[p]>> \in minted

-----------------------------------------------------------------------------
(* What a step does to its actor and to the locks *)

Modes == {"update", "nokey", "share"}

\* The other requests stay where they are ...
Local(p) ==
    \A q \in Procs : q # p =>
        /\ pc'[q] = pc[q] /\ op'[q] = op[q] /\ id'[q] = id[q] /\ target'[q] = target[q]
        /\ arg'[q] = arg[q] /\ known'[q] = known[q] /\ row'[q] = row[q] /\ todo'[q] = todo[q]

\* ... and keep their locks.
OthersLocks(p) ==
    \A q \in Procs : q # p =>
        /\ \A s \in Sessions : slock'[s] = q <=> slock[s] = q
        /\ \A t \in RecTokens : tlock'[t] = q <=> tlock[t] = q
        /\ \A m \in Modes : <<q, m>> \in ulocks' <=> <<q, m>> \in ulocks

\* The actor goes on in its method ...
Same(p) ==
    /\ op'[p] = op[p] /\ id'[p] = id[p] /\ target'[p] = target[p]
    /\ arg'[p] = arg[p] /\ known'[p] = known[p]

\* ... and keeps its locks.
KeepsLocks(p) ==
    /\ \A s \in Sessions : slock[s] = p => slock'[s] = p
    /\ \A t \in RecTokens : tlock[t] = p => tlock'[t] = p
    /\ \A m \in Modes : <<p, m>> \in ulocks => <<p, m>> \in ulocks'

\* The committed rows and what is recorded about them.
Steady == UNCHANGED <<pw, deleted, sess, rtok, uses, resets, raced>>

\* The bounds are numbers.
LEMMA Bounds ==
    /\ MaxSessions \in Nat /\ MaxTokens \in Nat /\ MaxRequests \in Nat
    /\ Sessions \subseteq Nat /\ RecTokens \subseteq Nat /\ Made \subseteq Nat /\ 0 \in Made
    /\ NoRow \in SessionRow
  BY SMTT(60), BoundsAssumption DEF BoundsAssumption, Sessions, RecTokens, Made, NoRow, SessionRow, SessState

LEMMA GotoFacts ==
    ASSUME ReqTypes, NEW p \in Procs, NEW where \in PC, Goto(p, where)
    PROVE  ReqTypes' /\ Local(p) /\ Same(p) /\ pc'[p] = where /\ row'[p] = row[p] /\ todo'[p] = todo[p]
  BY DEF ReqTypes, Goto, Local, Same

LEMMA ReturnFacts ==
    ASSUME ReqTypes, NEW p \in Procs, Return(p)
    PROVE  ReqTypes' /\ Local(p) /\ pc'[p] = "idle" /\ op'[p] = "Login"
<1> USE DEF ReqTypes, Return, PC, AllOps
<1>1. pc' \in [Procs -> PC] /\ op' \in [Procs -> AllOps] OBVIOUS
<1>2. id' \in [Procs -> Made] /\ target' \in [Procs -> Nat] BY Bounds
<1>3. arg' \in [Procs -> Made] /\ known' \in [Procs -> Made] BY Bounds
<1>4. row' \in [Procs -> SessionRow] /\ todo' \in [Procs -> SUBSET Sessions] BY Bounds
<1>5. Local(p) BY DEF Local
<1> QED BY SMTT(60), <1>1, <1>2, <1>3, <1>4, <1>5

LEMMA BeginFacts ==
    ASSUME ReqTypes, reqs \in Made, NEW p \in Procs, NEW o \in AllOps, NEW where \in PC, NEW t \in Nat,
           NEW a \in Made, NEW k \in Made, Begin(p, o, where, t, a, k)
    PROVE  /\ ReqTypes' /\ Local(p)
           /\ pc[p] = "idle" /\ pc'[p] = where /\ op'[p] = o /\ target'[p] = t
           /\ id'[p] = reqs + 1 /\ reqs' = reqs + 1 /\ reqs' \in Made
<1> USE DEF ReqTypes, Begin
<1>1. reqs + 1 \in Made /\ reqs' = reqs + 1 BY SMTT(60), Bounds DEF Made
<1>2. pc' \in [Procs -> PC] /\ op' \in [Procs -> AllOps] OBVIOUS
<1>3. id' \in [Procs -> Made] /\ target' \in [Procs -> Nat] BY <1>1
<1>4. arg' \in [Procs -> Made] /\ known' \in [Procs -> Made] OBVIOUS
<1>5. row' \in [Procs -> SessionRow] /\ todo' \in [Procs -> SUBSET Sessions] OBVIOUS
<1>6. Local(p) BY DEF Local
<1>7. pc'[p] = where /\ op'[p] = o /\ target'[p] = t /\ id'[p] = reqs + 1 OBVIOUS
<1> QED BY <1>1, <1>2, <1>3, <1>4, <1>5, <1>6, <1>7

LEMMA UnlockFacts ==
    ASSUME LockTypes, ExclInv, NEW p \in Procs, Unlock(p)
    PROVE  LockTypes' /\ ExclInv' /\ OthersLocks(p)
<1> USE NoProcAssumption DEF NoProcAssumption, LockTypes, Unlock
<1>1. LockTypes' OBVIOUS
<1>2. ExclInv' BY DEF ExclInv
<1>3. OthersLocks(p)
  <2> SUFFICES ASSUME NEW q \in Procs, q # p
               PROVE  /\ \A s \in Sessions : slock'[s] = q <=> slock[s] = q
                      /\ \A t \in RecTokens : tlock'[t] = q <=> tlock[t] = q
                      /\ \A m \in Modes : <<q, m>> \in ulocks' <=> <<q, m>> \in ulocks
    BY DEF OthersLocks
  <2> QED BY SMT
<1> QED BY <1>1, <1>2, <1>3

LEMMA LockUserFacts ==
    ASSUME LockTypes, ExclInv, NEW p \in Procs, NEW mode \in Modes, LockUser(p, mode),
           UNCHANGED <<slock, tlock>>
    PROVE  LockTypes' /\ ExclInv' /\ OthersLocks(p) /\ KeepsLocks(p) /\ <<p, mode>> \in ulocks'
<1> USE DEF LockTypes, LockUser, CanLockUser, Modes
<1>1. LockTypes' /\ <<p, mode>> \in ulocks' BY SMT
<1>2. ExclInv'
  <2> SUFFICES ASSUME NEW k \in ulocks', NEW l \in ulocks' PROVE k[1] = l[1] \/ ~Conflict(k[2], l[2])
    BY DEF ExclInv
  <2>1. CASE k \in ulocks /\ l \in ulocks BY <2>1 DEF ExclInv
  <2>2. CASE k \in ulocks /\ l = <<p, mode>> BY <2>2
  <2>3. CASE k = <<p, mode>> /\ l \in ulocks BY <2>3 DEF Conflict
  <2>4. CASE k = <<p, mode>> /\ l = <<p, mode>> BY <2>4
  <2> QED BY <2>1, <2>2, <2>3, <2>4
<1>3. OthersLocks(p) /\ KeepsLocks(p) BY DEF OthersLocks, KeepsLocks
<1> QED BY <1>1, <1>2, <1>3

LEMMA LockSessionFacts ==
    ASSUME LockTypes, ExclInv, NEW p \in Procs, NEW s \in Sessions, Free(slock[s], p),
           slock' = [slock EXCEPT ![s] = p], UNCHANGED <<tlock, ulocks>>
    PROVE  LockTypes' /\ ExclInv' /\ OthersLocks(p) /\ KeepsLocks(p) /\ slock'[s] = p
<1> USE NoProcAssumption DEF NoProcAssumption, LockTypes, Free
<1>1. LockTypes' /\ slock'[s] = p OBVIOUS
<1>2. ExclInv' BY DEF ExclInv
<1>3. OthersLocks(p) /\ KeepsLocks(p) BY DEF OthersLocks, KeepsLocks
<1> QED BY <1>1, <1>2, <1>3

LEMMA LockTokenFacts ==
    ASSUME LockTypes, ExclInv, NEW p \in Procs, NEW t \in RecTokens, Free(tlock[t], p),
           tlock' = [tlock EXCEPT ![t] = p], UNCHANGED <<slock, ulocks>>
    PROVE  LockTypes' /\ ExclInv' /\ OthersLocks(p) /\ KeepsLocks(p) /\ tlock'[t] = p
<1> USE NoProcAssumption DEF NoProcAssumption, LockTypes, Free
<1>1. LockTypes' /\ tlock'[t] = p OBVIOUS
<1>2. ExclInv' BY DEF ExclInv
<1>3. OthersLocks(p) /\ KeepsLocks(p) BY DEF OthersLocks, KeepsLocks
<1> QED BY <1>1, <1>2, <1>3

-----------------------------------------------------------------------------
(* The classes of steps *)

\* A request arrives: only its own state and the counters change.
Arrives(p) ==
    /\ pc[p] = "idle" /\ Local(p) /\ UNCHANGED lockVars /\ Steady
    /\ reqs' = reqs + 1 /\ id'[p] = reqs + 1
    /\ UNCHANGED <<smark, killed, atoks, unmarked>>
    /\ \/ /\ op'[p] = "Login" /\ pc'[p] = "store"
          /\ target'[p] = logins + 1 /\ logins + 1 \in Sessions
          /\ logins' = logins + 1 /\ recoveries' = recoveries
          /\ minted' = minted \cup {<<logins + 1, reqs + 1>>}
       \/ /\ op'[p] = "RecoverPassword" /\ pc'[p] = "lock_user"
          /\ target'[p] = recoveries + 1 /\ recoveries + 1 \in RecTokens
          /\ recoveries' = recoveries + 1 /\ UNCHANGED <<logins, minted>>
       \/ /\ \/ op'[p] \in {"RefreshAccessToken"} \cup EndsOne /\ pc'[p] = "lock_sess"
                /\ target'[p] \in Sessions
             \/ op'[p] = "ResetPassword" /\ pc'[p] = "lock_token" /\ target'[p] \in RecTokens
             \/ op'[p] = "ChangePassword" /\ pc'[p] = "update_user"
             \/ op'[p] = "RevokeUserSessions" /\ pc'[p] = "revoke"
             \/ op'[p] = "DeleteUser" /\ pc'[p] = "lock_user"
          /\ UNCHANGED <<logins, recoveries, minted>>

\* A request ends without having changed a row.
Ends(p) ==
    /\ pc'[p] = "idle" /\ op'[p] = "Login"
    /\ Local(p) /\ OthersLocks(p) /\ Steady /\ UNCHANGED countVars
    /\ UNCHANGED <<minted, atoks>>

\* A statement of a transaction: it may take locks.
Advances(p) ==
    /\ pc[p] \in InTx /\ pc'[p] # "idle"
    /\ Local(p) /\ Same(p) /\ OthersLocks(p) /\ KeepsLocks(p) /\ Steady /\ UNCHANGED countVars
    /\ UNCHANGED <<smark, killed, atoks, unmarked>>

\* COMMIT: the locks are freed, and the method ends or goes on to what follows.
Commits(p) ==
    /\ pc[p] = "commit"
    /\ Local(p) /\ OthersLocks(p) /\ UNCHANGED countVars
    /\ \/ pc'[p] = "idle" /\ op'[p] = "Login"
       \/ pc'[p] \in {"mark", "produce"} /\ Same(p)
    /\ UNCHANGED <<smark, killed, minted>>

LEMMA ArriveRest ==
    ASSUME CoreInv, UNCHANGED <<rowVars, lockVars, histVars>>, ReqTypes', CountTypes'
    PROVE  Types' /\ ExclInv'
<1> USE DEF CoreInv, Types, rowVars, lockVars, histVars
<1>1. RowTypes' BY DEF RowTypes
<1>2. LockTypes' /\ ExclInv' BY DEF LockTypes, ExclInv
<1>3. HistTypes' BY DEF HistTypes
<1> QED BY <1>1, <1>2, <1>3

LEMMA ArriveFacts ==
    ASSUME CoreInv, NEW p \in Procs, Arrive(p)
    PROVE  Arrives(p) /\ Types' /\ ExclInv'
<1>1. CASE LoginVerify(p)
  <2>1. Begin(p, "Login", "store", logins + 1, 0, pw) /\ UNCHANGED <<rowVars, lockVars, histVars, smark, killed, atoks>>
        /\ logins + 1 \in Sessions /\ logins' = logins + 1 /\ recoveries' = recoveries
        /\ minted' = minted \cup {<<logins + 1, reqs + 1>>}
    BY <1>1 DEF LoginVerify, redisVars
  <2>2. logins + 1 \in Nat /\ 0 \in Made /\ pw \in Made /\ "Login" \in AllOps /\ "store" \in PC
    BY <2>1, Bounds DEF CoreInv, Types, RowTypes, AllOps, PC
  <2>3. ReqTypes' /\ Local(p) /\ pc[p] = "idle" /\ pc'[p] = "store" /\ op'[p] = "Login" /\ target'[p] = logins + 1
        /\ id'[p] = reqs + 1 /\ reqs' = reqs + 1 /\ reqs' \in Made
    BY <2>1, <2>2, BeginFacts DEF CoreInv, Types, CountTypes
  <2>4. Arrives(p) BY <2>1, <2>3 DEF Arrives, Steady, rowVars, lockVars, histVars, EndsOne
  <2>5. CountTypes' BY SMTT(60), <2>1, <2>3, Bounds DEF CoreInv, Types, CountTypes, Sessions, RecTokens
  <2> QED BY <2>1, <2>3, <2>4, <2>5, ArriveRest
<1>2. ASSUME NEW s \in Sessions, NEW g \in Made, RefreshBegin(p, s, g) PROVE Arrives(p) /\ Types' /\ ExclInv'
  <2>1. Begin(p, "RefreshAccessToken", "lock_sess", s, g, 0) /\ UNCHANGED <<rowVars, lockVars, histVars, smark, killed, atoks>>
        /\ UNCHANGED <<logins, recoveries, minted>> /\ s \in Sessions
    BY <1>2 DEF RefreshBegin, redisVars, clientVars
  <2>2. s \in Nat /\ g \in Made /\ 0 \in Made /\ "RefreshAccessToken" \in AllOps /\ "lock_sess" \in PC
    BY <2>1, Bounds DEF CoreInv, Types, RowTypes, AllOps, PC
  <2>3. ReqTypes' /\ Local(p) /\ pc[p] = "idle" /\ pc'[p] = "lock_sess" /\ op'[p] = "RefreshAccessToken" /\ target'[p] = s
        /\ id'[p] = reqs + 1 /\ reqs' = reqs + 1 /\ reqs' \in Made
    BY <2>1, <2>2, BeginFacts DEF CoreInv, Types, CountTypes
  <2>4. Arrives(p) BY <2>1, <2>3 DEF Arrives, Steady, rowVars, lockVars, histVars, EndsOne
  <2>5. CountTypes' BY <2>1, <2>3, Bounds DEF CoreInv, Types, CountTypes, Sessions, RecTokens
  <2> QED BY <2>1, <2>3, <2>4, <2>5, ArriveRest
<1>3. ASSUME NEW s \in Sessions, LogoutBegin(p, s) PROVE Arrives(p) /\ Types' /\ ExclInv'
  <2>1. Begin(p, "Logout", "lock_sess", s, 0, 0) /\ UNCHANGED <<rowVars, lockVars, histVars, smark, killed, atoks>>
        /\ UNCHANGED <<logins, recoveries, minted>> /\ s \in Sessions
    BY <1>3 DEF LogoutBegin, redisVars, clientVars
  <2>2. s \in Nat /\ 0 \in Made /\ 0 \in Made /\ "Logout" \in AllOps /\ "lock_sess" \in PC
    BY <2>1, Bounds DEF CoreInv, Types, RowTypes, AllOps, PC
  <2>3. ReqTypes' /\ Local(p) /\ pc[p] = "idle" /\ pc'[p] = "lock_sess" /\ op'[p] = "Logout" /\ target'[p] = s
        /\ id'[p] = reqs + 1 /\ reqs' = reqs + 1 /\ reqs' \in Made
    BY <2>1, <2>2, BeginFacts DEF CoreInv, Types, CountTypes
  <2>4. Arrives(p) BY <2>1, <2>3 DEF Arrives, Steady, rowVars, lockVars, histVars, EndsOne
  <2>5. CountTypes' BY <2>1, <2>3, Bounds DEF CoreInv, Types, CountTypes, Sessions, RecTokens
  <2> QED BY <2>1, <2>3, <2>4, <2>5, ArriveRest
<1>4. ASSUME NEW s \in Sessions, RevokeSessionBegin(p, s) PROVE Arrives(p) /\ Types' /\ ExclInv'
  <2>1. Begin(p, "RevokeSession", "lock_sess", s, 0, 0) /\ UNCHANGED <<rowVars, lockVars, histVars, smark, killed, atoks>>
        /\ UNCHANGED <<logins, recoveries, minted>> /\ s \in Sessions
    BY <1>4 DEF RevokeSessionBegin, redisVars, clientVars
  <2>2. s \in Nat /\ 0 \in Made /\ 0 \in Made /\ "RevokeSession" \in AllOps /\ "lock_sess" \in PC
    BY <2>1, Bounds DEF CoreInv, Types, RowTypes, AllOps, PC
  <2>3. ReqTypes' /\ Local(p) /\ pc[p] = "idle" /\ pc'[p] = "lock_sess" /\ op'[p] = "RevokeSession" /\ target'[p] = s
        /\ id'[p] = reqs + 1 /\ reqs' = reqs + 1 /\ reqs' \in Made
    BY <2>1, <2>2, BeginFacts DEF CoreInv, Types, CountTypes
  <2>4. Arrives(p) BY <2>1, <2>3 DEF Arrives, Steady, rowVars, lockVars, histVars, EndsOne
  <2>5. CountTypes' BY <2>1, <2>3, Bounds DEF CoreInv, Types, CountTypes, Sessions, RecTokens
  <2> QED BY <2>1, <2>3, <2>4, <2>5, ArriveRest
<1>5. CASE ChangeVerify(p)
  <2>1. Begin(p, "ChangePassword", "update_user", 0, 0, pw) /\ UNCHANGED <<rowVars, lockVars, histVars, smark, killed, atoks>>
        /\ UNCHANGED <<logins, recoveries, minted>>
    BY <1>5 DEF ChangeVerify, redisVars, clientVars
  <2>2. 0 \in Nat /\ 0 \in Made /\ pw \in Made /\ "ChangePassword" \in AllOps /\ "update_user" \in PC
    BY <2>1, Bounds DEF CoreInv, Types, RowTypes, AllOps, PC
  <2>3. ReqTypes' /\ Local(p) /\ pc[p] = "idle" /\ pc'[p] = "update_user" /\ op'[p] = "ChangePassword" /\ target'[p] = 0
        /\ id'[p] = reqs + 1 /\ reqs' = reqs + 1 /\ reqs' \in Made
    BY <2>1, <2>2, BeginFacts DEF CoreInv, Types, CountTypes
  <2>4. Arrives(p) BY <2>1, <2>3 DEF Arrives, Steady, rowVars, lockVars, histVars, EndsOne
  <2>5. CountTypes' BY <2>1, <2>3, Bounds DEF CoreInv, Types, CountTypes, Sessions, RecTokens
  <2> QED BY <2>1, <2>3, <2>4, <2>5, ArriveRest
<1>6. ASSUME NEW t \in RecTokens, ResetBegin(p, t) PROVE Arrives(p) /\ Types' /\ ExclInv'
  <2>1. Begin(p, "ResetPassword", "lock_token", t, 0, 0) /\ UNCHANGED <<rowVars, lockVars, histVars, smark, killed, atoks>>
        /\ UNCHANGED <<logins, recoveries, minted>> /\ t \in RecTokens
    BY <1>6 DEF ResetBegin, redisVars, clientVars
  <2>2. t \in Nat /\ 0 \in Made /\ 0 \in Made /\ "ResetPassword" \in AllOps /\ "lock_token" \in PC
    BY <2>1, Bounds DEF CoreInv, Types, RowTypes, AllOps, PC
  <2>3. ReqTypes' /\ Local(p) /\ pc[p] = "idle" /\ pc'[p] = "lock_token" /\ op'[p] = "ResetPassword" /\ target'[p] = t
        /\ id'[p] = reqs + 1 /\ reqs' = reqs + 1 /\ reqs' \in Made
    BY <2>1, <2>2, BeginFacts DEF CoreInv, Types, CountTypes
  <2>4. Arrives(p) BY <2>1, <2>3 DEF Arrives, Steady, rowVars, lockVars, histVars, EndsOne
  <2>5. CountTypes' BY <2>1, <2>3, Bounds DEF CoreInv, Types, CountTypes, Sessions, RecTokens
  <2> QED BY <2>1, <2>3, <2>4, <2>5, ArriveRest
<1>7. CASE RevokeAllBegin(p)
  <2>1. Begin(p, "RevokeUserSessions", "revoke", 0, 0, 0) /\ UNCHANGED <<rowVars, lockVars, histVars, smark, killed, atoks>>
        /\ UNCHANGED <<logins, recoveries, minted>>
    BY <1>7 DEF RevokeAllBegin, redisVars, clientVars
  <2>2. 0 \in Nat /\ 0 \in Made /\ 0 \in Made /\ "RevokeUserSessions" \in AllOps /\ "revoke" \in PC
    BY <2>1, Bounds DEF CoreInv, Types, RowTypes, AllOps, PC
  <2>3. ReqTypes' /\ Local(p) /\ pc[p] = "idle" /\ pc'[p] = "revoke" /\ op'[p] = "RevokeUserSessions" /\ target'[p] = 0
        /\ id'[p] = reqs + 1 /\ reqs' = reqs + 1 /\ reqs' \in Made
    BY <2>1, <2>2, BeginFacts DEF CoreInv, Types, CountTypes
  <2>4. Arrives(p) BY <2>1, <2>3 DEF Arrives, Steady, rowVars, lockVars, histVars, EndsOne
  <2>5. CountTypes' BY <2>1, <2>3, Bounds DEF CoreInv, Types, CountTypes, Sessions, RecTokens
  <2> QED BY <2>1, <2>3, <2>4, <2>5, ArriveRest
<1>8. CASE DeleteBegin(p)
  <2>1. Begin(p, "DeleteUser", "lock_user", 0, 0, 0) /\ UNCHANGED <<rowVars, lockVars, histVars, smark, killed, atoks>>
        /\ UNCHANGED <<logins, recoveries, minted>>
    BY <1>8 DEF DeleteBegin, redisVars, clientVars
  <2>2. 0 \in Nat /\ 0 \in Made /\ 0 \in Made /\ "DeleteUser" \in AllOps /\ "lock_user" \in PC
    BY <2>1, Bounds DEF CoreInv, Types, RowTypes, AllOps, PC
  <2>3. ReqTypes' /\ Local(p) /\ pc[p] = "idle" /\ pc'[p] = "lock_user" /\ op'[p] = "DeleteUser" /\ target'[p] = 0
        /\ id'[p] = reqs + 1 /\ reqs' = reqs + 1 /\ reqs' \in Made
    BY <2>1, <2>2, BeginFacts DEF CoreInv, Types, CountTypes
  <2>4. Arrives(p) BY <2>1, <2>3 DEF Arrives, Steady, rowVars, lockVars, histVars, EndsOne
  <2>5. CountTypes' BY <2>1, <2>3, Bounds DEF CoreInv, Types, CountTypes, Sessions, RecTokens
  <2> QED BY <2>1, <2>3, <2>4, <2>5, ArriveRest
<1>9. CASE RecoverBegin(p)
  <2>1. Begin(p, "RecoverPassword", "lock_user", recoveries + 1, 0, 0) /\ UNCHANGED <<rowVars, lockVars, histVars, smark, killed, atoks>>
        /\ recoveries + 1 \in RecTokens /\ recoveries' = recoveries + 1 /\ UNCHANGED <<logins, minted>>
    BY <1>9 DEF RecoverBegin, clientVars
  <2>2. recoveries + 1 \in Nat /\ 0 \in Made /\ 0 \in Made /\ "RecoverPassword" \in AllOps /\ "lock_user" \in PC
    BY <2>1, Bounds DEF CoreInv, Types, RowTypes, AllOps, PC
  <2>3. ReqTypes' /\ Local(p) /\ pc[p] = "idle" /\ pc'[p] = "lock_user" /\ op'[p] = "RecoverPassword" /\ target'[p] = recoveries + 1
        /\ id'[p] = reqs + 1 /\ reqs' = reqs + 1 /\ reqs' \in Made
    BY <2>1, <2>2, BeginFacts DEF CoreInv, Types, CountTypes
  <2>4. Arrives(p) BY <2>1, <2>3 DEF Arrives, Steady, rowVars, lockVars, histVars, EndsOne
  <2>5. CountTypes' BY SMTT(60), <2>1, <2>3, Bounds DEF CoreInv, Types, CountTypes, Sessions, RecTokens
  <2> QED BY <2>1, <2>3, <2>4, <2>5, ArriveRest
<1> QED BY <1>1, <1>2, <1>3, <1>4, <1>5, <1>6, <1>7, <1>8, <1>9 DEF Arrive

LEMMA RollbackFacts ==
    ASSUME CoreInv, NEW p \in Procs, Rollback(p)
    PROVE  Ends(p) /\ Types' /\ ExclInv'
<1> USE DEF CoreInv, Types, Rollback
<1>1. LockTypes' /\ ExclInv' /\ OthersLocks(p) BY UnlockFacts
<1>2. ReqTypes' /\ Local(p) /\ pc'[p] = "idle" /\ op'[p] = "Login" BY ReturnFacts
<1>3. RowTypes' BY DEF RowTypes, rowVars
<1>4. CountTypes' BY DEF CountTypes, countVars
<1>5. HistTypes' BY DEF HistTypes, histVars
<1>6. Ends(p) BY <1>1, <1>2 DEF Ends, Steady, rowVars, histVars, clientVars
<1> QED BY <1>1, <1>2, <1>3, <1>4, <1>5, <1>6

\* The ends of the methods after their transactions.
Follows(p) == EndMark(p) \/ WipeMark(p) \/ MarkFails(p) \/ \E sent \in BOOLEAN : RecoverProduce(p, sent)

LEMMA FollowFacts ==
    ASSUME CoreInv, NEW p \in Procs, Follows(p)
    PROVE  Ends(p) /\ Types' /\ ExclInv'
<1> USE DEF CoreInv, Types, Follows
<1>1. /\ Return(p) /\ UNCHANGED <<rowVars, lockVars, countVars, uses, resets, raced, minted, atoks>>
      /\ \/ unmarked' = unmarked
         \/ /\ At(p, "mark", AllOps)
            /\ unmarked' = unmarked \cup (IF op[p] \in EndsOne THEN {target[p]} ELSE Sessions)
  BY DEF EndMark, WipeMark, MarkFails, RecoverProduce, histVars, clientVars
<1>2. ReqTypes' /\ Local(p) /\ pc'[p] = "idle" /\ op'[p] = "Login" BY <1>1, ReturnFacts
<1>3. RowTypes' BY <1>1 DEF RowTypes, rowVars
<1>4. LockTypes' /\ ExclInv' BY <1>1 DEF LockTypes, ExclInv, lockVars
<1>5. CountTypes' BY <1>1 DEF CountTypes, countVars
<1>6. unmarked' \subseteq Sessions BY SMTT(60), <1>1 DEF HistTypes, TargetInv, At, EndsOne
<1>7. HistTypes' BY <1>1, <1>6 DEF HistTypes
<1>8. Ends(p) BY <1>1, <1>2 DEF Ends, Steady, OthersLocks, rowVars, lockVars
<1> QED BY <1>2, <1>3, <1>4, <1>5, <1>7, <1>8

-----------------------------------------------------------------------------
(* The statements inside the transactions *)

\* What the statements of each method establish.
Gains(p) ==
    \/ At(p, "store", {"Login"}) /\ pc'[p] = "commit" /\ minted' = minted
    \/ /\ At(p, "lock_sess", {"RefreshAccessToken"}) /\ pc'[p] = "lock_user" /\ minted' = minted
       /\ slock'[target[p]] = p /\ row'[p] = sess[target[p]]
       /\ row'[p].st = "live" /\ row'[p].rt = arg[p]
    \/ /\ At(p, "lock_user", {"RefreshAccessToken"}) /\ pc'[p] = "commit" /\ row'[p] = row[p]
       /\ <<p, "update">> \in ulocks' /\ ~deleted
       /\ minted' = minted \cup {<<target[p], id[p]>>}
    \/ At(p, "lock_sess", EndsOne) /\ pc'[p] = "mark" /\ minted' = minted
    \/ /\ At(p, "lock_sess", EndsOne) /\ pc'[p] = "audit" /\ minted' = minted
       /\ slock'[target[p]] = p /\ row'[p] = sess[target[p]] /\ row'[p].st = "live"
    \/ At(p, "audit", EndsOne) /\ pc'[p] = "commit" /\ row'[p] = row[p] /\ minted' = minted
    \/ /\ At(p, "update_user", {"ChangePassword"}) /\ pc'[p] = "revoke" /\ minted' = minted
       /\ <<p, "nokey">> \in ulocks'
    \/ /\ At(p, "lock_token", {"ResetPassword"}) /\ pc'[p] = "lock_user" /\ minted' = minted
       /\ tlock'[target[p]] = p /\ rtok[target[p]] = "live"
    \/ /\ At(p, "lock_user", {"ResetPassword", "DeleteUser"}) /\ pc'[p] = "revoke" /\ minted' = minted
       /\ <<p, "update">> \in ulocks'
    \/ At(p, "lock_user", {"DeleteUser"}) /\ pc'[p] = "mark" /\ minted' = minted
    \/ /\ At(p, "revoke", Wipes) /\ pc'[p] \in {"wait_rows", "commit"} /\ minted' = minted
       /\ \A s \in Sessions : sess[s].st = "live" => pc'[p] = "wait_rows" /\ s \in todo'[p]
    \/ /\ At(p, "wait_rows", Wipes) /\ pc'[p] \in {"wait_rows", "commit"} /\ minted' = minted
       /\ \A s \in todo[p] : slock'[s] = p \/ (pc'[p] = "wait_rows" /\ s \in todo'[p])
    \/ At(p, "lock_user", {"RecoverPassword"}) /\ pc'[p] = "commit" /\ minted' = minted

Statement(p) ==
    \/ StoreSession(p) \/ RefreshSession(p) \/ RefreshUser(p) \/ EndSession(p) \/ EndAudit(p)
    \/ ChangeUpdate(p) \/ ResetToken(p) \/ ResetUser(p) \/ DeleteLock(p) \/ RevokeSelect(p)
    \/ (\E s \in Sessions : RevokeRow(p, s)) \/ RecoverUser(p)

\* What all statements that go on leave alone.
Untouched ==
    /\ UNCHANGED <<rowVars, countVars, redisVars, atoks, histVars>>
    /\ minted \subseteq minted'

LEMMA UntouchedTypes ==
    ASSUME CoreInv, Untouched, ReqTypes', LockTypes' PROVE Types'
<1> USE DEF CoreInv, Types, Untouched
<1>1. RowTypes' BY DEF RowTypes, rowVars
<1>2. CountTypes' BY DEF CountTypes, countVars
<1>3. HistTypes' BY DEF HistTypes, histVars
<1> QED BY <1>1, <1>2, <1>3

\* A statement that takes a lock on the user row, or none, and goes on.
LEMMA GoesOn ==
    ASSUME CoreInv, NEW p \in Procs, NEW where \in PC \ {"idle"}, Goto(p, where), Untouched,
           pc[p] \in InTx, UNCHANGED slock,
           \/ UNCHANGED <<tlock, ulocks>>
           \/ UNCHANGED tlock /\ \E mode \in Modes : LockUser(p, mode)
    PROVE  /\ Advances(p) /\ Types' /\ ExclInv' /\ pc'[p] = where /\ row'[p] = row[p]
           /\ \A mode \in Modes : LockUser(p, mode) => <<p, mode>> \in ulocks'
<1> USE DEF CoreInv, Types
<1>1. ReqTypes' /\ Local(p) /\ Same(p) /\ pc'[p] = where /\ row'[p] = row[p] BY GotoFacts
<1>2. LockTypes' /\ ExclInv' /\ OthersLocks(p) /\ KeepsLocks(p)
  <2>1. CASE UNCHANGED <<tlock, ulocks>> BY <2>1 DEF LockTypes, ExclInv, OthersLocks, KeepsLocks
  <2>2. CASE UNCHANGED tlock /\ \E mode \in Modes : LockUser(p, mode) BY <2>2, LockUserFacts
  <2> QED BY <2>1, <2>2
<1>3. Types' BY <1>1, <1>2, UntouchedTypes
<1>4. Advances(p)
  BY <1>1, <1>2 DEF Advances, Untouched, Steady, rowVars, countVars, redisVars, histVars
<1> QED BY <1>1, <1>2, <1>3, <1>4 DEF LockUser

\* A statement that locks and reads a session row.
LEMMA ReadsOn ==
    ASSUME CoreInv, NEW p \in Procs, NEW where \in PC \ {"idle"}, NEW s \in Sessions, ReadSession(p, s),
           pc' = [pc EXCEPT ![p] = where], UNCHANGED <<op, id, target, arg, known, todo, tlock, ulocks>>,
           Untouched, pc[p] \in InTx
    PROVE  Advances(p) /\ Types' /\ ExclInv' /\ pc'[p] = where /\ slock'[s] = p /\ row'[p] = sess[s]
<1> USE DEF CoreInv, Types, ReadSession
<1>1. row' \in [Procs -> SessionRow] /\ row'[p] = sess[s] BY DEF ReqTypes, RowTypes
<1>2. ReqTypes' /\ Local(p) /\ Same(p) /\ pc'[p] = where BY <1>1 DEF ReqTypes, Local, Same
<1>3. LockTypes' /\ ExclInv' /\ OthersLocks(p) /\ KeepsLocks(p) /\ slock'[s] = p BY LockSessionFacts
<1>4. Types' BY <1>2, <1>3, UntouchedTypes
<1>5. Advances(p)
  BY <1>2, <1>3 DEF Advances, Untouched, Steady, rowVars, countVars, redisVars, histVars
<1> QED BY <1>1, <1>2, <1>3, <1>4, <1>5

LEMMA StatementFacts ==
    ASSUME CoreInv, NEW p \in Procs, Statement(p)
    PROVE  Types' /\ ExclInv' /\ (Ends(p) \/ (Advances(p) /\ Gains(p)))
<1>0. /\ "commit" \in PC /\ "lock_user" \in PC /\ "mark" \in PC /\ "audit" \in PC /\ "revoke" \in PC
      /\ "wait_rows" \in PC /\ "update" \in Modes /\ "nokey" \in Modes /\ "share" \in Modes
  BY DEF PC, Modes
<1>1. CASE StoreSession(p)
  <2>1. Goto(p, "commit") /\ Untouched /\ LockUser(p, "share") /\ UNCHANGED <<slock, tlock>>
        /\ At(p, "store", {"Login"}) /\ minted' = minted
    BY <1>1 DEF StoreSession, Untouched, clientVars
  <2>2. Advances(p) /\ Types' /\ ExclInv' /\ pc'[p] = "commit" BY <1>0, <2>1, GoesOn DEF At, InTx
  <2> QED BY <2>1, <2>2 DEF Gains
<1>2. CASE RefreshSession(p)
  <2>1. CASE Rollback(p) BY <2>1, RollbackFacts
  <2>2. CASE /\ sess[target[p]].rt = arg[p] /\ Usable(target[p]) /\ ReadSession(p, target[p])
             /\ pc' = [pc EXCEPT ![p] = "lock_user"]
             /\ UNCHANGED <<op, id, target, arg, known, todo, rowVars, tlock, ulocks, countVars,
                            redisVars, clientVars, histVars>>
    <3>1. At(p, "lock_sess", {"RefreshAccessToken"}) /\ target[p] \in Sessions
      BY <1>2 DEF RefreshSession, At, CoreInv, TargetInv
    <3>2. Advances(p) /\ Types' /\ ExclInv' /\ pc'[p] = "lock_user" /\ slock'[target[p]] = p
          /\ row'[p] = sess[target[p]]
      BY <1>0, <2>2, <3>1, ReadsOn DEF At, InTx, Untouched, clientVars
    <3> QED BY <2>2, <3>1, <3>2 DEF Gains, Usable, clientVars
  <2> QED BY <1>2, <2>1, <2>2 DEF RefreshSession
<1>3. CASE RefreshUser(p)
  <2>1. CASE Rollback(p) BY <2>1, RollbackFacts
  <2>2. CASE /\ ~deleted /\ LockUser(p, "update")
             /\ minted' = minted \cup {<<target[p], id[p]>>}
             /\ Goto(p, "commit")
             /\ UNCHANGED <<rowVars, slock, tlock, countVars, redisVars, atoks, rts, mailed, histVars>>
    <3>1. At(p, "lock_user", {"RefreshAccessToken"}) /\ Untouched BY <1>3, <2>2 DEF RefreshUser, Untouched
    <3>2. Advances(p) /\ Types' /\ ExclInv' /\ pc'[p] = "commit" /\ row'[p] = row[p] /\ <<p, "update">> \in ulocks'
      BY <1>0, <2>2, <3>1, GoesOn DEF At, InTx
    <3> QED BY <2>2, <3>1, <3>2 DEF Gains
  <2> QED BY <1>3, <2>1, <2>2 DEF RefreshUser
<1>4. CASE EndSession(p)
  <2>1. At(p, "lock_sess", EndsOne) /\ target[p] \in Sessions /\ Untouched /\ minted' = minted
        /\ UNCHANGED <<tlock, ulocks>>
    BY <1>4 DEF EndSession, At, CoreInv, TargetInv, Untouched, clientVars
  <2>2. CASE Goto(p, "mark") /\ UNCHANGED slock
    <3>1. Advances(p) /\ Types' /\ ExclInv' /\ pc'[p] = "mark" BY <1>0, <2>1, <2>2, GoesOn DEF At, InTx
    <3> QED BY <2>1, <3>1 DEF Gains
  <2>3. CASE /\ Usable(target[p]) /\ ReadSession(p, target[p])
             /\ pc' = [pc EXCEPT ![p] = "audit"]
             /\ UNCHANGED <<op, id, target, arg, known, todo>>
    <3>2. "audit" \in PC \ {"idle"} /\ pc[p] \in InTx BY <2>1 DEF PC, At, InTx
    <3>3. UNCHANGED <<op, id, target, arg, known, todo, tlock, ulocks>> BY <2>1, <2>3
    <3>1. Advances(p) /\ Types' /\ ExclInv' /\ pc'[p] = "audit" /\ slock'[target[p]] = p
          /\ row'[p] = sess[target[p]]
      BY <2>1, <2>3, <3>2, <3>3, ReadsOn
    <3> QED BY <2>1, <2>3, <3>1 DEF Gains, Usable
  <2> QED BY <1>4, <2>2, <2>3 DEF EndSession
<1>5. CASE EndAudit(p)
  <2>1. Goto(p, "commit") /\ Untouched /\ LockUser(p, "share") /\ UNCHANGED <<slock, tlock>>
        /\ At(p, "audit", EndsOne) /\ minted' = minted
    BY <1>5 DEF EndAudit, Untouched, clientVars
  <2>2. Advances(p) /\ Types' /\ ExclInv' /\ pc'[p] = "commit" /\ row'[p] = row[p]
    BY <1>0, <2>1, GoesOn DEF At, InTx
  <2> QED BY <2>1, <2>2 DEF Gains
<1>6. CASE ChangeUpdate(p)
  <2>1. Goto(p, "revoke") /\ Untouched /\ LockUser(p, "nokey") /\ UNCHANGED <<slock, tlock>>
        /\ At(p, "update_user", {"ChangePassword"}) /\ minted' = minted
    BY <1>6 DEF ChangeUpdate, Untouched, clientVars
  <2>2. Advances(p) /\ Types' /\ ExclInv' /\ pc'[p] = "revoke" /\ <<p, "nokey">> \in ulocks'
    BY <1>0, <2>1, GoesOn DEF At, InTx
  <2> QED BY <2>1, <2>2 DEF Gains
<1>7. CASE ResetToken(p)
  <2>1. CASE Rollback(p) BY <2>1, RollbackFacts
  <2>2. CASE /\ rtok[target[p]] = "live" /\ target[p] \notin lapsed
             /\ tlock' = [tlock EXCEPT ![target[p]] = p]
             /\ Goto(p, "lock_user")
             /\ UNCHANGED <<rowVars, slock, ulocks, countVars, redisVars, clientVars, histVars>>
    <3>1. At(p, "lock_token", {"ResetPassword"}) /\ target[p] \in RecTokens /\ Free(tlock[target[p]], p)
      BY <1>7 DEF ResetToken, At, CoreInv, TargetInv
    <3>2. ReqTypes' /\ Local(p) /\ Same(p) /\ pc'[p] = "lock_user" BY <1>0, <2>2, GotoFacts DEF CoreInv, Types
    <3>3. LockTypes' /\ ExclInv' /\ OthersLocks(p) /\ KeepsLocks(p) /\ tlock'[target[p]] = p
      BY <2>2, <3>1, LockTokenFacts DEF CoreInv, Types
    <3>4. Types' BY <2>2, <3>2, <3>3, UntouchedTypes DEF Untouched, clientVars
    <3>5. Advances(p)
      BY <2>2, <3>1, <3>2, <3>3
         DEF Advances, Steady, At, InTx, rowVars, countVars, redisVars, clientVars, histVars
    <3> QED BY <2>2, <3>1, <3>2, <3>3, <3>4, <3>5 DEF Gains, clientVars
  <2> QED BY <1>7, <2>1, <2>2 DEF ResetToken
<1>8. CASE ResetUser(p)
  <2>1. CASE Rollback(p) BY <2>1, RollbackFacts
  <2>2. CASE /\ LockUser(p, "update") /\ Goto(p, "revoke")
             /\ UNCHANGED <<rowVars, slock, tlock, countVars, redisVars, clientVars, histVars>>
    <3>1. At(p, "lock_user", {"ResetPassword", "DeleteUser"}) /\ Untouched /\ minted' = minted
      BY <1>8, <2>2 DEF ResetUser, At, Untouched, clientVars
    <3>2. Advances(p) /\ Types' /\ ExclInv' /\ pc'[p] = "revoke" /\ <<p, "update">> \in ulocks'
      BY <1>0, <2>2, <3>1, GoesOn DEF At, InTx
    <3> QED BY <3>1, <3>2 DEF Gains
  <2> QED BY <1>8, <2>1, <2>2 DEF ResetUser
<1>9. CASE DeleteLock(p)
  <2>1. At(p, "lock_user", {"DeleteUser"}) /\ Untouched /\ minted' = minted /\ UNCHANGED <<slock, tlock>>
    BY <1>9 DEF DeleteLock, Untouched, clientVars
  <2>2. CASE Goto(p, "mark") /\ UNCHANGED ulocks
    <3>1. Advances(p) /\ Types' /\ ExclInv' /\ pc'[p] = "mark" BY <1>0, <2>1, <2>2, GoesOn DEF At, InTx
    <3> QED BY <2>1, <3>1 DEF Gains
  <2>3. CASE LockUser(p, "update") /\ Goto(p, "revoke")
    <3>1. Advances(p) /\ Types' /\ ExclInv' /\ pc'[p] = "revoke" /\ <<p, "update">> \in ulocks'
      BY <1>0, <2>1, <2>3, GoesOn DEF At, InTx
    <3> QED BY <2>1, <3>1 DEF Gains, At
  <2> QED BY <1>9, <2>2, <2>3 DEF DeleteLock
<1>10. CASE RevokeSelect(p)
  <2> DEFINE live == {s \in Sessions : sess[s].st = "live"}
  <2>1. /\ At(p, "revoke", Wipes) /\ todo' = [todo EXCEPT ![p] = live]
        /\ pc' = [pc EXCEPT ![p] = IF live = {} THEN "commit" ELSE "wait_rows"]
        /\ UNCHANGED <<op, id, target, arg, known, row, lockVars>> /\ Untouched /\ minted' = minted
    BY <1>10 DEF RevokeSelect, Untouched, clientVars
  <2>2. ReqTypes' /\ Local(p) /\ Same(p) /\ todo'[p] = live
        /\ pc'[p] = IF live = {} THEN "commit" ELSE "wait_rows"
    BY <1>0, <2>1 DEF CoreInv, Types, ReqTypes, Local, Same
  <2>3. LockTypes' /\ ExclInv' /\ OthersLocks(p) /\ KeepsLocks(p)
    BY <2>1 DEF CoreInv, Types, LockTypes, ExclInv, OthersLocks, KeepsLocks, lockVars
  <2>4. Types' BY <2>1, <2>2, <2>3, UntouchedTypes
  <2>5. Advances(p)
    BY SMTT(60), <2>1, <2>2, <2>3 DEF Advances, Untouched, Steady, At, InTx, rowVars, countVars, redisVars, histVars
  <2> QED BY <2>1, <2>2, <2>3, <2>4, <2>5 DEF Gains
<1>11. ASSUME NEW s \in Sessions, RevokeRow(p, s)
       PROVE  Types' /\ ExclInv' /\ Advances(p) /\ Gains(p)
  <2>1. /\ At(p, "wait_rows", Wipes) /\ s \in todo[p] /\ Free(slock[s], p)
        /\ slock' = [slock EXCEPT ![s] = p]
        /\ todo' = [todo EXCEPT ![p] = @ \ {s}]
        /\ pc' = [pc EXCEPT ![p] = IF todo[p] = {s} THEN "commit" ELSE "wait_rows"]
        /\ UNCHANGED <<op, id, target, arg, known, row, tlock, ulocks>> /\ Untouched /\ minted' = minted
    BY <1>11 DEF RevokeRow, Untouched, clientVars
  <2>2. ReqTypes' /\ Local(p) /\ Same(p) /\ todo'[p] = todo[p] \ {s}
        /\ pc'[p] = IF todo[p] = {s} THEN "commit" ELSE "wait_rows"
    BY <1>0, <2>1 DEF CoreInv, Types, ReqTypes, Local, Same
  <2>3. LockTypes' /\ ExclInv' /\ OthersLocks(p) /\ KeepsLocks(p) /\ slock'[s] = p
    BY <2>1, LockSessionFacts DEF CoreInv, Types
  <2>4. Types' BY <2>1, <2>2, <2>3, UntouchedTypes
  <2>5. Advances(p)
    BY SMTT(60), <2>1, <2>2, <2>3 DEF Advances, Untouched, Steady, At, InTx, rowVars, countVars, redisVars, histVars
  <2> QED BY <2>1, <2>2, <2>3, <2>4, <2>5 DEF Gains
<1>12. CASE RecoverUser(p)
  <2>1. CASE Rollback(p) BY <2>1, RollbackFacts
  <2>2. CASE /\ LockUser(p, "update") /\ Goto(p, "commit")
             /\ UNCHANGED <<rowVars, slock, tlock, countVars, redisVars, clientVars, histVars>>
    <3>1. At(p, "lock_user", {"RecoverPassword"}) /\ Untouched /\ minted' = minted
      BY <1>12, <2>2 DEF RecoverUser, Untouched, clientVars
    <3>2. Advances(p) /\ Types' /\ ExclInv' /\ pc'[p] = "commit" BY <1>0, <2>2, <3>1, GoesOn DEF At, InTx
    <3> QED BY <3>1, <3>2 DEF Gains
  <2> QED BY <1>12, <2>1, <2>2 DEF RecoverUser
<1> QED BY <1>1, <1>2, <1>3, <1>4, <1>5, <1>6, <1>7, <1>8, <1>9, <1>10, <1>11, <1>12 DEF Statement

-----------------------------------------------------------------------------
(* COMMIT *)

LEMMA CommitThenFacts ==
    ASSUME CoreInv, NEW p \in Procs, NEW told \in BOOLEAN, NEW where \in {"idle", "mark", "produce"},
           pc[p] = "commit", CommitThen(p, told, where), UNCHANGED <<countVars, smark, killed, minted>>
    PROVE  /\ Commits(p) /\ ReqTypes' /\ LockTypes' /\ ExclInv' /\ CountTypes'
           /\ IF told /\ where # "idle" THEN pc'[p] = where /\ Same(p) ELSE pc'[p] = "idle" /\ op'[p] = "Login"
<1> USE DEF CoreInv, Types, CommitThen
<1>1. LockTypes' /\ ExclInv' /\ OthersLocks(p) BY UnlockFacts
<1>2. CountTypes' BY DEF CountTypes, countVars
<1>3. CASE told /\ where # "idle"
  <2>1. ReqTypes' /\ Local(p) /\ Same(p) /\ pc'[p] = where BY <1>3, GotoFacts DEF PC
  <2> QED BY <1>1, <1>2, <1>3, <2>1 DEF Commits
<1>4. CASE ~(told /\ where # "idle")
  <2>1. ReqTypes' /\ Local(p) /\ pc'[p] = "idle" /\ op'[p] = "Login" BY <1>4, ReturnFacts
  <2> QED BY <1>1, <1>2, <1>4, <2>1 DEF Commits
<1> QED BY <1>3, <1>4

LEMMA LoginCommitFacts ==
    ASSUME CoreInv, NEW p \in Procs, NEW told \in BOOLEAN, LoginCommit(p, told)
    PROVE  Commits(p) /\ Types' /\ ExclInv' /\ pc'[p] = "idle" /\ op'[p] = "Login"
<1> USE DEF LoginCommit, At
<1>1. Commits(p) /\ ReqTypes' /\ LockTypes' /\ ExclInv' /\ CountTypes' /\ pc'[p] = "idle" /\ op'[p] = "Login"
  BY CommitThenFacts DEF redisVars
<1>2. NewSession(id[p], known[p]) \in SessionRow /\ target[p] \in Sessions
  BY DEF CoreInv, Types, ReqTypes, TargetInv, NewSession, SessionRow, SessState
<1>3. RowTypes' BY <1>2 DEF CoreInv, Types, RowTypes
<1>4. HistTypes' BY <1>2 DEF CoreInv, Types, HistTypes
<1> QED BY <1>1, <1>3, <1>4 DEF Types

LEMMA RefreshCommitFacts ==
    ASSUME CoreInv, NEW p \in Procs, NEW told \in BOOLEAN, RefreshCommit(p, told)
    PROVE  /\ Commits(p) /\ Types' /\ ExclInv' /\ pc'[p] = "idle" /\ op'[p] = "Login"
           /\ target[p] \in Sessions /\ slock[target[p]] = p /\ ~deleted
           /\ sess[target[p]].st = "live" /\ sess[target[p]].rt = arg[p]
           /\ sess' = [sess EXCEPT ![target[p]] = Rotate(@, id[p])]
<1> USE DEF RefreshCommit, At
<1>1. Commits(p) /\ ReqTypes' /\ LockTypes' /\ ExclInv' /\ CountTypes' /\ pc'[p] = "idle" /\ op'[p] = "Login"
  BY CommitThenFacts DEF redisVars
<1>2. /\ target[p] \in Sessions /\ slock[target[p]] = p /\ row[p] = sess[target[p]]
      /\ row[p].st = "live" /\ row[p].rt = arg[p] /\ ~deleted
  BY DEF CoreInv, TargetInv, SessionInv, HoldsSession, UserInv
<1>3. sess' = [sess EXCEPT ![target[p]] = Rotate(@, id[p])] BY <1>2 DEF UpdateSession, CoreInv, Types, RowTypes
<1>4. Rotate(sess[target[p]], id[p]) \in SessionRow
  BY <1>2 DEF CoreInv, Types, RowTypes, ReqTypes, SessionRow, Rotate
<1>5. RowTypes' BY <1>2, <1>3, <1>4 DEF CoreInv, Types, RowTypes
<1>6. uses' \in [Sessions -> [Made -> Nat]] BY SMTT(60), <1>2 DEF CoreInv, Types, HistTypes, ReqTypes
<1>7. HistTypes' BY <1>6 DEF CoreInv, Types, HistTypes
<1> QED BY <1>1, <1>2, <1>3, <1>5, <1>7 DEF Types

LEMMA EndCommitFacts ==
    ASSUME CoreInv, NEW p \in Procs, NEW told \in BOOLEAN, EndCommit(p, told)
    PROVE  /\ Commits(p) /\ Types' /\ ExclInv'
           /\ IF told THEN pc'[p] = "mark" /\ Same(p) ELSE pc'[p] = "idle" /\ op'[p] = "Login"
           /\ target[p] \in Sessions /\ slock[target[p]] = p /\ sess[target[p]].st = "live"
           /\ sess' = [sess EXCEPT ![target[p]] = Revoke(@)]
<1> USE DEF EndCommit, At
<1>1. Commits(p) /\ ReqTypes' /\ LockTypes' /\ ExclInv' /\ CountTypes'
      /\ IF told THEN pc'[p] = "mark" /\ Same(p) ELSE pc'[p] = "idle" /\ op'[p] = "Login"
  BY CommitThenFacts DEF redisVars, clientVars
<1>2. target[p] \in Sessions /\ slock[target[p]] = p /\ row[p] = sess[target[p]] /\ row[p].st = "live"
  BY DEF CoreInv, TargetInv, SessionInv, HoldsSession
<1>3. sess' = [sess EXCEPT ![target[p]] = Revoke(@)] BY <1>2 DEF UpdateSession, CoreInv, Types, RowTypes
<1>4. Revoke(sess[target[p]]) \in SessionRow
  BY <1>2 DEF CoreInv, Types, RowTypes, SessionRow, SessState, Revoke
<1>5. RowTypes' BY <1>2, <1>3, <1>4 DEF CoreInv, Types, RowTypes
<1>6. HistTypes' BY <1>2 DEF CoreInv, Types, HistTypes
<1> QED BY <1>1, <1>2, <1>3, <1>5, <1>6 DEF Types

LEMMA WipeCommitFacts ==
    ASSUME CoreInv, NEW p \in Procs, NEW told \in BOOLEAN, WipeCommit(p, told)
    PROVE  /\ Commits(p) /\ Types' /\ ExclInv'
           /\ IF told THEN pc'[p] = "mark" /\ Same(p) ELSE pc'[p] = "idle" /\ op'[p] = "Login"
           /\ deleted' = deleted \/ <<p, "update">> \in ulocks
<1> USE DEF WipeCommit, At
<1>1. Commits(p) /\ ReqTypes' /\ LockTypes' /\ ExclInv' /\ CountTypes'
      /\ IF told THEN pc'[p] = "mark" /\ Same(p) ELSE pc'[p] = "idle" /\ op'[p] = "Login"
  BY CommitThenFacts DEF redisVars, clientVars
<1>2. sess' \in [Sessions -> SessionRow]
  BY DEF CoreInv, Types, RowTypes, SessionRow, SessState, Revoke
<1>3. pw' \in Made /\ deleted' \in BOOLEAN BY DEF CoreInv, Types, RowTypes, ReqTypes
<1>4. op[p] = "ResetPassword" => target[p] \in RecTokens BY DEF CoreInv, TargetInv
<1>5. rtok' \in [RecTokens -> {"none", "live", "used"}] /\ resets' \in [RecTokens -> Nat]
  <2>1. IF op[p] = "ResetPassword"
        THEN /\ rtok' = [rtok EXCEPT ![target[p]] = "used"]
             /\ resets' = [resets EXCEPT ![target[p]] = @ + 1]
        ELSE UNCHANGED <<rtok, resets>>
    OBVIOUS
  <2>2. rtok \in [RecTokens -> {"none", "live", "used"}] /\ resets \in [RecTokens -> Nat]
    BY DEF CoreInv, Types, RowTypes, HistTypes
  <2> HIDE DEF WipeCommit, At
  <2> QED BY SMTT(60), <1>4, <2>1, <2>2
<1>6. RowTypes' BY <1>2, <1>3, <1>5 DEF RowTypes
<1>7. HistTypes' BY <1>5 DEF CoreInv, Types, HistTypes
<1>8. deleted' = deleted \/ <<p, "update">> \in ulocks
  BY DEF CoreInv, UserInv, Writing, Types, RowTypes
<1> QED BY <1>1, <1>6, <1>7, <1>8 DEF Types

LEMMA RecoverCommitFacts ==
    ASSUME CoreInv, NEW p \in Procs, NEW told \in BOOLEAN, RecoverCommit(p, told)
    PROVE  /\ Commits(p) /\ Types' /\ ExclInv'
           /\ IF told THEN pc'[p] = "produce" /\ Same(p) ELSE pc'[p] = "idle" /\ op'[p] = "Login"
<1> USE DEF RecoverCommit, At
<1>1. Commits(p) /\ ReqTypes' /\ LockTypes' /\ ExclInv' /\ CountTypes'
      /\ IF told THEN pc'[p] = "produce" /\ Same(p) ELSE pc'[p] = "idle" /\ op'[p] = "Login"
  BY CommitThenFacts DEF redisVars, clientVars
<1>2. target[p] \in RecTokens BY DEF CoreInv, TargetInv
<1>3. RowTypes' BY <1>2 DEF CoreInv, Types, RowTypes
<1>4. HistTypes' BY DEF CoreInv, Types, HistTypes, histVars
<1> QED BY <1>1, <1>3, <1>4 DEF Types

-----------------------------------------------------------------------------
(* The invariant about sessions, users and request numbers *)

\* What a step may do to the session rows: nothing, or revoke or rotate a live
\* one it holds, or store the one its login made.
Writes(p) ==
    \A s \in Sessions :
        \/ sess'[s] = sess[s]
        \/ /\ slock[s] = p /\ sess[s].st = "live"
           /\ \/ sess'[s] = Revoke(sess[s])
              \/ pc'[p] = "idle" /\ sess'[s] = Rotate(sess[s], id[p]) /\ pc[p] # "idle"
        \/ Opening(p) /\ s = target[p] /\ pc'[p] = "idle" /\ sess'[s] = NewSession(id[p], known[p])

\* What the actor has to show of itself.
Own(p) ==
    /\ pc'[p] # "idle" =>
          /\ op'[p] \in {"Login", "RefreshAccessToken"} \cup EndsOne => target'[p] \in Sessions
          /\ op'[p] \in {"ResetPassword", "RecoverPassword"} => target'[p] \in RecTokens
    /\ HoldsSession(p)' =>
          /\ slock'[target'[p]] = p
          /\ row'[p] = sess'[target'[p]] /\ row'[p].st = "live"
          /\ op'[p] = "RefreshAccessToken" => row'[p].rt = arg'[p]
    /\ Opening(p)' =>
          /\ target'[p] <= logins' /\ sess'[target'[p]] = NoRow
          /\ \A q \in Procs : q # p /\ Opening(q) => target[q] # target'[p]
    /\ pc'[p] # "idle" =>
          /\ 0 < id'[p] /\ id'[p] <= reqs'
          /\ \A s \in Sessions : sess'[s].rt # id'[p]
          /\ \A q \in Procs : q # p /\ pc[q] # "idle" => id[q] # id'[p]
    /\ op'[p] \in {"ResetPassword", "DeleteUser"} /\ pc'[p] \in Writing => <<p, "update">> \in ulocks'
    /\ op'[p] = "ChangePassword" /\ pc'[p] \in Writing => <<p, "nokey">> \in ulocks'
    /\ op'[p] = "RefreshAccessToken" /\ pc'[p] = "commit" => <<p, "update">> \in ulocks' /\ ~deleted'

LEMMA IdleOwn ==
    ASSUME NEW p \in Procs, pc'[p] = "idle", op'[p] = "Login" PROVE Own(p)
  BY DEF Own, HoldsSession, Opening, EndsOne, Writing

\* A refresh token of a row is replaced by the number of the request that ends.
LEMMA RefreshTokenOf ==
    ASSUME RowTypes, NEW p \in Procs, Writes(p)
    PROVE  \A s \in Sessions :
              \/ sess'[s].rt = sess[s].rt
              \/ sess'[s].rt = id[p] /\ pc[p] # "idle" /\ pc'[p] = "idle"
<1> SUFFICES ASSUME NEW s \in Sessions
             PROVE  \/ sess'[s].rt = sess[s].rt
                    \/ sess'[s].rt = id[p] /\ pc[p] # "idle" /\ pc'[p] = "idle"
  OBVIOUS
<1>1. sess[s] \in SessionRow BY DEF RowTypes
<1>2. Revoke(sess[s]).rt = sess[s].rt BY <1>1 DEF Revoke, SessionRow
<1>3. Rotate(sess[s], id[p]).rt = id[p] BY <1>1 DEF Rotate, SessionRow
<1>4. NewSession(id[p], known[p]).rt = id[p] BY DEF NewSession
<1> QED BY <1>2, <1>3, <1>4 DEF Writes, Opening

\* A step of p keeps the invariant of the others.
LEMMA CoreStep ==
    ASSUME CoreInv, NEW p \in Procs, Types', ExclInv', Local(p), OthersLocks(p), Writes(p), Own(p),
           reqs <= reqs', logins <= logins',
           deleted' = deleted \/ <<p, "update">> \in ulocks
    PROVE  CoreInv'
<1> USE DEF CoreInv
<1>0. /\ \A q \in Procs : target[q] \in Nat /\ id[q] \in Nat
      /\ reqs \in Nat /\ reqs' \in Nat /\ logins \in Nat /\ logins' \in Nat
      /\ \A s \in Sessions : s \in Nat /\ sess[s].rt \in Nat /\ sess[s] \in SessionRow
  <2>1. \A q \in Procs : target[q] \in Nat /\ id[q] \in Nat BY Bounds DEF Types, ReqTypes
  <2>2. reqs \in Nat /\ reqs' \in Nat BY Bounds DEF Types, CountTypes
  <2>3. logins \in Nat /\ logins' \in Nat BY SMTT(60), Bounds DEF Types, CountTypes
  <2>4. \A s \in Sessions : s \in Nat /\ sess[s] \in SessionRow BY Bounds DEF Types, RowTypes
  <2>5. \A s \in Sessions : sess[s].rt \in Nat BY <2>4, Bounds DEF SessionRow
  <2> QED BY <2>1, <2>2, <2>3, <2>4, <2>5
<1>1. TargetInv'
  <2> SUFFICES ASSUME NEW q \in Procs, pc'[q] # "idle"
               PROVE  /\ op'[q] \in {"Login", "RefreshAccessToken"} \cup EndsOne => target'[q] \in Sessions
                      /\ op'[q] \in {"ResetPassword", "RecoverPassword"} => target'[q] \in RecTokens
    BY DEF TargetInv
  <2>1. CASE q = p BY <2>1 DEF Own
  <2>2. CASE q # p BY <2>2 DEF Local, TargetInv
  <2> QED BY <2>1, <2>2
<1>2. SessionInv'
  <2> SUFFICES ASSUME NEW q \in Procs, HoldsSession(q)'
               PROVE  /\ slock'[target'[q]] = q
                      /\ row'[q] = sess'[target'[q]] /\ row'[q].st = "live"
                      /\ op'[q] = "RefreshAccessToken" => row'[q].rt = arg'[q]
    BY DEF SessionInv
  <2>1. CASE q = p BY <2>1 DEF Own
  <2>2. CASE q # p
    <3>1. HoldsSession(q) /\ target'[q] = target[q] /\ row'[q] = row[q] /\ arg'[q] = arg[q] /\ op'[q] = op[q]
      BY <2>2 DEF Local, HoldsSession
    <3>2. /\ slock[target[q]] = q /\ row[q] = sess[target[q]] /\ row[q].st = "live"
          /\ op[q] = "RefreshAccessToken" => row[q].rt = arg[q]
      BY <3>1 DEF SessionInv
    <3>3. target[q] \in Sessions BY <3>1 DEF HoldsSession, TargetInv
    <3>4. slock'[target[q]] = q BY <2>2, <3>2, <3>3 DEF OthersLocks
    <3>5. ~(Opening(p) /\ target[q] = target[p]) BY SMTT(60), <3>2 DEF LoginInv, NoRow
    <3>6. sess'[target[q]] = sess[target[q]] BY <2>2, <3>2, <3>3, <3>5 DEF Writes
    <3> QED BY <3>1, <3>2, <3>4, <3>6
  <2> QED BY <2>1, <2>2
<1>3. ASSUME NEW s \in Sessions, sess[s] = NoRow
      PROVE  sess'[s] = NoRow \/ (Opening(p) /\ s = target[p] /\ pc'[p] = "idle")
  BY SMTT(60), <1>3 DEF Writes, NoRow
<1>4. LoginInv'
  <2>1. ASSUME NEW q \in Procs, Opening(q)' PROVE target'[q] <= logins' /\ sess'[target'[q]] = NoRow
    <3>1. CASE q = p BY <2>1, <3>1 DEF Own
    <3>2. CASE q # p
      <4>1. Opening(q) /\ target'[q] = target[q] BY <2>1, <3>2 DEF Local, Opening
      <4>2. target[q] \in Sessions /\ target[q] <= logins /\ sess[target[q]] = NoRow
        BY <4>1 DEF LoginInv, TargetInv, Opening
      <4>3. ~(Opening(p) /\ target[q] = target[p]) BY <3>2, <4>1 DEF LoginInv
      <4>4. sess'[target[q]] = NoRow BY <1>3, <4>2, <4>3
      <4>5. target[q] <= logins' BY SMTT(60), <1>0, <4>2
      <4> QED BY <4>1, <4>4, <4>5
    <3> QED BY <3>1, <3>2
  <2>2. ASSUME NEW q \in Procs, NEW r \in Procs, Opening(q)', Opening(r)', target'[q] = target'[r]
        PROVE  q = r
    <3>1. CASE q # p /\ r # p BY <2>2, <3>1 DEF Local, Opening, LoginInv
    <3>2. CASE q = p /\ r # p BY <2>2, <3>2 DEF Local, Opening, Own
    <3>3. CASE q # p /\ r = p BY <2>2, <3>3 DEF Local, Opening, Own
    <3> QED BY <3>1, <3>2, <3>3
  <2>3. ASSUME NEW s \in Sessions, s > logins' PROVE sess'[s] = NoRow
    <3>1. s > logins BY SMTT(60), <1>0, <2>3
    <3>2. sess[s] = NoRow BY <3>1 DEF LoginInv
    <3>3. Opening(p) => s # target[p] BY SMTT(60), <1>0, <3>1 DEF LoginInv
    <3> QED BY <1>3, <3>2, <3>3
  <2> QED BY <2>1, <2>2, <2>3 DEF LoginInv
<1>5. \A s \in Sessions :
          \/ sess'[s].rt = sess[s].rt
          \/ sess'[s].rt = id[p] /\ pc[p] # "idle" /\ pc'[p] = "idle"
  BY RefreshTokenOf DEF Types
<1>6. IdInv'
  <2>1. ASSUME NEW q \in Procs, pc'[q] # "idle"
        PROVE  0 < id'[q] /\ id'[q] <= reqs' /\ \A s \in Sessions : sess'[s].rt # id'[q]
    <3>1. CASE q = p BY <2>1, <3>1 DEF Own
    <3>2. CASE q # p
      <4>1. pc[q] # "idle" /\ id'[q] = id[q] BY <2>1, <3>2 DEF Local
      <4>2. 0 < id[q] /\ id[q] <= reqs /\ \A s \in Sessions : sess[s].rt # id[q] BY <4>1 DEF IdInv
      <4>3. pc[p] # "idle" => id[p] # id[q] BY <3>2, <4>1 DEF IdInv
      <4>4. \A s \in Sessions : sess'[s].rt # id[q] BY <1>5, <4>2, <4>3
      <4>5. id[q] <= reqs' BY SMTT(60), <1>0, <4>2
      <4> QED BY <4>1, <4>2, <4>4, <4>5
    <3> QED BY <3>1, <3>2
  <2>2. ASSUME NEW q \in Procs, NEW r \in Procs, pc'[q] # "idle", pc'[r] # "idle", id'[q] = id'[r]
        PROVE  q = r
    <3>1. CASE q # p /\ r # p BY <2>2, <3>1 DEF Local, IdInv
    <3>2. CASE q = p /\ r # p BY <2>2, <3>2 DEF Local, Own
    <3>3. CASE q # p /\ r = p BY <2>2, <3>3 DEF Local, Own
    <3> QED BY <3>1, <3>2, <3>3
  <2>3. ASSUME NEW s \in Sessions PROVE sess'[s].rt <= reqs'
    <3>1. sess[s].rt <= reqs /\ (pc[p] # "idle" => id[p] <= reqs) BY DEF IdInv
    <3> QED BY SMTT(60), <1>0, <1>5, <3>1
  <2> QED BY <2>1, <2>2, <2>3 DEF IdInv
<1>7. UserInv'
  <2> SUFFICES ASSUME NEW q \in Procs
               PROVE  /\ op'[q] \in {"ResetPassword", "DeleteUser"} /\ pc'[q] \in Writing => <<q, "update">> \in ulocks'
                      /\ op'[q] = "ChangePassword" /\ pc'[q] \in Writing => <<q, "nokey">> \in ulocks'
                      /\ op'[q] = "RefreshAccessToken" /\ pc'[q] = "commit" => <<q, "update">> \in ulocks' /\ ~deleted'
    BY DEF UserInv
  <2>1. CASE q = p BY <2>1 DEF Own
  <2>2. CASE q # p
    <3>1. op'[q] = op[q] /\ pc'[q] = pc[q] BY <2>2 DEF Local
    <3>2. \A m \in Modes : <<q, m>> \in ulocks' <=> <<q, m>> \in ulocks BY <2>2 DEF OthersLocks
    <3>3. ~(<<q, "update">> \in ulocks /\ <<p, "update">> \in ulocks) BY <2>2 DEF ExclInv, Conflict
    <3> QED BY SMTT(60), <3>1, <3>2, <3>3 DEF UserInv, Modes
  <2> QED BY <2>1, <2>2
<1> QED BY <1>1, <1>2, <1>4, <1>6, <1>7

LEMMA EndsCore ==
    ASSUME CoreInv, NEW p \in Procs, Ends(p), Types', ExclInv' PROVE CoreInv'
<1>1. Own(p) BY IdleOwn DEF Ends
<1>2. Writes(p) BY DEF Ends, Steady, Writes
<1>3. reqs \in Nat /\ logins \in Nat /\ reqs' = reqs /\ logins' = logins
  BY SMTT(60), Bounds DEF CoreInv, Types, CountTypes, Ends, countVars
<1>4. reqs <= reqs' /\ logins <= logins' BY SMTT(60), <1>3
<1> QED BY <1>1, <1>2, <1>4, CoreStep DEF Ends, Steady

LEMMA ArrivesCore ==
    ASSUME CoreInv, NEW p \in Procs, Arrives(p), Types', ExclInv' PROVE CoreInv'
<1> USE DEF Arrives
<1>1. OthersLocks(p) /\ Writes(p) BY DEF OthersLocks, lockVars, Writes, Steady
<1>2. reqs \in Nat /\ logins \in Nat /\ logins' \in {logins, logins + 1} /\ reqs' = reqs + 1 /\ id'[p] = reqs + 1
  BY SMTT(60), Bounds DEF CoreInv, Types, CountTypes
<1>3. reqs <= reqs' /\ logins <= logins' /\ 0 < id'[p] /\ id'[p] <= reqs' BY SMTT(60), <1>2
<1>4. ~HoldsSession(p)' BY DEF HoldsSession, EndsOne
<1>5. Own(p)
  <2>1. \A s \in Sessions : sess'[s].rt # id'[p]
    <3>1. \A s \in Sessions : sess[s].rt \in Nat /\ sess[s].rt <= reqs
      BY Bounds DEF CoreInv, Types, RowTypes, SessionRow, IdInv
    <3> QED BY SMTT(60), <1>2, <3>1 DEF Steady
  <2>2. \A q \in Procs : q # p /\ pc[q] # "idle" => id[q] # id'[p]
    <3>1. \A q \in Procs : id[q] \in Nat /\ (pc[q] # "idle" => id[q] <= reqs)
      BY Bounds DEF CoreInv, Types, ReqTypes, IdInv
    <3> QED BY SMTT(60), <1>2, <3>1
  <2>3. ASSUME Opening(p)'
        PROVE  /\ target'[p] <= logins' /\ sess'[target'[p]] = NoRow
               /\ \A q \in Procs : q # p /\ Opening(q) => target[q] # target'[p]
    <3>1. target'[p] = logins + 1 /\ logins + 1 \in Sessions /\ logins' = logins + 1
      BY <2>3 DEF Opening, EndsOne
    <3>2. target'[p] <= logins' /\ logins + 1 > logins BY SMTT(60), <1>2, <3>1
    <3>3. sess'[logins + 1] = NoRow BY <3>1, <3>2 DEF CoreInv, LoginInv, Steady
    <3>4. \A q \in Procs : Opening(q) => target[q] \in Nat /\ target[q] <= logins
      BY DEF CoreInv, LoginInv, Types, ReqTypes
    <3> QED BY SMTT(60), <1>2, <3>1, <3>2, <3>3, <3>4
  <2>4. /\ op'[p] \in {"Login", "RefreshAccessToken"} \cup EndsOne => target'[p] \in Sessions
        /\ op'[p] \in {"ResetPassword", "RecoverPassword"} => target'[p] \in RecTokens
    BY DEF EndsOne
  <2>5. /\ op'[p] \in {"ResetPassword", "DeleteUser", "ChangePassword"} => pc'[p] \notin Writing
        /\ op'[p] = "RefreshAccessToken" => pc'[p] # "commit"
    BY DEF Writing, EndsOne
  <2> QED BY <1>3, <1>4, <2>1, <2>2, <2>3, <2>4, <2>5 DEF Own
<1> QED BY <1>1, <1>3, <1>5, CoreStep DEF Steady

LEMMA AdvancesCore ==
    ASSUME CoreInv, NEW p \in Procs, Advances(p), Gains(p), Types', ExclInv' PROVE CoreInv'
<1> USE DEF Advances
<1>1. Writes(p) BY DEF Writes, Steady
<1>2. reqs \in Nat /\ logins \in Nat /\ reqs' = reqs /\ logins' = logins
  BY SMTT(60), Bounds DEF CoreInv, Types, CountTypes, countVars
<1>3. reqs <= reqs' /\ logins <= logins' BY SMTT(60), <1>2
<1>4. pc[p] # "idle" BY DEF InTx
<1>5. Own(p)
  <2>1. /\ op'[p] \in {"Login", "RefreshAccessToken"} \cup EndsOne => target'[p] \in Sessions
        /\ op'[p] \in {"ResetPassword", "RecoverPassword"} => target'[p] \in RecTokens
    BY <1>4 DEF CoreInv, TargetInv, Same
  <2>2. ASSUME HoldsSession(p)'
        PROVE  /\ slock'[target'[p]] = p
               /\ row'[p] = sess'[target'[p]] /\ row'[p].st = "live"
               /\ op'[p] = "RefreshAccessToken" => row'[p].rt = arg'[p]
    <3>1. target[p] \in Sessions /\ op[p] \in {"RefreshAccessToken"} \cup EndsOne
      BY <2>1, <2>2 DEF HoldsSession, Same
    <3>2. \/ /\ slock'[target[p]] = p /\ row'[p] = sess[target[p]] /\ row'[p].st = "live"
             /\ op[p] = "RefreshAccessToken" => row'[p].rt = arg[p]
          \/ HoldsSession(p) /\ row'[p] = row[p]
      BY <2>2, <3>1 DEF Gains, At, HoldsSession, Same, EndsOne, Wipes
    <3>3. HoldsSession(p) =>
             /\ slock[target[p]] = p /\ row[p] = sess[target[p]] /\ row[p].st = "live"
             /\ op[p] = "RefreshAccessToken" => row[p].rt = arg[p]
      BY DEF CoreInv, SessionInv
    <3> QED BY <3>1, <3>2, <3>3 DEF Same, Steady, KeepsLocks
  <2>3. Opening(p)' => Opening(p) BY <1>4 DEF Opening, Same
  <2>4. Opening(p) =>
           /\ target'[p] <= logins' /\ sess'[target'[p]] = NoRow
           /\ \A q \in Procs : q # p /\ Opening(q) => target[q] # target'[p]
    BY <1>2 DEF CoreInv, LoginInv, Same, Steady
  <2>5. /\ 0 < id'[p] /\ id'[p] <= reqs'
        /\ \A s \in Sessions : sess'[s].rt # id'[p]
        /\ \A q \in Procs : q # p /\ pc[q] # "idle" => id[q] # id'[p]
    BY <1>2, <1>4 DEF CoreInv, IdInv, Same, Steady
  <2>6. /\ op'[p] \in {"ResetPassword", "DeleteUser"} /\ pc'[p] \in Writing => <<p, "update">> \in ulocks'
        /\ op'[p] = "ChangePassword" /\ pc'[p] \in Writing => <<p, "nokey">> \in ulocks'
    <3>1. /\ op[p] \in {"ResetPassword", "DeleteUser"} /\ pc[p] \in Writing => <<p, "update">> \in ulocks'
          /\ op[p] = "ChangePassword" /\ pc[p] \in Writing => <<p, "nokey">> \in ulocks'
      BY DEF CoreInv, UserInv, KeepsLocks, Modes
    <3> QED BY <3>1 DEF Gains, At, Same, Writing, EndsOne
  <2>7. op'[p] = "RefreshAccessToken" /\ pc'[p] = "commit" => <<p, "update">> \in ulocks' /\ ~deleted'
    BY DEF Gains, At, Same, EndsOne, Wipes, Steady
  <2> QED BY <2>1, <2>2, <2>3, <2>4, <2>5, <2>6, <2>7 DEF Own
<1> QED BY <1>1, <1>3, <1>5, CoreStep DEF Steady

\* A commit that goes on to the marker or the mail.
LEMMA CommitOwn ==
    ASSUME CoreInv, NEW p \in Procs, Commits(p), op[p] \in EndsOne \cup Wipes \cup {"RecoverPassword"},
           \A s \in Sessions : sess'[s].rt = sess[s].rt
    PROVE  Own(p)
<1> USE DEF Commits
<1>1. CASE pc'[p] = "idle" BY <1>1, IdleOwn
<1>2. CASE pc'[p] \in {"mark", "produce"} /\ Same(p)
  <2>1. pc[p] # "idle" /\ ~HoldsSession(p)' /\ pc'[p] \notin Writing /\ reqs' = reqs
    BY <1>2 DEF HoldsSession, Writing, countVars
  <2>2. ~Opening(p)' BY <1>2 DEF Opening, Same, EndsOne, Wipes
  <2>3. /\ op'[p] \in {"Login", "RefreshAccessToken"} \cup EndsOne => target'[p] \in Sessions
        /\ op'[p] \in {"ResetPassword", "RecoverPassword"} => target'[p] \in RecTokens
    BY <1>2, <2>1 DEF CoreInv, TargetInv, Same
  <2>4. /\ 0 < id'[p] /\ id'[p] <= reqs'
        /\ \A s \in Sessions : sess'[s].rt # id'[p]
        /\ \A q \in Procs : q # p /\ pc[q] # "idle" => id[q] # id'[p]
    BY <1>2, <2>1 DEF CoreInv, IdInv, Same
  <2> QED BY <1>2, <2>1, <2>2, <2>3, <2>4 DEF Own, Writing
<1> QED BY <1>1, <1>2

Commit(p, told) ==
    \/ LoginCommit(p, told) \/ RefreshCommit(p, told) \/ EndCommit(p, told)
    \/ WipeCommit(p, told) \/ RecoverCommit(p, told)

\* What a COMMIT does to the rows.
LEMMA CommitFacts ==
    ASSUME CoreInv, NEW p \in Procs, NEW told \in BOOLEAN, Commit(p, told)
    PROVE  /\ Commits(p) /\ Types' /\ ExclInv' /\ Writes(p) /\ Own(p)
           /\ deleted' = deleted \/ <<p, "update">> \in ulocks
<1>1. CASE LoginCommit(p, told)
  <2>1. Commits(p) /\ Types' /\ ExclInv' /\ pc'[p] = "idle" /\ op'[p] = "Login" BY <1>1, LoginCommitFacts
  <2>2. Opening(p) BY <1>1 DEF LoginCommit, At, Opening
  <2>3. Writes(p) BY <1>1, <2>1, <2>2 DEF LoginCommit, Writes, CoreInv, Types, RowTypes
  <2> QED BY <1>1, <2>1, <2>3, IdleOwn DEF LoginCommit
<1>2. CASE RefreshCommit(p, told)
  <2>1. /\ Commits(p) /\ Types' /\ ExclInv' /\ pc'[p] = "idle" /\ op'[p] = "Login"
        /\ target[p] \in Sessions /\ slock[target[p]] = p /\ sess[target[p]].st = "live"
        /\ sess' = [sess EXCEPT ![target[p]] = Rotate(@, id[p])]
    BY SMTT(60), <1>2, RefreshCommitFacts
  <2>2. Writes(p) BY <2>1 DEF Writes, CoreInv, Types, RowTypes, Commits
  <2> QED BY <1>2, <2>1, <2>2, IdleOwn DEF RefreshCommit
<1>3. CASE EndCommit(p, told)
  <2>1. /\ Commits(p) /\ Types' /\ ExclInv'
        /\ target[p] \in Sessions /\ slock[target[p]] = p /\ sess[target[p]].st = "live"
        /\ sess' = [sess EXCEPT ![target[p]] = Revoke(@)]
    BY <1>3, EndCommitFacts
  <2>2. Writes(p) BY <2>1 DEF Writes, CoreInv, Types, RowTypes
  <2>3. \A s \in Sessions : sess'[s].rt = sess[s].rt
    BY <2>1 DEF CoreInv, Types, RowTypes, SessionRow, Revoke
  <2>4. Own(p) BY <1>3, <2>1, <2>3, CommitOwn DEF EndCommit, At
  <2> QED BY <1>3, <2>1, <2>2, <2>4 DEF EndCommit
<1>4. CASE WipeCommit(p, told)
  <2>1. Commits(p) /\ Types' /\ ExclInv' /\ (deleted' = deleted \/ <<p, "update">> \in ulocks)
    BY <1>4, WipeCommitFacts
  <2>2. sess' = [s \in Sessions |-> IF RevokedBy(p, s) THEN Revoke(sess[s]) ELSE sess[s]]
    BY <1>4 DEF WipeCommit
  <2>3. Writes(p) BY <2>2 DEF Writes, RevokedBy
  <2>4. \A s \in Sessions : sess'[s].rt = sess[s].rt
    BY <2>2 DEF CoreInv, Types, RowTypes, SessionRow, Revoke
  <2>5. Own(p) BY <1>4, <2>1, <2>4, CommitOwn DEF WipeCommit, At
  <2> QED BY <2>1, <2>3, <2>5
<1>5. CASE RecoverCommit(p, told)
  <2>1. Commits(p) /\ Types' /\ ExclInv' BY <1>5, RecoverCommitFacts
  <2>2. UNCHANGED <<sess, deleted>> BY <1>5 DEF RecoverCommit
  <2>3. Writes(p) BY <2>2 DEF Writes
  <2>4. Own(p) BY <1>5, <2>1, <2>2, CommitOwn DEF RecoverCommit, At
  <2> QED BY <2>1, <2>2, <2>3, <2>4
<1> QED BY <1>1, <1>2, <1>3, <1>4, <1>5 DEF Commit

LEMMA CommitCore ==
    ASSUME CoreInv, NEW p \in Procs, NEW told \in BOOLEAN, Commit(p, told) PROVE CoreInv'
<1>1. reqs \in Nat /\ logins \in Nat BY SMTT(60), Bounds DEF CoreInv, Types, CountTypes
<1>2. reqs' = reqs /\ logins' = logins BY CommitFacts DEF Commits, countVars
<1>3. reqs <= reqs' /\ logins <= logins' BY SMTT(60), <1>1, <1>2
<1> QED BY <1>3, CommitFacts, CoreStep DEF Commits

-----------------------------------------------------------------------------
(* Every step is in one of the classes *)

Idles == UNCHANGED vars \/ Clock

LEMMA IdleFacts ==
    ASSUME Idles
    PROVE  UNCHANGED <<pw, deleted, sess, rtok, lockVars, reqVars, countVars, smark, killed, clientVars, histVars>>
  BY DEF Idles, Clock, SessionExpires, TokenExpires, ThrottleExpires, vars, rowVars, redisVars

LEMMA StepClasses ==
    ASSUME [Next]_vars
    PROVE  \/ Idles
           \/ \E p \in Procs : \/ Arrive(p) \/ Statement(p) \/ Follows(p) \/ (Rollback(p) /\ pc[p] \in InTx)
                               \/ \E told \in BOOLEAN : Commit(p, told)
<1>1. ASSUME NEW p \in Procs, Step(p)
      PROVE  Statement(p) \/ Follows(p) \/ \E told \in BOOLEAN : Commit(p, told)
  BY <1>1 DEF Step, Statement, Follows, Commit
<1>2. ASSUME NEW p \in Procs, Fail(p) \/ DeadlockAbort(p) PROVE Rollback(p) /\ pc[p] \in InTx
  BY <1>2 DEF Fail, DeadlockAbort
<1> QED BY <1>1, <1>2 DEF Next, Idles, Follows

LEMMA InitCore == Init => CoreInv
<1> SUFFICES ASSUME Init PROVE CoreInv OBVIOUS
<1> USE Bounds DEF Init
<1>1. RowTypes /\ LockTypes BY DEF RowTypes, LockTypes
<1>2. ReqTypes BY DEF ReqTypes, PC, AllOps
<1>3. CountTypes /\ HistTypes BY SMT DEF CountTypes, HistTypes
<1>4. TargetInv /\ ExclInv /\ SessionInv BY DEF TargetInv, ExclInv, SessionInv, HoldsSession
<1>5. LoginInv /\ UserInv BY DEF LoginInv, Opening, UserInv, Writing
<1>6. IdInv BY SMT DEF IdInv, NoRow
<1> QED BY <1>1, <1>2, <1>3, <1>4, <1>5, <1>6 DEF CoreInv, Types

LEMMA IdleCore == ASSUME CoreInv, Idles PROVE CoreInv'
<1> USE IdleFacts DEF CoreInv, lockVars, reqVars, countVars, histVars
<1>1. RowTypes' /\ LockTypes' BY DEF Types, RowTypes, LockTypes
<1>2. ReqTypes' BY DEF Types, ReqTypes
<1>3. CountTypes' /\ HistTypes' BY DEF Types, CountTypes, HistTypes
<1>4. TargetInv' /\ ExclInv' BY DEF TargetInv, ExclInv
<1>5. SessionInv' BY DEF SessionInv, HoldsSession
<1>6. LoginInv' BY DEF LoginInv, Opening
<1>7. IdInv' BY DEF IdInv
<1>8. UserInv' BY DEF UserInv
<1> QED BY <1>1, <1>2, <1>3, <1>4, <1>5, <1>6, <1>7, <1>8 DEF Types

LEMMA NextCore == CoreInv /\ [Next]_vars => CoreInv'
<1> SUFFICES ASSUME CoreInv, [Next]_vars PROVE CoreInv' OBVIOUS
<1>1. CASE Idles BY <1>1, IdleCore
<1>2. ASSUME NEW p \in Procs, Arrive(p) PROVE CoreInv' BY <1>2, ArriveFacts, ArrivesCore
<1>3. ASSUME NEW p \in Procs, Statement(p) PROVE CoreInv'
  BY <1>3, StatementFacts, EndsCore, AdvancesCore
<1>4. ASSUME NEW p \in Procs, Follows(p) PROVE CoreInv' BY <1>4, FollowFacts, EndsCore
<1>5. ASSUME NEW p \in Procs, Rollback(p) PROVE CoreInv' BY <1>5, RollbackFacts, EndsCore
<1>6. ASSUME NEW p \in Procs, NEW told \in BOOLEAN, Commit(p, told) PROVE CoreInv'
  BY <1>6, CommitCore
<1> QED BY <1>1, <1>2, <1>3, <1>4, <1>5, <1>6, StepClasses

\* The invariant about sessions, the user row and request numbers.
LEMMA CoreInvariant == Spec => []CoreInv
  BY InitCore, NextCore, PTL DEF Spec

\* From here on only CoreInv matters, and what a step does to the rows:
LEMMA StepFacts ==
    ASSUME CoreInv, [Next]_vars
    PROVE  \/ Idles
           \/ \E p \in Procs :
                 /\ Types'
                 /\ \/ Arrives(p) \/ Ends(p) \/ (Advances(p) /\ Gains(p))
                    \/ Commits(p) /\ Writes(p) /\ \E told \in BOOLEAN : Commit(p, told)
  BY StepClasses, ArriveFacts, StatementFacts, FollowFacts, RollbackFacts, CommitFacts

-----------------------------------------------------------------------------
(* Theorems about sessions *)

\* Every transaction acts on the account as one operation of AccountSpec: Login
\* as Open, RefreshAccessToken as Rotate, Logout and RevokeSession as End, the
\* methods that revoke all sessions as Wipe, and everything else as no step.
THEOREM ServiceImplementsAccount == Spec => ImplementsAccount
<1>1. Init => Account!AccountInit
  BY SMT DEF Init, Account!AccountInit, NoRow
<1>2. CoreInv /\ [Next]_vars => [Account!AccountNext]_(Account!account)
  <2> SUFFICES ASSUME CoreInv, [Next]_vars, ~UNCHANGED <<pw, deleted, sess>> PROVE Account!AccountNext
    BY DEF Account!account
  <2>1. PICK p \in Procs, told \in BOOLEAN : Commit(p, told)
    BY StepFacts, IdleFacts DEF Arrives, Ends, Advances, Steady
  <2>2. /\ sess \in [Sessions -> SessionRow] /\ id[p] \in Made /\ pw \in Made /\ deleted \in BOOLEAN
        /\ pc[p] # "idle"
    BY <2>1, CommitFacts DEF CoreInv, Types, RowTypes, ReqTypes, Commits
  <2>3. Account!Fresh(id[p]) BY <2>2 DEF Account!Fresh, CoreInv, IdInv
  <2>4. CASE LoginCommit(p, told)
    <3> DEFINE s == target[p]
    <3>1. s \in Sessions /\ sess[s] = NoRow /\ sess' = [sess EXCEPT ![s] = NewSession(id[p], known[p])]
          /\ UNCHANGED <<pw, deleted>>
      BY <2>4 DEF LoginCommit, At, CoreInv, TargetInv, LoginInv, Opening
    <3>2. Account!Open(s, id[p]) BY SMTT(60), <2>2, <2>3, <3>1 DEF Account!Open, NoRow, NewSession, SessionRow
    <3> QED BY <2>2, <3>1, <3>2 DEF Account!AccountNext, Account!Open, Account!Fresh
  <2>5. CASE RefreshCommit(p, told)
    <3> DEFINE s == target[p]
    <3>1. /\ s \in Sessions /\ sess[s].st = "live" /\ ~deleted /\ UNCHANGED <<pw, deleted>>
          /\ sess' = [sess EXCEPT ![s] = Rotate(@, id[p])]
      BY <2>5, RefreshCommitFacts DEF RefreshCommit
    <3>2. Account!Rotate(s, id[p]) BY <2>2, <2>3, <3>1 DEF Account!Rotate, Rotate, SessionRow
    <3> QED BY <2>2, <3>1, <3>2 DEF Account!AccountNext, Account!Rotate, Account!Fresh
  <2>6. CASE EndCommit(p, told)
    <3> DEFINE s == target[p]
    <3>1. /\ s \in Sessions /\ sess[s].st = "live" /\ UNCHANGED <<pw, deleted>>
          /\ sess' = [sess EXCEPT ![s] = Revoke(@)]
      BY <2>6, EndCommitFacts DEF EndCommit
    <3>2. Account!End(s) BY <2>2, <3>1 DEF Account!End, Revoke, SessionRow
    <3> QED BY <3>1, <3>2 DEF Account!AccountNext, Account!End
  <2>7. CASE WipeCommit(p, told)
    <3> DEFINE S == {s \in Sessions : RevokedBy(p, s)}
    <3>1. sess' = [s \in Sessions |-> IF RevokedBy(p, s) THEN Revoke(sess[s]) ELSE sess[s]]
      BY <2>7 DEF WipeCommit
    <3>2. pw' \in Made \cup {pw} /\ deleted' \in BOOLEAN /\ (deleted => deleted')
      BY <2>2, <2>7 DEF WipeCommit
    <3>3. Account!Wipe(S) BY <2>2, <3>1, <3>2 DEF Account!Wipe, RevokedBy, Revoke, SessionRow
    <3> QED BY <3>3 DEF Account!AccountNext, Account!Wipe
  <2>8. CASE RecoverCommit(p, told) BY <2>8 DEF RecoverCommit
  <2> QED BY <2>1, <2>4, <2>5, <2>6, <2>7, <2>8 DEF Commit
<1> QED BY <1>1, <1>2, CoreInvariant, PTL DEF Spec, ImplementsAccount, Account!AccountSpec

\* The rows of revoked sessions change no more.
LEMMA RevokedStep == ASSUME CoreInv, [Next]_vars PROVE RevokedStays
<1> SUFFICES ASSUME NEW s \in Sessions, sess[s].st = "revoked" PROVE sess'[s].st = "revoked"
  BY DEF RevokedStays
<1>1. CASE sess'[s] = sess[s] BY <1>1
<1>2. CASE sess'[s] # sess[s]
  <2>1. PICK p \in Procs : Writes(p)
    BY <1>2, StepFacts, IdleFacts DEF Arrives, Ends, Advances, Steady
  <2>2. Opening(p) /\ s = target[p] BY <1>2, <2>1 DEF Writes
  <2> QED BY SMTT(60), <2>2 DEF CoreInv, LoginInv, NoRow
<1> QED BY <1>1, <1>2

\* Once a session is revoked no step makes it live again, although Logout,
\* RevokeSession and RefreshAccessToken write back the whole row they read
\* (UpdateSession).
THEOREM RevokedStaysRevoked == Spec => RevokedForever
<1>1. CoreInv /\ [Next]_vars => [RevokedStays]_vars BY RevokedStep
<1> QED BY <1>1, CoreInvariant, PTL DEF Spec, RevokedForever

\* No refresh commits after the account's deletion has (RefreshAccessToken
\* reads the user under a lock it holds until it commits).
THEOREM NoRefreshOnceDeleted == Spec => NoRefreshAfterDelete
<1>1. CoreInv /\ [Next]_vars => [NoRefreshStep]_vars
  <2> SUFFICES ASSUME CoreInv, [Next]_vars, uses' # uses PROVE ~deleted BY DEF NoRefreshStep
  <2>1. PICK p \in Procs, told \in BOOLEAN : Commit(p, told)
    BY StepFacts, IdleFacts DEF Arrives, Ends, Advances, Steady, histVars
  <2>2. RefreshCommit(p, told)
    BY <2>1 DEF Commit, LoginCommit, EndCommit, WipeCommit, RecoverCommit, histVars
  <2> QED BY <2>2, RefreshCommitFacts
<1> QED BY <1>1, CoreInvariant, PTL DEF Spec, NoRefreshAfterDelete

\* ChangePassword, ResetPassword and DeleteUser take the user row one at a time.
THEOREM UserRowHasOneWriter == Spec => []OneWriter
<1>1. CoreInv => OneWriter
  <2> SUFFICES ASSUME CoreInv, NEW p \in Procs, NEW q \in Procs,
                      {op[p], op[q]} \subseteq Wipes \ {"RevokeUserSessions"},
                      {pc[p], pc[q]} \subseteq Writing
               PROVE  p = q
    BY DEF OneWriter, Writing
  <2>1. /\ op[p] \in {"ChangePassword", "ResetPassword", "DeleteUser"} /\ pc[p] \in Writing
        /\ op[q] \in {"ChangePassword", "ResetPassword", "DeleteUser"} /\ pc[q] \in Writing
    BY DEF Wipes, Changes
  <2>2. PICK m \in {"update", "nokey"}, n \in {"update", "nokey"} :
            <<p, m>> \in ulocks /\ <<q, n>> \in ulocks
    BY <2>1 DEF CoreInv, UserInv
  <2>3. Conflict(m, n) BY DEF Conflict
  <2> QED BY <2>2, <2>3 DEF CoreInv, ExclInv
<1> QED BY <1>1, CoreInvariant, PTL

-----------------------------------------------------------------------------
(* Refresh tokens *)

LEMMA UsesStep ==
    ASSUME CoreInv, UsesInv, NEW p \in Procs, Local(p), Writes(p), uses' = uses, reqs <= reqs', reqs' \in Nat,
           pc'[p] # "idle" => (pc[p] # "idle" /\ id'[p] = id[p]) \/ id'[p] = reqs + 1
    PROVE  UsesInv'
<1> SUFFICES ASSUME NEW s \in Sessions, NEW g \in Made, uses[s][g] # 0
             PROVE  /\ uses[s][g] = 1 /\ g <= reqs' /\ sess'[s].rt # g
                    /\ \A q \in Procs : pc'[q] # "idle" => id'[q] # g
  BY DEF UsesInv
<1>1. uses[s][g] = 1 /\ g <= reqs /\ sess[s].rt # g /\ \A q \in Procs : pc[q] # "idle" => id[q] # g
  BY DEF UsesInv
<1>2. g \in Nat /\ reqs \in Nat BY Bounds DEF CoreInv, Types, CountTypes
<1>3. g <= reqs' /\ reqs + 1 # g BY SMTT(60), <1>1, <1>2
<1>4. sess'[s].rt # g BY <1>1, RefreshTokenOf DEF CoreInv, Types
<1>5. ASSUME NEW q \in Procs, pc'[q] # "idle" PROVE id'[q] # g
  BY <1>1, <1>3, <1>5 DEF Local
<1> QED BY <1>1, <1>3, <1>4, <1>5

LEMMA NextUses == CoreInv /\ UsesInv /\ [Next]_vars => UsesInv'
<1> SUFFICES ASSUME CoreInv, UsesInv, [Next]_vars PROVE UsesInv' OBVIOUS
<1>1. CASE Idles BY SMTT(60), <1>1, IdleFacts DEF UsesInv, reqVars, countVars, histVars
<1>2. ASSUME NEW p \in Procs, Types', Arrives(p) \/ Ends(p) \/ Advances(p) PROVE UsesInv'
  <2>1. Local(p) /\ Writes(p) /\ uses' = uses BY <1>2 DEF Arrives, Ends, Advances, Steady, Writes
  <2>2. reqs \in Nat /\ reqs' \in Nat /\ reqs' \in {reqs, reqs + 1}
    BY <1>2, Bounds DEF CoreInv, Types, CountTypes, Arrives, Ends, Advances, countVars
  <2>3. reqs <= reqs' BY SMTT(60), <2>2
  <2>4. pc'[p] # "idle" => (pc[p] # "idle" /\ id'[p] = id[p]) \/ id'[p] = reqs + 1
    BY <1>2 DEF Arrives, Ends, Advances, Same, InTx
  <2> QED BY <2>1, <2>2, <2>3, <2>4, UsesStep
<1>3. ASSUME NEW p \in Procs, NEW told \in BOOLEAN, Commit(p, told) PROVE UsesInv'
  <2>1. Commits(p) /\ Writes(p) BY <1>3, CommitFacts
  <2>2. Local(p) /\ pc[p] # "idle" /\ reqs' = reqs /\ (pc'[p] # "idle" => id'[p] = id[p])
    BY <2>1 DEF Commits, countVars, Same
  <2>3. reqs \in Nat /\ reqs <= reqs' BY SMTT(60), <2>2, Bounds DEF CoreInv, Types, CountTypes
  <2>4. CASE uses' = uses BY <2>1, <2>2, <2>3, <2>4, UsesStep
  <2>5. CASE RefreshCommit(p, told)
    <3> DEFINE s0 == target[p]
               g0 == arg[p]
    <3>1. /\ s0 \in Sessions /\ sess[s0].rt = g0 /\ g0 \in Made /\ pc'[p] = "idle"
          /\ sess' = [sess EXCEPT ![s0] = Rotate(@, id[p])] /\ sess[s0] \in SessionRow
      BY SMTT(60), <2>5, RefreshCommitFacts DEF CoreInv, Types, RowTypes, ReqTypes
    <3>2. sess'[s0].rt = id[p] /\ id[p] # g0 /\ g0 <= reqs
          /\ \A q \in Procs : pc[q] # "idle" => id[q] # g0
      BY <2>2, <3>1 DEF Rotate, SessionRow, CoreInv, IdInv, Types, RowTypes
    <3>3. uses[s0][g0] = 0 BY <3>1 DEF UsesInv
    <3>4. uses' = [uses EXCEPT ![s0][g0] = @ + 1] BY <2>5 DEF RefreshCommit
    <3>5. ASSUME NEW s \in Sessions, NEW g \in Made
          PROVE  uses'[s][g] = IF s = s0 /\ g = g0 THEN 1 ELSE uses[s][g]
      BY SMTT(60), <3>1, <3>3, <3>4 DEF CoreInv, Types, HistTypes
    <3>6. \A s \in Sessions : sess'[s].rt = sess[s].rt \/ sess'[s].rt = id[p]
      BY <2>1, RefreshTokenOf DEF CoreInv, Types
    <3>7. ASSUME NEW s \in Sessions, NEW g \in Made, uses'[s][g] # 0
          PROVE  /\ uses'[s][g] = 1 /\ g <= reqs' /\ sess'[s].rt # g
                 /\ \A q \in Procs : pc'[q] # "idle" => id'[q] # g
      <4>1. CASE s = s0 /\ g = g0 BY <2>2, <3>1, <3>2, <3>5, <4>1 DEF Local
      <4>2. CASE ~(s = s0 /\ g = g0)
        <5>1. uses[s][g] # 0 /\ uses'[s][g] = uses[s][g] BY <3>5, <3>7, <4>2
        <5>2. uses[s][g] = 1 /\ g <= reqs /\ sess[s].rt # g /\ \A q \in Procs : pc[q] # "idle" => id[q] # g
          BY <5>1 DEF UsesInv
        <5> QED BY <2>2, <3>1, <3>6, <5>1, <5>2 DEF Local
      <4> QED BY <4>1, <4>2
    <3> QED BY <3>7 DEF UsesInv
  <2> QED BY <1>3, <2>4, <2>5 DEF Commit, LoginCommit, EndCommit, WipeCommit, RecoverCommit, histVars
<1> QED BY <1>1, <1>2, <1>3, StepFacts

\* A refresh token is exchanged at most once, however many requests present it
\* (RefreshAccessToken and Rotate under the row lock).
THEOREM RefreshTokenUsedOnce == Spec => []RefreshOnce
<1>1. Init => UsesInv BY SMT DEF Init, UsesInv
<1>2. CoreInv /\ UsesInv => RefreshOnce
  <2> SUFFICES ASSUME CoreInv, UsesInv, NEW s \in Sessions, NEW g \in Made PROVE uses[s][g] <= 1
    BY DEF RefreshOnce
  <2> QED BY SMT DEF UsesInv, CoreInv, Types, HistTypes
<1> QED BY <1>1, <1>2, NextUses, CoreInvariant, PTL DEF Spec

-----------------------------------------------------------------------------
(* Recovery tokens *)

\* What a step may do to the recovery tokens: nothing, or use a live one that it
\* holds, or store the one that its request made.
TokenWrites(p) ==
    \A t \in RecTokens :
        \/ rtok'[t] = rtok[t] /\ resets'[t] = resets[t]
        \/ /\ tlock[t] = p /\ rtok[t] = "live" /\ rtok'[t] = "used" /\ resets'[t] = resets[t] + 1
        \/ /\ op[p] = "RecoverPassword" /\ pc[p] = "commit" /\ t = target[p]
           /\ rtok'[t] = "live" /\ resets'[t] = resets[t]

OwnToken(p) ==
    /\ op'[p] = "ResetPassword" /\ pc'[p] \in {"lock_user"} \cup Writing =>
          tlock'[target'[p]] = p /\ rtok'[target'[p]] = "live"
    /\ op'[p] = "RecoverPassword" /\ pc'[p] # "idle" =>
          /\ target'[p] <= recoveries'
          /\ pc'[p] \in {"lock_user", "commit"} => rtok'[target'[p]] = "none"
          /\ \A q \in Procs : q # p /\ op[q] = "RecoverPassword" /\ pc[q] # "idle" => target[q] # target'[p]

LEMMA ResetStep ==
    ASSUME CoreInv, ResetInv, NEW p \in Procs, Local(p), OthersLocks(p), TokenWrites(p), OwnToken(p),
           recoveries <= recoveries', recoveries' \in Nat
    PROVE  ResetInv'
<1>0. /\ recoveries \in Nat /\ \A t \in RecTokens : t \in Nat /\ resets[t] \in Nat
      /\ \A q \in Procs : target[q] \in Nat
  BY SMTT(60), Bounds DEF CoreInv, Types, CountTypes, HistTypes, ReqTypes
<1>1. ASSUME NEW q \in Procs, op'[q] = "ResetPassword", pc'[q] \in {"lock_user"} \cup Writing
      PROVE  tlock'[target'[q]] = q /\ rtok'[target'[q]] = "live"
  <2>1. CASE q = p BY <1>1, <2>1 DEF OwnToken
  <2>2. CASE q # p
    <3>1. op[q] = "ResetPassword" /\ pc[q] \in {"lock_user"} \cup Writing /\ target'[q] = target[q]
      BY <1>1, <2>2 DEF Local
    <3>2. tlock[target[q]] = q /\ rtok[target[q]] = "live" BY <3>1 DEF ResetInv
    <3>3. target[q] \in RecTokens BY <3>1 DEF CoreInv, TargetInv, Writing
    <3>4. tlock'[target[q]] = q BY <2>2, <3>2, <3>3 DEF OthersLocks
    <3>5. rtok'[target[q]] = "live" BY <2>2, <3>2, <3>3 DEF TokenWrites
    <3> QED BY <3>1, <3>4, <3>5
  <2> QED BY <2>1, <2>2
<1>2. ASSUME NEW q \in Procs, op'[q] = "RecoverPassword", pc'[q] # "idle"
      PROVE  /\ target'[q] <= recoveries'
             /\ pc'[q] \in {"lock_user", "commit"} => rtok'[target'[q]] = "none"
  <2>1. CASE q = p BY <1>2, <2>1 DEF OwnToken
  <2>2. CASE q # p
    <3>1. op[q] = "RecoverPassword" /\ pc[q] # "idle" /\ target'[q] = target[q] /\ pc'[q] = pc[q]
      BY <1>2, <2>2 DEF Local
    <3>2. /\ target[q] \in RecTokens /\ target[q] <= recoveries
          /\ pc[q] \in {"lock_user", "commit"} => rtok[target[q]] = "none"
      BY <3>1 DEF CoreInv, TargetInv, ResetInv
    <3>3. ~(op[p] = "RecoverPassword" /\ pc[p] = "commit" /\ target[q] = target[p])
      BY <2>2, <3>1 DEF ResetInv
    <3>4. pc[q] \in {"lock_user", "commit"} => rtok'[target[q]] = "none"
      BY <3>2, <3>3 DEF TokenWrites
    <3>5. target[q] <= recoveries' BY SMTT(60), <1>0, <3>2
    <3> QED BY <3>1, <3>4, <3>5
  <2> QED BY <2>1, <2>2
<1>3. ASSUME NEW q \in Procs, NEW r \in Procs, op'[q] = "RecoverPassword", op'[r] = "RecoverPassword",
             pc'[q] # "idle", pc'[r] # "idle", target'[q] = target'[r]
      PROVE  q = r
  <2>1. CASE q # p /\ r # p BY SMTT(60), <1>3, <2>1 DEF Local, ResetInv
  <2>2. CASE q = p /\ r # p BY <1>3, <2>2 DEF Local, OwnToken
  <2>3. CASE q # p /\ r = p BY <1>3, <2>3 DEF Local, OwnToken
  <2> QED BY <2>1, <2>2, <2>3
<1>4. ASSUME NEW t \in RecTokens
      PROVE  /\ t > recoveries' => rtok'[t] = "none"
             /\ resets'[t] # 0 => resets'[t] = 1 /\ rtok'[t] = "used"
  <2>1. /\ t > recoveries => rtok[t] = "none"
        /\ resets[t] # 0 => resets[t] = 1 /\ rtok[t] = "used"
    BY DEF ResetInv
  <2>2. t > recoveries' => t > recoveries BY SMTT(60), <1>0
  <2>3. CASE rtok'[t] = rtok[t] /\ resets'[t] = resets[t] BY <2>1, <2>2, <2>3
  <2>4. CASE rtok[t] = "live" /\ rtok'[t] = "used" /\ resets'[t] = resets[t] + 1
    <3>1. resets[t] = 0 /\ ~(t > recoveries') BY <2>1, <2>2, <2>4
    <3> QED BY SMTT(60), <2>4, <3>1
  <2>5. CASE op[p] = "RecoverPassword" /\ pc[p] = "commit" /\ t = target[p] /\ resets'[t] = resets[t]
    <3>1. t <= recoveries /\ rtok[t] = "none" BY <2>5 DEF ResetInv
    <3>2. resets[t] = 0 /\ ~(t > recoveries) BY SMTT(60), <1>0, <2>1, <3>1
    <3> QED BY <2>2, <2>5, <3>2
  <2> QED BY <2>3, <2>4, <2>5 DEF TokenWrites
<1> QED BY <1>1, <1>2, <1>3, <1>4 DEF ResetInv

LEMMA NextReset == CoreInv /\ ResetInv /\ [Next]_vars => ResetInv'
<1> SUFFICES ASSUME CoreInv, ResetInv, [Next]_vars PROVE ResetInv' OBVIOUS
<1>0. recoveries \in Nat BY SMTT(60), Bounds DEF CoreInv, Types, CountTypes
<1>1. CASE Idles BY SMTT(60), <1>1, IdleFacts DEF ResetInv, lockVars, reqVars, countVars, histVars
<1>2. ASSUME NEW p \in Procs, Arrives(p) PROVE ResetInv'
  <2> USE <1>2 DEF Arrives
  <2>1. Local(p) /\ OthersLocks(p) /\ TokenWrites(p) BY DEF OthersLocks, lockVars, TokenWrites, Steady
  <2>2. recoveries' \in {recoveries, recoveries + 1} OBVIOUS
  <2>3. recoveries <= recoveries' /\ recoveries' \in Nat BY SMTT(60), <1>0, <2>2
  <2>4. ~(op'[p] = "ResetPassword" /\ pc'[p] \in {"lock_user"} \cup Writing) BY DEF Writing, EndsOne
  <2>5. ASSUME op'[p] = "RecoverPassword"
        PROVE  /\ target'[p] <= recoveries' /\ rtok'[target'[p]] = "none"
               /\ \A q \in Procs : op[q] = "RecoverPassword" /\ pc[q] # "idle" => target[q] # target'[p]
    <3>1. target'[p] = recoveries + 1 /\ recoveries' = recoveries + 1 /\ recoveries + 1 \in RecTokens
      BY <2>5 DEF EndsOne
    <3>2. target'[p] <= recoveries' /\ recoveries + 1 > recoveries BY SMTT(60), <1>0, <3>1
    <3>3. rtok'[recoveries + 1] = "none" BY <3>1, <3>2 DEF ResetInv, Steady
    <3>4. \A q \in Procs : target[q] \in Nat /\
             (op[q] = "RecoverPassword" /\ pc[q] # "idle" => target[q] <= recoveries)
      BY DEF ResetInv, CoreInv, Types, ReqTypes
    <3> QED BY SMTT(60), <1>0, <3>1, <3>2, <3>3, <3>4
  <2>6. OwnToken(p) BY <2>4, <2>5 DEF OwnToken
  <2> QED BY <2>1, <2>3, <2>6, ResetStep
<1>3. ASSUME NEW p \in Procs, Ends(p) PROVE ResetInv'
  <2>1. Local(p) /\ OthersLocks(p) /\ TokenWrites(p) /\ OwnToken(p) /\ recoveries' = recoveries
    BY <1>3 DEF Ends, Steady, TokenWrites, OwnToken, countVars
  <2>2. recoveries <= recoveries' BY SMTT(60), <1>0, <2>1
  <2> QED BY <1>0, <2>1, <2>2, ResetStep
<1>4. ASSUME NEW p \in Procs, Advances(p), Gains(p) PROVE ResetInv'
  <2> USE <1>4 DEF Advances
  <2>1. Local(p) /\ OthersLocks(p) /\ TokenWrites(p) /\ recoveries' = recoveries
    BY DEF Steady, TokenWrites, countVars
  <2>2. recoveries <= recoveries' BY SMTT(60), <1>0, <2>1
  <2>3. pc[p] # "idle" BY DEF InTx
  <2>4. ASSUME op[p] = "ResetPassword", pc'[p] \in {"lock_user"} \cup Writing
        PROVE  tlock'[target[p]] = p /\ rtok[target[p]] = "live"
    <3>1. target[p] \in RecTokens BY <2>3, <2>4 DEF CoreInv, TargetInv
    <3>2. \/ tlock'[target[p]] = p /\ rtok[target[p]] = "live"
          \/ pc[p] \in {"lock_user"} \cup Writing
      BY <2>4 DEF Gains, At, Writing, EndsOne
    <3> QED BY <2>4, <3>1, <3>2 DEF ResetInv, KeepsLocks
  <2>5. ASSUME op[p] = "RecoverPassword"
        PROVE  /\ target[p] <= recoveries /\ rtok[target[p]] = "none"
               /\ \A q \in Procs : q # p /\ op[q] = "RecoverPassword" /\ pc[q] # "idle" => target[q] # target[p]
    <3>1. pc[p] = "lock_user" BY <2>5 DEF Gains, At, EndsOne, Wipes, Changes
    <3> QED BY <2>5, <3>1 DEF ResetInv
  <2>6. OwnToken(p) BY <2>1, <2>4, <2>5 DEF OwnToken, Same, Steady
  <2> QED BY <1>0, <2>1, <2>2, <2>6, ResetStep
<1>5. ASSUME NEW p \in Procs, NEW told \in BOOLEAN, Commit(p, told) PROVE ResetInv'
  <2>1. Commits(p) BY <1>5, CommitFacts
  <2>2. Local(p) /\ OthersLocks(p) /\ pc[p] = "commit" /\ recoveries' = recoveries BY <2>1 DEF Commits, countVars
  <2>3. recoveries <= recoveries' BY SMTT(60), <1>0, <2>2
  <2>4. OwnToken(p)
    <3>1. CASE pc'[p] = "idle" BY <2>1, <3>1 DEF OwnToken, Commits
    <3>2. CASE pc'[p] \in {"mark", "produce"} /\ Same(p)
      <4>1. pc'[p] \notin {"lock_user", "commit"} \cup Writing BY SMTT(60), <3>2 DEF Writing
      <4>2. op'[p] = op[p] /\ target'[p] = target[p] BY <3>2 DEF Same
      <4>3. ASSUME op[p] = "RecoverPassword"
            PROVE  /\ target[p] <= recoveries'
                   /\ \A q \in Procs : q # p /\ op[q] = "RecoverPassword" /\ pc[q] # "idle" => target[q] # target[p]
        BY <2>2, <4>3 DEF ResetInv
      <4> QED BY <4>1, <4>2, <4>3 DEF OwnToken
    <3> QED BY <2>1, <3>1, <3>2 DEF Commits
  <2>5. CASE UNCHANGED <<rtok, resets>>
    BY <1>0, <2>2, <2>3, <2>4, <2>5, ResetStep DEF TokenWrites
  <2>6. CASE WipeCommit(p, told) /\ op[p] = "ResetPassword"
    <3>1. /\ target[p] \in RecTokens /\ tlock[target[p]] = p /\ rtok[target[p]] = "live"
          /\ rtok' = [rtok EXCEPT ![target[p]] = "used"]
          /\ resets' = [resets EXCEPT ![target[p]] = @ + 1]
      BY <2>2, <2>6 DEF WipeCommit, CoreInv, TargetInv, ResetInv, Writing
    <3>2. TokenWrites(p) BY <3>1 DEF TokenWrites, CoreInv, Types, RowTypes, HistTypes
    <3> QED BY <1>0, <2>2, <2>3, <2>4, <3>2, ResetStep
  <2>7. CASE RecoverCommit(p, told)
    <3>1. op[p] = "RecoverPassword" /\ target[p] \in RecTokens /\ resets' = resets
          /\ rtok' = [rtok EXCEPT ![target[p]] = "live"]
      BY <2>2, <2>7 DEF RecoverCommit, At, CoreInv, TargetInv, histVars
    <3>2. TokenWrites(p) BY <2>2, <3>1 DEF TokenWrites, CoreInv, Types, RowTypes, HistTypes
    <3> QED BY <1>0, <2>2, <2>3, <2>4, <3>2, ResetStep
  <2> QED BY <1>5, <2>5, <2>6, <2>7 DEF Commit, LoginCommit, RefreshCommit, EndCommit, WipeCommit
<1> QED BY <1>1, <1>2, <1>3, <1>4, <1>5, StepFacts

\* A recovery token resets the password at most once, however many requests
\* present it (ResetPassword reads it FOR UPDATE).
THEOREM RecoveryTokenUsedOnce == Spec => []ResetOnce
<1>1. Init => ResetInv BY SMT DEF Init, ResetInv
<1>2. CoreInv /\ ResetInv => ResetOnce
  <2> SUFFICES ASSUME CoreInv, ResetInv, NEW t \in RecTokens PROVE resets[t] <= 1
    BY DEF ResetOnce
  <2> QED BY SMT DEF ResetInv, CoreInv, Types, HistTypes
<1> QED BY <1>1, <1>2, NextReset, CoreInvariant, PTL DEF Spec

-----------------------------------------------------------------------------
(* Sessions and password changes *)

\* p has chosen its sessions; every live one is in its hands or was raced.
Covered(p) ==
    \A s \in Sessions : sess[s].st = "live" =>
        \/ slock[s] = p \/ s \in raced
        \/ pc[p] = "wait_rows" /\ s \in todo[p]
Chosen(p) == op[p] \in Changes /\ pc[p] \in {"wait_rows", "commit"}

\* Rows only leave "live", or enter it in view of the changes under way.
LEMMA ChangeStep ==
    ASSUME CoreInv, ChangeInv, NEW p \in Procs, Local(p), OthersLocks(p), raced \subseteq raced',
           \A s \in Sessions : sess'[s].st = "live" =>
              \/ sess[s].st = "live" /\ sess'[s].pw = sess[s].pw
              \/ s \in raced'
              \/ sess'[s].pw = pw /\ ~ChangeUnderWay,
           Chosen(p)' => Covered(p)',
           \/ pw' = pw
           \/ \A s \in Sessions : sess'[s].st = "live" => s \in raced'
    PROVE  ChangeInv'
<1>1. OldPasswordOnlyIfRaced' BY DEF ChangeInv, OldPasswordOnlyIfRaced
<1>2. ASSUME NEW q \in Procs, Chosen(q)' PROVE Covered(q)'
  <2>1. CASE q = p BY <1>2, <2>1
  <2>2. CASE q # p
    <3>1. Chosen(q) /\ pc'[q] = pc[q] /\ todo'[q] = todo[q] BY <1>2, <2>2 DEF Local, Chosen
    <3>2. ChangeUnderWay BY <3>1 DEF ChangeUnderWay, Chosen
    <3>3. Covered(q) BY <3>1 DEF ChangeInv, Chosen, Covered
    <3>4. \A s \in Sessions : slock[s] = q => slock'[s] = q BY <2>2 DEF OthersLocks
    <3> QED BY <3>1, <3>2, <3>3, <3>4 DEF Covered
  <2> QED BY <2>1, <2>2
<1> QED BY <1>1, <1>2 DEF ChangeInv, Chosen, Covered

LEMMA NextChange == CoreInv /\ ChangeInv /\ [Next]_vars => ChangeInv'
<1> SUFFICES ASSUME CoreInv, ChangeInv, [Next]_vars PROVE ChangeInv' OBVIOUS
<1>1. CASE Idles
  BY <1>1, IdleFacts DEF ChangeInv, OldPasswordOnlyIfRaced, lockVars, reqVars, histVars
<1>2. ASSUME NEW p \in Procs, Arrives(p) \/ Ends(p) PROVE ChangeInv'
  <2>1. Local(p) /\ OthersLocks(p) /\ Steady
    BY <1>2 DEF Arrives, Ends, OthersLocks, lockVars
  <2>2. ~Chosen(p)' BY <1>2 DEF Arrives, Ends, Chosen, Changes, EndsOne
  <2> QED BY <2>1, <2>2, ChangeStep DEF Steady
<1>3. ASSUME NEW p \in Procs, Advances(p), Gains(p) PROVE ChangeInv'
  <2> USE <1>3 DEF Advances
  <2>1. ASSUME Chosen(p)' PROVE Covered(p)'
    <3>1. op[p] \in Changes /\ pc'[p] \in {"wait_rows", "commit"} BY <2>1 DEF Chosen, Same
    <3>2. \/ \A s \in Sessions : sess[s].st = "live" => pc'[p] = "wait_rows" /\ s \in todo'[p]
          \/ /\ pc[p] = "wait_rows"
             /\ \A s \in todo[p] : slock'[s] = p \/ (pc'[p] = "wait_rows" /\ s \in todo'[p])
      BY <3>1 DEF Gains, At, Changes, EndsOne
    <3>3. CASE pc[p] = "wait_rows" /\ \A s \in todo[p] : slock'[s] = p \/ (pc'[p] = "wait_rows" /\ s \in todo'[p])
      <4>1. Covered(p) BY <3>1, <3>3 DEF ChangeInv, Covered
      <4> QED BY <3>3, <4>1 DEF Covered, KeepsLocks, Steady
    <3> QED BY <3>2, <3>3 DEF Covered, Steady
  <2> QED BY <2>1, ChangeStep DEF Steady
<1>4. ASSUME NEW p \in Procs, NEW told \in BOOLEAN, Commit(p, told) PROVE ChangeInv'
  <2>1. Commits(p) BY <1>4, CommitFacts
  <2>2. Local(p) /\ OthersLocks(p) /\ pc[p] = "commit" /\ ~Chosen(p)' BY <2>1 DEF Commits, Chosen, Changes
  <2>3. sess \in [Sessions -> SessionRow] BY DEF CoreInv, Types, RowTypes
  <2>4. CASE LoginCommit(p, told)
    <3>1. /\ sess' = [sess EXCEPT ![target[p]] = NewSession(id[p], known[p])] /\ pw' = pw
          /\ raced' = IF known[p] # pw \/ ChangeUnderWay THEN raced \cup {target[p]} ELSE raced
      BY <2>4 DEF LoginCommit
    <3>2. ASSUME NEW s \in Sessions, sess'[s].st = "live"
          PROVE  \/ sess[s].st = "live" /\ sess'[s].pw = sess[s].pw
                 \/ s \in raced'
                 \/ sess'[s].pw = pw /\ ~ChangeUnderWay
      <4>1. CASE s = target[p]
        <5>1. sess'[s].pw = known[p] BY <2>3, <3>1, <4>1 DEF NewSession
        <5> QED BY <3>1, <4>1, <5>1
      <4>2. CASE s # target[p] BY <2>3, <3>1, <3>2, <4>2
      <4> QED BY <4>1, <4>2
    <3> QED BY <2>2, <3>1, <3>2, ChangeStep
  <2>5. CASE RefreshCommit(p, told)
    <3>1. sess' = [sess EXCEPT ![target[p]] = Rotate(@, id[p])] /\ UNCHANGED <<pw, raced>>
      BY <2>5, RefreshCommitFacts DEF RefreshCommit
    <3>2. \A s \in Sessions : sess'[s].st = sess[s].st /\ sess'[s].pw = sess[s].pw
      BY <2>3, <3>1 DEF Rotate, SessionRow
    <3> QED BY <2>2, <3>1, <3>2, ChangeStep
  <2>6. CASE EndCommit(p, told)
    <3>1. sess' = [sess EXCEPT ![target[p]] = Revoke(@)] /\ UNCHANGED <<pw, raced>>
      BY <2>6, EndCommitFacts DEF EndCommit
    <3>2. \A s \in Sessions : sess'[s].st = "live" => sess[s].st = "live" /\ sess'[s].pw = sess[s].pw
      BY <2>3, <3>1 DEF Revoke, SessionRow
    <3> QED BY <2>2, <3>1, <3>2, ChangeStep
  <2>7. CASE WipeCommit(p, told)
    <3>1. /\ sess' = [s \in Sessions |-> IF RevokedBy(p, s) THEN Revoke(sess[s]) ELSE sess[s]]
          /\ raced' = raced /\ (op[p] \in Changes \/ pw' = pw)
      BY <2>7 DEF WipeCommit
    <3>2. \A s \in Sessions : sess'[s].st = "live" =>
             ~RevokedBy(p, s) /\ sess[s].st = "live" /\ sess'[s].pw = sess[s].pw
      BY <2>3, <3>1 DEF Revoke, SessionRow
    <3>3. op[p] \in Changes => \A s \in Sessions : sess'[s].st = "live" => s \in raced'
      BY <2>2, <3>1, <3>2 DEF ChangeInv, RevokedBy
    <3> QED BY <2>2, <3>1, <3>2, <3>3, ChangeStep
  <2>8. CASE RecoverCommit(p, told)
    BY <2>2, <2>8, ChangeStep DEF RecoverCommit, histVars
  <2> QED BY <1>4, <2>4, <2>5, <2>6, <2>7, <2>8 DEF Commit
<1> QED BY <1>1, <1>2, <1>3, <1>4, StepFacts

\* A session opened with a password replaced since is live only if its login
\* overlapped the change (ChangePassword and ResetPassword revoke all sessions
\* their statement sees).
THEOREM OldPasswordNeedsRace == Spec => []OldPasswordOnlyIfRaced
<1>1. Init => ChangeInv BY SMT DEF Init, ChangeInv, OldPasswordOnlyIfRaced, NoRow
<1>2. ChangeInv => OldPasswordOnlyIfRaced BY DEF ChangeInv
<1> QED BY <1>1, <1>2, NextChange, CoreInvariant, PTL DEF Spec

-----------------------------------------------------------------------------
(* Access tokens of revoked sessions *)

\* What is needed of one session's tokens.
Settled(s) == s \in smark \cup unmarked \/ \E p \in Procs : MarkPending(p, s)

LEMMA RevokedForm ==
    RevokedIsDenied <=> \A t \in atoks : sess[t[1]].st = "revoked" => t \in killed \/ Settled(t[1])
  BY DEF RevokedIsDenied, Denied, Settled

\* A step that is not the end of a pending marker keeps what is settled.
LEMMA SettledStays ==
    ASSUME NEW p \in Procs, Local(p), pc[p] # "mark", smark \subseteq smark', unmarked \subseteq unmarked',
           NEW s, Settled(s)
    PROVE  Settled(s)'
  BY DEF Settled, MarkPending, Local

\* Tokens already handed out, of sessions already revoked.
LEMMA DeniedStays ==
    ASSUME MintedInv, NEW p \in Procs, Local(p), smark \subseteq smark', killed \subseteq killed',
           unmarked \subseteq unmarked', atoks' \subseteq minted', minted' \subseteq Token,
           \A s \in Sessions : sess'[s].st = "revoked" =>
              sess[s].st = "revoked" \/ (\A t \in atoks' : t[1] = s => Settled(s)'),
           \A t \in atoks' \ atoks : sess'[t[1]].st # "revoked",
           pc[p] # "mark" \/ atoks \subseteq killed' \/ \A s \in Sessions : MarkPending(p, s) => Settled(s)'
    PROVE  RevokedIsDenied'
<1> SUFFICES ASSUME NEW t \in atoks', sess'[t[1]].st = "revoked" PROVE t \in killed' \/ Settled(t[1])'
  BY DEF RevokedIsDenied, Denied, Settled
<1>1. t \in atoks /\ t[1] \in Sessions BY DEF Token
<1>2. CASE sess[t[1]].st = "revoked"
  <2>1. t \in killed \/ Settled(t[1]) BY <1>1, <1>2, RevokedForm DEF MintedInv
  <2>2. CASE t \in killed BY <2>2
  <2>3. CASE Settled(t[1]) /\ pc[p] # "mark" BY <2>3, SettledStays
  <2>4. CASE atoks \subseteq killed' BY <1>1, <2>4
  <2>5. CASE Settled(t[1]) /\ \A s \in Sessions : MarkPending(p, s) => Settled(s)'
    <3>1. CASE MarkPending(p, t[1]) BY <1>1, <2>5, <3>1
    <3>2. CASE ~MarkPending(p, t[1]) BY <2>5, <3>2 DEF Settled, MarkPending, Local
    <3> QED BY <3>1, <3>2
  <2> QED BY <2>1, <2>2, <2>3, <2>4, <2>5
<1>3. CASE sess[t[1]].st # "revoked" BY <1>1, <1>3
<1> QED BY <1>2, <1>3

OwnMinted(p) ==
    \/ op'[p] \in {"Login", "RefreshAccessToken"} /\ pc'[p] = "commit"
    \/ op'[p] = "Login" /\ pc'[p] = "store"
    => <<target'[p], id'[p]>> \in minted'

LEMMA MintedStep ==
    ASSUME MintedInv, NEW p \in Procs, Local(p), minted \subseteq minted', RevokedIsDenied',
           atoks' \subseteq minted', minted' \subseteq Token, OwnMinted(p)
    PROVE  MintedInv'
<1>1. ASSUME NEW q \in Procs, q # p,
             \/ op'[q] \in {"Login", "RefreshAccessToken"} /\ pc'[q] = "commit"
             \/ op'[q] = "Login" /\ pc'[q] = "store"
      PROVE  <<target'[q], id'[q]>> \in minted'
  BY <1>1 DEF Local, MintedInv
<1> QED BY <1>1 DEF MintedInv, OwnMinted

\* Steps that touch neither session rows nor what clients hold.
LEMMA QuietMinted ==
    ASSUME MintedInv, NEW p \in Procs, Local(p), UNCHANGED <<sess, atoks>>, minted \subseteq minted',
           minted' \subseteq Token, OwnMinted(p),
           smark \subseteq smark', killed \subseteq killed', unmarked \subseteq unmarked',
           pc[p] # "mark" \/ atoks \subseteq killed' \/ \A s \in Sessions : MarkPending(p, s) => Settled(s)'
    PROVE  MintedInv'
<1>1. atoks' \subseteq minted' BY DEF MintedInv
<1>2. RevokedIsDenied' BY <1>1, DeniedStays
<1> QED BY <1>1, <1>2, MintedStep

LEMMA StatementMarks ==
    ASSUME NEW p \in Procs, Statement(p) PROVE UNCHANGED <<smark, killed, unmarked>> /\ pc[p] \in InTx
  BY DEF Statement, StoreSession, RefreshSession, RefreshUser, EndSession, EndAudit, ChangeUpdate,
         ResetToken, ResetUser, DeleteLock, RevokeSelect, RevokeRow, RecoverUser, Rollback, At, InTx,
         redisVars, histVars

\* Access tokens are handed out for sessions that the commit leaves live.
LEMMA HandsOut ==
    ASSUME CoreInv, NEW p \in Procs, NEW told \in BOOLEAN, LoginCommit(p, told) \/ RefreshCommit(p, told)
    PROVE  LET s == target[p]
           IN /\ s \in Sessions /\ UNCHANGED <<unmarked, assured, smark, killed>>
              /\ atoks' \subseteq atoks \cup {<<s, id[p]>>}
              /\ sess' = [sess EXCEPT ![s] = sess'[s]] /\ sess'[s].st = "live"
<1> DEFINE s == target[p]
<1>1. sess \in [Sessions -> SessionRow] BY DEF CoreInv, Types, RowTypes
<1>2. CASE LoginCommit(p, told)
  <2>1. s \in Sessions /\ sess' = [sess EXCEPT ![s] = NewSession(id[p], known[p])]
    BY <1>2 DEF LoginCommit, At, CoreInv, TargetInv
  <2>2. sess'[s] = NewSession(id[p], known[p]) BY <1>1, <2>1
  <2>3. sess'[s].st = "live" BY SMTT(60), <2>2 DEF NewSession
  <2> QED BY <1>2, <2>1, <2>2, <2>3 DEF LoginCommit, redisVars
<1>3. CASE RefreshCommit(p, told)
  <2>1. s \in Sessions /\ sess' = [sess EXCEPT ![s] = Rotate(@, id[p])] /\ sess[s].st = "live"
    BY <1>3, RefreshCommitFacts
  <2>2. sess'[s] = Rotate(sess[s], id[p]) /\ sess[s] \in SessionRow BY <1>1, <2>1
  <2>3. sess'[s].st = "live" BY <2>1, <2>2 DEF Rotate, SessionRow
  <2> QED BY <1>1, <1>3, <2>1, <2>2, <2>3 DEF RefreshCommit, redisVars
<1> QED BY <1>2, <1>3

LEMMA NextMinted == CoreInv /\ MintedInv /\ [Next]_vars => MintedInv'
<1> SUFFICES ASSUME CoreInv, MintedInv, [Next]_vars PROVE MintedInv' OBVIOUS
<1>0. \A p \in Procs : pc[p] \in InTx => pc[p] # "mark" BY DEF InTx
<1>1. CASE Idles
  BY <1>1, IdleFacts DEF MintedInv, RevokedIsDenied, Denied, MarkPending, reqVars, histVars, clientVars
<1>2. ASSUME NEW p \in Procs, Arrive(p) PROVE MintedInv'
  <2>1. Arrives(p) /\ Types' BY <1>2, ArriveFacts
  <2>2. reqs + 1 \in Made BY <2>1 DEF Arrives, Types, CountTypes
  <2>3. minted \subseteq minted' /\ minted' \subseteq Token BY SMTT(60), <2>1, <2>2 DEF Arrives, MintedInv, Token
  <2>4. OwnMinted(p) BY <2>1 DEF Arrives, OwnMinted, EndsOne
  <2>5. Local(p) /\ UNCHANGED <<sess, atoks, smark, killed, unmarked>> /\ pc[p] # "mark"
    BY <2>1 DEF Arrives, Steady
  <2> QED BY <2>3, <2>4, <2>5, QuietMinted
<1>3. ASSUME NEW p \in Procs, Ends(p), pc[p] \in InTx, UNCHANGED <<smark, killed, unmarked>>
      PROVE  MintedInv'
  BY <1>0, <1>3, QuietMinted DEF Ends, Steady, OwnMinted, MintedInv
<1>4. ASSUME NEW p \in Procs, Advances(p), Gains(p) PROVE MintedInv'
  <2>1. Local(p) /\ UNCHANGED <<sess, atoks, smark, killed, unmarked>> /\ pc[p] # "mark" /\ pc[p] # "idle"
    BY <1>4 DEF Advances, Steady, InTx
  <2>2. minted \subseteq minted' /\ minted' \subseteq Token
    <3>1. op[p] = "RefreshAccessToken" => <<target[p], id[p]>> \in Token
      BY <2>1 DEF Token, CoreInv, TargetInv, Types, ReqTypes
    <3>2. minted' = minted \/ (op[p] = "RefreshAccessToken" /\ minted' = minted \cup {<<target[p], id[p]>>})
      BY <1>4 DEF Gains, At
    <3> QED BY <3>1, <3>2 DEF MintedInv
  <2>3. ASSUME op[p] = "RefreshAccessToken", pc'[p] = "commit" PROVE <<target[p], id[p]>> \in minted'
    BY <1>4, <2>3 DEF Gains, At, EndsOne, Wipes, Changes
  <2>4. ASSUME op[p] = "Login" PROVE <<target[p], id[p]>> \in minted'
    <3>1. pc[p] = "store" BY <1>4, <2>4 DEF Gains, At, EndsOne, Wipes, Changes
    <3> QED BY <2>2, <2>4, <3>1 DEF MintedInv
  <2>5. OwnMinted(p) BY <1>4, <2>3, <2>4 DEF OwnMinted, Advances, Same
  <2> QED BY <2>1, <2>2, <2>5, QuietMinted
<1>5. ASSUME NEW p \in Procs, Follows(p) PROVE MintedInv'
  <2>1. /\ Local(p) /\ UNCHANGED <<sess, atoks, minted>> /\ minted \subseteq Token /\ OwnMinted(p)
    BY <1>5, FollowFacts DEF Ends, Steady, OwnMinted, MintedInv
  <2>2. CASE EndMark(p)
    <3>1. /\ smark' = smark \cup {target[p]} /\ UNCHANGED <<killed, unmarked>> /\ op[p] \notin Wipes
      BY <2>2 DEF EndMark, At, histVars, EndsOne, Wipes, Changes
    <3>2. \A s \in Sessions : MarkPending(p, s) => Settled(s)' BY <3>1 DEF MarkPending, Settled
    <3> QED BY <2>1, <3>1, <3>2, QuietMinted
  <2>3. CASE WipeMark(p)
    <3>1. killed' = killed \cup minted /\ UNCHANGED <<smark, unmarked>> BY <2>3 DEF WipeMark, histVars
    <3>2. atoks \subseteq killed' BY <3>1 DEF MintedInv
    <3> QED BY <2>1, <3>1, <3>2, QuietMinted
  <2>4. CASE MarkFails(p)
    <3>1. /\ UNCHANGED <<smark, killed>>
          /\ unmarked' = unmarked \cup (IF op[p] \in EndsOne THEN {target[p]} ELSE Sessions)
      BY <2>4 DEF MarkFails, redisVars
    <3>2. \A s \in Sessions : MarkPending(p, s) => Settled(s)'
      BY <3>1 DEF MarkPending, Settled, EndsOne, Wipes, Changes
    <3> QED BY <2>1, <3>1, <3>2, QuietMinted
  <2>5. ASSUME NEW sent \in BOOLEAN, RecoverProduce(p, sent) PROVE MintedInv'
    <3>1. pc[p] # "mark" /\ UNCHANGED <<smark, killed, unmarked>>
      BY <2>5 DEF RecoverProduce, At, redisVars, histVars
    <3> QED BY <2>1, <3>1, QuietMinted
  <2> QED BY <1>5, <2>2, <2>3, <2>4, <2>5 DEF Follows
<1>6. ASSUME NEW p \in Procs, NEW told \in BOOLEAN, Commit(p, told) PROVE MintedInv'
  <2>1. Commits(p) BY <1>6, CommitFacts
  <2>2. /\ Local(p) /\ pc[p] = "commit" /\ pc[p] # "mark" /\ UNCHANGED <<smark, killed, minted>>
        /\ minted \subseteq Token
    BY <2>1 DEF Commits, MintedInv
  <2>3. OwnMinted(p) BY <2>1 DEF OwnMinted, Commits, Same
  <2>4. sess \in [Sessions -> SessionRow] /\ unmarked \subseteq Sessions
    BY DEF CoreInv, Types, RowTypes, HistTypes
  <2>5. CASE LoginCommit(p, told) \/ RefreshCommit(p, told)
    <3> DEFINE s == target[p]
    <3>1. /\ s \in Sessions /\ unmarked' = unmarked /\ atoks' \subseteq atoks \cup {<<s, id[p]>>}
          /\ sess' = [sess EXCEPT ![s] = sess'[s]] /\ sess'[s].st = "live"
      BY <2>5, HandsOut
    <3>2. <<s, id[p]>> \in minted BY <2>2, <2>5 DEF LoginCommit, RefreshCommit, At, MintedInv
    <3>3. atoks' \subseteq minted' BY <2>2, <3>1, <3>2 DEF MintedInv
    <3>4. \A t \in atoks' \ atoks : sess'[t[1]].st # "revoked" BY SMTT(60), <3>1
    <3>5. \A r \in Sessions : sess'[r].st = "revoked" => sess[r].st = "revoked" BY <2>4, <3>1
    <3>6. RevokedIsDenied' BY <2>2, <3>1, <3>3, <3>4, <3>5, DeniedStays
    <3> QED BY <2>2, <2>3, <3>3, <3>6, MintedStep
  <2>6. CASE EndCommit(p, told) \/ WipeCommit(p, told)
    <3>1. atoks' = atoks /\ unmarked \subseteq unmarked'
      BY <2>6 DEF EndCommit, WipeCommit, clientVars
    <3>2. ASSUME NEW s \in Sessions, sess'[s].st = "revoked", sess[s].st # "revoked" PROVE Settled(s)'
      <4>1. CASE EndCommit(p, told)
        <5>1. s = target[p]
          <6>1. sess' = [sess EXCEPT ![target[p]] = Revoke(@)] BY <4>1, EndCommitFacts
          <6> QED BY <2>4, <3>2, <6>1
        <5>2. /\ told => pc'[p] = "mark" /\ target'[p] = s
              /\ ~told => s \in unmarked'
          BY <4>1, <5>1, EndCommitFacts DEF EndCommit, Same
        <5> QED BY <5>2 DEF Settled, MarkPending
      <4>2. CASE WipeCommit(p, told)
        <5>1. /\ told => pc'[p] = "mark" /\ op'[p] \in Wipes
              /\ ~told => s \in unmarked'
          BY <4>2, WipeCommitFacts DEF WipeCommit, Same, At
        <5> QED BY <5>1 DEF Settled, MarkPending
      <4> QED BY <2>6, <4>1, <4>2
    <3>3. atoks' \subseteq minted' BY <2>2, <3>1 DEF MintedInv
    <3>4. RevokedIsDenied' BY <2>2, <3>1, <3>2, <3>3, DeniedStays
    <3> QED BY <2>2, <2>3, <3>3, <3>4, MintedStep
  <2>7. CASE RecoverCommit(p, told)
    BY <2>2, <2>3, <2>7, QuietMinted DEF RecoverCommit, clientVars, histVars
  <2> QED BY <1>6, <2>5, <2>6, <2>7 DEF Commit
<1>7. ASSUME NEW p \in Procs, Statement(p) PROVE MintedInv'
  BY <1>3, <1>4, <1>7, StatementFacts, StatementMarks
<1>8. ASSUME NEW p \in Procs, Rollback(p), pc[p] \in InTx PROVE MintedInv'
  BY <1>3, <1>8, RollbackFacts DEF Rollback, redisVars, histVars
<1> QED BY <1>1, <1>2, <1>5, <1>6, <1>7, <1>8, StepClasses

\* Every access token of a revoked session is denied, unless the marker is still
\* to be written or its write was lost (the post-commit writes of Logout,
\* RevokeSession, the password changes and DeleteUser).
THEOREM RevokedAreDenied == Spec => []RevokedIsDenied
<1>1. Init => MintedInv BY DEF Init, MintedInv, RevokedIsDenied
<1>2. MintedInv => RevokedIsDenied BY DEF MintedInv
<1> QED BY <1>1, <1>2, NextMinted, CoreInvariant, PTL DEF Spec
-----------------------------------------------------------------------------
(* Types of what clients hold, the markers and the clocks *)

SideTypes ==
    /\ expired \subseteq Sessions /\ lapsed \subseteq RecTokens
    /\ smark \subseteq Sessions /\ killed \subseteq Token /\ throttled \in BOOLEAN
    /\ atoks \subseteq Token /\ rts \subseteq Token /\ mailed \subseteq RecTokens
    /\ assured \subseteq Sessions

Side == <<expired, lapsed, smark, killed, throttled, atoks, rts, mailed, assured>>

LEMMA StatementSide == ASSUME NEW p \in Procs, Statement(p) PROVE UNCHANGED Side
  BY DEF Statement, StoreSession, RefreshSession, RefreshUser, EndSession, EndAudit, ChangeUpdate,
         ResetToken, ResetUser, DeleteLock, RevokeSelect, RevokeRow, RecoverUser, Rollback,
         rowVars, redisVars, clientVars, histVars, Side

LEMMA ArriveSide ==
    ASSUME NEW p \in Procs, Arrive(p), SideTypes PROVE SideTypes'
<1>1. CASE RecoverBegin(p)
  BY <1>1 DEF RecoverBegin, rowVars, clientVars, histVars, SideTypes
<1>2. CASE ~RecoverBegin(p)
  <2>1. UNCHANGED Side
    BY <1>2 DEF Arrive, LoginVerify, RefreshBegin, LogoutBegin, RevokeSessionBegin, ChangeVerify, ResetBegin,
                RevokeAllBegin, DeleteBegin, rowVars, redisVars, clientVars, histVars, Side
  <2> QED BY <2>1 DEF Side, SideTypes
<1> QED BY <1>1, <1>2

LEMMA NextSide == CoreInv /\ MintedInv /\ SideTypes /\ [Next]_vars => SideTypes'
<1> SUFFICES ASSUME CoreInv, MintedInv, SideTypes, [Next]_vars PROVE SideTypes' OBVIOUS
<1>1. CASE Idles
  BY <1>1 DEF Idles, Clock, SessionExpires, TokenExpires, ThrottleExpires, vars, rowVars, redisVars,
              clientVars, histVars, SideTypes
<1>2. ASSUME NEW p \in Procs, Arrive(p) PROVE SideTypes' BY <1>2, ArriveSide
<1>3. ASSUME NEW p \in Procs, Statement(p) PROVE SideTypes' BY <1>3, StatementSide DEF Side, SideTypes
<1>4. ASSUME NEW p \in Procs, Follows(p) PROVE SideTypes'
  <2>1. CASE EndMark(p)
    <3>1. target[p] \in Sessions BY <2>1 DEF EndMark, At, CoreInv, TargetInv
    <3>2. Assurance(p) \subseteq Sessions BY SMTT(60), <3>1 DEF Assurance
    <3> QED BY <2>1, <3>1, <3>2 DEF EndMark, rowVars, clientVars, SideTypes
  <2>2. CASE WipeMark(p)
    <3>1. op[p] \in Wipes BY <2>2 DEF WipeMark, At
    <3>2. Assurance(p) \subseteq Sessions BY SMTT(60), <3>1 DEF Assurance, Wipes, Changes
    <3> QED BY <2>2, <3>2 DEF WipeMark, rowVars, clientVars, SideTypes, MintedInv
  <2>3. CASE MarkFails(p) BY <2>3 DEF MarkFails, rowVars, redisVars, clientVars, SideTypes
  <2>4. ASSUME NEW sent \in BOOLEAN, RecoverProduce(p, sent) PROVE SideTypes'
    <3>1. target[p] \in RecTokens BY <2>4 DEF RecoverProduce, At, CoreInv, TargetInv
    <3> QED BY <2>4, <3>1 DEF RecoverProduce, rowVars, redisVars, histVars, SideTypes
  <2> QED BY <1>4, <2>1, <2>2, <2>3, <2>4 DEF Follows
<1>5. ASSUME NEW p \in Procs, NEW told \in BOOLEAN, Commit(p, told) PROVE SideTypes'
  <2>1. CASE LoginCommit(p, told) \/ RefreshCommit(p, told)
    <3>1. <<target[p], id[p]>> \in Token
      BY <2>1 DEF LoginCommit, RefreshCommit, At, MintedInv
    <3> QED BY <2>1, <3>1 DEF LoginCommit, RefreshCommit, redisVars, SideTypes
  <2>2. CASE EndCommit(p, told) \/ WipeCommit(p, told) \/ RecoverCommit(p, told)
    BY <2>2 DEF EndCommit, WipeCommit, RecoverCommit, redisVars, clientVars, histVars, SideTypes
  <2> QED BY <1>5, <2>1, <2>2 DEF Commit
<1>6. ASSUME NEW p \in Procs, Rollback(p) PROVE SideTypes'
  BY <1>6 DEF Rollback, rowVars, redisVars, clientVars, histVars, SideTypes
<1> QED BY <1>1, <1>2, <1>3, <1>4, <1>5, <1>6, StepClasses

\* Rows, locks, requests, markers and tokens keep their types in every interleaving
\* of the service's transactions.
THEOREM ServiceTypeCorrect == Spec => []TypeOK
<1>1. Init => MintedInv /\ SideTypes BY DEF Init, MintedInv, RevokedIsDenied, SideTypes
<1>2. Types /\ MintedInv /\ SideTypes => TypeOK
  BY DEF Types, RowTypes, LockTypes, ReqTypes, CountTypes, HistTypes, MintedInv, SideTypes, TypeOK
<1>3. CoreInv => Types BY DEF CoreInv
<1> QED BY <1>1, <1>2, <1>3, NextMinted, NextSide, CoreInvariant, PTL DEF Spec

-----------------------------------------------------------------------------
(* Sessions an administrator was told are revoked *)

\* The tokens of an assured session that has no marker of its own were minted
\* before the watermark, and no more are handed out.
AssuredInv ==
    \A s \in assured :
        \/ s \in smark
        \/ sess[s].st = "revoked" /\ \A t \in atoks : t[1] = s => t \in killed

\* A step that assures nobody.
LEMMA AssuredStays ==
    ASSUME AssuredInv, assured \subseteq Sessions, RevokedStays, assured' = assured,
           smark \subseteq smark', killed \subseteq killed',
           \A t \in atoks' \ atoks : sess'[t[1]].st # "revoked"
    PROVE  AssuredInv'
<1> SUFFICES ASSUME NEW s \in assured, s \notin smark
             PROVE  sess'[s].st = "revoked" /\ \A t \in atoks' : t[1] = s => t \in killed'
  BY DEF AssuredInv
<1>1. sess[s].st = "revoked" /\ \A t \in atoks : t[1] = s => t \in killed BY DEF AssuredInv
<1>2. sess'[s].st = "revoked" BY <1>1 DEF RevokedStays
<1> QED BY <1>1, <1>2

LEMMA NextAssured ==
    CoreInv /\ MintedInv /\ SideTypes /\ AssuredInv /\ [Next]_vars => AssuredInv'
<1> SUFFICES ASSUME CoreInv, MintedInv, SideTypes, AssuredInv, [Next]_vars PROVE AssuredInv' OBVIOUS
<1>1. RevokedStays /\ assured \subseteq Sessions BY RevokedStep DEF SideTypes
<1>2. ASSUME UNCHANGED <<assured, smark, killed, atoks>> PROVE AssuredInv' BY <1>1, <1>2, AssuredStays
<1>3. CASE Idles BY <1>2, <1>3, IdleFacts DEF histVars, clientVars
<1>4. ASSUME NEW p \in Procs, Arrive(p) PROVE AssuredInv'
  BY <1>2, <1>4 DEF Arrive, LoginVerify, RefreshBegin, LogoutBegin, RevokeSessionBegin, ChangeVerify,
                    ResetBegin, RevokeAllBegin, DeleteBegin, RecoverBegin, redisVars, clientVars, histVars
<1>5. ASSUME NEW p \in Procs, Statement(p) PROVE AssuredInv' BY <1>2, <1>5, StatementSide DEF Side
<1>6. ASSUME NEW p \in Procs, Rollback(p) PROVE AssuredInv'
  BY <1>2, <1>6 DEF Rollback, redisVars, clientVars, histVars
<1>7. ASSUME NEW p \in Procs, Follows(p) PROVE AssuredInv'
  <2>1. CASE EndMark(p)
    <3>1. /\ smark' = smark \cup {target[p]} /\ assured' = assured \cup Assurance(p)
          /\ UNCHANGED <<sess, atoks, killed>> /\ op[p] \in EndsOne
      BY <2>1 DEF EndMark, At, rowVars, clientVars
    <3>2. Assurance(p) \subseteq {target[p]} BY SMTT(60), <3>1 DEF Assurance, EndsOne
    <3> QED BY <3>1, <3>2 DEF AssuredInv
  <2>2. CASE WipeMark(p)
    <3>1. /\ killed' = killed \cup minted /\ assured' = assured \cup Assurance(p)
          /\ UNCHANGED <<sess, atoks, smark>> /\ op[p] \in Wipes
      BY <2>2 DEF WipeMark, At, rowVars, clientVars
    <3>2. \A s \in Assurance(p) : sess[s].st = "revoked"
      BY SMTT(60), <3>1 DEF Assurance, Wipes, Changes
    <3>3. atoks \subseteq killed' BY <3>1 DEF MintedInv
    <3> QED BY <3>1, <3>2, <3>3 DEF AssuredInv
  <2>3. CASE MarkFails(p) BY <1>2, <2>3 DEF MarkFails, redisVars, clientVars
  <2>4. ASSUME NEW sent \in BOOLEAN, RecoverProduce(p, sent) PROVE AssuredInv'
    BY <1>2, <2>4 DEF RecoverProduce, redisVars, histVars
  <2> QED BY <1>7, <2>1, <2>2, <2>3, <2>4 DEF Follows
<1>8. ASSUME NEW p \in Procs, NEW told \in BOOLEAN, Commit(p, told) PROVE AssuredInv'
  <2>1. CASE LoginCommit(p, told) \/ RefreshCommit(p, told)
    <3> DEFINE s == target[p]
    <3>1. /\ UNCHANGED <<assured, smark, killed>> /\ atoks' \subseteq atoks \cup {<<s, id[p]>>}
          /\ sess'[s].st = "live"
      BY <2>1, HandsOut
    <3>2. \A t \in atoks' \ atoks : sess'[t[1]].st # "revoked" BY SMTT(60), <3>1
    <3> QED BY <1>1, <3>1, <3>2, AssuredStays
  <2>2. CASE EndCommit(p, told) \/ WipeCommit(p, told) \/ RecoverCommit(p, told)
    BY <1>2, <2>2 DEF EndCommit, WipeCommit, RecoverCommit, redisVars, clientVars, histVars
  <2> QED BY <1>8, <2>1, <2>2 DEF Commit
<1> QED BY <1>3, <1>4, <1>5, <1>6, <1>7, <1>8, StepClasses

\* Whatever fails: once RevokeSession, RevokeUserSessions or DeleteUser has
\* answered that it succeeded, the access tokens of the sessions it revoked are
\* denied for good, a refresh in flight included.
THEOREM AssuredAreDenied == Spec => []AssuredIsDenied
<1>1. Init => MintedInv /\ SideTypes /\ AssuredInv
  BY DEF Init, MintedInv, RevokedIsDenied, SideTypes, AssuredInv
<1>2. AssuredInv => AssuredIsDenied BY DEF AssuredInv, AssuredIsDenied, Denied
<1> QED BY <1>1, <1>2, NextMinted, NextSide, NextAssured, CoreInvariant, PTL DEF Spec
==============================================================================
