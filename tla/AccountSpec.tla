---------------------------- MODULE AccountSpec ----------------------------
(***************************************************************************)
(* What the session methods of internal/auth/service.go promise about one  *)
(* account, as operations that each happen at one instant.  AuthService    *)
(* shows that the transactions, with their row locks and whole-row writes, *)
(* have this effect and no other on the committed rows; ClientSession      *)
(* builds on it.                                                           *)
(***************************************************************************)
EXTENDS Naturals

CONSTANTS
    Sessions,
    Secrets   \* refresh tokens, and passwords; 0 is no token
VARIABLES
    password,
    deleted,
    open,     \* sessions that can be refreshed
    token     \* the refresh token each session had last

account == <<password, deleted, open, token>>

Fresh(r) == \A s \in Sessions : token[s] # r

\* Login: a session that never was, with a refresh token no other session has.
Open(s, r) ==
    /\ token[s] = 0 /\ Fresh(r)
    /\ open' = open \cup {s}
    /\ token' = [token EXCEPT ![s] = r]
    /\ UNCHANGED <<password, deleted>>

\* RefreshAccessToken: only an open session of an account that still exists,
\* and only its refresh token changes, to one no session has.
Rotate(s, r) ==
    /\ s \in open /\ ~deleted /\ Fresh(r)
    /\ token' = [token EXCEPT ![s] = r]
    /\ UNCHANGED <<password, deleted, open>>

\* Logout and RevokeSession.
End(s) ==
    /\ s \in open
    /\ open' = open \ {s}
    /\ UNCHANGED <<password, deleted, token>>

\* The methods that revoke the sessions they find; the password may be
\* replaced and the account deleted in the same instant.
Wipe(S) ==
    /\ S \subseteq open
    /\ open' = open \ S
    /\ password' \in Secrets \cup {password}
    /\ deleted' \in BOOLEAN /\ (deleted => deleted')
    /\ UNCHANGED token

AccountInit ==
    /\ password = 0 /\ deleted = FALSE
    /\ open = {} /\ token = [s \in Sessions |-> 0]

AccountNext ==
    \/ \E s \in Sessions, r \in Secrets : Open(s, r) \/ Rotate(s, r)
    \/ \E s \in Sessions : End(s)
    \/ \E S \in SUBSET Sessions : Wipe(S)

AccountSpec == AccountInit /\ [][AccountNext]_account
=============================================================================
