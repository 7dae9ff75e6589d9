--------------------------- MODULE ClientSession ---------------------------
(***************************************************************************)
(* A browser and the session endpoints:                                    *)
(*   internal/transport/http/auth_handler.go  (login, refreshAccessToken,  *)
(*                                             logout and the cookies)     *)
(*   internal/transport/http/middlewares.go   (Authenticate)               *)
(*   internal/auth/service.go, session.go     (what is checked and minted) *)
(*                                                                         *)
(* The tabs of a browser share one cookie jar.  A request carries the      *)
(* cookies of the moment it leaves, an answer changes the jar when it      *)
(* arrives; requests overtake each other, and answers get lost.  On the    *)
(* server a request happens at one instant: AuthService shows that the     *)
(* transactions have the effect of AccountSpec's operations.               *)
(***************************************************************************)
EXTENDS AccountSpec, FiniteSets

CONSTANTS
    Tabs,
    Null,
    Pool(_),    \* bound: the refresh tokens of a session
    JwtTTL,     \* cfg.Auth.JwtTTL
    SessionTTL, \* cfg.Auth.SessionTTL
    Instants,   \* bound: the times at which something happens
    MaxFaults   \* bound: errors, lost messages, revocations from elsewhere

ASSUME ClientAssumption ==
    /\ IsFiniteSet(Tabs) /\ IsFiniteSet(Sessions) /\ IsFiniteSet(Secrets)
    /\ Sessions \subseteq Nat \ {0} /\ Secrets \subseteq Nat \ {0}
    /\ Null \notin Nat \cup [sid : Sessions, exp : Nat] \cup
                          [sid : Sessions, rt : Secrets, exp : Nat]
    /\ \A s \in Sessions : Pool(s) \subseteq Secrets
    /\ JwtTTL \in Nat \ {0} /\ SessionTTL \in Nat \ {0}
    /\ Instants \subseteq Nat /\ 0 \in Instants /\ MaxFaults \in Nat

VARIABLES
    now,
    expires,  \* expires_at of each session
    ended,    \* when each session was revoked, Null before
    marked,   \* sessions whose access tokens the revocation store denies
    jar,      \* the browser's cookies
    tab,      \* the request of each tab and its cookies, or the answer's
    faults,   \* counter
    mine,     \* history: the session last put into the jar, Null after a logout
    lost      \* history: sessions whose latest refresh token never arrived

server == <<account, expires, ended, marked>>
vars == <<server, now, jar, tab, faults, mine, lost>>

NoCookies == [access |-> Null, refresh |-> Null]
Idle == [pc |-> "idle", op |-> Null, jar |-> NoCookies]

Init ==
    /\ AccountInit
    /\ now = 0
    /\ expires = [s \in Sessions |-> 0]
    /\ ended = [s \in Sessions |-> Null]
    /\ marked = {}
    /\ jar = NoCookies
    /\ tab = [t \in Tabs |-> Idle]
    /\ faults = 0 /\ mine = Null /\ lost = {}

Fault == faults < MaxFaults /\ faults' = faults + 1

-----------------------------------------------------------------------------
(* The browser (not part of the repository) *)

\* A request leaves with the cookies of the jar, without their Expires; here,
\* with the one its handler looks at.  Requests that carry none are not followed:
\* a refresh or a logout is refused whenever it is served, and it is the same
\* when a login left.
Sends(op) == [access  |-> IF op = "logout" THEN jar.access ELSE Null,
              refresh |-> IF op = "refresh" /\ jar.refresh # Null
                          THEN [jar.refresh EXCEPT !.exp = 0] ELSE Null]

Ask(t, op) ==
    /\ tab[t].pc = "idle"
    /\ Sends(op) # NoCookies
    /\ tab' = [tab EXCEPT ![t] = [pc |-> "asked", op |-> op, jar |-> Sends(op)]]
    /\ UNCHANGED <<server, now, jar, faults, mine, lost>>

\* Cookies past their Expires are gone.
Alive(c, time) == IF c # Null /\ c.exp < time THEN Null ELSE c
Unexpired(j, time) == [access |-> Alive(j.access, time), refresh |-> Alive(j.refresh, time)]

\* An answer arrives; its Set-Cookie headers replace both cookies.
Deliver(t) ==
    /\ tab[t].pc = "answered"
    /\ jar' = Unexpired(tab[t].jar, now)
    /\ mine' = IF tab[t].op = "logout" THEN Null
               ELSE IF tab[t].jar.refresh # Null THEN tab[t].jar.refresh.sid ELSE mine
    /\ tab' = [tab EXCEPT ![t] = Idle]
    /\ UNCHANGED <<server, now, faults, lost>>

\* A request or an answer gets lost, or the answer is an error: the request had
\* no effect, or all of it when the answer to its COMMIT was lost.
Lose(t) ==
    /\ tab[t].pc # "idle"
    /\ Fault
    /\ lost' = IF tab[t].pc = "answered" /\ tab[t].jar.refresh # Null
               THEN lost \cup {tab[t].jar.refresh.sid} ELSE lost
    /\ tab' = [tab EXCEPT ![t] = Idle]
    /\ UNCHANGED <<server, now, jar, mine>>

Tick ==
    /\ now' \in Instants /\ now < now'
    /\ jar' = Unexpired(jar, now')
    /\ UNCHANGED <<server, tab, faults, mine, lost>>

-----------------------------------------------------------------------------
(* Answers *)

SetCookies(t, op, cookies) ==
    tab' = [tab EXCEPT ![t] = [pc |-> "answered", op |-> op, jar |-> cookies]]

\* An error sets no cookie: its way back makes no difference.
Refuse(t) == tab' = [tab EXCEPT ![t] = Idle]

AccessCookie(s) == [sid |-> s, exp |-> now + JwtTTL]

\* Seeded fault: both cookies get the lifetime of the access token.
setTokenCookiesShort(t, op, s, r) ==
    SetCookies(t, op, [access  |-> AccessCookie(s),
                       refresh |-> [sid |-> s, rt |-> r, exp |-> now + JwtTTL]])

\* The access token is minted with the cookie's lifetime.
setTokenCookies(t, op, s, r) ==
    SetCookies(t, op, [access  |-> AccessCookie(s),
                       refresh |-> [sid |-> s, rt |-> r, exp |-> now + SessionTTL]])

removeTokenCookies(t, op) == SetCookies(t, op, NoCookies)

-----------------------------------------------------------------------------
(* The handlers *)

Asked(t, op) == tab[t].pc = "asked" /\ tab[t].op = op

\* A refresh token nobody holds: 256 random bits.  Which of them is immaterial;
\* each session has its own.
Has(c, r) == c # Null /\ c.rt = r
Held(r) ==
    \/ \E s \in Sessions : token[s] = r
    \/ Has(jar.refresh, r)
    \/ \E t \in Tabs : Has(tab[t].jar.refresh, r)
Unused(s, r) ==
    /\ ~Held(r)
    /\ \A q \in Pool(s) : q < r => Held(q)

\* Not revoked, and not IsExpired, which wants ExpiresAt before now.
Live(s) == s \in open /\ now <= expires[s]

\* login finds the user by email; one that fails sets no cookie.
Login(t, s, r) ==
    /\ tab[t].pc = "idle"
    /\ ~deleted
    /\ \A q \in Sessions : q < s => token[q] # 0
    /\ Open(s, r) /\ Unused(s, r)
    /\ expires' = [expires EXCEPT ![s] = now + SessionTTL]
    /\ setTokenCookies(t, "login", s, r)
    /\ UNCHANGED <<now, ended, marked, jar, faults, mine, lost>>

\* refreshAccessToken and RefreshAccessToken: the session is found by its
\* refresh token, its user by ID.
Refreshable(t, s) ==
    LET c == tab[t].jar.refresh IN c # Null /\ token[s] = c.rt /\ Live(s) /\ ~deleted

\* Seeded fault: a revoked session is refreshed too.
RefreshRevoked(t, s, r) ==
    /\ Asked(t, "refresh")
    /\ tab[t].jar.refresh # Null /\ token[s] = tab[t].jar.refresh.rt /\ now <= expires[s]
    /\ Unused(s, r)
    /\ token' = [token EXCEPT ![s] = r]
    /\ setTokenCookies(t, "refresh", s, r)
    /\ UNCHANGED <<password, deleted, open, now, expires, ended, marked, jar, faults, mine, lost>>

Refresh(t, s, r) ==
    /\ Asked(t, "refresh")
    /\ Refreshable(t, s)
    /\ Unused(s, r) /\ Rotate(s, r)
    /\ setTokenCookies(t, "refresh", s, r)
    /\ UNCHANGED <<now, expires, ended, marked, jar, faults, mine, lost>>

\* Seeded fault: a refused refresh logs the client out.
RefreshFailsClears(t) ==
    /\ Asked(t, "refresh")
    /\ \A s \in Sessions : ~Refreshable(t, s)
    /\ removeTokenCookies(t, "refresh")
    /\ UNCHANGED <<server, now, jar, faults, mine, lost>>

\* No session with this token, or one that is over, or a deleted user.
RefreshFails(t) ==
    /\ Asked(t, "refresh")
    /\ \A s \in Sessions : ~Refreshable(t, s)
    /\ Refuse(t)
    /\ UNCHANGED <<server, now, jar, faults, mine, lost>>

\* Authenticate: a token that is neither expired nor denied.
Admits(c) == c # Null /\ now < c.exp /\ c.sid \notin marked

\* Logout commits the revocation, then writes the marker; a session that is
\* over already gets the marker only.  Its errors are logged.
Logout(t, out) ==
    LET s == tab[t].jar.access.sid IN
    /\ Asked(t, "logout")
    /\ Admits(tab[t].jar.access)
    /\ IF out # "failed" /\ Live(s)
       THEN End(s) /\ ended' = [ended EXCEPT ![s] = now]
       ELSE UNCHANGED <<account, ended>>
    /\ marked' = IF out = "ok" THEN marked \cup {s} ELSE marked
    /\ IF out = "ok" THEN UNCHANGED faults ELSE Fault
    /\ removeTokenCookies(t, "logout")
    /\ UNCHANGED <<now, expires, jar, mine, lost>>

\* 401 from Authenticate: the handler does not run.
LogoutRefused(t) ==
    /\ Asked(t, "logout")
    /\ ~Admits(tab[t].jar.access)
    /\ Refuse(t)
    /\ UNCHANGED <<server, now, jar, faults, mine, lost>>

\* Sessions of this instant: their login may have overlapped whatever else
\* happens in it.
Recent == {s \in open : expires[s] = now + SessionTTL}

\* RevokeSession, RevokeUserSessions, ChangePassword, ResetPassword or, with
\* gone, DeleteUser from another client.  A deletion leaves open only sessions
\* whose login overlapped it.  The marker may not get written.  The password
\* is left out: nothing here depends on it.
Elsewhere(S, mark, gone) ==
    /\ Fault
    /\ IF gone THEN ~deleted /\ open \ S \subseteq Recent ELSE S # {}
    /\ deleted' = (deleted \/ gone) /\ UNCHANGED password /\ Wipe(S)
    /\ ended' = [s \in Sessions |-> IF s \in S THEN now ELSE ended[s]]
    /\ marked' = IF mark THEN marked \cup S ELSE marked
    /\ UNCHANGED <<now, expires, jar, tab, mine, lost>>

Serve(t) ==
    \/ \E s \in Sessions : \E r \in Pool(s) : Refresh(t, s, r)
    \/ RefreshFails(t)
    \/ \E out \in {"ok", "unmarked", "failed"} : Logout(t, out)
    \/ LogoutRefused(t)

Next ==
    \/ \E t \in Tabs :
         \/ \E op \in {"refresh", "logout"} : Ask(t, op)
         \/ \E s \in Sessions : \E r \in Pool(s) : Login(t, s, r)
         \/ Serve(t) \/ Deliver(t) \/ Lose(t)
    \/ \E S \in SUBSET Sessions, mark, gone \in BOOLEAN : Elsewhere(S, mark, gone)
    \/ Tick

Spec == Init /\ [][Next]_vars

\* The server answers, the network delivers, and some tab of a browser whose
\* access token has run out asks for a new one.
Renew(t) == jar.access = Null /\ jar.refresh # Null /\ Ask(t, "refresh")
FairSpec ==
    /\ Spec
    /\ \A t \in Tabs : WF_tab(Serve(t) \/ Deliver(t))
    /\ SF_tab(\E t \in Tabs : Renew(t))

-----------------------------------------------------------------------------
(* Properties *)

Accesses == [sid : Sessions, exp : Nat] \cup {Null}
Refreshes == [sid : Sessions, rt : Secrets, exp : Nat] \cup {Null}
Jars == [access : Accesses, refresh : Refreshes]

\* Types of the account, the cookies and the messages.
TypeOK ==
    /\ open \subseteq Sessions /\ token \in [Sessions -> Secrets \cup {0}]
    /\ now \in Instants /\ faults \in 0..MaxFaults
    /\ expires \in [Sessions -> Nat] /\ ended \in [Sessions -> Nat \cup {Null}]
    /\ marked \subseteq Sessions /\ lost \subseteq Sessions
    /\ jar \in Jars
    /\ tab \in [Tabs -> [pc : {"idle", "asked", "answered"},
                         op : {"login", "refresh", "logout", Null}, jar : Jars]]
    /\ mine \in Sessions \cup {Null}

Carries(c, s) == c # Null /\ c.sid = s /\ c.rt = token[s]

\* Tabs that refresh, log in and log out at the same time never lock the browser
\* out of its session: while it lives, the jar refers to it, with the current
\* refresh token or with the one an answer on its way replaces.  Only a lost
\* answer ends that (setTokenCookies, refreshAccessToken).
KeepsSession ==
    mine # Null /\ Live(mine) /\ mine \notin lost =>
        /\ jar.refresh # Null /\ jar.refresh.sid = mine
        /\ \/ Carries(jar.refresh, mine)
           \/ \E t \in Tabs : tab[t].pc = "answered" /\ Carries(tab[t].jar.refresh, mine)

\* "a short access-token TTL bounds exposure" (middlewares.go:69): once a session
\* is revoked or expired no cookie admits anybody for longer than JwtTTL, with
\* or without a marker, wherever the cookie was at that time.
ExposureBounded ==
    \A c \in ({jar.access} \cup {tab[t].jar.access : t \in Tabs}) \ {Null} :
        /\ c.exp <= expires[c.sid] + JwtTTL
        /\ ended[c.sid] # Null => c.exp <= ended[c.sid] + JwtTTL

\* A browser whose access token ran out gets a new one while its session and
\* its user live and no answer is lost, however the tabs race for it.
Renewed ==
    (mine # Null /\ jar.access = Null)
        ~> (jar.access # Null \/ mine = Null \/ ~Live(mine) \/ deleted \/ mine \in lost)
=============================================================================
