------------------------ MODULE ClientSessionProofs ------------------------
(***************************************************************************)
(* For any number of tabs and sessions and any lifetimes: the browser      *)
(* keeps its session (KeepsSession), and a session that is over admits     *)
(* nobody for longer than an access token lives (ExposureBounded).         *)
(***************************************************************************)
EXTENDS ClientSession, TLAPS

Answered(t) == tab[t].pc = "answered" /\ tab[t].jar.refresh # Null

\* Sessions: a session that is open has a token, its own; one that was ended is
\* not open.
SessionInv ==
    /\ \A s \in open : token[s] # 0
    /\ \A s, q \in Sessions : token[s] = token[q] /\ token[s] # 0 => s = q
    /\ \A s \in Sessions : ended[s] # Null => s \notin open /\ token[s] # 0

\* Cookies: no cookie is older than its session, and a refresh cookie outlives
\* it; only the answer to a logout comes without one.
Outlives(c) == token[c.sid] # 0 /\ expires[c.sid] <= c.exp
CookieInv ==
    /\ \A s \in Sessions : expires[s] <= now + SessionTTL
    /\ mine # Null => token[mine] # 0
    /\ jar.refresh # Null => Outlives(jar.refresh)
    /\ \A t \in Tabs : Answered(t) => Outlives(tab[t].jar.refresh)
    /\ \A t \in Tabs : tab[t].pc = "answered" /\ tab[t].op # "logout" => Answered(t)

\* A refresh token on its way to the browser is the current one of its session,
\* and nothing else in the browser holds it.
AnswerInv ==
    \A t \in Tabs : Answered(t) =>
        /\ tab[t].jar.refresh.rt = token[tab[t].jar.refresh.sid]
        /\ ~Has(jar.refresh, tab[t].jar.refresh.rt)
        /\ \A u \in Tabs \ {t} : ~Has(tab[u].jar.refresh, tab[t].jar.refresh.rt)

\* Access cookies: minted no later than now, while the session was live.
AccessOK(c) ==
    c # Null =>
        /\ token[c.sid] # 0
        /\ c.exp <= now + JwtTTL
        /\ c.exp <= expires[c.sid] + JwtTTL
        /\ ended[c.sid] # Null => c.exp <= ended[c.sid] + JwtTTL
AccessInv == AccessOK(jar.access) /\ \A t \in Tabs : AccessOK(tab[t].jar.access)

IInv == TypeOK /\ SessionInv /\ CookieInv /\ AnswerInv /\ AccessInv /\ KeepsSession

-----------------------------------------------------------------------------
(* Types *)

\* Dropping expired cookies leaves cookies.
LEMMA UnexpiredType ==
    ASSUME NEW j \in Jars, NEW time
    PROVE  /\ Unexpired(j, time) \in Jars
           /\ Unexpired(j, time).access = Alive(j.access, time)
           /\ Unexpired(j, time).refresh = Alive(j.refresh, time)
<1>1. Alive(j.access, time) \in Accesses
  BY DEF Alive, Jars, Accesses
<1>2. Alive(j.refresh, time) \in Refreshes
  BY DEF Alive, Jars, Refreshes
<1> QED
  BY <1>1, <1>2 DEF Unexpired, Jars

\* The cookies of setTokenCookies.
LEMMA MintedType ==
    ASSUME TypeOK, NEW s \in Sessions, NEW r \in Secrets
    PROVE  [access  |-> AccessCookie(s),
            refresh |-> [sid |-> s, rt |-> r, exp |-> now + SessionTTL]] \in Jars
<1>1. AccessCookie(s) \in Accesses
  BY ClientAssumption DEF TypeOK, AccessCookie, Accesses
<1>2. [sid |-> s, rt |-> r, exp |-> now + SessionTTL] \in Refreshes
  BY ClientAssumption DEF TypeOK, Refreshes
<1> QED
  BY <1>1, <1>2 DEF Jars

LEMMA NoCookiesType == NoCookies \in Jars /\ NoCookies.access = Null /\ NoCookies.refresh = Null
BY DEF NoCookies, Jars, Accesses, Refreshes

\* The cookies a request carries.
LEMMA SendsType ==
    ASSUME TypeOK, NEW op
    PROVE  /\ Sends(op) \in Jars
           /\ Sends(op).access \in {jar.access, Null}
           /\ Sends(op).refresh # Null =>
                jar.refresh # Null /\ Sends(op).refresh.sid = jar.refresh.sid
                /\ Sends(op).refresh.rt = jar.refresh.rt
<1>1. jar \in Jars
  BY DEF TypeOK
<1>2. CASE op = "refresh" /\ jar.refresh # Null
  <2>1. jar.refresh \in [sid : Sessions, rt : Secrets, exp : Nat]
    BY <1>1, <1>2 DEF Jars, Refreshes
  <2>2. [jar.refresh EXCEPT !.exp = 0] \in Refreshes
    BY <2>1 DEF Refreshes
  <2>3. /\ [jar.refresh EXCEPT !.exp = 0].sid = jar.refresh.sid
        /\ [jar.refresh EXCEPT !.exp = 0].rt = jar.refresh.rt
    BY <2>1
  <2> QED
    BY Zenon, <1>1, <1>2, <2>2, <2>3 DEF Sends, Jars, Accesses
<1>3. CASE ~(op = "refresh" /\ jar.refresh # Null)
  BY <1>1, <1>3 DEF Sends, Jars, Accesses, Refreshes
<1> QED
  BY <1>2, <1>3

Cleared == [pc |-> "answered", op |-> "logout", jar |-> NoCookies]

\* What logout does: it ends at most one session and answers with no cookies.
LEMMA LogoutEffect ==
    ASSUME TypeOK, NEW t \in Tabs, NEW out, Logout(t, out)
    PROVE  /\ UNCHANGED <<token, expires, now, jar, mine, lost>>
           /\ tab' = [tab EXCEPT ![t] = Cleared]
           /\ marked' \subseteq Sessions /\ faults' \in 0..MaxFaults
           /\ \/ UNCHANGED <<open, ended>>
              \/ \E s \in open : open' = open \ {s} /\ ended' = [ended EXCEPT ![s] = now]
<1> DEFINE s == tab[t].jar.access.sid
<1> USE ClientAssumption
<1>1. s \in Sessions
  BY DEF Logout, Admits, TypeOK, Jars, Accesses
<1>2. \/ End(s) /\ ended' = [ended EXCEPT ![s] = now]
      \/ UNCHANGED <<account, ended>>
  BY DEF Logout
<1>3. tab' = [tab EXCEPT ![t] = Cleared]
  BY DEF Logout, removeTokenCookies, SetCookies, Cleared
<1>4. marked' \subseteq Sessions
  BY Zenon, <1>1 DEF Logout, TypeOK
<1>5. faults' \in 0..MaxFaults
  BY DEF Logout, Fault, TypeOK
<1>6. UNCHANGED <<expires, now, jar, mine, lost>>
  BY DEF Logout
<1> HIDE DEF s
<1> QED
  BY <1>2, <1>3, <1>4, <1>5, <1>6 DEF End, account

\* Every step keeps the types.
LEMMA TypeStep == TypeOK /\ [Next]_vars => TypeOK'
<1> SUFFICES ASSUME TypeOK, [Next]_vars PROVE TypeOK'
  OBVIOUS
<1> USE ClientAssumption
<1>1. ASSUME NEW t \in Tabs, NEW op \in {"refresh", "logout"}, Ask(t, op) PROVE TypeOK'
  BY <1>1, SendsType DEF Ask, TypeOK, server, account
<1>2. ASSUME NEW t \in Tabs, NEW s \in Sessions, NEW r \in Pool(s), Login(t, s, r) PROVE TypeOK'
  <2>1. r \in Secrets
    BY <1>2
  <2> QED
    BY <1>2, <2>1, MintedType DEF Login, Open, setTokenCookies, SetCookies, TypeOK
<1>3. ASSUME NEW t \in Tabs, NEW s \in Sessions, NEW r \in Pool(s), Refresh(t, s, r) PROVE TypeOK'
  <2>1. r \in Secrets
    BY <1>3
  <2> QED
    BY Zenon, <1>3, <2>1, MintedType DEF Refresh, Rotate, setTokenCookies, SetCookies, TypeOK
<1>4. ASSUME NEW t \in Tabs, RefreshFails(t) \/ LogoutRefused(t) PROVE TypeOK'
  <2>1. /\ tab' = [tab EXCEPT ![t] = Idle]
        /\ UNCHANGED <<open, token, expires, ended, marked, now, jar, faults, mine, lost>>
    BY <1>4 DEF RefreshFails, LogoutRefused, Refuse, server, account
  <2> QED
    BY <2>1, NoCookiesType DEF Idle, TypeOK
<1>5. ASSUME NEW t \in Tabs, NEW out, Logout(t, out) PROVE TypeOK'
  <2>1. tab' \in [Tabs -> [pc : {"idle", "asked", "answered"},
                           op : {"login", "refresh", "logout", Null}, jar : Jars]]
    BY <1>5, LogoutEffect, NoCookiesType DEF TypeOK, Cleared
  <2>2. open' \subseteq Sessions /\ ended' \in [Sessions -> Nat \cup {Null}]
    <3>1. \/ UNCHANGED <<open, ended>>
          \/ \E s \in open : open' = open \ {s} /\ ended' = [ended EXCEPT ![s] = now]
      BY <1>5, LogoutEffect
    <3>2. now \in Nat \cup {Null} /\ open \subseteq Sessions /\ ended \in [Sessions -> Nat \cup {Null}]
      BY DEF TypeOK
    <3> HIDE ClientAssumption
    <3>3. ASSUME NEW s \in open, open' = open \ {s}, ended' = [ended EXCEPT ![s] = now]
          PROVE  open' \subseteq Sessions /\ ended' \in [Sessions -> Nat \cup {Null}]
      <4> DEFINE Times == Nat \cup {Null}
      <4>1. s \in Sessions /\ now \in Times /\ ended \in [Sessions -> Times]
        BY <3>2
      <4> HIDE DEF Times
      <4>2. ended' \in [Sessions -> Times]
        BY <3>3, <4>1
      <4> QED
        BY <3>2, <3>3, <4>2 DEF Times
    <3> QED
      BY <3>1, <3>2, <3>3
  <2> QED
    <3>1. UNCHANGED <<token, expires, now, jar, mine, lost>> /\ marked' \subseteq Sessions
          /\ faults' \in 0..MaxFaults
      BY <1>5, LogoutEffect
    <3> QED
      BY <2>1, <2>2, <3>1 DEF TypeOK
<1>6. ASSUME NEW t \in Tabs, Deliver(t) PROVE TypeOK'
  <2>1. tab[t].jar \in Jars
    BY DEF TypeOK
  <2>2. mine' \in Sessions \cup {Null}
    BY <1>6, <2>1 DEF Deliver, TypeOK, Jars, Refreshes
  <2> QED
    BY <1>6, <2>1, <2>2, UnexpiredType, NoCookiesType DEF Deliver, TypeOK, Idle, server, account
<1>7. ASSUME NEW t \in Tabs, Lose(t) PROVE TypeOK'
  <2>1. tab[t].jar \in Jars
    BY DEF TypeOK
  <2>2. lost' \subseteq Sessions
    BY Zenon, <1>7, <2>1 DEF Lose, TypeOK, Jars, Refreshes
  <2> QED
    BY <1>7, <2>2, NoCookiesType DEF Lose, Fault, TypeOK, Idle, server, account
<1>8. ASSUME NEW S \in SUBSET Sessions, NEW mark \in BOOLEAN, NEW gone \in BOOLEAN,
             Elsewhere(S, mark, gone) PROVE TypeOK'
  BY <1>8 DEF Elsewhere, Fault, Wipe, TypeOK
<1>9. CASE Tick
  BY <1>9, UnexpiredType DEF Tick, TypeOK, server, account
<1>10. CASE UNCHANGED vars
  BY Zenon, <1>10 DEF vars, server, account, TypeOK
<1> QED
  BY <1>1, <1>2, <1>3, <1>4, <1>5, <1>6, <1>7, <1>8, <1>9, <1>10 DEF Next, Serve

-----------------------------------------------------------------------------
(* Sessions *)

\* The requests and answers that leave the server's rows alone.
LEMMA QuietStep ==
    ASSUME NEW t \in Tabs, NEW op,
           Ask(t, op) \/ RefreshFails(t) \/ LogoutRefused(t) \/ Deliver(t) \/ Lose(t)
    PROVE  UNCHANGED <<open, token, expires, ended, now>>
BY DEF Ask, RefreshFails, LogoutRefused, Deliver, Lose, server, account

\* Every step keeps SessionInv: a session is opened under a token nobody has,
\* rotated to such a token, and never opened again.
LEMMA SessionStep == TypeOK /\ SessionInv /\ [Next]_vars => SessionInv'
<1> SUFFICES ASSUME TypeOK, SessionInv, [Next]_vars PROVE SessionInv'
  OBVIOUS
<1>0. ASSUME UNCHANGED <<open, token, ended>> PROVE SessionInv'
  BY <1>0 DEF SessionInv
<1>1. ASSUME NEW t \in Tabs, NEW s \in Sessions, NEW r \in Pool(s), Login(t, s, r) PROVE SessionInv'
  <2>1. r # 0 /\ r \in Secrets /\ 0 \notin Secrets
    BY ClientAssumption
  <2>2. /\ token[s] = 0 /\ \A q \in Sessions : token[q] # r
        /\ open' = open \cup {s} /\ token' = [token EXCEPT ![s] = r] /\ ended' = ended
    BY <1>1 DEF Login, Open, Fresh
  <2>3. open \subseteq Sessions /\ token \in [Sessions -> Secrets \cup {0}]
    BY DEF TypeOK
  <2> QED
    BY <2>1, <2>2, <2>3 DEF SessionInv
<1>2. ASSUME NEW t \in Tabs, NEW s \in Sessions, NEW r \in Pool(s), Refresh(t, s, r) PROVE SessionInv'
  <2>1. r # 0 /\ r \in Secrets /\ 0 \notin Secrets
    BY ClientAssumption
  <2>2. /\ s \in open /\ \A q \in Sessions : token[q] # r
        /\ open' = open /\ token' = [token EXCEPT ![s] = r] /\ ended' = ended
    BY <1>2 DEF Refresh, Rotate, Fresh
  <2>3. open \subseteq Sessions /\ token \in [Sessions -> Secrets \cup {0}]
    BY DEF TypeOK
  <2> QED
    BY <2>1, <2>2, <2>3 DEF SessionInv
<1>3. ASSUME NEW t \in Tabs, NEW out, Logout(t, out) PROVE SessionInv'
  <2>1. token' = token
        /\ \/ UNCHANGED <<open, ended>>
           \/ \E s \in open : open' = open \ {s} /\ ended' = [ended EXCEPT ![s] = now]
    BY <1>3, LogoutEffect
  <2>2. open \subseteq Sessions /\ ended \in [Sessions -> Nat \cup {Null}]
    BY DEF TypeOK
  <2>3. ASSUME NEW s \in open, open' = open \ {s}, ended' = [ended EXCEPT ![s] = now] PROVE SessionInv'
    BY <2>1, <2>2, <2>3 DEF SessionInv
  <2> QED
    BY <1>0, <2>1, <2>3
<1>4. ASSUME NEW S \in SUBSET Sessions, NEW mark \in BOOLEAN, NEW gone \in BOOLEAN,
             Elsewhere(S, mark, gone) PROVE SessionInv'
  <2>1. /\ S \subseteq open /\ open' = open \ S /\ token' = token
        /\ ended' = [s \in Sessions |-> IF s \in S THEN now ELSE ended[s]]
    BY <1>4 DEF Elsewhere, Wipe
  <2> QED
    BY <2>1 DEF SessionInv
<1>5. CASE Tick \/ UNCHANGED vars
  BY <1>0, <1>5 DEF Tick, vars, server, account
<1> QED
  BY <1>0, <1>1, <1>2, <1>3, <1>4, <1>5, QuietStep DEF Next, Serve

-----------------------------------------------------------------------------
(* A request or an answer without new cookies *)

LEMMA CookieTypes ==
    ASSUME TypeOK
    PROVE  /\ jar.access # Null => jar.access.sid \in Sessions /\ jar.access.exp \in Nat
           /\ jar.refresh # Null => /\ jar.refresh.sid \in Sessions /\ jar.refresh.rt \in Secrets
                                    /\ jar.refresh.exp \in Nat
           /\ \A t \in Tabs :
                /\ tab[t].jar.access # Null =>
                     tab[t].jar.access.sid \in Sessions /\ tab[t].jar.access.exp \in Nat
                /\ tab[t].jar.refresh # Null =>
                     /\ tab[t].jar.refresh.sid \in Sessions /\ tab[t].jar.refresh.rt \in Secrets
                     /\ tab[t].jar.refresh.exp \in Nat
BY DEF TypeOK, Jars, Accesses, Refreshes

\* x takes the place of tab t: a request with cookies of the jar, an answer to
\* a logout, or nothing.
Plain(x) ==
    /\ x.pc # "answered" \/ (x.op = "logout" /\ x.jar.refresh = Null)
    /\ x.jar.refresh # Null => jar.refresh # Null /\ x.jar.refresh.rt = jar.refresh.rt
    /\ x.jar.access \in {jar.access, Null}

LEMMA PlainStep ==
    ASSUME IInv, NEW t \in Tabs, NEW x, Plain(x), tab' = [tab EXCEPT ![t] = x],
           UNCHANGED <<token, expires, now, jar, mine>>
    PROVE  CookieInv' /\ AnswerInv'
<1>1. tab'[t] = x /\ \A u \in Tabs \ {t} : tab'[u] = tab[u]
  BY DEF IInv, TypeOK
<1>2. ~Answered(t)' /\ \A u \in Tabs \ {t} : Answered(u)' <=> Answered(u)
  BY Zenon, <1>1 DEF Answered, Plain
<1>3. CookieInv'
  <2>1. \A u \in Tabs : tab'[u].pc = "answered" /\ tab'[u].op # "logout" => Answered(u)'
    BY Zenon, <1>1, <1>2 DEF IInv, CookieInv, Plain
  <2>2. \A u \in Tabs : Answered(u)' => Outlives(tab[u].jar.refresh)'
    BY Zenon, <1>1, <1>2 DEF IInv, CookieInv, Outlives
  <2> QED
    BY Zenon, <2>1, <2>2 DEF IInv, CookieInv, Outlives
<1>4. AnswerInv'
  BY SMTT(60), <1>1, <1>2 DEF IInv, AnswerInv, Has, Plain
<1> QED
  BY <1>3, <1>4

\* The same for the access cookies, where nothing is revoked.
LEMMA PlainAccess ==
    ASSUME IInv, NEW t \in Tabs, NEW x, Plain(x), tab' = [tab EXCEPT ![t] = x],
           UNCHANGED <<token, expires, ended, now, jar>>
    PROVE  AccessInv'
BY DEF IInv, TypeOK, AccessInv, AccessOK, Plain

-----------------------------------------------------------------------------
(* login and refreshAccessToken *)

\* t is answered with new cookies of session s, whose refresh token is now r.
Mints(t, s, r) ==
    /\ r # 0 /\ ~Held(r)
    /\ tab[t].pc # "answered"
    /\ tab'[t].pc = "answered" /\ tab'[t].jar.refresh # Null
    /\ tab'[t].jar.access = [sid |-> s, exp |-> now + JwtTTL]
    /\ tab'[t].jar.refresh = [sid |-> s, rt |-> r, exp |-> now + SessionTTL]
    /\ \A u \in Tabs \ {t} : tab'[u] = tab[u]
    /\ token'[s] = r /\ \A q \in Sessions \ {s} : token'[q] = token[q]
    /\ \A q \in Sessions : q = s \/ expires'[q] = expires[q]
    /\ token[s] # 0 => /\ expires' = expires /\ s \in open
                       /\ Has(tab[t].jar.refresh, token[s])
    /\ expires'[s] \in Nat /\ now <= expires'[s] /\ expires'[s] <= now + SessionTTL
    /\ open' \subseteq open \cup {s}
    /\ ended[s] = Null
    /\ UNCHANGED <<ended, now, jar, mine, lost>>

\* The cookies in an answer.
LEMMA SetTokenCookies ==
    ASSUME TypeOK, NEW t \in Tabs, NEW op, NEW s \in Sessions, NEW r \in Secrets,
           setTokenCookies(t, op, s, r)
    PROVE  /\ tab'[t].pc = "answered" /\ tab'[t].jar.refresh # Null
           /\ tab'[t].jar.access = [sid |-> s, exp |-> now + JwtTTL]
           /\ tab'[t].jar.refresh = [sid |-> s, rt |-> r, exp |-> now + SessionTTL]
           /\ \A u \in Tabs \ {t} : tab'[u] = tab[u]
<1>1. [sid |-> s, rt |-> r, exp |-> now + SessionTTL] # Null
  <2>1. [sid |-> s, rt |-> r, exp |-> now + SessionTTL] \in [sid : Sessions, rt : Secrets, exp : Nat]
    BY SMTT(60), ClientAssumption DEF TypeOK
  <2> QED
    BY <2>1, ClientAssumption
<1> QED
  BY <1>1 DEF setTokenCookies, SetCookies, AccessCookie, TypeOK

LEMMA LoginMints ==
    ASSUME IInv, NEW t \in Tabs, NEW s \in Sessions, NEW r \in Pool(s), Login(t, s, r)
    PROVE  Mints(t, s, r)
<1>1. r \in Secrets /\ r # 0
  BY ClientAssumption
<1>2. TypeOK
  BY DEF IInv
<1>3. setTokenCookies(t, "login", s, r)
  BY DEF Login
<1>4. token' = [token EXCEPT ![s] = r] /\ open' = open \cup {s} /\ token[s] = 0
  BY DEF Login, Open
<1>5. expires' = [expires EXCEPT ![s] = now + SessionTTL]
  BY DEF Login
<1>6. ended[s] = Null
  BY <1>4 DEF IInv, SessionInv
<1>7. expires'[s] \in Nat /\ now <= expires'[s] /\ expires'[s] <= now + SessionTTL
  BY <1>2, <1>5, ClientAssumption DEF TypeOK
<1>8. ~Held(r) /\ tab[t].pc # "answered" /\ UNCHANGED <<ended, now, jar, mine, lost>>
  BY DEF Login, Unused
<1>9. token'[s] = r /\ (\A q \in Sessions \ {s} : token'[q] = token[q])
      /\ \A q \in Sessions : q = s \/ expires'[q] = expires[q]
  BY Zenon, <1>2, <1>4, <1>5 DEF TypeOK
<1> QED
  BY <1>1, <1>2, <1>3, <1>4, <1>6, <1>7, <1>8, <1>9, SetTokenCookies DEF Mints

LEMMA RefreshMints ==
    ASSUME IInv, NEW t \in Tabs, NEW s \in Sessions, NEW r \in Pool(s), Refresh(t, s, r)
    PROVE  Mints(t, s, r) /\ token[s] # 0
<1>1. r \in Secrets /\ r # 0
  BY ClientAssumption
<1>2. TypeOK
  BY DEF IInv
<1>3. setTokenCookies(t, "refresh", s, r)
  BY DEF Refresh
<1>4. token' = [token EXCEPT ![s] = r] /\ open' = open /\ s \in open /\ expires' = expires
  BY DEF Refresh, Rotate
<1>5. Has(tab[t].jar.refresh, token[s]) /\ now <= expires[s]
  BY Zenon DEF Refresh, Refreshable, Live, Has
<1>6. ended[s] = Null /\ token[s] # 0 /\ expires[s] <= now + SessionTTL /\ expires[s] \in Nat
  BY ZenonT(90), <1>4 DEF IInv, TypeOK, SessionInv, CookieInv
<1>7. ~Held(r) /\ tab[t].pc # "answered" /\ UNCHANGED <<ended, now, jar, mine, lost>>
  BY DEF Refresh, Unused, Asked
<1>8. token'[s] = r /\ \A q \in Sessions \ {s} : token'[q] = token[q]
  BY <1>2, <1>4 DEF TypeOK
<1> QED
  BY <1>1, <1>2, <1>3, <1>4, <1>5, <1>6, <1>7, <1>8, SetTokenCookies DEF Mints

\* New cookies keep the invariants.
LEMMA MintStep ==
    ASSUME IInv, NEW t \in Tabs, NEW s \in Sessions, NEW r, Mints(t, s, r)
    PROVE  CookieInv' /\ AnswerInv' /\ AccessInv' /\ KeepsSession'
<1>0. TypeOK
  BY Zenon DEF IInv
<1>1. /\ r # 0 /\ ~Held(r) /\ tab[t].pc # "answered"
      /\ tab'[t].pc = "answered" /\ tab'[t].jar.refresh # Null
      /\ tab'[t].jar.refresh.sid = s /\ tab'[t].jar.refresh.rt = r
      /\ tab'[t].jar.refresh.exp = now + SessionTTL
      /\ tab'[t].jar.access.sid = s /\ tab'[t].jar.access.exp = now + JwtTTL
      /\ \A u \in Tabs \ {t} : tab'[u] = tab[u]
  <2>1. /\ tab'[t].jar.access = [sid |-> s, exp |-> now + JwtTTL]
        /\ tab'[t].jar.refresh = [sid |-> s, rt |-> r, exp |-> now + SessionTTL]
    BY Zenon DEF Mints
  <2>2. tab'[t].jar.access.sid = s /\ tab'[t].jar.access.exp = now + JwtTTL
    BY <2>1
  <2>3. /\ tab'[t].jar.refresh.sid = s /\ tab'[t].jar.refresh.rt = r
        /\ tab'[t].jar.refresh.exp = now + SessionTTL
    BY <2>1
  <2> QED
    BY Zenon, <2>2, <2>3 DEF Mints
<1>2. /\ token'[s] = r /\ \A q \in Sessions \ {s} : token'[q] = token[q]
      /\ expires'[s] \in Nat /\ now <= expires'[s] /\ expires'[s] <= now + SessionTTL
      /\ ended[s] = Null /\ UNCHANGED <<ended, now, jar, mine, lost>>
  BY Zenon DEF Mints
<1>3. \A q \in Sessions : token[q] # 0 => token'[q] # 0 /\ expires'[q] = expires[q]
  BY Zenon, <1>1, <1>2 DEF Mints
<1>4. Answered(t)' /\ \A u \in Tabs \ {t} : Answered(u)' <=> Answered(u)
  BY Zenon, <1>1 DEF Answered
\* No answer on its way belongs to s: the request that was served held its token.
<1>5. \A u \in Tabs \ {t} : Answered(u) => tab[u].jar.refresh.sid # s
  <2> SUFFICES ASSUME NEW u \in Tabs \ {t}, Answered(u), tab[u].jar.refresh.sid = s PROVE FALSE
    BY Zenon
  <2>1. token[s] # 0 /\ tab[u].jar.refresh.rt = token[s]
    BY Zenon DEF IInv, CookieInv, Outlives, AnswerInv
  <2>2. Has(tab[t].jar.refresh, token[s])
    BY Zenon, <2>1 DEF Mints
  <2> QED
    BY <2>1, <2>2 DEF IInv, AnswerInv
<1>6. CookieInv'
  <2>1. \A q \in Sessions : expires'[q] <= now' + SessionTTL
    BY Zenon, <1>2 DEF IInv, CookieInv, Mints
  <2>2. mine' # Null => token'[mine'] # 0
    BY Zenon, <1>0, <1>2, <1>3 DEF IInv, CookieInv, TypeOK
  <2>3. jar'.refresh # Null => Outlives(jar.refresh)'
    BY <1>0, <1>2, <1>3, CookieTypes DEF IInv, CookieInv, Outlives
  <2>4. \A u \in Tabs : Answered(u)' => Outlives(tab[u].jar.refresh)'
    <3>1. Outlives(tab[t].jar.refresh)'
      BY Zenon, <1>1, <1>2 DEF Outlives
    <3>2. ASSUME NEW u \in Tabs \ {t}, Answered(u) PROVE Outlives(tab[u].jar.refresh)'
      <4>1. tab[u].jar.refresh.sid \in Sessions
        BY Zenon, <1>0, <3>2, CookieTypes DEF Answered
      <4> QED
        BY Zenon, <1>1, <1>3, <3>2, <4>1 DEF IInv, CookieInv, Outlives
    <3> QED
      BY Zenon, <1>4, <3>1, <3>2
  <2>5. \A u \in Tabs : tab'[u].pc = "answered" /\ tab'[u].op # "logout" => Answered(u)'
    BY Zenon, <1>1, <1>4 DEF IInv, CookieInv
  <2> QED
    BY Zenon, <2>1, <2>2, <2>3, <2>4, <2>5 DEF CookieInv
<1>7. AnswerInv'
  <2> SUFFICES ASSUME NEW u \in Tabs, Answered(u)'
               PROVE  /\ tab'[u].jar.refresh.rt = token'[tab'[u].jar.refresh.sid]
                      /\ ~Has(jar.refresh, tab[u].jar.refresh.rt)'
                      /\ \A v \in Tabs \ {u} : ~Has(tab[v].jar.refresh, tab[u].jar.refresh.rt)'
    BY Zenon DEF AnswerInv
  <2>1. CASE u = t
    BY Zenon, <1>1, <1>2, <2>1 DEF Held, Has
  <2>2. CASE u # t
    <3>1. Answered(u) /\ tab'[u] = tab[u] /\ tab[u].jar.refresh.sid \in Sessions \ {s}
      BY Zenon, <1>0, <1>1, <1>4, <1>5, <2>2, CookieTypes DEF Answered
    <3>2. tab[u].jar.refresh.rt # r
      BY Zenon, <1>1, <3>1 DEF Held, Has, Answered
    <3>3. tab'[u].jar.refresh.rt = token'[tab'[u].jar.refresh.sid]
      BY ZenonT(90), <1>2, <3>1 DEF IInv, AnswerInv
    <3>4. ~Has(jar.refresh, tab[u].jar.refresh.rt)'
      BY Zenon, <1>2, <3>1 DEF IInv, AnswerInv, Has
    <3>5. \A v \in Tabs \ {u} : ~Has(tab[v].jar.refresh, tab[u].jar.refresh.rt)'
      BY <1>1, <3>1, <3>2 DEF IInv, AnswerInv, Has
    <3> QED
      BY Zenon, <3>3, <3>4, <3>5
  <2> QED
    BY Zenon, <2>1, <2>2
<1>8. AccessInv'
  <2>1. AccessOK(tab[t].jar.access)'
    <3>1. now + JwtTTL <= now' + JwtTTL /\ now + JwtTTL <= expires'[s] + JwtTTL
      BY SMTT(60), <1>0, <1>2, ClientAssumption DEF TypeOK
    <3> QED
      BY Zenon, <1>1, <1>2, <3>1 DEF AccessOK
  <2>2. AccessOK(jar.access)'
    BY Zenon, <1>0, <1>2, <1>3, CookieTypes DEF IInv, AccessInv, AccessOK
  <2>3. ASSUME NEW u \in Tabs \ {t} PROVE AccessOK(tab[u].jar.access)'
    <3>1. AccessOK(tab[u].jar.access)
      BY Zenon DEF IInv, AccessInv
    <3>2. tab[u].jar.access # Null => tab[u].jar.access.sid \in Sessions
      BY Zenon, <1>0, CookieTypes
    <3> QED
      BY ZenonT(90), <1>1, <1>2, <1>3, <3>1, <3>2 DEF AccessOK
  <2> QED
    BY Zenon, <2>1, <2>2, <2>3 DEF AccessInv
<1>9. KeepsSession'
  <2> SUFFICES ASSUME mine # Null, Live(mine)', mine \notin lost
               PROVE  /\ jar.refresh # Null /\ jar.refresh.sid = mine
                      /\ \/ Carries(jar.refresh, mine)'
                         \/ \E u \in Tabs : tab'[u].pc = "answered" /\ Carries(tab[u].jar.refresh, mine)'
    BY Zenon, <1>2 DEF KeepsSession
  <2>1. mine \in Sessions /\ token[mine] # 0 /\ expires'[mine] = expires[mine]
    BY Zenon, <1>0, <1>3 DEF IInv, CookieInv, TypeOK
  <2>2. Live(mine)
    BY Zenon, <1>2, <2>1 DEF Live, Mints
  <2>3. /\ jar.refresh # Null /\ jar.refresh.sid = mine
        /\ \/ Carries(jar.refresh, mine)
           \/ \E u \in Tabs : tab[u].pc = "answered" /\ Carries(tab[u].jar.refresh, mine)
    BY Zenon, <2>2 DEF IInv, KeepsSession
  <2>4. CASE mine = s
    BY Zenon, <1>1, <1>2, <2>3, <2>4 DEF Carries
  <2>5. CASE mine # s
    <3>1. token'[mine] = token[mine]
      BY Zenon, <1>2, <2>1, <2>5
    <3> QED
      BY Zenon, <1>1, <1>2, <2>3, <3>1 DEF Carries
  <2> QED
    BY Zenon, <2>4, <2>5
<1> QED
  BY <1>6, <1>7, <1>8, <1>9

-----------------------------------------------------------------------------
(* The other steps *)

\* t had no answer and has none with cookies now, no session is opened: the
\* browser keeps what it had.
LEMMA KeepsPlain ==
    ASSUME IInv, NEW t \in Tabs, tab[t].pc # "answered",
           \A u \in Tabs \ {t} : tab'[u] = tab[u],
           open' \subseteq open, UNCHANGED <<token, expires, now, jar, mine, lost>>
    PROVE  KeepsSession'
<1> SUFFICES ASSUME mine # Null, Live(mine)', mine \notin lost
             PROVE  /\ jar.refresh # Null /\ jar.refresh.sid = mine
                    /\ \/ Carries(jar.refresh, mine)'
                       \/ \E u \in Tabs : tab'[u].pc = "answered" /\ Carries(tab[u].jar.refresh, mine)'
  BY Zenon DEF KeepsSession
<1>1. Live(mine)
  BY Zenon DEF Live
<1>2. /\ jar.refresh # Null /\ jar.refresh.sid = mine
      /\ \/ Carries(jar.refresh, mine)
         \/ \E u \in Tabs : tab[u].pc = "answered" /\ Carries(tab[u].jar.refresh, mine)
  BY Zenon, <1>1 DEF IInv, KeepsSession
<1> QED
  BY Zenon, <1>2 DEF Carries

LEMMA IdlePlain == Plain(Idle) /\ Plain(Cleared)
BY NoCookiesType DEF Plain, Idle, Cleared

\* A request leaves.
LEMMA AskStep ==
    ASSUME IInv, NEW t \in Tabs, NEW op, Ask(t, op)
    PROVE  CookieInv' /\ AnswerInv' /\ AccessInv' /\ KeepsSession'
<1> DEFINE x == [pc |-> "asked", op |-> op, jar |-> Sends(op)]
<1>1. Plain(x)
  <2>1. TypeOK
    BY DEF IInv
  <2>2. x.pc = "asked" /\ x.jar = Sends(op)
    OBVIOUS
  <2>3. /\ Sends(op).access \in {jar.access, Null}
        /\ Sends(op).refresh # Null => jar.refresh # Null /\ Sends(op).refresh.rt = jar.refresh.rt
    BY <2>1, SendsType
  <2> HIDE DEF x
  <2> QED
    BY <2>2, <2>3 DEF Plain
<1>2. tab' = [tab EXCEPT ![t] = x] /\ tab[t].pc = "idle"
  BY DEF Ask
<1>3. UNCHANGED <<open, token, expires, ended, now, jar, mine, lost>>
  BY Zenon DEF Ask, server, account
<1> HIDE DEF x
<1>4. \A u \in Tabs \ {t} : tab'[u] = tab[u]
  BY <1>2 DEF IInv, TypeOK
<1> QED
  BY Zenon, <1>1, <1>2, <1>3, <1>4, PlainStep, PlainAccess, KeepsPlain

\* A request is refused.
LEMMA RefusedStep ==
    ASSUME IInv, NEW t \in Tabs, RefreshFails(t) \/ LogoutRefused(t)
    PROVE  CookieInv' /\ AnswerInv' /\ AccessInv' /\ KeepsSession'
<1>1. tab' = [tab EXCEPT ![t] = Idle] /\ tab[t].pc = "asked"
  BY DEF RefreshFails, LogoutRefused, Refuse, Asked
<1>2. UNCHANGED <<open, token, expires, ended, now, jar, mine, lost>>
  BY Zenon DEF RefreshFails, LogoutRefused, server, account
<1>3. \A u \in Tabs \ {t} : tab'[u] = tab[u]
  BY <1>1 DEF IInv, TypeOK
<1> QED
  BY Zenon, <1>1, <1>2, <1>3, IdlePlain, PlainStep, PlainAccess, KeepsPlain

\* A request or an answer is lost, and its session with it.
LEMMA LoseStep ==
    ASSUME IInv, NEW t \in Tabs, Lose(t)
    PROVE  CookieInv' /\ AnswerInv' /\ AccessInv' /\ KeepsSession'
<1>1. tab' = [tab EXCEPT ![t] = Idle]
  BY DEF Lose
<1>2. UNCHANGED <<open, token, expires, ended, now, jar, mine>>
  BY DEF Lose, server, account
<1>3. \A u \in Tabs \ {t} : tab'[u] = tab[u]
  BY <1>1 DEF IInv, TypeOK
<1>4. CookieInv' /\ AnswerInv' /\ AccessInv'
  BY Zenon, <1>1, <1>2, IdlePlain, PlainStep, PlainAccess
<1>5. lost \subseteq lost' /\ (Answered(t) => tab[t].jar.refresh.sid \in lost')
  BY Zenon DEF Lose, Answered
<1>6. KeepsSession'
  <2> SUFFICES ASSUME mine # Null, Live(mine)', mine \notin lost'
               PROVE  /\ jar.refresh # Null /\ jar.refresh.sid = mine
                      /\ \/ Carries(jar.refresh, mine)'
                         \/ \E u \in Tabs : tab'[u].pc = "answered" /\ Carries(tab[u].jar.refresh, mine)'
    BY Zenon, <1>2 DEF KeepsSession
  <2>1. /\ jar.refresh # Null /\ jar.refresh.sid = mine
        /\ \/ Carries(jar.refresh, mine)
           \/ \E u \in Tabs : tab[u].pc = "answered" /\ Carries(tab[u].jar.refresh, mine)
    BY <1>2, <1>5 DEF IInv, KeepsSession, Live
  <2>2. ~(tab[t].pc = "answered" /\ Carries(tab[t].jar.refresh, mine))
    BY <1>5 DEF Carries, Answered
  <2> QED
    BY Zenon, <1>2, <1>3, <2>1, <2>2 DEF Carries
<1> QED
  BY <1>4, <1>6

\* An answer arrives.
LEMMA DeliverStep ==
    ASSUME IInv, NEW t \in Tabs, Deliver(t)
    PROVE  CookieInv' /\ AnswerInv' /\ AccessInv' /\ KeepsSession'
<1>0. TypeOK /\ tab[t].jar \in Jars /\ tab[t].pc = "answered"
  BY Zenon DEF IInv, TypeOK, Deliver
<1>1. /\ jar'.access = Alive(tab[t].jar.access, now)
      /\ jar'.refresh = Alive(tab[t].jar.refresh, now)
  BY Zenon, <1>0, UnexpiredType DEF Deliver
<1>2. UNCHANGED <<open, token, expires, ended, now, lost>> /\ tab' = [tab EXCEPT ![t] = Idle]
  BY Zenon DEF Deliver, server, account
<1>3. tab'[t] = Idle /\ \A u \in Tabs \ {t} : tab'[u] = tab[u]
  BY Zenon, <1>0, <1>2 DEF TypeOK
<1>4. mine' = IF tab[t].op = "logout" THEN Null
              ELSE IF tab[t].jar.refresh # Null THEN tab[t].jar.refresh.sid ELSE mine
  BY Zenon DEF Deliver
<1>5. ~Answered(t)' /\ \A u \in Tabs \ {t} : Answered(u)' <=> Answered(u)
  BY SMTT(60), <1>3 DEF Answered, Idle
<1>6. jar'.refresh # Null => Answered(t) /\ jar'.refresh = tab[t].jar.refresh
  BY Zenon, <1>0, <1>1 DEF Alive, Answered
<1>7. mine' # Null => Answered(t) /\ mine' = tab[t].jar.refresh.sid
  BY Zenon, <1>0, <1>4 DEF IInv, CookieInv, Answered
<1>8. CookieInv'
  <2>1. mine' # Null => token'[mine'] # 0
    BY Zenon, <1>2, <1>7 DEF IInv, CookieInv, Outlives
  <2>2. jar'.refresh # Null => Outlives(jar.refresh)'
    BY Zenon, <1>2, <1>6 DEF IInv, CookieInv, Outlives
  <2>3. \A u \in Tabs : Answered(u)' => Outlives(tab[u].jar.refresh)'
    BY Zenon, <1>2, <1>3, <1>5 DEF IInv, CookieInv, Outlives
  <2>4. \A u \in Tabs : tab'[u].pc = "answered" /\ tab'[u].op # "logout" => Answered(u)'
    BY SMTT(60), <1>3, <1>5 DEF IInv, CookieInv, Idle
  <2>5. \A s \in Sessions : expires'[s] <= now' + SessionTTL
    BY Zenon, <1>2 DEF IInv, CookieInv
  <2> QED
    BY Zenon, <2>1, <2>2, <2>3, <2>4, <2>5 DEF CookieInv
<1>9. AnswerInv'
  <2> SUFFICES ASSUME NEW u \in Tabs \ {t}, Answered(u)
               PROVE  /\ tab'[u].jar.refresh.rt = token'[tab'[u].jar.refresh.sid]
                      /\ ~Has(jar.refresh, tab[u].jar.refresh.rt)'
                      /\ \A v \in Tabs \ {u} : ~Has(tab[v].jar.refresh, tab[u].jar.refresh.rt)'
    BY Zenon, <1>5 DEF AnswerInv
  <2>1. tab'[u] = tab[u] /\ tab[u].jar.refresh.rt = token[tab[u].jar.refresh.sid]
        /\ \A v \in Tabs \ {u} : ~Has(tab[v].jar.refresh, tab[u].jar.refresh.rt)
    BY Zenon, <1>3 DEF IInv, AnswerInv
  <2>2. ~Has(jar.refresh, tab[u].jar.refresh.rt)'
    BY ZenonT(90), <1>6, <2>1 DEF Has
  <2>3. \A v \in Tabs \ {u} : ~Has(tab[v].jar.refresh, tab[u].jar.refresh.rt)'
    BY <1>3, <2>1, NoCookiesType DEF Has, Idle
  <2> QED
    BY Zenon, <1>2, <2>1, <2>2, <2>3
<1>10. AccessInv'
  <2>1. AccessOK(tab[t].jar.access) /\ jar'.access \in {tab[t].jar.access, Null}
    BY Zenon, <1>1 DEF IInv, AccessInv, Alive
  <2>2. AccessOK(jar.access)'
    BY Zenon, <1>2, <2>1 DEF AccessOK
  <2>3. AccessOK(tab[t].jar.access)'
    BY SMTT(60), <1>3, NoCookiesType DEF AccessOK, Idle
  <2>4. \A u \in Tabs \ {t} : AccessOK(tab[u].jar.access)'
    BY <1>2, <1>3 DEF IInv, AccessInv, AccessOK
  <2> QED
    BY Zenon, <2>2, <2>3, <2>4 DEF AccessInv
<1>11. KeepsSession'
  <2> SUFFICES ASSUME mine' # Null, Live(mine)'
               PROVE  jar'.refresh # Null /\ jar'.refresh.sid = mine' /\ Carries(jar.refresh, mine)'
    BY Zenon DEF KeepsSession
  <2> DEFINE c == tab[t].jar.refresh
  <2>1. /\ c # Null /\ mine' = c.sid /\ expires[c.sid] <= c.exp
        /\ c.rt = token[c.sid]
    BY Zenon, <1>7 DEF IInv, CookieInv, Outlives, AnswerInv, Answered
  <2>2. now <= expires[c.sid]
    BY SMTT(60), <1>2, <2>1 DEF Live
  <2>3. now \in Nat /\ expires[c.sid] \in Nat /\ c.exp \in Nat
    BY Zenon, <1>0, <2>1, CookieTypes, ClientAssumption DEF TypeOK
  <2> HIDE DEF c
  <2>4. ~(c.exp < now)
    BY SMTT(60), <2>1, <2>2, <2>3
  <2>5. jar'.refresh = c
    BY <1>1, <2>4 DEF Alive, c
  <2> QED
    BY Zenon, <1>2, <2>1, <2>5 DEF Carries
<1> QED
  BY Zenon, <1>8, <1>9, <1>10, <1>11

\* logout ends a session.
LEMMA LogoutStep ==
    ASSUME IInv, NEW t \in Tabs, NEW out, Logout(t, out)
    PROVE  CookieInv' /\ AnswerInv' /\ AccessInv' /\ KeepsSession'
<1>0. TypeOK /\ tab[t].pc = "asked"
  BY Zenon DEF IInv, Logout, Asked
<1>1. UNCHANGED <<token, expires, now, jar, mine, lost>> /\ tab' = [tab EXCEPT ![t] = Cleared]
  BY <1>0, LogoutEffect
<1>2. \/ UNCHANGED <<open, ended>>
      \/ \E s \in open : open' = open \ {s} /\ ended' = [ended EXCEPT ![s] = now]
  BY <1>0, LogoutEffect
<1>3. tab'[t] = Cleared /\ \A u \in Tabs \ {t} : tab'[u] = tab[u]
  BY <1>0, <1>1 DEF TypeOK
<1>4. CookieInv' /\ AnswerInv'
  BY ZenonT(90), <1>1, IdlePlain, PlainStep
<1>5. KeepsSession'
  BY Zenon, <1>0, <1>1, <1>2, <1>3, KeepsPlain
<1>6. \A q \in Sessions : ended'[q] \in {ended[q], now}
  BY Zenon, <1>0, <1>2 DEF TypeOK
<1>8. AccessInv'
  <2>1. AccessOK(jar.access)'
    <3>1. AccessOK(jar.access) /\ (jar.access # Null => jar.access.sid \in Sessions)
      BY Zenon, <1>0, CookieTypes DEF IInv, AccessInv
    <3> QED
      BY Zenon, <1>1, <1>6, <3>1 DEF AccessOK
  <2>2. ASSUME NEW u \in Tabs \ {t} PROVE AccessOK(tab[u].jar.access)'
    <3>1. AccessOK(tab[u].jar.access) /\ (tab[u].jar.access # Null => tab[u].jar.access.sid \in Sessions)
      BY Zenon, <1>0, CookieTypes DEF IInv, AccessInv
    <3> QED
      BY Zenon, <1>1, <1>3, <1>6, <3>1 DEF AccessOK
  <2>3. AccessOK(tab[t].jar.access)'
    BY <1>3, NoCookiesType DEF AccessOK, Cleared
  <2> QED
    BY Zenon, <2>1, <2>2, <2>3 DEF AccessInv
<1> QED
  BY SMTT(60), <1>4, <1>5, <1>8

\* Sessions are revoked from elsewhere.
LEMMA ElsewhereStep ==
    ASSUME IInv, NEW S \in SUBSET Sessions, NEW mark, NEW gone, Elsewhere(S, mark, gone)
    PROVE  CookieInv' /\ AnswerInv' /\ AccessInv' /\ KeepsSession'
<1>0. TypeOK
  BY DEF IInv
<1>1. UNCHANGED <<token, expires, now, jar, tab, mine, lost>> /\ open' \subseteq open
  BY DEF Elsewhere, Wipe
<1>2. \A q \in Sessions : ended'[q] \in {ended[q], now}
  BY Zenon DEF Elsewhere
<1>3. CookieInv'
  BY Zenon, <1>1 DEF IInv, CookieInv, Outlives, Answered
<1>4. AnswerInv'
  BY Zenon, <1>1 DEF IInv, AnswerInv, Answered, Has
<1>5. AccessInv'
  <2>1. AccessOK(jar.access)'
    <3>1. AccessOK(jar.access) /\ (jar.access # Null => jar.access.sid \in Sessions)
      BY Zenon, <1>0, CookieTypes DEF IInv, AccessInv
    <3> QED
      BY Zenon, <1>1, <1>2, <3>1 DEF AccessOK
  <2>2. ASSUME NEW u \in Tabs PROVE AccessOK(tab[u].jar.access)'
    <3>1. AccessOK(tab[u].jar.access) /\ (tab[u].jar.access # Null => tab[u].jar.access.sid \in Sessions)
      BY SMTT(60), <1>0, CookieTypes DEF IInv, AccessInv
    <3> QED
      BY Zenon, <1>1, <1>2, <3>1 DEF AccessOK
  <2> QED
    BY <2>1, <2>2 DEF AccessInv
<1>6. KeepsSession'
  <2>1. Live(mine)' => Live(mine)
    BY <1>1 DEF Live
  <2> QED
    BY Zenon, <1>1, <2>1 DEF IInv, KeepsSession, Carries
<1> QED
  BY <1>3, <1>4, <1>5, <1>6

\* Time passes: a cookie is dropped only when its session is over too.
LEMMA TickStep ==
    ASSUME IInv, Tick
    PROVE  CookieInv' /\ AnswerInv' /\ AccessInv' /\ KeepsSession'
<1>0. TypeOK /\ jar \in Jars
  BY DEF IInv, TypeOK
<1>1. UNCHANGED <<open, token, expires, ended, tab, mine, lost>> /\ now' \in Instants /\ now < now'
  BY DEF Tick, server, account
<1>2. /\ jar'.access = Alive(jar.access, now')
      /\ jar'.refresh = Alive(jar.refresh, now')
  BY <1>0, UnexpiredType DEF Tick
<1>3. now \in Nat /\ now' \in Nat /\ now < now' /\ \A s \in Sessions : expires[s] \in Nat
  BY ZenonT(90), <1>0, <1>1, ClientAssumption DEF TypeOK
<1>4. CookieInv'
  <2>1. \A s \in Sessions : expires'[s] <= now' + SessionTTL
    <3> SUFFICES ASSUME NEW s \in Sessions PROVE expires[s] <= now' + SessionTTL
      BY <1>1
    <3>1. expires[s] <= now + SessionTTL
      BY Zenon DEF IInv, CookieInv
    <3> QED
      BY <1>3, <3>1, ClientAssumption
  <2>2. jar'.refresh # Null => Outlives(jar.refresh)'
    BY ZenonT(90), <1>1, <1>2 DEF IInv, CookieInv, Outlives, Alive
  <2> QED
    BY <1>1, <2>1, <2>2 DEF IInv, CookieInv, Outlives, Answered
<1>5. AnswerInv'
  BY <1>1, <1>2 DEF IInv, AnswerInv, Answered, Has, Alive
<1>6. AccessInv'
  <2>1. AccessOK(jar.access)'
    <3>1. AccessOK(jar.access) /\ (jar.access # Null => jar.access.exp \in Nat)
      BY Zenon, <1>0, CookieTypes DEF IInv, AccessInv
    <3> QED
      BY SMTT(60), <1>1, <1>2, <1>3, <3>1, ClientAssumption DEF AccessOK, Alive
  <2>2. ASSUME NEW u \in Tabs PROVE AccessOK(tab[u].jar.access)'
    <3>1. AccessOK(tab[u].jar.access) /\ (tab[u].jar.access # Null => tab[u].jar.access.exp \in Nat)
      BY Zenon, <1>0, CookieTypes DEF IInv, AccessInv
    <3> QED
      BY SMTT(60), <1>1, <1>3, <3>1, ClientAssumption DEF AccessOK
  <2> QED
    BY Zenon, <2>1, <2>2 DEF AccessInv
<1>7. KeepsSession'
  <2> SUFFICES ASSUME mine # Null, Live(mine)', mine \notin lost
               PROVE  /\ jar'.refresh # Null /\ jar'.refresh.sid = mine
                      /\ \/ Carries(jar.refresh, mine)'
                         \/ \E u \in Tabs : tab'[u].pc = "answered" /\ Carries(tab[u].jar.refresh, mine)'
    BY <1>1 DEF KeepsSession
  <2>1. mine \in Sessions /\ mine \in open /\ now' <= expires[mine]
    BY <1>0, <1>1 DEF Live, TypeOK
  <2>2. Live(mine)
    BY SMTT(60), <1>3, <2>1 DEF Live
  <2>3. /\ jar.refresh # Null /\ jar.refresh.sid = mine
        /\ \/ Carries(jar.refresh, mine)
           \/ \E u \in Tabs : tab[u].pc = "answered" /\ Carries(tab[u].jar.refresh, mine)
    BY SMTT(60), <2>2 DEF IInv, KeepsSession
  <2>4. jar.refresh.exp \in Nat /\ expires[mine] <= jar.refresh.exp
    BY Zenon, <1>0, <2>3, CookieTypes DEF IInv, CookieInv, Outlives
  <2>5. ~(jar.refresh.exp < now')
    BY <1>3, <2>1, <2>4
  <2>6. jar'.refresh = jar.refresh
    BY <1>2, <2>5 DEF Alive
  <2> QED
    BY Zenon, <1>1, <2>3, <2>6 DEF Carries
<1> QED
  BY <1>4, <1>5, <1>6, <1>7

-----------------------------------------------------------------------------
(* The theorems *)

LEMMA InitInv == Init => IInv
<1> SUFFICES ASSUME Init PROVE IInv
  BY Zenon
<1>1. TypeOK
  BY ClientAssumption, NoCookiesType DEF Init, AccountInit, Idle, TypeOK
<1>2. SessionInv
  BY Zenon DEF Init, AccountInit, SessionInv
<1>3. CookieInv /\ AnswerInv
  BY SMTT(60), ClientAssumption, NoCookiesType DEF Init, AccountInit, Idle, CookieInv, AnswerInv, Answered
<1>4. AccessInv
  BY Zenon, NoCookiesType DEF Init, Idle, AccessInv, AccessOK
<1>5. KeepsSession
  BY DEF Init, KeepsSession
<1> QED
  BY <1>1, <1>2, <1>3, <1>4, <1>5 DEF IInv

LEMMA NextInv == IInv /\ [Next]_vars => IInv'
<1> SUFFICES ASSUME IInv, [Next]_vars PROVE IInv'
  OBVIOUS
<1>1. TypeOK' /\ SessionInv'
  BY TypeStep, SessionStep DEF IInv
<1> DEFINE Rest == CookieInv /\ AnswerInv /\ AccessInv /\ KeepsSession
<1>2. ASSUME NEW t \in Tabs,
             \/ \E op \in {"refresh", "logout"} : Ask(t, op)
             \/ \E s \in Sessions : \E r \in Pool(s) : Login(t, s, r) \/ Refresh(t, s, r)
      PROVE  Rest'
  BY <1>2, AskStep, LoginMints, RefreshMints, MintStep
<1>3. ASSUME NEW t \in Tabs, RefreshFails(t) \/ LogoutRefused(t) PROVE Rest'
  BY <1>3, RefusedStep
<1>4. ASSUME NEW t \in Tabs, NEW out, Logout(t, out) PROVE Rest'
  BY <1>4, LogoutStep
<1>5. ASSUME NEW t \in Tabs, Deliver(t) PROVE Rest'
  BY <1>5, DeliverStep
<1>6. ASSUME NEW t \in Tabs, Lose(t) PROVE Rest'
  BY <1>6, LoseStep
<1>7. ASSUME NEW S \in SUBSET Sessions, NEW mark \in BOOLEAN, NEW gone \in BOOLEAN,
             Elsewhere(S, mark, gone) PROVE Rest'
  BY <1>7, ElsewhereStep
<1>8. ASSUME Tick PROVE Rest'
  BY SMTT(60), <1>8, TickStep
<1>9. ASSUME UNCHANGED vars PROVE Rest'
  BY Zenon, <1>9 DEF vars, server, account, IInv, CookieInv, Outlives, AnswerInv, Answered, Has,
              AccessInv, AccessOK, KeepsSession, Live, Carries
<1>10. Rest'
  <2> HIDE DEF Rest
  <2> QED
    BY <1>2, <1>3, <1>4, <1>5, <1>6, <1>7, <1>8, <1>9 DEF Next, Serve
<1> QED
  BY <1>1, <1>10 DEF IInv

LEMMA Invariance == Spec => []IInv
BY InitInv, NextInv, PTL DEF Spec

\* However many tabs refresh, log in and log out at the same time, the browser
\* is never locked out of a live session unless an answer got lost.
THEOREM BrowserKeepsSession == Spec => []KeepsSession
<1>1. IInv => KeepsSession
  BY SMTT(60) DEF IInv
<1> QED
  BY <1>1, Invariance, PTL

\* "a short access-token TTL bounds exposure", for every TTL: no access token of
\* a revoked or expired session is good for longer than JwtTTL after its end.
THEOREM AccessExposureBounded == Spec => []ExposureBounded
<1>1. IInv => ExposureBounded
  BY Zenon DEF IInv, AccessInv, AccessOK, ExposureBounded
<1> QED
  BY <1>1, Invariance, PTL

\* Cookies, tabs and session rows keep their types through lost answers, expiry and
\* whatever other clients do to the sessions.
THEOREM BrowserTypeCorrect == Spec => []TypeOK
<1>1. IInv => TypeOK
  BY DEF IInv
<1> QED
  BY <1>1, Invariance, PTL
=============================================================================
