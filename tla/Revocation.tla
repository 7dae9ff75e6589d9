----------------------------- MODULE Revocation -----------------------------
(***************************************************************************)
(* Access-token revocation for one user:                                   *)
(*   internal/infrastructure/redis/revocation.go   markers and verdict     *)
(*   internal/auth/access_token.go                 iat, exp, verification  *)
(*   internal/transport/http/middlewares.go        Authenticate            *)
(*                                                                         *)
(* Time passes in ticks, Second ticks to a second; JWT claims carry whole  *)
(* seconds, watermarks do not.  Every API instance has its own clock, ahead*)
(* of the slowest one by at most MaxOffset.  A revocation reads its        *)
(* instance's clock and then sends SET, which reaches Redis at most        *)
(* MaxDelay later; another revocation may get there first.  A request's    *)
(* token is verified first and its markers are read at most CheckDelay     *)
(* later.  Redis expires markers by real time.                             *)
(***************************************************************************)
EXTENDS Naturals, FiniteSets

CONSTANTS
    Instances, Offset, \* the API instances and how far ahead their clocks are
    Sids,              \* sessions of the user
    Calls, Checks,     \* slots for concurrent revocations and requests
    Second,            \* ticks per second
    JwtTTL, Skew,      \* access-token lifetime and revocationSkew
    MaxOffset, MaxDelay, CheckDelay,
    FailClosed,        \* AUTH_REVOCATION_FAIL_CLOSED
    StoreFails,        \* may Redis fail?
    MaxTime, MaxTokens, MaxCalls \* bounds of the explored behaviours

ASSUME TimeAssumption ==
    /\ Second \in Nat \ {0}
    /\ JwtTTL \in Nat \ {0}
    /\ Skew \in Nat
    /\ MaxOffset \in Nat /\ MaxDelay \in Nat /\ CheckDelay \in Nat
    /\ Offset \in [Instances -> 0..MaxOffset]
    /\ FailClosed \in BOOLEAN /\ StoreFails \in BOOLEAN
    /\ MaxTime \in Nat /\ MaxTokens \in Nat /\ MaxCalls \in Nat
    /\ "all" \notin Sids

VARIABLES
    now,       \* real time
    tokens,    \* access tokens signed so far
    umark,     \* revoked:user:<uid>
    smark,     \* revoked:sess:<sid>, by its expiry (0: absent)
    calls,     \* RevokeAllForUser and RevokeSession calls
    made,      \* revocation calls so far
    checks,    \* requests inside Authenticate
    condemned  \* history: tokens a completed revocation is about

vars == <<now, tokens, umark, smark, calls, made, checks, condemned>>

NoMark == [w |-> 0, until |-> 0, since |-> 0]
NoCall == [pc |-> "idle", sid |-> "all", w |-> 0, since |-> 0, toks |-> {}]
NoToken == [sid |-> "all", born |-> 0, iat |-> 0, exp |-> 0]
NoCheck == [pc |-> "idle", tok |-> NoToken, at |-> 0, must |-> FALSE]

clock(i) == now + Offset[i]

\* jwt.NewNumericDate keeps whole seconds.
NumericDate(t) == t - (t % Second)

Init ==
    /\ now = 1
    /\ tokens = {}
    /\ umark = NoMark
    /\ smark = [s \in Sids |-> 0]
    /\ calls = [c \in Calls |-> NoCall]
    /\ made = 0
    /\ checks = [k \in Checks |-> NoCheck]
    /\ condemned = {}

\* The seconds pass, but calls and requests do not outlive their timeouts.
Tick ==
    /\ now < MaxTime
    /\ \A c \in Calls : calls[c].pc = "set" => now < calls[c].since + MaxDelay
    /\ \A k \in Checks : checks[k].pc = "mget" => now < checks[k].at + CheckDelay
    /\ now' = now + 1
    /\ UNCHANGED <<tokens, umark, smark, calls, made, checks, condemned>>

SignAccessToken(i, s) ==
    /\ Cardinality(tokens) < MaxTokens
    /\ tokens' = tokens \cup {[sid |-> s, born |-> now,
                               iat |-> NumericDate(clock(i)),
                               exp |-> NumericDate(clock(i) + JwtTTL)]}
    /\ UNCHANGED <<now, umark, smark, calls, made, checks, condemned>>

-----------------------------------------------------------------------------
(* RevokeAllForUser (sid "all") and RevokeSession *)

revocationTTL(jwtTTL) == IF jwtTTL <= 0 THEN 0 ELSE jwtTTL + Skew

\* The tokens a call is about: those signed when it is made.
About(s) == {t \in tokens : s = "all" \/ t.sid = s}

RevokeCall(c, i, s) ==
    /\ calls[c].pc = "idle"
    /\ made < MaxCalls
    /\ made' = made + 1
    /\ calls' = [calls EXCEPT ![c] = [pc |-> "set", sid |-> s, w |-> clock(i), since |-> now,
                                      toks |-> About(s)]]
    /\ UNCHANGED <<now, tokens, umark, smark, checks, condemned>>

\* SET revoked:user:<uid> <watermark> EX revocationTTL, whatever is there.
\* The caller may be told of an error although the marker was written.
SetUser(c, told) ==
    /\ calls[c].pc = "set" /\ calls[c].sid = "all"
    /\ umark' = [w |-> calls[c].w, until |-> now + revocationTTL(JwtTTL), since |-> calls[c].since]
    /\ condemned' = IF told THEN condemned \cup calls[c].toks ELSE condemned
    /\ calls' = [calls EXCEPT ![c] = NoCall]
    /\ UNCHANGED <<now, tokens, smark, made, checks>>

SetSession(c, told) ==
    /\ calls[c].pc = "set" /\ calls[c].sid # "all"
    /\ smark' = [smark EXCEPT ![calls[c].sid] = now + revocationTTL(JwtTTL)]
    /\ condemned' = IF told THEN condemned \cup calls[c].toks ELSE condemned
    /\ calls' = [calls EXCEPT ![c] = NoCall]
    /\ UNCHANGED <<now, tokens, umark, made, checks>>

\* The call fails and nothing was written.
RevokeFails(c) ==
    /\ calls[c].pc = "set"
    /\ calls' = [calls EXCEPT ![c] = NoCall]
    /\ UNCHANGED <<now, tokens, umark, smark, made, checks, condemned>>

-----------------------------------------------------------------------------
(* Authenticate *)

\* VerifyAccessToken on instance i.  "must" remembers that a revocation of
\* this token had completed before the request came.
Verify(k, i, t) ==
    /\ checks[k].pc # "mget"
    /\ clock(i) < t.exp
    /\ checks' = [checks EXCEPT ![k] = [pc |-> "mget", tok |-> t, at |-> now,
                                        must |-> t \in condemned]]
    /\ UNCHANGED <<now, tokens, umark, smark, calls, made, condemned>>

Present(until) == now < until

\* Seeded faults: no margin past the watermark; a margin of twice the skew.
revokedByWatermarkNoSkew(iat, w) == iat <= w
revokedByWatermarkTwice(iat, w) == iat <= w + 2 * Skew

revokedByWatermark(iat, w) == iat <= w + Skew

\* decide, on the markers one MGET returned.
decide(t) ==
    \/ Present(smark[t.sid])
    \/ Present(umark.until) /\ revokedByWatermark(t.iat, umark.w)

Answer(k, verdict) ==
    /\ checks[k].pc = "mget"
    /\ checks' = [checks EXCEPT ![k] = [pc |-> verdict, tok |-> checks[k].tok, at |-> 0,
                                        must |-> checks[k].must]]
    /\ UNCHANGED <<now, tokens, umark, smark, calls, made, condemned>>

IsRevoked(k) == Answer(k, IF decide(checks[k].tok) THEN "denied" ELSE "accepted")

\* MGET fails or times out.
StoreError(k) == StoreFails /\ Answer(k, IF FailClosed THEN "denied_closed" ELSE "accepted_open")

-----------------------------------------------------------------------------
Next ==
    \/ Tick
    \/ \E i \in Instances, s \in Sids : SignAccessToken(i, s)
    \/ \E c \in Calls :
          \/ \E i \in Instances : RevokeCall(c, i, "all") \/ \E s \in Sids : RevokeCall(c, i, s)
          \/ \E told \in BOOLEAN : SetUser(c, told) \/ SetSession(c, told)
          \/ RevokeFails(c)
    \/ \E k \in Checks :
          \/ \E i \in Instances, t \in tokens : Verify(k, i, t)
          \/ IsRevoked(k) \/ StoreError(k)

Spec == Init /\ [][Next]_vars

-----------------------------------------------------------------------------
(* Properties *)

Token == [sid : Sids, born : Nat, iat : Nat, exp : Nat]
Verdicts == {"accepted", "denied", "accepted_open", "denied_closed"}

\* Types of the tokens, the markers, the calls and the checks (revocation.go).
TypeOK ==
    /\ now \in Nat
    /\ tokens \subseteq Token
    /\ umark \in [w : Nat, until : Nat, since : Nat]
    /\ smark \in [Sids -> Nat]
    /\ made \in Nat
    /\ calls \in [Calls -> [pc : {"idle", "set"}, sid : Sids \cup {"all"}, w : Nat, since : Nat,
                            toks : SUBSET tokens]]
    /\ checks \in [Checks -> [pc : {"idle", "mget"} \cup Verdicts, tok : Token \cup {NoToken},
                              at : Nat, must : BOOLEAN]]
    /\ condemned \subseteq tokens

\* ports/revocation/revocation.go:26: "RevokeAllForUser revokes every access token issued
\* to userID at or before the moment of the call".  A request that begins
\* after a revocation of its token has completed is not accepted on the
\* strength of the markers: not when a slower revocation overwrites the
\* watermark with an older one, not when the marker expires, whatever the
\* instances' clocks say; and with AUTH_REVOCATION_FAIL_CLOSED not when the
\* markers cannot be read either.
RevokedIsRejected ==
    \A k \in Checks :
        checks[k].must => /\ checks[k].pc # "accepted"
                          /\ FailClosed => checks[k].pc # "accepted_open"

\* A token that no session marker is about is denied only in the window that
\* revocation.go:62-68 accepts as the cost: signed at most the skew, the clock
\* offset and the rounding of iat after the watermark's call.
DenialStep ==
    \A k \in Checks :
        checks[k].pc = "mget" /\ checks'[k].pc = "denied" =>
            \/ Present(smark[checks[k].tok.sid])
            \/ checks[k].tok.born < umark.since + MaxOffset + Skew + Second
\* The same as a property of every step (IsRevoked).
DenialIsBrief == [][DenialStep]_vars
=============================================================================
