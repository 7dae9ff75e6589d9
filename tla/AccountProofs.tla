---------------------------- MODULE AccountProofs ----------------------------
(***************************************************************************)
(* What an account keeps in two stores:                                    *)
(*   Revocation      revoked access tokens stay rejected, for any number   *)
(*                   of instances, sessions, tokens, concurrent            *)
(*                   revocations and requests;                             *)
(*   ProfilePicture  the picture of a profile is stored, for any number of *)
(*                   requests, uploads and profile changes.                *)
(***************************************************************************)
EXTENDS Revocation, ProfilePicture, TLAPS

-----------------------------------------------------------------------------
(* Access tokens and their revocation *)

\* Under these margins the code's single skew is enough: it has to absorb the
\* clocks and a late SET in the watermark, the clocks and a slow check in the
\* marker's life.
Margins == MaxOffset + MaxDelay <= Skew /\ MaxOffset + CheckDelay <= Skew

\* The strengthening that makes RevokedIsRejected inductive.
TokenInv ==
    \A t \in tokens : /\ t.born <= now
                      /\ t.iat <= t.born + MaxOffset /\ t.born < t.iat + Second
                      /\ t.exp <= t.born + MaxOffset + JwtTTL
CallInv ==
    \A c \in Calls :
        calls[c].pc = "set" => /\ calls[c].since <= now /\ now <= calls[c].since + MaxDelay
                               /\ calls[c].since <= calls[c].w
                               /\ calls[c].w <= calls[c].since + MaxOffset
                               /\ calls[c].toks \subseteq About(calls[c].sid)
MarkInv == umark.w <= umark.since + MaxOffset
CheckInv ==
    \A k \in Checks :
        /\ checks[k].pc # "idle" => checks[k].tok \in tokens
        /\ checks[k].must => checks[k].tok \in condemned
        /\ checks[k].pc = "mget" => /\ now <= checks[k].at + CheckDelay
                                    /\ checks[k].at < checks[k].tok.exp

Covered(t) ==
    \/ t.iat <= umark.w + Skew /\ t.exp + CheckDelay <= umark.until
    \/ t.exp + CheckDelay <= smark[t.sid]
CoverInv == \A t \in condemned : Covered(t)
IInv == TypeOK /\ TokenInv /\ CallInv /\ MarkInv /\ CheckInv /\ CoverInv

-----------------------------------------------------------------------------
\* Rounding to whole seconds moves a time back by less than a second.
LEMMA NumericDateBounds ==
    ASSUME NEW t \in Nat
    PROVE  NumericDate(t) \in Nat /\ NumericDate(t) <= t /\ t < NumericDate(t) + Second
  <1>1. Second \in Nat \ {0}
    BY TimeAssumption DEF TimeAssumption
  <1>2. t % Second \in 0..(Second - 1) /\ t % Second <= t
    BY <1>1, SMT
  <1> QED
    BY <1>1, <1>2 DEF NumericDate

USE TimeAssumption DEF TimeAssumption

\* The invariant holds at first.
LEMMA InitInv == Init => IInv
  <1> SUFFICES ASSUME Init PROVE IInv
    OBVIOUS
  <1>1. TypeOK
    BY DEF Init, TypeOK, NoMark, NoCall, NoCheck, NoToken
  <1>2. TokenInv /\ CoverInv
    BY DEF Init, TokenInv, CoverInv
  <1>3. CallInv
    BY DEF Init, CallInv, NoCall
  <1>4. MarkInv
    BY DEF Init, MarkInv, NoMark
  <1>5. CheckInv
    BY DEF Init, CheckInv, NoCheck
  <1> QED
    BY <1>1, <1>2, <1>3, <1>4, <1>5 DEF IInv

\* Time passes.
LEMMA TickInv ==
    ASSUME IInv, Tick PROVE IInv'
  <1>1. TypeOK'
    BY DEF IInv, TypeOK, Tick, Token
  <1>2. TokenInv'
    BY DEF IInv, TypeOK, TokenInv, Tick, Token
  <1>3. CallInv'
    BY DEF IInv, TypeOK, CallInv, Tick, About
  <1>4. MarkInv'
    BY DEF IInv, MarkInv, Tick
  <1>5. CheckInv'
    BY DEF IInv, TypeOK, CheckInv, Tick
  <1>6. CoverInv'
    BY DEF IInv, CoverInv, Covered, Tick
  <1> QED
    BY <1>1, <1>2, <1>3, <1>4, <1>5, <1>6 DEF IInv

\* A token is signed.
LEMMA SignInv ==
    ASSUME IInv, NEW i \in Instances, NEW s \in Sids, SignAccessToken(i, s) PROVE IInv'
  <1> DEFINE new == [sid |-> s, born |-> now, iat |-> NumericDate(clock(i)),
                     exp |-> NumericDate(clock(i) + JwtTTL)]
  <1>f. UNCHANGED <<now, umark, smark, calls, made, checks, condemned>>
    BY Zenon DEF SignAccessToken
  <1>t. tokens' = tokens \cup {new}
    BY Zenon DEF SignAccessToken
  <1>c. now \in Nat /\ Offset[i] \in Nat /\ Offset[i] <= MaxOffset /\ clock(i) \in Nat
        /\ clock(i) + JwtTTL \in Nat
    BY DEF IInv, TypeOK, clock
  <1>i. /\ NumericDate(clock(i)) \in Nat
        /\ NumericDate(clock(i)) <= clock(i)
        /\ clock(i) < NumericDate(clock(i)) + Second
    BY <1>c, NumericDateBounds
  <1>e. /\ NumericDate(clock(i) + JwtTTL) \in Nat
        /\ NumericDate(clock(i) + JwtTTL) <= clock(i) + JwtTTL
    BY <1>c, NumericDateBounds
  <1>n. /\ new \in Token /\ new.born = now
        /\ new.iat <= now + MaxOffset /\ now < new.iat + Second
        /\ new.exp <= now + MaxOffset + JwtTTL
    BY <1>c, <1>i, <1>e DEF Token, clock
  <1> HIDE DEF new
  <1>1. TypeOK'
    BY <1>f, <1>t, <1>n DEF IInv, TypeOK
  <1>2. TokenInv'
    BY <1>f, <1>t, <1>n DEF IInv, TypeOK, TokenInv
  <1>3. CallInv'
    BY <1>f, <1>t DEF IInv, CallInv, About
  <1>4. MarkInv'
    BY <1>f DEF IInv, MarkInv
  <1>5. CheckInv'
    BY <1>f, <1>t DEF IInv, CheckInv
  <1>6. CoverInv'
    BY <1>f DEF IInv, CoverInv, Covered
  <1> QED
    BY <1>1, <1>2, <1>3, <1>4, <1>5, <1>6 DEF IInv

\* A revocation reads its clock.
LEMMA RevokeCallInv ==
    ASSUME IInv, NEW c \in Calls, NEW i \in Instances, NEW s \in Sids \cup {"all"},
           RevokeCall(c, i, s)
    PROVE  IInv'
  <1>f. UNCHANGED <<now, tokens, umark, smark, checks, condemned>>
    BY Zenon DEF RevokeCall
  <1>c. now \in Nat /\ clock(i) \in Nat /\ now <= clock(i) /\ clock(i) <= now + MaxOffset
    BY DEF IInv, TypeOK, clock
  <1>e. /\ calls' = [calls EXCEPT ![c] = [pc |-> "set", sid |-> s, w |-> clock(i),
                                          since |-> now, toks |-> About(s)]]
        /\ made' = made + 1
    BY Zenon DEF RevokeCall
  <1>1. TypeOK'
    BY <1>f, <1>c, <1>e DEF IInv, TypeOK, About
  <1>2. TokenInv'
    BY <1>f DEF IInv, TokenInv
  <1>3. CallInv'
    <2> SUFFICES ASSUME NEW d \in Calls, (calls[d].pc = "set")'
                 PROVE  (/\ calls[d].since <= now /\ now <= calls[d].since + MaxDelay
                         /\ calls[d].since <= calls[d].w
                         /\ calls[d].w <= calls[d].since + MaxOffset
                         /\ calls[d].toks \subseteq About(calls[d].sid))'
      BY DEF CallInv
    <2>1. CASE d = c
      BY SMTT(60), <2>1, <1>f, <1>c, <1>e DEF IInv, TypeOK, About
    <2>2. CASE d # c
      BY <2>2, <1>f, <1>e DEF IInv, TypeOK, CallInv, About
    <2> QED
      BY <2>1, <2>2
  <1>4. MarkInv' /\ CheckInv' /\ CoverInv'
    BY <1>f DEF IInv, MarkInv, CheckInv, CoverInv, Covered
  <1> QED
    BY <1>1, <1>2, <1>3, <1>4 DEF IInv

\* Access tokens live for a while, so that a marker does.
LEMMA MarkerTTL == revocationTTL(JwtTTL) = JwtTTL + Skew
  BY TimeAssumption DEF revocationTTL

\* Any SET of the user's marker covers every token signed so far, even when it
\* replaces a later watermark by an earlier one.
LEMMA SetUserInv ==
    ASSUME Margins, IInv, NEW c \in Calls, NEW told \in BOOLEAN, SetUser(c, told) PROVE IInv'
  <1>f. UNCHANGED <<now, tokens, smark, made, checks>>
    BY Zenon DEF SetUser
  <1>e. /\ calls[c].pc = "set"
        /\ umark' = [w |-> calls[c].w, until |-> now + (JwtTTL + Skew), since |-> calls[c].since]
        /\ calls' = [calls EXCEPT ![c] = NoCall]
    BY Zenon, MarkerTTL DEF SetUser
  <1>d. condemned \subseteq condemned' /\ condemned' \subseteq condemned \cup calls[c].toks
    BY DEF SetUser
  <1>c. /\ calls[c].w \in Nat /\ calls[c].since \in Nat /\ now \in Nat
        /\ now <= calls[c].since + MaxDelay
        /\ calls[c].since <= calls[c].w /\ calls[c].w <= calls[c].since + MaxOffset
        /\ calls[c].toks \subseteq tokens
    BY <1>e DEF IInv, TypeOK, CallInv
  <1>1. TypeOK'
    <2>1. umark' \in [w : Nat, until : Nat, since : Nat]
      BY <1>c, <1>e
    <2>2. condemned' \subseteq tokens
      BY <1>c, <1>d DEF IInv, TypeOK
    <2> QED
      BY Zenon, <1>f, <1>e, <2>1, <2>2 DEF IInv, TypeOK, NoCall
  <1>2. TokenInv'
    BY Zenon, <1>f DEF IInv, TokenInv
  <1>3. CallInv'
    BY Zenon, <1>f, <1>e DEF IInv, TypeOK, CallInv, NoCall, About
  <1>4. MarkInv'
    BY Zenon, <1>c, <1>e DEF MarkInv
  <1>5. CheckInv'
    BY Zenon, <1>f, <1>d DEF IInv, CheckInv
  <1>6. CoverInv'
    <2> SUFFICES ASSUME NEW t \in tokens PROVE Covered(t)'
      BY <1>c, <1>d DEF IInv, TypeOK, CoverInv
    <2>1. /\ t.born \in Nat /\ t.iat \in Nat /\ t.exp \in Nat
          /\ t.born <= now /\ t.iat <= t.born + MaxOffset
          /\ t.exp <= t.born + MaxOffset + JwtTTL
      BY DEF IInv, TypeOK, TokenInv, Token
    <2>2. umark'.w = calls[c].w /\ umark'.until = now + (JwtTTL + Skew)
      BY <1>e
    <2>3. t.iat <= umark'.w + Skew
      BY <1>c, <2>1, <2>2 DEF Margins
    <2>4. t.exp + CheckDelay <= umark'.until
      BY <1>c, <2>1, <2>2 DEF Margins
    <2> QED
      BY <2>3, <2>4 DEF Covered
  <1> QED
    BY <1>1, <1>2, <1>3, <1>4, <1>5, <1>6 DEF IInv

\* The session marker is set.
LEMMA SetSessionInv ==
    ASSUME Margins, IInv, NEW c \in Calls, NEW told \in BOOLEAN, SetSession(c, told) PROVE IInv'
  <1>f. UNCHANGED <<now, tokens, umark, made, checks>>
    BY Zenon DEF SetSession
  <1>e. /\ calls[c].pc = "set" /\ calls[c].sid # "all"
        /\ smark' = [smark EXCEPT ![calls[c].sid] = now + (JwtTTL + Skew)]
        /\ calls' = [calls EXCEPT ![c] = NoCall]
    BY Zenon, MarkerTTL DEF SetSession
  <1>d. condemned \subseteq condemned' /\ condemned' \subseteq condemned \cup calls[c].toks
    BY DEF SetSession
  <1>c. /\ now \in Nat /\ calls[c].sid \in Sids
        /\ calls[c].toks \subseteq tokens
        /\ \A t \in calls[c].toks : t.sid = calls[c].sid
    BY ZenonT(90), <1>e DEF IInv, TypeOK, CallInv, About
  <1>1. TypeOK'
    <2>2. condemned' \subseteq tokens
      BY <1>c, <1>d DEF IInv, TypeOK
    <2> QED
      BY <1>f, <1>e, <1>c, <2>2 DEF IInv, TypeOK, NoCall
  <1>2. TokenInv' /\ MarkInv'
    BY Zenon, <1>f DEF IInv, TokenInv, MarkInv
  <1>3. CallInv'
    BY <1>f, <1>e DEF IInv, TypeOK, CallInv, NoCall, About
  <1>5. CheckInv'
    BY <1>f, <1>d DEF IInv, CheckInv
  <1>6. CoverInv'
    <2> SUFFICES ASSUME NEW t \in condemned' PROVE Covered(t)'
      BY DEF CoverInv
    <2>1. /\ t \in tokens /\ t.sid \in Sids
          /\ t.born \in Nat /\ t.exp \in Nat /\ t.born <= now
          /\ t.exp <= t.born + MaxOffset + JwtTTL
      BY <1>c, <1>d DEF IInv, TypeOK, TokenInv, Token
    <2>2. CASE t.sid = calls[c].sid
      <3>1. smark'[t.sid] = now + (JwtTTL + Skew)
        BY <1>c, <1>e, <2>2 DEF IInv, TypeOK
      <3>2. t.exp + CheckDelay <= now + (JwtTTL + Skew)
        BY <1>c, <2>1 DEF Margins
      <3> QED
        BY <3>1, <3>2 DEF Covered
    <2>3. CASE t.sid # calls[c].sid
      <3>1. smark'[t.sid] = smark[t.sid]
        BY <1>e, <2>1, <2>3 DEF IInv, TypeOK
      <3>2. t \in condemned
        BY <1>c, <1>d, <2>3
      <3> QED
        BY <1>f, <3>1, <3>2 DEF IInv, CoverInv, Covered
    <2> QED
      BY <2>2, <2>3
  <1> QED
    BY <1>1, <1>2, <1>3, <1>5, <1>6 DEF IInv

\* A revocation gives up.
LEMMA RevokeFailsInv ==
    ASSUME IInv, NEW c \in Calls, RevokeFails(c) PROVE IInv'
  <1>f. UNCHANGED <<now, tokens, umark, smark, made, checks, condemned>>
    BY Zenon DEF RevokeFails
  <1>e. calls' = [calls EXCEPT ![c] = NoCall]
    BY Zenon DEF RevokeFails
  <1>1. TypeOK'
    BY <1>f, <1>e DEF IInv, TypeOK, NoCall
  <1>2. TokenInv' /\ MarkInv' /\ CheckInv' /\ CoverInv'
    BY Zenon, <1>f DEF IInv, TokenInv, MarkInv, CheckInv, CoverInv, Covered
  <1>3. CallInv'
    BY <1>f, <1>e DEF IInv, TypeOK, CallInv, NoCall, About
  <1> QED
    BY <1>1, <1>2, <1>3 DEF IInv

\* A request presents its token.
LEMMA VerifyInv ==
    ASSUME IInv, NEW k \in Checks, NEW i \in Instances, NEW t \in tokens, Verify(k, i, t)
    PROVE  IInv'
  <1>f. UNCHANGED <<now, tokens, umark, smark, calls, made, condemned>>
    BY Zenon DEF Verify
  <1>e. checks' = [checks EXCEPT ![k] = [pc |-> "mget", tok |-> t, at |-> now,
                                         must |-> t \in condemned]]
    BY ZenonT(90) DEF Verify
  <1>c. now \in Nat /\ now < t.exp /\ t \in Token
    BY DEF Verify, IInv, TypeOK, clock, Token
  <1>b. (t \in condemned) \in BOOLEAN
    BY SMTT(60)
  <1>1. TypeOK'
    BY Zenon, <1>f, <1>e, <1>c, <1>b DEF IInv, TypeOK
  <1>2. TokenInv' /\ MarkInv' /\ CoverInv'
    BY Zenon, <1>f DEF IInv, TokenInv, MarkInv, CoverInv, Covered
  <1>3. CallInv'
    BY Zenon, <1>f DEF IInv, CallInv, About
  <1>k. /\ checks'[k].pc = "mget" /\ checks'[k].tok = t /\ checks'[k].at = now
        /\ \A j \in Checks \ {k} : checks'[j] = checks[j]
    BY <1>e DEF IInv, TypeOK
  <1>m. checks'[k].must => t \in condemned
    BY Zenon, <1>e DEF IInv, TypeOK
  <1>4. CheckInv'
    BY <1>f, <1>k, <1>m, <1>c DEF IInv, TypeOK, CheckInv
  <1> QED
    BY <1>1, <1>2, <1>3, <1>4 DEF IInv

\* Its markers are read.
LEMMA AnswerInv ==
    ASSUME IInv, NEW k \in Checks, NEW v \in Verdicts, Answer(k, v) PROVE IInv'
  <1>f. UNCHANGED <<now, tokens, umark, smark, calls, made, condemned>>
    BY Zenon DEF Answer
  <1>e. checks[k].pc = "mget"
    BY DEF Answer
  <1>r. checks' = [checks EXCEPT ![k] = [pc |-> v, tok |-> checks[k].tok, at |-> 0,
                                         must |-> checks[k].must]]
    BY Zenon DEF Answer
  <1>b. checks[k] \in [pc : {"idle", "mget"} \cup Verdicts, tok : Token \cup {NoToken},
                       at : Nat, must : BOOLEAN]
    BY DEF IInv, TypeOK
  <1>c. checks[k].tok \in Token \cup {NoToken}
    BY <1>b
  <1>d. checks[k].must \in BOOLEAN
    BY <1>b
  <1>n. [pc |-> v, tok |-> checks[k].tok, at |-> 0, must |-> checks[k].must]
          \in [pc : {"idle", "mget"} \cup Verdicts, tok : Token \cup {NoToken},
               at : Nat, must : BOOLEAN]
    BY Zenon, <1>c, <1>d
  <1>1. TypeOK'
    BY Zenon, <1>f, <1>r, <1>n DEF IInv, TypeOK
  <1>2. TokenInv' /\ MarkInv' /\ CoverInv'
    BY Zenon, <1>f DEF IInv, TokenInv, MarkInv, CoverInv, Covered
  <1>3. CallInv'
    BY <1>f DEF IInv, CallInv, About
  <1>k. /\ checks'[k].pc = v /\ checks'[k].tok = checks[k].tok
        /\ \A j \in Checks \ {k} : checks'[j] = checks[j]
    BY <1>r DEF IInv, TypeOK
  <1>m. checks'[k].must = checks[k].must
    BY Zenon, <1>r DEF IInv, TypeOK
  <1>4. CheckInv'
    BY <1>f, <1>e, <1>k, <1>m DEF IInv, TypeOK, CheckInv, Verdicts
  <1> QED
    BY <1>1, <1>2, <1>3, <1>4 DEF IInv

\* Every step keeps the invariant.
LEMMA NextInv ==
    ASSUME Margins, IInv, [Next]_vars PROVE IInv'
  <1>1. CASE Tick
    BY <1>1, TickInv
  <1>2. CASE \E i \in Instances, s \in Sids : SignAccessToken(i, s)
    BY <1>2, SignInv
  <1>3. ASSUME NEW c \in Calls, NEW i \in Instances,
               RevokeCall(c, i, "all") \/ \E s \in Sids : RevokeCall(c, i, s)
        PROVE  IInv'
    BY <1>3, RevokeCallInv
  <1>4. ASSUME NEW c \in Calls, NEW told \in BOOLEAN, SetUser(c, told) \/ SetSession(c, told)
        PROVE  IInv'
    BY <1>4, SetUserInv, SetSessionInv
  <1>5. ASSUME NEW c \in Calls, RevokeFails(c) PROVE IInv'
    BY <1>5, RevokeFailsInv
  <1>6. ASSUME NEW k \in Checks, NEW i \in Instances, NEW t \in tokens, Verify(k, i, t)
        PROVE  IInv'
    BY <1>6, VerifyInv
  <1>7. ASSUME NEW k \in Checks, IsRevoked(k) \/ StoreError(k) PROVE IInv'
    BY Zenon, <1>7, AnswerInv DEF IsRevoked, StoreError, Verdicts
  <1>8. CASE UNCHANGED vars
    BY <1>8 DEF vars, IInv, TypeOK, TokenInv, CallInv, MarkInv, CheckInv, CoverInv, Covered, About
  <1> QED
    BY Zenon, <1>1, <1>2, <1>3, <1>4, <1>5, <1>6, <1>7, <1>8 DEF Next

\* Markers, tokens and time change no request: only its own steps do.
LEMMA ChecksStep ==
    ASSUME [Next]_vars, checks' # checks
    PROVE  \E j \in Checks : \/ \E i \in Instances, t \in tokens : Verify(j, i, t)
                            \/ IsRevoked(j) \/ StoreError(j)
  <1>1. ~Tick
    BY DEF Tick
  <1>2. \A i \in Instances, s \in Sids : ~SignAccessToken(i, s)
    BY Zenon DEF SignAccessToken
  <1>3. \A c \in Calls, i \in Instances, what \in Sids \cup {"all"} : ~RevokeCall(c, i, what)
    BY Zenon DEF RevokeCall
  <1>4. \A c \in Calls, told \in BOOLEAN : ~SetUser(c, told) /\ ~SetSession(c, told)
    BY DEF SetUser, SetSession
  <1>5. \A c \in Calls : ~RevokeFails(c)
    BY DEF RevokeFails
  <1>6. Next
    BY DEF vars
  <1> QED
    BY <1>1, <1>2, <1>3, <1>4, <1>5, <1>6, Zenon DEF Next

-----------------------------------------------------------------------------
\* RevokedIsRejected is not implied by IInv: IInv says that a revoked token
\* is still covered when its markers are read, and so that decide denies it.
LEMMA RejectStep ==
    ASSUME IInv, RevokedIsRejected, [Next]_vars PROVE RevokedIsRejected'
  <1> SUFFICES ASSUME NEW k \in Checks, checks'[k].must
               PROVE  checks'[k].pc # "accepted" /\ (FailClosed => checks'[k].pc # "accepted_open")
    BY DEF RevokedIsRejected
  <1>1. CASE checks'[k] = checks[k]
    BY Zenon, <1>1 DEF RevokedIsRejected
  <1>2. ASSUME NEW j \in Checks, NEW i \in Instances, NEW t \in tokens, Verify(j, i, t),
               checks'[k] # checks[k]
        PROVE  checks'[k].pc = "mget"
    BY <1>2 DEF Verify, IInv, TypeOK
  <1>3. ASSUME NEW j \in Checks, NEW v \in Verdicts, Answer(j, v), checks'[k] # checks[k]
        PROVE  j = k /\ checks[k].pc = "mget" /\ checks[k].must /\ checks'[k].pc = v
    BY <1>3 DEF Answer, IInv, TypeOK
  <1>4. ASSUME checks[k].pc = "mget", checks[k].must PROVE decide(checks[k].tok)
    <2> DEFINE t == checks[k].tok
    <2>1. t \in condemned /\ t \in tokens /\ t \in Token
      BY <1>4 DEF IInv, TypeOK, CheckInv
    <2>2. now \in Nat /\ t.exp \in Nat /\ t.sid \in Sids /\ smark[t.sid] \in Nat
          /\ umark.until \in Nat
      BY <2>1 DEF IInv, TypeOK, Token
    <2>3. now < t.exp + CheckDelay
      BY <1>4, <2>2 DEF IInv, TypeOK, CheckInv
    <2>4. Covered(t)
      BY <2>1 DEF IInv, CoverInv
    <2> HIDE DEF t
    <2>5. decide(t)
      BY <2>2, <2>3, <2>4 DEF Covered, decide, Present, revokedByWatermark
    <2> QED
      BY <2>5 DEF t
  <1>5. ASSUME NEW j \in Checks, IsRevoked(j), checks'[k] # checks[k]
        PROVE  checks'[k].pc = "denied"
    <2> DEFINE v == IF decide(checks[j].tok) THEN "denied" ELSE "accepted"
    <2>1. v \in Verdicts /\ Answer(j, v)
      BY <1>5 DEF IsRevoked, Verdicts
    <2> QED
      BY <1>3, <1>4, <1>5, <2>1
  <1>6. ASSUME NEW j \in Checks, StoreError(j), checks'[k] # checks[k]
        PROVE  checks'[k].pc = (IF FailClosed THEN "denied_closed" ELSE "accepted_open")
    <2> DEFINE v == IF FailClosed THEN "denied_closed" ELSE "accepted_open"
    <2>1. v \in Verdicts /\ Answer(j, v)
      BY Zenon, <1>6 DEF StoreError, Verdicts
    <2> QED
      BY <1>3, <1>6, <2>1
  <1>7. CASE checks'[k] # checks[k]
    <2>1. PICK j \in Checks : \/ \E i \in Instances, t \in tokens : Verify(j, i, t)
                              \/ IsRevoked(j) \/ StoreError(j)
      BY <1>7, ChecksStep
    <2> QED
      BY <1>2, <1>5, <1>6, <1>7, <2>1
  <1> QED
    BY <1>1, <1>7

\* Under Margins, for every number of instances, clocks, sessions, tokens,
\* concurrent revocations and requests: a request that begins after a
\* revocation of its token completed (RevokeAllForUser, RevokeSession) is not
\* accepted by Authenticate.
THEOREM RevokedStaysRejected == Margins => (Spec => []RevokedIsRejected)
  <1> SUFFICES ASSUME Margins PROVE Spec => []RevokedIsRejected
    OBVIOUS
  <1>1. Init => IInv /\ RevokedIsRejected
    BY InitInv DEF Init, RevokedIsRejected, NoCheck
  <1>2. IInv /\ RevokedIsRejected /\ [Next]_vars => (IInv /\ RevokedIsRejected)'
    BY NextInv, RejectStep
  <1> QED
    BY <1>1, <1>2, PTL DEF Spec

\* Under Margins every state has its type; IInv is what the other theorems
\* are read off.
THEOREM RevocationTypeCorrect == Margins => (Spec => []TypeOK)
  <1> SUFFICES ASSUME Margins PROVE Spec => []TypeOK
    OBVIOUS
  <1>1. Init => IInv
    BY InitInv
  <1>2. IInv /\ [Next]_vars => IInv'
    BY NextInv
  <1>3. IInv => TypeOK
    BY Zenon DEF IInv
  <1> QED
    BY <1>1, <1>2, <1>3, PTL DEF Spec

\* A step denies only tokens signed close to the revocation.
LEMMA BriefStep ==
    ASSUME IInv, [Next]_vars PROVE DenialStep
  <1> SUFFICES ASSUME NEW k \in Checks, checks[k].pc = "mget", checks'[k].pc = "denied"
               PROVE  \/ Present(smark[checks[k].tok.sid])
                      \/ checks[k].tok.born < umark.since + MaxOffset + Skew + Second
    BY DEF DenialStep
  <1>1. ASSUME NEW j \in Checks, NEW v, Answer(j, v) PROVE j = k /\ v = "denied"
    BY <1>1 DEF Answer, IInv, TypeOK
  <1>2. ASSUME NEW j \in Checks, IsRevoked(j) PROVE decide(checks[k].tok)
    <2> DEFINE v == IF decide(checks[j].tok) THEN "denied" ELSE "accepted"
    <2>1. Answer(j, v)
      BY <1>2 DEF IsRevoked
    <2>2. j = k /\ v = "denied"
      BY <1>1, <2>1
    <2> QED
      BY <2>2
  <1>3. ASSUME NEW j \in Checks, StoreError(j) PROVE FALSE
    <2> DEFINE v == IF FailClosed THEN "denied_closed" ELSE "accepted_open"
    <2>1. Answer(j, v)
      BY <1>3 DEF StoreError
    <2>2. v = "denied"
      BY Zenon, <1>1, <2>1
    <2> QED
      BY <2>2
  <1>4. ASSUME NEW j \in Checks, NEW i \in Instances, NEW t \in tokens, Verify(j, i, t)
        PROVE  FALSE
    BY <1>4 DEF Verify, IInv, TypeOK
  <1>5. checks' # checks
    BY Zenon
  <1>6. decide(checks[k].tok)
    <2>1. PICK j \in Checks : \/ \E i \in Instances, t \in tokens : Verify(j, i, t)
                              \/ IsRevoked(j) \/ StoreError(j)
      BY <1>5, ChecksStep, Zenon
    <2> QED
      BY <1>2, <1>3, <1>4, <2>1
  <1>7. /\ checks[k].tok \in tokens
        /\ checks[k].tok \in Token
    BY Zenon DEF IInv, TypeOK, CheckInv
  <1>8. /\ checks[k].tok.born \in Nat /\ checks[k].tok.iat \in Nat
        /\ checks[k].tok.born < checks[k].tok.iat + Second
        /\ umark.w \in Nat /\ umark.since \in Nat /\ umark.w <= umark.since + MaxOffset
    BY <1>7 DEF IInv, TypeOK, TokenInv, MarkInv, Token
  <1> QED
    BY <1>6, <1>8 DEF decide, revokedByWatermark

\* The cost of the skew is bounded: a token no session marker is about is
\* denied only if it was signed less than the skew, the clock offset and one
\* second after the revocation whose watermark denies it (revocation.go:62-68).
THEOREM DenialsAreBrief == Margins => (Spec => DenialIsBrief)
  <1> SUFFICES ASSUME Margins PROVE Spec => DenialIsBrief
    OBVIOUS
  <1>1. Init => IInv
    BY InitInv
  <1>2. IInv /\ [Next]_vars => IInv'
    BY NextInv
  <1>3. IInv /\ [Next]_vars => DenialStep
    BY BriefStep
  <1> QED
    BY <1>1, <1>2, <1>3, PTL DEF Spec, DenialIsBrief

-----------------------------------------------------------------------------
(* The profile and its picture *)

\* A request holds an image exactly while it has to swap the reference to it.
HolderInv == \A p \in Procs : img[p] # Null <=> pc[p] = "swap"

\* An image that waits for its swap is stored, nobody deletes it, no row and no
\* copy of the row has ever referred to it, and no other request holds it.
FreshInv ==
    \A p \in Procs : img[p] # Null =>
        /\ img[p] \in objects \ deleting
        /\ img[p] # row.picture
        /\ \A q \in Procs : copy[q].picture # img[p]
        /\ \A q \in Procs : img[q] = img[p] => q = p

\* Names are never reused.
NamedInv ==
    /\ \A i \in objects \cup deleting : i <= images
    /\ row.picture # Null => row.picture <= images
    /\ \A p \in Procs : copy[p].picture # Null => copy[p].picture <= images

\* No cleanup is running for the current picture.
RefInv == row.picture # Null => row.picture \in (objects \ deleting) \cup excused

ProfileInv == ProfileTypeOK /\ HolderInv /\ FreshInv /\ NamedInv /\ RefInv /\ ObjectsAccountedFor

HIDE TimeAssumption DEF TimeAssumption
USE ProfileAssumption DEF ProfileAssumption, Images

\* A new account has no picture.
LEMMA NewRowType == NewRow \in Row /\ NewRow.picture = Null
  BY DEF NewRow, Row

\* The invariant holds at first.
LEMMA InitProfile == ProfileInit => ProfileInv
<1> SUFFICES ASSUME ProfileInit PROVE ProfileInv OBVIOUS
<1>1. ProfileTypeOK
  <2>1. row \in Row /\ copy \in [Procs -> Row] BY NewRowType DEF ProfileInit
  <2>2. pc \in [Procs -> {"idle", "swap", "password"}] /\ img \in [Procs -> Images \cup {Null}]
    BY DEF ProfileInit
  <2>3. images \in 0..MaxImages /\ updates \in 0..MaxUpdates BY DEF ProfileInit
  <2>4. deleted = FALSE /\ objects = {} /\ deleting = {} /\ excused = {} /\ leaked = {}
    BY DEF ProfileInit
  <2>5. trail \in [picture : Images \cup {Null}, name : 0..MaxUpdates] /\ restored = FALSE
    BY DEF ProfileInit, Profile, NewRow
  <2> QED BY Zenon, <2>1, <2>2, <2>3, <2>4, <2>5 DEF ProfileTypeOK
<1>2. HolderInv /\ FreshInv BY DEF ProfileInit, HolderInv, FreshInv
<1>3. NamedInv /\ RefInv BY NewRowType DEF ProfileInit, NamedInv, RefInv
<1>4. ObjectsAccountedFor BY DEF ProfileInit, ObjectsAccountedFor
<1> QED BY <1>1, <1>2, <1>3, <1>4 DEF ProfileInv

\* Every step keeps the types.
LEMMA TypeStep == ASSUME ProfileTypeOK, HolderInv, [ProfileNext]_profileVars PROVE ProfileTypeOK'
<1> USE DEF ProfileTypeOK, Row
<1>1. ASSUME NEW p \in Procs, NEW ok \in BOOLEAN, NEW stored \in BOOLEAN, PutImage(p, ok, stored)
      PROVE  ProfileTypeOK'
  BY SMTT(60), <1>1 DEF PutImage, audit
<1>2. ASSUME NEW p \in Procs, NEW o \in Outcomes, SwapImage(p, o) PROVE ProfileTypeOK'
  <2>1. img[p] \in Images BY Zenon, <1>2 DEF SwapImage, HolderInv
  <2>0. row' = row \/ row' = [row EXCEPT !.picture = img[p]]
    BY Zenon, <1>2 DEF SwapImage
  <2>a. trail' = trail \/ trail' = [picture |-> img[p], name |-> row.name]
    BY Zenon, <1>2 DEF SwapImage, Record, Profile, audit
  <2>2. row' \in Row /\ trail' \in [picture : Images \cup {Null}, name : 0..MaxUpdates]
    BY <2>0, <2>a, <2>1
  <2>3. restored' \in BOOLEAN BY Zenon, <1>2 DEF SwapImage, Record, audit
  <2>4. deleting' \subseteq Images /\ excused' \subseteq Images /\ leaked' \subseteq Images
    BY Zenon, <1>2, <2>1 DEF SwapImage, Some
  <2>5. pc' \in [Procs -> {"idle", "swap", "password"}] /\ img' \in [Procs -> Images \cup {Null}]
    BY Zenon, <1>2 DEF SwapImage
  <2>6. UNCHANGED <<deleted, objects, copy, images, updates>> BY Zenon, <1>2 DEF SwapImage, counters
  <2> QED BY <2>2, <2>3, <2>4, <2>5, <2>6
<1>3. ASSUME NEW p \in Procs, NEW o \in Outcomes, DeletePicture(p, o) PROVE ProfileTypeOK'
  <2>1. row' \in Row /\ trail' \in [picture : Images \cup {Null}, name : 0..MaxUpdates]
    BY Zenon, <1>3 DEF DeletePicture, Record, Profile
  <2>2. restored' = FALSE BY Zenon, <1>3 DEF DeletePicture, Record
  <2>3. deleting' \subseteq Images /\ leaked' \subseteq Images BY Zenon, <1>3 DEF DeletePicture
  <2>4. UNCHANGED <<deleted, objects, pc, img, copy, images, updates, excused>>
    BY Zenon, <1>3 DEF DeletePicture, counters, reqVars
  <2> QED BY Zenon, <2>1, <2>2, <2>3, <2>4
<1>4. ASSUME NEW p \in Procs, UpdateUser(p) PROVE ProfileTypeOK'
  <2>1. updates' \in 0..MaxUpdates BY <1>4 DEF UpdateUser
  <2>2. row' \in Row /\ trail' \in [picture : Images \cup {Null}, name : 0..MaxUpdates]
    BY <1>4, <2>1 DEF UpdateUser, Record, Profile
  <2>3. restored' = FALSE BY <1>4 DEF UpdateUser, Record
  <2>4. UNCHANGED <<deleted, objects, deleting, pc, img, copy, images, excused, leaked>>
    BY Zenon, <1>4 DEF UpdateUser, store, reqVars, history
  <2> QED BY Zenon, <2>1, <2>2, <2>3, <2>4
<1>5. ASSUME NEW p \in Procs, DeleteUser(p) PROVE ProfileTypeOK'
  BY <1>5 DEF DeleteUser, store, reqVars, history, counters, audit
<1>6. ASSUME NEW p \in Procs, ChangePasswordRead(p) PROVE ProfileTypeOK'
  BY SMTT(60), <1>6 DEF ChangePasswordRead, store, history, audit
<1>7. ASSUME NEW p \in Procs, NEW ok \in BOOLEAN, ChangePasswordUpdate(p, ok) PROVE ProfileTypeOK'
  <2>1. copy' \in [Procs -> Row] /\ row' \in Row
    BY <1>7, NewRowType DEF ChangePasswordUpdate
  <2>2. excused' \subseteq Images /\ leaked' \subseteq Images
    BY ZenonT(90), <1>7 DEF ChangePasswordUpdate, Some
  <2>3. pc' \in [Procs -> {"idle", "swap", "password"}]
    BY <1>7 DEF ChangePasswordUpdate
  <2>4. UNCHANGED <<deleted, objects, deleting, img, images, updates, trail>>
    BY <1>7 DEF ChangePasswordUpdate, store, counters
  <2>5. restored' \in BOOLEAN BY <1>7, Zenon DEF ChangePasswordUpdate
  <2> QED BY Zenon, <2>1, <2>2, <2>3, <2>4, <2>5
<1>8. ASSUME NEW i \in Images, NEW ok \in BOOLEAN, AsyncDelete(i, ok) PROVE ProfileTypeOK'
  BY ZenonT(90), <1>8 DEF AsyncDelete, counters, reqVars, audit
<1>9. CASE Crash
  <2>1. copy' \in [Procs -> Row] BY <1>9, NewRowType DEF Crash
  <2>2. leaked' \subseteq Images BY Zenon, <1>9 DEF Crash
  <2>3. pc' \in [Procs -> {"idle", "swap", "password"}] /\ img' \in [Procs -> Images \cup {Null}]
    BY <1>9 DEF Crash
  <2>4. deleting' = {} /\ UNCHANGED <<row, deleted, objects, images, updates, excused, audit>>
    BY Zenon, <1>9 DEF Crash, counters
  <2> QED BY Zenon, <2>1, <2>2, <2>3, <2>4 DEF audit
<1>10. CASE UNCHANGED profileVars
  BY <1>10 DEF profileVars, store, reqVars, counters, history, audit
<1> HIDE DEF ProfileTypeOK, Row, Images
<1> QED BY Zenon, <1>1, <1>2, <1>3, <1>4, <1>5, <1>6, <1>7, <1>8, <1>9, <1>10 DEF ProfileNext

\* A new upload.
LEMMA PutStep ==
  ASSUME ProfileInv, NEW p \in Procs, NEW ok \in BOOLEAN, NEW stored \in BOOLEAN, PutImage(p, ok, stored)
  PROVE  HolderInv' /\ FreshInv' /\ NamedInv' /\ RefInv' /\ ObjectsAccountedFor'
<1> USE DEF ProfileInv, ProfileTypeOK
<1>1. img[p] = Null /\ pc[p] = "idle" BY Zenon DEF PutImage, HolderInv
<1>2. HolderInv' BY SMTT(60), <1>1 DEF PutImage, HolderInv
<1>3. NamedInv' BY SMTT(60) DEF PutImage, NamedInv, Row
<1>4. FreshInv'
  <2>1. images + 1 \notin objects \cup deleting BY DEF NamedInv
  <2>2. row.picture # images + 1 /\ \A q \in Procs : copy[q].picture # images + 1
    BY DEF NamedInv, Row
  <2>3. \A q \in Procs : img[q] # images + 1 BY SMTT(60), <2>1 DEF FreshInv
  <2> QED BY <1>1, <2>1, <2>2, <2>3 DEF PutImage, FreshInv
<1>5. RefInv' BY Zenon DEF PutImage, RefInv
<1>6. ObjectsAccountedFor' BY <1>1 DEF PutImage, ObjectsAccountedFor
<1> QED BY <1>2, <1>3, <1>4, <1>5, <1>6

\* The swap of the reference and the cleanup that follows it.
LEMMA SwapStep ==
  ASSUME ProfileInv, NEW p \in Procs, NEW o \in Outcomes, SwapImage(p, o)
  PROVE  HolderInv' /\ FreshInv' /\ NamedInv' /\ RefInv' /\ ObjectsAccountedFor'
<1> USE DEF ProfileInv, ProfileTypeOK, Some
<1>1. img[p] # Null /\ img[p] \in Images BY Zenon DEF SwapImage, HolderInv
<1>2. HolderInv' BY Zenon DEF SwapImage, HolderInv
<1>3. NamedInv'
  <2>1. img[p] <= images BY <1>1 DEF FreshInv, NamedInv
  <2>2. UNCHANGED <<objects, copy, images>> BY Zenon DEF SwapImage, counters
  <2>3. row'.picture \in {row.picture, img[p]} BY Zenon DEF SwapImage, Row
  <2>4. \A i \in deleting' : i \in deleting \/ i = img[p] \/ (i = row.picture /\ row.picture # Null)
    BY Zenon DEF SwapImage
  <2>5. \A i \in (objects \cup deleting)' : i <= images' BY Zenon, <2>1, <2>2, <2>4 DEF NamedInv
  <2>6. (row.picture # Null => row.picture <= images)' BY <2>1, <2>2, <2>3 DEF NamedInv
  <2>7. (\A q \in Procs : copy[q].picture # Null => copy[q].picture <= images)'
    BY <2>2 DEF NamedInv
  <2> QED BY Zenon, <2>5, <2>6, <2>7 DEF NamedInv
<1>4. FreshInv' BY Zenon, <1>1 DEF SwapImage, FreshInv, Row
<1>5. RefInv'
  <2>1. CASE o = "rolled back"
    <3>1. row' = row /\ deleting' = deleting \cup {img[p]} /\ UNCHANGED <<objects, excused>>
      BY Zenon, <2>1 DEF SwapImage
    <3> QED BY <1>1, <3>1 DEF RefInv, FreshInv
  <2>2. CASE o # "rolled back"
    <3>1. row'.picture = img[p] /\ objects' = objects BY Zenon, <2>2 DEF SwapImage, Row
    <3>2. img[p] \notin deleting' \/ img[p] \in excused'
      BY Zenon, <1>1, <2>2 DEF SwapImage, FreshInv, Outcomes
    <3> QED BY <1>1, <3>1, <3>2 DEF RefInv, FreshInv
  <2> QED BY Zenon, <2>1, <2>2
<1>6. ObjectsAccountedFor'
  <2>1. /\ objects' = objects /\ deleting \subseteq deleting' /\ leaked \subseteq leaked'
        /\ \A q \in Procs \ {p} : img'[q] = img[q]
    BY Zenon DEF SwapImage
  <2>2. img[p] = row'.picture \/ img[p] \in deleting'
    BY Zenon, <1>1 DEF SwapImage, Row, Outcomes
  <2>3. row.picture = Null \/ row.picture = row'.picture
          \/ row.picture \in deleting' \/ row.picture \in leaked'
    BY Zenon, <1>1 DEF SwapImage, Row, Outcomes
  <2>4. \A i \in objects : i # Null OBVIOUS
  <2> QED BY <2>1, <2>2, <2>3, <2>4 DEF ObjectsAccountedFor
<1> QED BY <1>2, <1>3, <1>4, <1>5, <1>6

\* DeleteProfilePicture gives the reference up and starts the cleanup.
LEMMA DeletePictureStep ==
  ASSUME ProfileInv, NEW p \in Procs, NEW o \in Outcomes, DeletePicture(p, o)
  PROVE  HolderInv' /\ FreshInv' /\ NamedInv' /\ RefInv' /\ ObjectsAccountedFor'
<1> USE DEF ProfileInv, ProfileTypeOK, Row, DeletePicture
<1>2. HolderInv' BY Zenon DEF HolderInv, reqVars
<1>3. NamedInv' BY Zenon DEF NamedInv, reqVars, counters
<1>4. FreshInv' BY Zenon DEF FreshInv, reqVars
<1>5. RefInv' BY Zenon DEF RefInv
<1>6. ObjectsAccountedFor' BY Zenon DEF ObjectsAccountedFor, Outcomes, reqVars
<1> QED BY Zenon, <1>2, <1>3, <1>4, <1>5, <1>6

\* The unlocked read of ChangePassword.
LEMMA ReadStep ==
  ASSUME ProfileInv, NEW p \in Procs, ChangePasswordRead(p)
  PROVE  HolderInv' /\ FreshInv' /\ NamedInv' /\ RefInv' /\ ObjectsAccountedFor'
<1> USE DEF ProfileInv, ProfileTypeOK, Row, ChangePasswordRead, store, history
<1>1. copy'[p].picture = row.picture /\ \A q \in Procs \ {p} : copy'[q] = copy[q] OBVIOUS
<1>2. HolderInv' BY DEF HolderInv
<1>3. NamedInv' BY <1>1 DEF NamedInv
<1>4. FreshInv' BY <1>1 DEF FreshInv
<1>5. RefInv' BY DEF RefInv
<1>6. ObjectsAccountedFor' BY DEF ObjectsAccountedFor
<1> QED BY <1>2, <1>3, <1>4, <1>5, <1>6

\* The whole-row write: a picture it restores is excused, one it forgets leaked.
LEMMA WriteStep ==
  ASSUME ProfileInv, NEW p \in Procs, NEW ok \in BOOLEAN, ChangePasswordUpdate(p, ok)
  PROVE  HolderInv' /\ FreshInv' /\ NamedInv' /\ RefInv' /\ ObjectsAccountedFor'
<1> USE DEF ProfileInv, ProfileTypeOK, Row, store, counters, Some
<1>1. copy'[p].picture = Null /\ \A q \in Procs \ {p} : copy'[q] = copy[q]
  BY Zenon DEF ChangePasswordUpdate, NewRow
<1>2. HolderInv' BY Zenon DEF HolderInv, ChangePasswordUpdate
<1>3. NamedInv' BY Zenon, <1>1 DEF NamedInv, ChangePasswordUpdate
<1>4. FreshInv' BY ZenonT(90), <1>1 DEF FreshInv, ChangePasswordUpdate
<1>5. RefInv' BY Zenon DEF RefInv, ChangePasswordUpdate
<1>6. ObjectsAccountedFor' BY SMTT(60) DEF ObjectsAccountedFor, ChangePasswordUpdate
<1> QED BY Zenon, <1>2, <1>3, <1>4, <1>5, <1>6

\* asyncDeleteImage ends, with or without having deleted its image.
LEMMA CleanupStep ==
  ASSUME ProfileInv, NEW i \in Images, NEW ok \in BOOLEAN, AsyncDelete(i, ok)
  PROVE  HolderInv' /\ FreshInv' /\ NamedInv' /\ RefInv' /\ ObjectsAccountedFor'
<1> USE DEF ProfileInv, ProfileTypeOK, Row, AsyncDelete, reqVars, counters
<1>2. HolderInv' BY Zenon DEF HolderInv
<1>3. NamedInv' BY Zenon DEF NamedInv
<1>4. FreshInv' BY ZenonT(90) DEF FreshInv
<1>5. RefInv' BY Zenon DEF RefInv
<1>6. ObjectsAccountedFor' BY Zenon DEF ObjectsAccountedFor
<1> QED BY Zenon, <1>2, <1>3, <1>4, <1>5, <1>6

\* A crash turns images in flight into named leaks.
LEMMA CrashStep ==
  ASSUME ProfileInv, Crash
  PROVE  HolderInv' /\ FreshInv' /\ NamedInv' /\ RefInv' /\ ObjectsAccountedFor'
<1> USE DEF ProfileInv, ProfileTypeOK, Row, Crash, counters, NewRow
<1>2. HolderInv' BY Zenon DEF HolderInv
<1>3. NamedInv' BY Zenon DEF NamedInv
<1>4. FreshInv' BY Zenon DEF FreshInv
<1>5. RefInv' BY Zenon DEF RefInv
<1>6. ObjectsAccountedFor' BY DEF ObjectsAccountedFor
<1> QED BY Zenon, <1>2, <1>3, <1>4, <1>5, <1>6

\* Every step keeps the invariant.
LEMMA ProfileStep == ProfileInv /\ [ProfileNext]_profileVars => ProfileInv'
<1> SUFFICES ASSUME ProfileInv, [ProfileNext]_profileVars PROVE ProfileInv' OBVIOUS
<1> DEFINE Rest == HolderInv /\ FreshInv /\ NamedInv /\ RefInv /\ ObjectsAccountedFor
<1>t. ProfileTypeOK' BY TypeStep DEF ProfileInv
<1>1. ASSUME NEW p \in Procs, UpdateUser(p) PROVE Rest'
  BY <1>1 DEF ProfileInv, ProfileTypeOK, Row, UpdateUser, store, reqVars, history,
              HolderInv, FreshInv, NamedInv, RefInv, ObjectsAccountedFor
<1>2. ASSUME UNCHANGED <<row, objects, deleting, pc, img, copy, images, excused, leaked>>
      PROVE  Rest'
  <2>1. HolderInv' BY Zenon, <1>2 DEF ProfileInv, HolderInv
  <2>2. FreshInv' BY Zenon, <1>2 DEF ProfileInv, FreshInv
  <2>3. NamedInv' /\ RefInv' BY Zenon, <1>2 DEF ProfileInv, NamedInv, RefInv
  <2>4. ObjectsAccountedFor' BY Zenon, <1>2 DEF ProfileInv, ObjectsAccountedFor
  <2> QED BY <2>1, <2>2, <2>3, <2>4
<1>3. (\E p \in Procs : DeleteUser(p)) \/ UNCHANGED profileVars => Rest'
  BY Zenon, <1>2 DEF DeleteUser, profileVars, store, reqVars, history, counters
<1> HIDE DEF Rest
<1>4. Rest'
  BY <1>1, <1>2, <1>3, PutStep, SwapStep, DeletePictureStep, ReadStep, WriteStep,
     CleanupStep, CrashStep DEF ProfileNext, Rest
<1> QED BY <1>t, <1>4 DEF ProfileInv, Rest

\* The invariant holds throughout.
LEMMA ProfileInvariance == ProfileSpec => []ProfileInv
  BY InitProfile, ProfileStep, PTL DEF ProfileSpec

\* The picture a profile refers to is stored, unless the answer of its COMMIT
\* was lost or a racing ChangePassword restored it.
THEOREM ReferencedPictureExists == ProfileSpec => []PictureExists
<1>1. ProfileInv => PictureExists BY DEF ProfileInv, RefInv, PictureExists
<1> QED BY <1>1, ProfileInvariance, PTL

\* Every stored image is referenced, being uploaded, being deleted or a named leak.
THEOREM NothingElseIsStored == ProfileSpec => []ObjectsAccountedFor
<1>1. ProfileInv => ObjectsAccountedFor BY DEF ProfileInv
<1> QED BY <1>1, ProfileInvariance, PTL

\* The audit trail tells the profile, unless a ChangePassword has written an
\* older one back since the last entry (audit.Record in the transaction).
THEOREM TrailIsTrue == ProfileSpec => []TrailTellsProfile
<1>1. ProfileInit => TrailTellsProfile BY Zenon DEF ProfileInit, TrailTellsProfile
<1>2. ProfileTypeOK /\ TrailTellsProfile /\ [ProfileNext]_profileVars => TrailTellsProfile'
  <2> SUFFICES ASSUME ProfileTypeOK, TrailTellsProfile, [ProfileNext]_profileVars PROVE TrailTellsProfile' OBVIOUS
  <2>1. ASSUME NEW r, row' = r, Record(r) PROVE TrailTellsProfile'
    BY Zenon, <2>1 DEF Record, TrailTellsProfile, Profile
  <2>2. ASSUME UNCHANGED <<row, audit>> PROVE TrailTellsProfile'
    BY <2>2 DEF TrailTellsProfile, audit, Profile
  <2>3. ASSUME NEW p \in Procs, NEW ok \in BOOLEAN, ChangePasswordUpdate(p, ok)
        PROVE  TrailTellsProfile'
    <3>1. CASE row' = row BY Zenon, <3>1, <2>3 DEF ChangePasswordUpdate, TrailTellsProfile, Profile
    <3>2. CASE row' # row
      <4>1. row' = copy[p] /\ trail' = trail
            /\ restored' = (restored \/ Profile(copy[p]) # Profile(row))
        BY <3>2, <2>3 DEF ChangePasswordUpdate
      <4> QED BY Zenon, <4>1 DEF TrailTellsProfile, Profile
    <3> QED BY <3>1, <3>2
  <2>4. ASSUME NEW p \in Procs, NEW o \in Outcomes, SwapImage(p, o) PROVE TrailTellsProfile'
    BY Zenon, <2>4, <2>1, <2>2 DEF SwapImage
  <2>5. ASSUME NEW p \in Procs, NEW o \in Outcomes, DeletePicture(p, o) \/ UpdateUser(p)
        PROVE  TrailTellsProfile'
    BY Zenon, <2>5, <2>1 DEF DeletePicture, UpdateUser
  <2>6. ASSUME NEW p \in Procs, DeleteUser(p) \/ ChangePasswordRead(p) PROVE TrailTellsProfile'
    BY Zenon, <2>6, <2>2 DEF DeleteUser, ChangePasswordRead
  <2>7. ASSUME NEW p \in Procs, NEW ok \in BOOLEAN, NEW stored \in BOOLEAN, PutImage(p, ok, stored)
        PROVE  TrailTellsProfile'
    BY Zenon, <2>7, <2>2 DEF PutImage
  <2>8. ASSUME (\E i \in Images, ok \in BOOLEAN : AsyncDelete(i, ok)) \/ Crash \/ UNCHANGED profileVars
        PROVE  TrailTellsProfile'
    BY <2>8, <2>2 DEF AsyncDelete, Crash, profileVars
  <2>9. "committed" \in Outcomes BY DEF Outcomes
  <2> QED BY <2>3, <2>4, <2>5, <2>6, <2>7, <2>8, <2>9 DEF ProfileNext
<1>3. ProfileInv => ProfileTypeOK BY DEF ProfileInv
<1> QED BY <1>1, <1>2, <1>3, ProfileInvariance, PTL DEF ProfileSpec

\* Type correctness.
THEOREM ProfileTypeCorrect == ProfileSpec => []ProfileTypeOK
<1>1. ProfileInv => ProfileTypeOK BY DEF ProfileInv
<1> QED BY <1>1, ProfileInvariance, PTL
==============================================================================
