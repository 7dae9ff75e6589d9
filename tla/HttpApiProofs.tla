---------------------------- MODULE HttpApiProofs ----------------------------
(***************************************************************************)
(* Proofs about HttpApi, Rbac and Upload for any configuration, any number *)
(* of requests, any rate limit, any set of files and any number of upload  *)
(* attempts.                                                               *)
(***************************************************************************)
EXTENDS HttpApi, TLAPS

\* Most leaves are first-order reasoning, which is Zenon's; those with arithmetic,
\* records, sequences or the values of strings name SMT.
USE ZenonT(90)

-----------------------------------------------------------------------------
(* Handler chains *)

Handlers == {"limit_all", "recoverer", "metrics", "logger", "limit", "authenticate",
             "handler", "not_found"}

\* The endpoint's handler runs, and runs before any authentication.
PublicFirst(s) ==
    \E i \in 1..Len(s) : s[i] = "handler" /\ \A j \in 1..i : s[j] # "authenticate"

\* No handler runs that no authentication precedes.
Guarded(s) ==
    \A i \in 1..Len(s) : s[i] = "handler" => \E j \in 1..(i - 1) : s[j] = "authenticate"

NoHandler(s) == \A i \in 1..Len(s) : s[i] # "handler"

\* What is left of a route's chain, given who is known to ask.
Inner(e, a, s) ==
    /\ s \in Seq({"limit", "authenticate", "handler", "not_found"})
    /\ e \in Open => a = Null /\ PublicFirst(s)
    /\ e \notin Open => a # Null \/ Guarded(s)
    /\ e \in Unknown => NoHandler(s)

LEMMA Cons ==
    ASSUME NEW S, NEW a \in S, NEW s \in Seq(S)
    PROVE  /\ <<a>> \o s \in Seq(S) /\ <<a>> \o s # <<>>
           /\ Head(<<a>> \o s) = a /\ Tail(<<a>> \o s) = s
<1>1. <<a>> \in Seq(S) /\ Len(<<a>>) = 1 BY SMTT(60)
<1>2. <<a>> \o s \in Seq(S) /\ Len(<<a>> \o s) = 1 + Len(s) BY SMTT(60), <1>1
<1>3. (<<a>> \o s)[1] = a BY SMTT(60), <1>1
<1>4. \A i \in 1..Len(s) : (<<a>> \o s)[i + 1] = s[i] BY SMTT(60), <1>1
<1>5. Tail(<<a>> \o s) \in Seq(S) /\ Len(Tail(<<a>> \o s)) = Len(s)
      /\ \A i \in 1..Len(s) : Tail(<<a>> \o s)[i] = (<<a>> \o s)[i + 1]
  BY SMTT(60), <1>2
<1>6. Tail(<<a>> \o s) = s BY SMTT(60), <1>4, <1>5
<1> QED BY SMTT(60), <1>2, <1>3, <1>6

LEMMA Empty == ASSUME NEW S, NEW s \in Seq(S) PROVE <<>> \o s = s /\ s \o <<>> = s
BY SMTT(60)

LEMMA SameSeq ==
    ASSUME NEW S, NEW s \in Seq(S), NEW t \in Seq(S), Len(s) = Len(t),
           \A i \in 1..Len(s) : s[i] = t[i]
    PROVE  s = t
BY SMTT(60)

LEMMA JoinFacts ==
    ASSUME NEW S, NEW s \in Seq(S), NEW t \in Seq(S)
    PROVE  /\ s \o t \in Seq(S) /\ Len(s \o t) = Len(s) + Len(t)
           /\ \A i \in 1..Len(s) : (s \o t)[i] = s[i]
           /\ \A i \in Len(s) + 1..Len(s) + Len(t) : (s \o t)[i] = t[i - Len(s)]
BY SMTT(60)

LEMMA Joined ==
    ASSUME NEW S, NEW s \in Seq(S), NEW t \in Seq(S)
    PROVE  /\ s \o t \in Seq(S)
           /\ NoHandler(s) => Guarded(s)
           /\ NoHandler(s) /\ NoHandler(t) => NoHandler(s \o t)
           /\ Guarded(s) /\ Guarded(t) => Guarded(s \o t)
           /\ PublicFirst(s) => PublicFirst(s \o t)
<1>1. /\ s \o t \in Seq(S) /\ Len(s \o t) = Len(s) + Len(t)
      /\ \A i \in 1..Len(s) : (s \o t)[i] = s[i]
      /\ \A i \in Len(s) + 1..Len(s) + Len(t) : (s \o t)[i] = t[i - Len(s)]
  BY JoinFacts
<1>2. Len(s) \in Nat /\ Len(t) \in Nat BY SMTT(60)
<1>3. NoHandler(s) => Guarded(s) BY DEF NoHandler, Guarded
<1>4. ASSUME NoHandler(s), NoHandler(t) PROVE NoHandler(s \o t)
  <2> SUFFICES ASSUME NEW i \in 1..Len(s \o t) PROVE (s \o t)[i] # "handler" BY DEF NoHandler
  <2>1. CASE i <= Len(s) BY SMTT(60), <1>1, <1>2, <1>4, <2>1 DEF NoHandler
  <2>2. CASE i > Len(s)
    <3>1. i - Len(s) \in 1..Len(t) BY SMTT(60), <1>1, <1>2, <2>2
    <3> QED BY SMTT(60), <1>1, <1>2, <1>4, <2>2, <3>1 DEF NoHandler
  <2> QED BY SMTT(60), <1>1, <1>2, <2>1, <2>2
<1>5. ASSUME Guarded(s), Guarded(t) PROVE Guarded(s \o t)
  <2> SUFFICES ASSUME NEW i \in 1..Len(s \o t), (s \o t)[i] = "handler"
               PROVE  \E j \in 1..(i - 1) : (s \o t)[j] = "authenticate"
    BY DEF Guarded
  <2>1. CASE i <= Len(s)
    <3>1. PICK j \in 1..(i - 1) : s[j] = "authenticate" BY SMTT(60), <1>1, <1>2, <1>5, <2>1 DEF Guarded
    <3> QED BY SMTT(60), <1>1, <1>2, <2>1, <3>1
  <2>2. CASE i > Len(s)
    <3>1. i - Len(s) \in 1..Len(t) /\ t[i - Len(s)] = "handler" BY SMTT(60), <1>1, <1>2, <2>2
    <3>2. PICK j \in 1..(i - Len(s) - 1) : t[j] = "authenticate" BY <1>5, <3>1 DEF Guarded
    <3>3. j + Len(s) \in 1..(i - 1) /\ (s \o t)[j + Len(s)] = t[j] BY SMTT(60), <1>1, <1>2, <2>2, <3>1, <3>2
    <3> QED BY <3>2, <3>3
  <2> QED BY SMTT(60), <1>1, <1>2, <2>1, <2>2
<1>6. ASSUME PublicFirst(s) PROVE PublicFirst(s \o t)
  <2>1. PICK i \in 1..Len(s) : s[i] = "handler" /\ \A j \in 1..i : s[j] # "authenticate"
    BY <1>6 DEF PublicFirst
  <2>2. i \in 1..Len(s \o t) /\ (s \o t)[i] = "handler" BY SMTT(60), <1>1, <1>2, <2>1
  <2>3. \A j \in 1..i : (s \o t)[j] # "authenticate" BY SMTT(60), <1>1, <1>2, <2>1
  <2> QED BY <2>2, <2>3 DEF PublicFirst
<1> QED BY <1>1, <1>3, <1>4, <1>5, <1>6

-----------------------------------------------------------------------------
(* The invariant *)

Requests == [endpoint : Endpoints, token : Tokens, target : {"me", "other"}]
Results == [http : {0, 400, 401, 404, 429}, classes : SUBSET Classes]
Statuses == {200, 201, 400, 401, 403, 404, 409, 413, 422, 429, 499, 500, 503, 504}

Types ==
    /\ config \in Configs /\ served \in 0..MaxRequests
    /\ hits \in [Limiters -> 0..MaxHits]
    /\ req \in Requests \cup {Null} /\ result \in Results \cup {Null}
    /\ status \in Statuses /\ sent \in BOOLEAN /\ effect \in BOOLEAN
    /\ actor # Null => /\ req # Null /\ req.token \in Roles
                       /\ actor = [user |-> "me", role |-> req.token]

Privileged == {"admin", "system"}

\* A service that is there has registered its permissions for the privileged
\* roles; plain users get none.
GrantInv ==
    /\ phase \in {"starting", "serving"} /\ started \subseteq DOMAIN permTables
    /\ DOMAIN granted \subseteq Roles
    /\ \A r \in DOMAIN granted : granted[r] \subseteq (IF r = "user" THEN {} ELSE Permissions)
    /\ \A s \in started, r \in Privileged : r \in DOMAIN granted /\ permTables[s][r] \subseteq granted[r]
    /\ phase = "serving" => started = DOMAIN permTables

\* The stacks of middlewares to unwind, and what is left of a chain above them.
O1 == <<"recoverer">> \o <<>>
O2 == <<"metrics">> \o O1
O3 == <<"logger">> \o O2

Route == Routes(config, req.endpoint)
T2 == <<"logger">> \o Route
T1 == <<"metrics">> \o T2
T0 == <<"recoverer">> \o T1

\* On the way down.
DownInv ==
    req # Null /\ result = Null =>
        /\ phase = "serving"
        /\ ~sent /\ status = 200 /\ recorded = <<>>
        /\ effect => step = "close"
        /\ \/ /\ open = <<>> /\ actor = Null
              /\ \/ todo = T0
                 \/ config.production /\ todo = <<"limit_all">> \o T0
           \/ open = O1 /\ actor = Null /\ todo = T1
           \/ open = O2 /\ actor = Null /\ todo = T2
           \/ open = O3 /\ Inner(req.endpoint, actor, todo)

\* The token permits what is asked, or does not.
Allowed ==
    \/ req.endpoint \in Open
    \/ req.token \in Roles /\ Permitted(req.endpoint, req.token, req.target)
Denied ==
    /\ req.endpoint \notin Open
    /\ req.token \in Roles /\ ~Permitted(req.endpoint, req.token, req.target)

Final == IF Failed THEN ParseError(result) ELSE status

\* On the way up: what the result says of the request.
UpInv ==
    result # Null =>
        /\ req # Null /\ "no_context" \notin result.classes
        /\ req.endpoint \in Open => actor = Null
        /\ "Forbidden" \in result.classes \/ status = 403 => Denied
        /\ effect => Allowed
        /\ ~sent => open \in {<<>>, O1, O2, O3}

\* What is recorded, and what is not.
RecordInv ==
    result # Null /\ ~sent =>
        /\ open \in {O2, O3} => recorded = <<>>
        /\ open \in {<<>>, O1} =>
              \/ recorded = <<Final>> /\ result # Panicked
              \/ /\ recorded = <<>>
                 /\ \/ result = Panicked /\ open = O1
                    \/ /\ open = <<>>
                       /\ \/ result \in {Wrapped({"unknown"}), Wrapped({"fiber", "too_large"})}
                          \/ config.production /\ result = HttpError(429)

\* An upload is under way only in its handler.
UploadingInv ==
    /\ step # "none" => /\ req # Null /\ result = Null /\ req.endpoint = "change_picture"
                        /\ todo # <<>> /\ Head(todo) = "handler"
    /\ failure \subseteq Classes \ {"no_context", "Forbidden", "ok"}

AnswerInv ==
    /\ sent => result # Null
    /\ req = Null => result = Null /\ actor = Null /\ ~sent /\ todo = <<>> /\ recorded = <<>>

SentInv == AccessMatrix /\ CountedAsSent

FlowInv ==
    Types /\ GrantInv /\ DownInv /\ UpInv /\ RecordInv /\ UploadingInv /\ AnswerInv /\ SentInv

-----------------------------------------------------------------------------
(* The routes *)

Links == {"limit", "authenticate", "handler", "not_found"}

LEMMA Pieces ==
    /\ <<"handler">> \in Seq(Links) /\ PublicFirst(<<"handler">>)
    /\ <<"limit", "handler">> \in Seq(Links) /\ PublicFirst(<<"limit", "handler">>)
    /\ <<"authenticate", "handler">> \in Seq(Links) /\ Guarded(<<"authenticate", "handler">>)
    /\ <<"authenticate">> \in Seq(Links) /\ NoHandler(<<"authenticate">>)
    /\ <<"not_found">> \in Seq(Links) /\ NoHandler(<<"not_found">>)
    /\ <<>> \in Seq(Links) /\ NoHandler(<<>>)
    /\ Guarded(<<"authenticate">> \o <<"handler">>)
<1>1. PublicFirst(<<"handler">>) BY SMTT(60) DEF PublicFirst
<1>2. PublicFirst(<<"limit", "handler">>)
  <2>1. 2 \in 1..Len(<<"limit", "handler">>) BY SMTT(60)
  <2>2. \A j \in 1..2 : <<"limit", "handler">>[j] # "authenticate"
    <3> TAKE j \in 1..2
    <3>1. CASE j = 1 BY <3>1
    <3>2. CASE j = 2 BY <3>2
    <3> QED BY SMTT(60), <3>1, <3>2
  <2> QED BY <2>1, <2>2 DEF PublicFirst
<1>3. Guarded(<<"authenticate", "handler">>)
  <2> SUFFICES ASSUME NEW i \in 1..2, <<"authenticate", "handler">>[i] = "handler"
               PROVE  \E j \in 1..(i - 1) : <<"authenticate", "handler">>[j] = "authenticate"
    BY DEF Guarded
  <2>1. i = 2 BY SMTT(60)
  <2> QED BY SMTT(60), <2>1
<1>4. NoHandler(<<"authenticate">>) /\ NoHandler(<<"not_found">>) /\ NoHandler(<<>>)
  <2>1. NoHandler(<<"authenticate">>) BY SMTT(60) DEF NoHandler
  <2>2. NoHandler(<<"not_found">>) BY SMTT(60) DEF NoHandler
  <2>3. NoHandler(<<>>) BY SMTT(60) DEF NoHandler
  <2> QED BY <2>1, <2>2, <2>3
<1>5. Guarded(<<"authenticate">> \o <<"handler">>)
  <2> DEFINE s == <<"authenticate">> \o <<"handler">>
  <2>1. Len(s) = 2 /\ s[1] = "authenticate" BY SMTT(60)
  <2>2. s[2] = "handler" BY SMTT(60)
  <2> HIDE DEF s
  <2> SUFFICES ASSUME NEW i \in 1..2, s[i] = "handler" PROVE \E j \in 1..(i - 1) : s[j] = "authenticate"
    BY <2>1 DEF Guarded, s
  <2>3. i = 2 BY SMTT(60), <2>1
  <2> QED BY SMTT(60), <2>1, <2>3
<1>6. /\ <<"handler">> \in Seq(Links) /\ <<"limit", "handler">> \in Seq(Links)
      /\ <<"authenticate", "handler">> \in Seq(Links) /\ <<"authenticate">> \in Seq(Links)
      /\ <<"not_found">> \in Seq(Links) /\ <<>> \in Seq(Links)
  BY SMTT(60) DEF Links
<1> QED BY <1>1, <1>2, <1>3, <1>4, <1>5, <1>6

\* Joined, for sequences of links.
LEMMA Linked ==
    ASSUME NEW s \in Seq(Links), NEW t \in Seq(Links)
    PROVE  /\ s \o t \in Seq(Links) /\ <<>> \o s = s /\ s \o <<>> = s
           /\ NoHandler(s) => Guarded(s)
           /\ NoHandler(s) /\ NoHandler(t) => NoHandler(s \o t)
           /\ Guarded(s) /\ Guarded(t) => Guarded(s \o t)
           /\ PublicFirst(s) => PublicFirst(s \o t)
BY Joined, Empty

\* Who comes first on every path: AuthHandler.Routes, UserHandler.Routes,
\* AuditHandler.Routes and NewServer register them in the right order.
LEMMA RouteInner ==
    ASSUME config \in Configs, NEW e \in Endpoints
    PROVE  Inner(e, Null, Routes(config, e))
<1> DEFINE A == On(Limited, e, <<"limit", "handler">>)
           B == On({"register"}, e, IF config.internal THEN <<"authenticate", "handler">> ELSE <<"handler">>)
           C == On(Public \ Limited, e, <<"handler">>)
           D == On(UnderAuth, e, <<"authenticate">>)
           E == On(AuthEndpoints, e, <<"handler">>)
           H == On({"healthz"}, e, <<"handler">>)
           U == On(UnderApi, e, <<"authenticate">>)
           V == On(UserEndpoints, e, <<"handler">>)
           W == On({"list_audit"}, e, <<"authenticate", "handler">>)
           N == <<"not_found">>
           X == (A \o B) \o C
           Y == (X \o D) \o E
           R == (((H \o Y) \o (U \o V)) \o W) \o N
<1>1. /\ A \in Seq(Links) /\ B \in Seq(Links) /\ C \in Seq(Links) /\ D \in Seq(Links)
      /\ E \in Seq(Links) /\ H \in Seq(Links) /\ U \in Seq(Links) /\ V \in Seq(Links)
      /\ W \in Seq(Links) /\ N \in Seq(Links)
  BY Pieces DEF On
<1>2. Routes(config, e) = R BY DEF Routes, AuthRoutes, UserRoutes, AuditRoutes
<1>3. /\ e = "healthz" => H = <<"handler">>
      /\ e \in Limited => H = <<>> /\ A = <<"limit", "handler">>
      /\ e = "register" /\ ~config.internal => H = <<>> /\ A = <<>> /\ B = <<"handler">>
      /\ e \in Public \ Limited => H = <<>> /\ A = <<>> /\ B = <<>> /\ C = <<"handler">>
  BY Zenon DEF On, Limited, Public
<1>4. /\ e \notin Open => H = <<>> /\ A = <<>> /\ C = <<>>
      /\ e \notin Open => B = <<>> \/ B = <<"authenticate", "handler">>
      /\ e \in AuthEndpoints => A = <<>> /\ B = <<>> /\ C = <<>> /\ D = <<"authenticate">> /\ E = <<"handler">>
      /\ e \in UserEndpoints => U = <<"authenticate">> /\ V = <<"handler">>
      /\ e \notin AuthEndpoints => E = <<>>
      /\ e \notin UserEndpoints => V = <<>>
  <2>1. Limited \subseteq Public /\ AuthEndpoints \cap (Public \cup {"register"}) = {}
    BY DEF Limited, Public, AuthEndpoints
  <2>2. AuthEndpoints \subseteq UnderAuth /\ UserEndpoints \subseteq UnderApi BY DEF UnderAuth, UnderApi
  <2> QED BY Zenon, <2>1, <2>2 DEF On, Open
<1>5. /\ D = <<>> \/ D = <<"authenticate">>
      /\ U = <<>> \/ U = <<"authenticate">>
      /\ W = <<>> \/ W = <<"authenticate", "handler">>
  BY DEF On
<1>6. e \in Unknown => A = <<>> /\ B = <<>> /\ C = <<>> /\ E = <<>> /\ H = <<>> /\ V = <<>> /\ W = <<>>
  BY DEF On, Unknown, Limited, Public, AuthEndpoints, UserEndpoints
<1> HIDE DEF A, B, C, D, E, H, U, V, W, N
<1>7. X \in Seq(Links) /\ A \o B \in Seq(Links) BY <1>1, Linked
<1>8. X \o D \in Seq(Links) /\ Y \in Seq(Links) /\ U \o V \in Seq(Links) BY <1>1, <1>7, Linked
<1>9. H \o Y \in Seq(Links) /\ (H \o Y) \o (U \o V) \in Seq(Links) BY <1>1, <1>8, Linked
<1>10. ((H \o Y) \o (U \o V)) \o W \in Seq(Links) /\ R \in Seq(Links) BY <1>1, <1>9, Linked
<1>11. ASSUME e \in Open PROVE PublicFirst(R)
  <2>1. SUFFICES PublicFirst(H \o Y) BY <1>1, <1>8, <1>9, <1>10, Linked
  <2> HIDE DEF X, Y
  <2>0. ASSUME H = <<>>, PublicFirst(X) PROVE PublicFirst(H \o Y)
    <3>1. PublicFirst(X \o D) BY <1>1, <1>7, <2>0, Linked
    <3>2. PublicFirst(Y) BY <1>1, <1>8, <3>1, Linked DEF Y
    <3>3. H \o Y = Y BY <1>1, <1>8, <2>0, Linked
    <3> QED BY <3>2, <3>3
  <2>2. CASE e = "healthz" BY <1>1, <1>3, <1>8, <2>2, Pieces, Linked
  <2>3. CASE e \in Limited
    <3>1. PublicFirst(X) BY <1>1, <1>3, <1>7, <2>3, Pieces, Linked DEF X
    <3> QED BY <1>3, <2>0, <2>3, <3>1
  <2>4. CASE e = "register" /\ ~config.internal
    <3>1. A \o B = B BY <1>1, <1>3, <2>4, Linked
    <3>2. PublicFirst(X) BY <1>1, <1>3, <1>7, <2>4, <3>1, Pieces, Linked DEF X
    <3> QED BY <1>3, <2>0, <2>4, <3>2
  <2>5. CASE e \in Public \ Limited
    <3>1. A \o B = B /\ X = C BY <1>1, <1>3, <2>5, Linked DEF X
    <3>2. PublicFirst(X) BY <1>3, <2>5, <3>1, Pieces
    <3> QED BY <1>3, <2>0, <2>5, <3>2
  <2> QED BY <1>11, <2>2, <2>3, <2>4, <2>5 DEF Open
<1>12. ASSUME e \notin Open PROVE Guarded(R)
  <2>1. /\ Guarded(H) /\ Guarded(A) /\ Guarded(B) /\ Guarded(C) /\ Guarded(D) /\ Guarded(U)
        /\ Guarded(W) /\ Guarded(N)
    BY <1>1, <1>4, <1>5, <1>12, Pieces, Linked DEF N
  <2>2. Guarded(X) BY <1>1, <1>7, <2>1, Linked
  <2>3. Guarded(Y)
    <3>1. CASE e \in AuthEndpoints
      <4>1. A \o B = <<>> /\ X = <<>> /\ X \o D = D BY <1>1, <1>4, <3>1, Pieces, Linked
      <4> QED BY <1>4, <3>1, <4>1, Pieces
    <3>2. CASE e \notin AuthEndpoints
      <4>1. Y = X \o D BY <1>4, <1>8, <3>2, Linked
      <4> QED BY <1>1, <1>7, <2>1, <2>2, <4>1, Linked
    <3> QED BY <3>1, <3>2
  <2>4. Guarded(U \o V)
    <3>1. CASE e \in UserEndpoints BY <1>4, <3>1, Pieces
    <3>2. CASE e \notin UserEndpoints
      <4>1. U \o V = U BY <1>1, <1>4, <3>2, Linked
      <4> QED BY <2>1, <4>1
    <3> QED BY <3>1, <3>2
  <2>5. Guarded((H \o Y) \o (U \o V)) BY <1>1, <1>8, <1>9, <2>1, <2>3, <2>4, Linked
  <2> QED BY <1>1, <1>9, <1>10, <2>1, <2>5, Linked
<1>13. ASSUME e \in Unknown PROVE NoHandler(R)
  <2>1. /\ NoHandler(A) /\ NoHandler(B) /\ NoHandler(C) /\ NoHandler(D) /\ NoHandler(E)
        /\ NoHandler(H) /\ NoHandler(U) /\ NoHandler(V) /\ NoHandler(W) /\ NoHandler(N)
    BY <1>5, <1>6, <1>13, Pieces DEF N
  <2>2. NoHandler(X) BY <1>1, <1>7, <2>1, Linked
  <2>3. NoHandler(Y) /\ NoHandler(U \o V) BY <1>1, <1>7, <1>8, <2>1, <2>2, Linked
  <2>4. NoHandler((H \o Y) \o (U \o V)) BY <1>1, <1>8, <1>9, <2>1, <2>3, Linked
  <2> QED BY <1>1, <1>9, <1>10, <2>1, <2>4, Linked
<1> QED BY <1>2, <1>10, <1>11, <1>12, <1>13 DEF Inner, Links

LEMMA ConsJoined ==
    ASSUME NEW S, NEW a \in S, NEW s \in Seq(S), NEW t \in Seq(S)
    PROVE  (<<a>> \o s) \o t = <<a>> \o (s \o t)
<1>1. /\ (<<a>> \o s) \o t \in Seq(S) /\ <<a>> \o (s \o t) \in Seq(S)
      /\ Len((<<a>> \o s) \o t) = Len(<<a>> \o (s \o t))
  BY SMTT(60)
<1>2. ASSUME NEW i \in 1..Len((<<a>> \o s) \o t) PROVE ((<<a>> \o s) \o t)[i] = (<<a>> \o (s \o t))[i]
  BY SMTT(60)
<1> QED BY SMTT(60), <1>1, <1>2

LEMMA ThreeJoined ==
    ASSUME NEW S, NEW a \in S, NEW b \in S, NEW c \in S, NEW r \in Seq(S)
    PROVE  <<a, b, c>> \o r = <<a>> \o (<<b>> \o (<<c>> \o r))
<1> DEFINE M == <<a, b, c>>
           R2 == <<c>> \o r
           R1 == <<b>> \o R2
           R0 == <<a>> \o R1
<1>1. M \in Seq(S) /\ Len(M) = 3 /\ M[1] = a /\ M[2] = b /\ M[3] = c BY SMTT(60)
<1>2. /\ R2 \in Seq(S) /\ Len(R2) = 1 + Len(r) /\ R2[1] = c
      /\ \A i \in 2..1 + Len(r) : R2[i] = r[i - 1]
  BY SMTT(60)
<1> HIDE DEF M, R2
<1>3. /\ R1 \in Seq(S) /\ Len(R1) = 1 + Len(R2) /\ R1[1] = b
      /\ \A i \in 2..1 + Len(R2) : R1[i] = R2[i - 1]
  BY SMTT(60), <1>2
<1> HIDE DEF R1
<1>4. /\ R0 \in Seq(S) /\ Len(R0) = 1 + Len(R1) /\ R0[1] = a
      /\ \A i \in 2..1 + Len(R1) : R0[i] = R1[i - 1]
  BY SMTT(60), <1>3
<1> HIDE DEF R0
<1> DEFINE P == M \o r
<1>5. Len(r) \in Nat BY SMTT(60)
<1>6. /\ P \in Seq(S) /\ Len(P) = Len(M) + Len(r)
      /\ \A i \in 1..Len(M) : P[i] = M[i]
      /\ \A i \in Len(M) + 1..Len(M) + Len(r) : P[i] = r[i - Len(M)]
  BY <1>1, JoinFacts
<1> HIDE DEF P
<1>8. Len(r) \in Nat /\ P \in Seq(S) /\ Len(P) = 3 + Len(r) BY <1>1, <1>5, <1>6
<1>9. P[1] = a /\ P[2] = b /\ P[3] = c BY SMTT(60), <1>1, <1>6
<1>10. \A i \in 4..3 + Len(r) : P[i] = r[i - 3] BY SMTT(60), <1>1, <1>5, <1>6
<1>11. ASSUME NEW i \in 1..3 + Len(r) PROVE P[i] = R0[i]
  <2>1. CASE i = 1 BY <1>4, <1>9, <2>1
  <2>2. CASE i = 2
    <3>1. R0[2] = R1[1] BY SMTT(60), <1>2, <1>3, <1>4, <1>8
    <3> QED BY <1>3, <1>9, <2>2, <3>1
  <2>3. CASE i = 3
    <3>1. R0[3] = R1[2] /\ R1[2] = R2[1] BY SMTT(60), <1>2, <1>3, <1>4, <1>8
    <3> QED BY <1>2, <1>9, <2>3, <3>1
  <2>4. CASE i > 3
    <3>1. R0[i] = R1[i - 1] /\ R1[i - 1] = R2[i - 2] /\ R2[i - 2] = r[i - 3]
      BY SMTT(60), <1>2, <1>3, <1>4, <1>8, <2>4
    <3>2. i \in 4..3 + Len(r) BY SMTT(60), <1>5, <2>4
    <3> QED BY <1>10, <3>1, <3>2
  <2> QED BY SMTT(60), <1>8, <2>1, <2>2, <2>3, <2>4
<1>12. Len(R0) = Len(P) BY SMTT(60), <1>2, <1>3, <1>4, <1>8
<1>13. P = R0 BY <1>4, <1>8, <1>11, <1>12, SameSeq
<1> QED BY <1>13 DEF M, P, R0, R1, R2

\* The chain of a path: the production limiter, the three middlewares, the routes.
LEMMA ChainShape ==
    ASSUME Types, req # Null
    PROVE  /\ Route \in Seq(Handlers) /\ T2 \in Seq(Handlers) /\ T1 \in Seq(Handlers) /\ T0 \in Seq(Handlers)
           /\ Chain[config][req.endpoint] = IF config.production THEN <<"limit_all">> \o T0 ELSE T0
<1> DEFINE M == <<"recoverer", "metrics", "logger">>
           L == <<"limit_all">>
<1>1. config \in Configs /\ req.endpoint \in Endpoints BY DEF Types, Requests
<1>2. Route \in Seq(Links) BY <1>1, RouteInner DEF Inner, Links, Route
<1>3. Route \in Seq(Handlers) BY SMTT(60), <1>2 DEF Links, Handlers
<1>4. T2 \in Seq(Handlers) BY <1>3, Cons DEF T2, Handlers
<1>5. T1 \in Seq(Handlers) BY <1>4, Cons DEF T1, Handlers
<1>6. T0 \in Seq(Handlers) BY <1>5, Cons DEF T0, Handlers
<1>7. M \in Seq(Handlers) BY SMTT(60) DEF Handlers
<1>8. M \o Route = T0 BY SMTT(60), <1>3, ThreeJoined DEF T0, T1, T2, Handlers
<1>9. (L \o M) \o Route = L \o (M \o Route) BY SMTT(60), <1>3, <1>7, ConsJoined DEF Handlers
<1>10. <<>> \o M = M BY <1>7, Empty
<1>11. Chain[config][req.endpoint] = Global(config) \o Route BY <1>1 DEF Chain, Route
<1> QED BY <1>3, <1>4, <1>5, <1>6, <1>8, <1>9, <1>10, <1>11 DEF Global

-----------------------------------------------------------------------------
(* Statuses and permissions *)

LEMMA KindStatus ==
    ASSUME NEW k \in Kinds
    PROVE  /\ appErrStatusMap[k] \in Statuses
           /\ appErrStatusMap[k] = 403 => k = "Forbidden"
BY SMTT(60) DEF Kinds, appErrStatusMap, Statuses

\* ParseError turns every error into a known status, and into 403 only one that
\* is Forbidden.
LEMMA ParseErrorFacts ==
    ASSUME NEW err \in Results
    PROVE  /\ ParseError(err) \in Statuses
           /\ ParseError(err) = 403 => "Forbidden" \in err.classes
<1> DEFINE k == CHOOSE k \in Kinds : k \in err.classes
<1>1. err.http \in {0, 400, 401, 404, 429} BY SMTT(60) DEF Results
<1>2. ASSUME \E j \in Kinds : j \in err.classes
      PROVE  k \in Kinds /\ k \in err.classes
  BY <1>2
<1> HIDE DEF k
<1>3. ASSUME \E j \in Kinds : j \in err.classes
      PROVE  /\ appErrStatusMap[k] \in Statuses
             /\ appErrStatusMap[k] = 403 => "Forbidden" \in err.classes
  BY SMTT(60), <1>2, <1>3, KindStatus
<1>4. \/ ParseError(err) = err.http /\ err.http # 0
      \/ ParseError(err) \in {504, 499, 413, 500, 400, 422}
      \/ ParseError(err) = appErrStatusMap[k] /\ \E j \in Kinds : j \in err.classes
  BY SMTT(60) DEF ParseError, k
<1> QED BY SMTT(60), <1>1, <1>3, <1>4 DEF Statuses

LEMMA KnownStatuses ==
    /\ ParseError(Wrapped({"unknown"})) = 500
    /\ ParseError(Wrapped({"fiber", "too_large"})) = 413
    /\ ParseError(HttpError(429)) = 429
BY SMTT(60) DEF ParseError, Wrapped, HttpError, Kinds

\* An error that is neither a panic nor about who asks.
Plain(err) ==
    err \in Results /\ err.classes \cap {"no_context", "Forbidden", "ok", "panic"} = {}

LEMMA PlainErrors ==
    /\ \A h \in {400, 401, 404, 429} : Plain(HttpError(h))
    /\ \A C \in SUBSET (Classes \ {"no_context", "Forbidden", "ok", "panic"}) : Plain(Wrapped(C))
    /\ \A err \in BindErrors \cup ServiceErrors : Plain(err)
    /\ \A err : Plain(err) => /\ err # Null /\ err # Ok /\ err # Panicked /\ err \in Results
                             /\ "no_context" \notin err.classes /\ "Forbidden" \notin err.classes
<1>1. \A h \in {400, 401, 404, 429} : Plain(HttpError(h)) BY SMTT(60) DEF HttpError, Results, Plain
<1>2. \A C \in SUBSET (Classes \ {"no_context", "Forbidden", "ok", "panic"}) : Plain(Wrapped(C))
  BY DEF Wrapped, Results, Plain
<1>3. \A err \in BindErrors : Plain(err)
  <2>1. /\ {"json"} \in SUBSET (Classes \ {"no_context", "Forbidden", "ok", "panic"})
        /\ {"invalid"} \in SUBSET (Classes \ {"no_context", "Forbidden", "ok", "panic"})
        /\ {"fiber"} \in SUBSET (Classes \ {"no_context", "Forbidden", "ok", "panic"})
        /\ {"unknown"} \in SUBSET (Classes \ {"no_context", "Forbidden", "ok", "panic"})
    BY DEF Classes
  <2> QED BY SMTT(60), <1>1, <1>2, <2>1 DEF BindErrors
<1>4. \A err \in ServiceErrors : Plain(err)
  <2> TAKE err \in ServiceErrors
  <2>1. CASE err = Wrapped({"deadline", "NotFound"})
    <3>1. {"deadline", "NotFound"} \in SUBSET (Classes \ {"no_context", "Forbidden", "ok", "panic"})
      BY DEF Classes, Kinds
    <3> QED BY <1>2, <2>1, <3>1
  <2>2. ASSUME NEW k \in (Kinds \ {"Forbidden"}) \cup {"deadline", "canceled", "unknown"}, err = Wrapped({k})
        PROVE  Plain(err)
    <3>1. {k} \in SUBSET (Classes \ {"no_context", "Forbidden", "ok", "panic"}) BY DEF Classes, Kinds
    <3> QED BY <1>2, <2>2, <3>1
  <2> QED BY <2>1, <2>2 DEF ServiceErrors, Unclassified
<1>5. ASSUME NEW err, Plain(err)
      PROVE  /\ err # Null /\ err # Ok /\ err # Panicked /\ err \in Results
             /\ "no_context" \notin err.classes /\ "Forbidden" \notin err.classes
  <2>1. err \in Results /\ "ok" \notin err.classes /\ "panic" \notin err.classes
        /\ "no_context" \notin err.classes /\ "Forbidden" \notin err.classes
    BY <1>5 DEF Plain
  <2>2. Ok.classes = {"ok"} /\ Panicked.classes = {"panic"} BY DEF Ok, Panicked, Wrapped
  <2>3. Null \notin Results BY SMTT(60), NullAssumption DEF Results
  <2> QED BY <2>1, <2>2, <2>3
<1> QED BY SMTT(60), <1>1, <1>2, <1>3, <1>4, <1>5

LEMMA OkAndPanicked ==
    /\ Ok \in Results /\ Panicked \in Results /\ Ok # Null /\ Panicked # Null /\ Ok # Panicked
    /\ Ok.classes = {"ok"} /\ Panicked.classes = {"panic"}
<1>1. Ok \in Results /\ Panicked \in Results BY SMTT(60) DEF Ok, Panicked, Wrapped, Classes, Results
<1>2. Ok.classes = {"ok"} /\ Panicked.classes = {"panic"} BY DEF Ok, Panicked, Wrapped
<1>3. Null \notin Results BY SMTT(60), NullAssumption DEF Results
<1> QED BY <1>1, <1>2, <1>3

LEMMA Rights ==
    ASSUME GrantInv, phase = "serving", NEW r \in Roles, NEW perms \in SUBSET Permissions, perms # {}
    PROVE  can(r, perms) <=> r \in Privileged
<1>1. started = {"auth", "user", "audit"} BY DEF GrantInv, permTables
<1>2. ASSUME r \in Privileged PROVE r \in DOMAIN granted /\ Permissions \subseteq granted[r]
  <2>1. r # "user" /\ r \in {"admin", "system"} BY <1>2 DEF Privileged
  <2>2. permTables["auth"][r] = AuthPerms BY <2>1 DEF permTables, Roles
  <2>3. permTables["user"][r] = UserPerms BY <2>1 DEF permTables, Roles
  <2>4. permTables["audit"][r] = AuditPerms BY <2>1 DEF permTables
  <2> QED BY <1>1, <1>2, <2>2, <2>3, <2>4 DEF GrantInv, Permissions
<1>3. ASSUME r \notin Privileged PROVE r = "user" BY <1>3 DEF Privileged, Roles
<1>4. "user" \in DOMAIN granted => granted["user"] = {} BY DEF GrantInv
<1>5. "user" \notin Privileged BY DEF Privileged
<1> QED BY <1>2, <1>3, <1>4, <1>5 DEF can

\* What the services check is what the README's table says.
LEMMA CheckFacts ==
    ASSUME Types, GrantInv, phase = "serving", req # Null
    PROVE  /\ req.endpoint \in Open => Check(req.endpoint, req.target) = "ok"
           /\ req.endpoint \notin Open \cup Unknown /\ actor # Null =>
                 Check(req.endpoint, req.target) =
                     IF Permitted(req.endpoint, req.token, req.target) THEN "ok" ELSE "forbidden"
<1> DEFINE e == req.endpoint
           u == req.target
<1>1. e \in Endpoints /\ u \in {"me", "other"} BY DEF Types, Requests
<1>2. ASSUME e \in Open PROVE Check(e, u) = "ok"
  <2>1. CASE e = "register" /\ ~config.internal BY <2>1 DEF Check
  <2>2. CASE e \in Public \cup {"healthz"} BY <2>2 DEF Check, Public
  <2> QED BY <1>2, <2>1, <2>2 DEF Open
<1>3. ASSUME e \notin Open \cup Unknown, actor # Null
      PROVE  Check(e, u) = IF Permitted(e, req.token, u) THEN "ok" ELSE "forbidden"
  <2> DEFINE r == req.token
  <2>1. r \in Roles /\ actor.user = "me" /\ actor.role = r BY SMTT(60), <1>3 DEF Types
  <2>2. \A p \in Permissions : can(r, {p}) <=> r \in Privileged BY <2>1, Rights
  <2>3. \A p \in Permissions : Require(actor, {p}) = IF r \in Privileged THEN "ok" ELSE "forbidden"
    BY <1>3, <2>1, <2>2 DEF Require
  <2>4. \A p \in Permissions : RequireSelfOr(actor, "me", p) = "ok" BY <1>3, <2>1 DEF RequireSelfOr
  <2>5. \A p \in Permissions :
           RequireSelfOr(actor, u, p) = IF u = "me" \/ r \in Privileged THEN "ok" ELSE "forbidden"
    BY <1>3, <2>1, <2>2 DEF RequireSelfOr
  <2>6. /\ "auth.register-user" \in Permissions /\ "user.read" \in Permissions
        /\ "auth.change-password" \in Permissions /\ "auth.revoke-user-sessions" \in Permissions
        /\ "auth.view-user-sessions" \in Permissions /\ "user.update" \in Permissions
        /\ "user.delete" \in Permissions /\ "audit.read" \in Permissions
    BY DEF Permissions, AuthPerms, UserPerms, AuditPerms
  <2> HIDE DEF r, e, u
  <2>7. CASE e \in {"logout", "permissions"}
    <3>1. Permitted(e, r, u) BY <2>7 DEF Permitted
    <3>2. Check(e, u) = "ok" BY <1>3, <2>7 DEF Check
    <3> QED BY <3>1, <3>2 DEF e, r, u
  <2>8. CASE e \in {"me", "change_password", "change_picture", "delete_picture"}
    <3>1. Permitted(e, r, u) BY <2>8 DEF Permitted
    <3>2. Check(e, u) = "ok" BY <2>4, <2>6, <2>8 DEF Check
    <3> QED BY <3>1, <3>2 DEF e, r, u
  <2>9. CASE e \in {"list_user_sessions", "revoke_session", "update_user"}
    <3>1. Permitted(e, r, u) <=> u = "me" \/ r \in Privileged BY <2>9 DEF Permitted, Privileged
    <3>2. Check(e, u) = IF u = "me" \/ r \in Privileged THEN "ok" ELSE "forbidden"
      BY <2>5, <2>6, <2>9 DEF Check
    <3> QED BY <3>1, <3>2 DEF e, r, u
  <2>10. CASE e \in {"revoke_user_sessions", "list_users", "delete_user", "list_audit"}
    <3>1. Permitted(e, r, u) <=> r \in Privileged BY <2>10 DEF Permitted, Privileged
    <3>2. Check(e, u) = IF r \in Privileged THEN "ok" ELSE "forbidden" BY <2>3, <2>6, <2>10 DEF Check
    <3> QED BY <3>1, <3>2 DEF e, r, u
  <2>11. CASE e = "register" /\ config.internal
    <3>1. Permitted(e, r, u) <=> r \in Privileged BY <2>11 DEF Permitted, Privileged
    <3>2. Check(e, u) = IF r \in Privileged THEN "ok" ELSE "forbidden" BY <2>3, <2>6, <2>11 DEF Check
    <3> QED BY <3>1, <3>2 DEF e, r, u
  <2>12. \/ e \in {"logout", "permissions"}
         \/ e \in {"me", "change_password", "change_picture", "delete_picture"}
         \/ e \in {"list_user_sessions", "revoke_session", "update_user"}
         \/ e \in {"revoke_user_sessions", "list_users", "delete_user", "list_audit"}
         \/ e = "register" /\ config.internal
    BY <1>1, <1>3 DEF Endpoints, Open, AuthEndpoints, UserEndpoints, e
  <2> QED BY <2>7, <2>8, <2>9, <2>10, <2>11, <2>12
<1> QED BY <1>2, <1>3

-----------------------------------------------------------------------------
(* Upload *)

\* What detectMIME finds in the file.
Found == IF 0 < file.size THEN file.content ELSE Binary

Accepted ==
    file \in Files /\ file.size <= MaxSize /\ sniffed = Found /\ Verdict = {}

\* There is one handle or none, and it is at the start of the file whenever the
\* file is to be read: start never is another offset.
UploadInv ==
    /\ step \in {"none", "tell", "sniff", "reset", "verdict", "service", "put", "rewind", "save", "close"}
    /\ \/ handle = <<>> /\ opened = 0
       \/ opened = 1 /\ \E n \in Nat : handle = <<n>>
    /\ start = 0
    /\ step \in {"none", "tell"} => handle = <<>>
    /\ step \in {"sniff", "verdict", "service", "put"} => handle = <<0>>
    /\ step \notin {"none", "close"} => file \in Files /\ file.size <= MaxSize
    /\ step \in {"reset", "verdict"} => sniffed = Found
    /\ step \in {"service", "put", "rewind", "save"} => Accepted
    /\ step \notin {"save", "close"} => object = NoObject
    /\ \/ object = NoObject
       \/ /\ object = [from |-> 0, to |-> file.size, type |-> file.claimed, ext |-> file.ext]
          /\ Accepted
    /\ step = "none" => failure = {}

UploadNext ==
    \/ \E f \in Files : ReceiveFile(f)
    \/ UploadStep \/ Close
    \/ \E check : Authorize(check) \/ Finish(check)

LEMMA AtFacts ==
    ASSUME UploadInv, NEW n \in Nat, At(n)
    PROVE  opened' = 1 /\ handle' = <<n>> /\ handle' # <<>>
BY SMTT(60) DEF At, UploadInv

LEMMA IOErrorFacts ==
    ASSUME UploadInv, IOError
    PROVE  /\ step' = "close"
           /\ \/ handle' = <<>> /\ opened' = 0
              \/ opened' = 1 /\ \E n \in Nat : handle' = <<n>>
<1>1. Offset \in Nat BY SMTT(60) DEF UploadInv, Offset
<1>2. CASE UNCHANGED <<handle, opened>> BY <1>2 DEF IOError, Fail, UploadInv
<1>3. CASE At(Offset) BY <1>1, <1>3, AtFacts DEF IOError, Fail
<1> QED BY <1>2, <1>3 DEF IOError

LEMMA SameFile ==
    ASSUME file' = file PROVE Found' = Found /\ (sniffed' = sniffed => Verdict' = Verdict /\ Accepted' = Accepted)
BY DEF Found, Accepted, Verdict

LEMMA UploadInvStep ==
    ASSUME UploadInv, UploadNext
    PROVE  UploadInv'
<1>0. \A f \in Files : f.size \in Nat BY UploadAssumption
<1>1. ASSUME NEW f \in Files, ReceiveFile(f) PROVE UploadInv'
  <2>1. CASE f.size > MaxSize BY <1>1, <2>1 DEF ReceiveFile, Fail, UploadInv
  <2>2. CASE ~(f.size > MaxSize)
    <3>1. f.size <= MaxSize BY SMTT(60), <1>0, <2>2, UploadAssumption
    <3> QED BY <1>1, <2>2, <3>1 DEF ReceiveFile, UploadInv
  <2> QED BY <2>1, <2>2
<1>2. CASE Tell
  <2>1. Offset = 0 BY <1>2 DEF Tell, UploadInv, Offset
  <2>2. CASE At(Offset) /\ start' = Offset /\ step' = "sniff" /\ UNCHANGED failure
    BY <1>2, <2>1, <2>2, AtFacts DEF Tell, UploadInv
  <2>3. CASE IOError /\ UNCHANGED start BY <1>2, <2>3, IOErrorFacts DEF Tell, UploadInv
  <2> QED BY <1>2, <2>2, <2>3 DEF Tell
<1>3. CASE Sniff
  <2>1. Offset = 0 /\ file.size \in Nat BY SMTT(60), <1>0, <1>3 DEF Sniff, UploadInv, Offset
  <2>2. CASE /\ At(IF Offset < file.size THEN Offset + 1 ELSE Offset)
             /\ sniffed' = IF Offset < file.size THEN file.content ELSE Binary
             /\ step' = "reset" /\ UNCHANGED failure
    <3>1. opened' = 1 /\ \E n \in Nat : handle' = <<n>> BY SMTT(60), <2>1, <2>2, AtFacts
    <3>2. sniffed' = Found' BY <1>3, <2>1, <2>2 DEF Sniff, Found
    <3> QED BY <1>3, <2>2, <3>1, <3>2 DEF Sniff, UploadInv
  <2>3. CASE IOError /\ UNCHANGED sniffed BY <1>3, <2>3, IOErrorFacts DEF Sniff, UploadInv
  <2> QED BY <1>3, <2>2, <2>3 DEF Sniff
<1>4. CASE Reset
  <2>1. start = 0 /\ Found' = Found BY <1>4, SameFile DEF UploadInv, Reset
  <2>2. CASE At(start) /\ step' = "verdict" /\ UNCHANGED failure
    BY <1>4, <2>1, <2>2, AtFacts DEF Reset, UploadInv
  <2>3. CASE IOError BY <1>4, <2>3, IOErrorFacts DEF Reset, UploadInv
  <2> QED BY <1>4, <2>2, <2>3 DEF Reset
<1>5. CASE Validate
  <2>1. Found' = Found /\ Verdict' = Verdict /\ Accepted' = Accepted BY <1>5, SameFile DEF Validate
  <2>2. CASE Verdict = {} /\ step' = "service" /\ UNCHANGED failure
    BY <1>5, <2>1, <2>2 DEF Validate, UploadInv, Accepted
  <2>3. CASE Verdict # {} /\ Fail(Verdict) BY <1>5, <2>1, <2>3 DEF Validate, UploadInv, Fail
  <2> QED BY <1>5, <2>2, <2>3 DEF Validate
<1>6. CASE Put
  <2>1. Offset = 0 /\ file.size \in Nat /\ Accepted BY SMTT(60), <1>0, <1>6 DEF Put, UploadInv, Offset
  <2>2. Accepted' = Accepted BY <1>6, SameFile DEF Put
  <2>3. CASE /\ At(file.size) /\ step' = "save"
             /\ object' = [from |-> Offset, to |-> file.size, type |-> file.claimed, ext |-> file.ext]
             /\ UNCHANGED failure
    <3>1. opened' = 1 /\ handle' = <<file.size>> BY <2>1, <2>3, AtFacts
    <3> QED BY <1>6, <2>1, <2>2, <2>3, <3>1 DEF Put, UploadInv
  <2>4. ASSUME NEW p \in Offset..file.size, At(p), UNCHANGED object,
               step' \in {"rewind", "close"}
        PROVE  UploadInv'
    <3>1. p \in Nat BY SMTT(60), <2>1
    <3>2. opened' = 1 /\ handle' = <<p>> BY <2>4, <3>1, AtFacts
    <3> QED BY <1>6, <2>1, <2>2, <2>4, <3>1, <3>2 DEF Put, UploadInv
  <2> QED BY <1>6, <2>3, <2>4 DEF Put, Fail
<1>7. CASE Rewind
  <2>1. start = 0 BY DEF UploadInv
  <2>2. Accepted' = Accepted BY <1>7, SameFile DEF Rewind
  <2>3. CASE At(start) /\ step' = "put" /\ attempt' = attempt + 1 /\ UNCHANGED failure
    BY <1>7, <2>1, <2>2, <2>3, AtFacts DEF Rewind, UploadInv
  <2>4. CASE IOError /\ UNCHANGED attempt BY <1>7, <2>2, <2>4, IOErrorFacts DEF Rewind, UploadInv
  <2> QED BY <1>7, <2>3, <2>4 DEF Rewind
<1>8. CASE PanicIn
  <2>1. Accepted' = Accepted BY <1>8, SameFile DEF PanicIn
  <2> QED BY <1>8, <2>1 DEF PanicIn, Fail, UploadInv
<1>9. CASE Close BY SMTT(60), <1>9 DEF Close, UploadInv
<1>10. ASSUME NEW check, Authorize(check) PROVE UploadInv'
  <2>1. Offset = 0 BY SMTT(60), <1>10 DEF Authorize, UploadInv, Offset
  <2>2. Accepted' = Accepted BY <1>10, SameFile DEF Authorize
  <2> QED BY <1>10, <2>1, <2>2 DEF Authorize, UploadInv, Fail
<1>11. ASSUME NEW check, Finish(check) PROVE UploadInv'
  <2>1. Accepted' = Accepted BY <1>11, SameFile DEF Finish
  <2> QED BY <1>11, <2>1 DEF Finish, UploadInv, Fail
<1> QED
  BY <1>1, <1>2, <1>3, <1>4, <1>5, <1>6, <1>7, <1>8, <1>9, <1>10, <1>11 DEF UploadNext, UploadStep

LEMMA UploadImplies == UploadInv => WholeUpload /\ StoredAsClaimed /\ HandlesClosed
<1> SUFFICES ASSUME UploadInv PROVE WholeUpload /\ StoredAsClaimed /\ HandlesClosed OBVIOUS
<1>1. WholeUpload BY SMTT(60) DEF UploadInv, WholeUpload
<1>2. ASSUME object # NoObject
      PROVE  /\ file.size <= MaxSize
             /\ \/ /\ file.content \in ImageMIMEs /\ object.ext \in ExtensionsByType(file.content)
                   /\ object.type \in {Unset, file.content}
                \/ isOfficeDocument(file.ext, sniffed) /\ object.type \in ImageMIMEs
  <2>1. Accepted /\ object.type = file.claimed /\ object.ext = file.ext BY SMTT(60), <1>2 DEF UploadInv
  <2>2. file \in Files /\ file.size <= MaxSize /\ sniffed = Found /\ Verdict = {} BY <2>1 DEF Accepted
  <2>3. file.size \in Nat /\ file.content \in MIMEs BY <2>2, UploadAssumption
  <2>4. sniffed \in MIMEs /\ (sniffed # Binary => sniffed = file.content)
    BY <2>2, <2>3 DEF Found, MIMEs, Binary
  <2>5. Binary \notin ImageMIMEs /\ ZIP \notin ImageMIMEs /\ Text \notin ImageMIMEs
    BY DEF ImageMIMEs, Binary, ZIP, Text, PNG
  <2>6. CASE isOfficeDocument(file.ext, sniffed)
    <3>1. sniffed \in {ZIP, Binary}
      BY <2>6 DEF isOfficeDocument, officeExtensions
    <3>2. file.claimed \in ImageMIMEs \/ sniffed \in ImageMIMEs
      BY <2>2, <2>6 DEF Verdict, isMIMEAllowed
    <3> QED BY <2>1, <2>2, <2>5, <2>6, <3>1, <3>2
  <2>7. CASE ~isOfficeDocument(file.ext, sniffed)
    <3>1. sniffed \in ImageMIMEs BY <2>2, <2>7 DEF Verdict, isMIMEAllowed
    <3>2. file.claimed = Unset \/ file.claimed = sniffed BY <2>2, <2>7 DEF Verdict
    <3>3. verifyExtensionMatchesMIME(file.ext, sniffed) BY <2>2, <2>7 DEF Verdict
    <3>4. sniffed = PNG BY <2>4, <2>5, <3>1 DEF MIMEs
    <3>5. ExtensionsByType(PNG) = {".png"} BY DEF ExtensionsByType, PNG, Text
    <3>6. file.ext \in ExtensionsByType(sniffed) BY <3>3, <3>4, <3>5 DEF verifyExtensionMatchesMIME
    <3>7. sniffed = file.content BY <2>4, <2>5, <3>1
    <3> QED BY <2>1, <2>2, <3>1, <3>2, <3>6, <3>7
  <2> QED BY <2>6, <2>7
<1>3. HandlesClosed
  <2>1. CASE handle = <<>> /\ opened = 0 BY <2>1 DEF HandlesClosed
  <2>2. ASSUME NEW n \in Nat, opened = 1, handle = <<n>> PROVE HandlesClosed
    <3>1. Len(handle) = 1 /\ handle # <<>> BY <2>2
    <3> QED BY <2>2, <3>1 DEF HandlesClosed, UploadInv
  <2> QED BY <2>1, <2>2 DEF UploadInv
<1> QED BY <1>1, <1>2, <1>3 DEF StoredAsClaimed

LEMMA UploadStart == UploadInit => UploadInv
BY DEF UploadInit, UploadInv

-----------------------------------------------------------------------------
(* Where a step finds a request *)

LEMMA Stacks ==
    /\ O1 # <<>> /\ Head(O1) = "recoverer" /\ Tail(O1) = <<>>
    /\ O2 # <<>> /\ Head(O2) = "metrics" /\ Tail(O2) = O1
    /\ O3 # <<>> /\ Head(O3) = "logger" /\ Tail(O3) = O2
    /\ O1 # O2 /\ O1 # O3 /\ O2 # O3
<1>0. "recoverer" \in Handlers /\ "metrics" \in Handlers /\ "logger" \in Handlers BY DEF Handlers
<1>1. <<>> \in Seq(Handlers) BY SMTT(60)
<1>2. O1 \in Seq(Handlers) /\ O1 # <<>> /\ Head(O1) = "recoverer" /\ Tail(O1) = <<>>
  BY <1>0, <1>1, Cons DEF O1
<1>3. O2 \in Seq(Handlers) /\ O2 # <<>> /\ Head(O2) = "metrics" /\ Tail(O2) = O1
  BY SMTT(60), <1>0, <1>2, Cons DEF O2
<1>4. O3 \in Seq(Handlers) /\ O3 # <<>> /\ Head(O3) = "logger" /\ Tail(O3) = O2
  BY SMTT(60), <1>0, <1>3, Cons DEF O3
<1> QED BY <1>2, <1>3, <1>4

\* What depends on the configuration and the request only.
LEMMA Frame ==
    ASSUME config' = config, req' = req
    PROVE  /\ Open' = Open /\ Allowed' = Allowed /\ Denied' = Denied
           /\ T0' = T0 /\ T1' = T1 /\ T2' = T2 /\ Route' = Route
<1>1. Open' = Open BY DEF Open
<1>2. Route' = Route BY DEF Route, Routes, AuthRoutes
<1>3. T2' = T2 BY <1>2 DEF T2
<1>4. T1' = T1 BY <1>3 DEF T1
<1>5. T0' = T0 BY <1>4 DEF T0
<1>6. Allowed' = Allowed BY <1>1 DEF Allowed
<1>7. Denied' = Denied BY <1>1 DEF Denied
<1> QED BY <1>1, <1>2, <1>3, <1>4, <1>5, <1>6, <1>7

LEMMA InnerTail ==
    ASSUME NEW e, NEW a, NEW s, Inner(e, a, s), s # <<>>
    PROVE  /\ Head(s) = "limit" => Inner(e, a, Tail(s))
           /\ Head(s) = "authenticate" =>
                 /\ e \notin Open
                 /\ \A b : b # Null => Inner(e, b, Tail(s))
           /\ Head(s) = "handler" /\ e \notin Open => a # Null
           /\ Head(s) = "handler" => e \notin Unknown
           /\ Head(s) \in Links
<1>1. s \in Seq(Links) BY DEF Inner, Links
<1>2. Tail(s) \in Seq(Links) /\ Len(Tail(s)) = Len(s) - 1 /\ Len(s) \in Nat /\ Len(s) >= 1 /\ Head(s) = s[1]
  BY SMTT(60), <1>1
<1>3. \A i \in 1..Len(s) - 1 : Tail(s)[i] = s[i + 1] BY SMTT(60), <1>1
<1>4. ASSUME PublicFirst(s), Head(s) # "handler" PROVE PublicFirst(Tail(s)) /\ Head(s) # "authenticate"
  <2>1. PICK i \in 1..Len(s) : s[i] = "handler" /\ \A j \in 1..i : s[j] # "authenticate"
    BY <1>4 DEF PublicFirst
  <2>2. i # 1 BY <1>2, <1>4, <2>1
  <2>3. i - 1 \in 1..Len(Tail(s)) /\ Tail(s)[i - 1] = "handler" BY SMTT(60), <1>2, <1>3, <2>1, <2>2
  <2>4. \A j \in 1..(i - 1) : Tail(s)[j] # "authenticate" BY SMTT(60), <1>2, <1>3, <2>1, <2>2
  <2> QED BY SMTT(60), <1>2, <2>1, <2>3, <2>4 DEF PublicFirst
<1>5. ASSUME Guarded(s), Head(s) # "authenticate" PROVE Guarded(Tail(s))
  <2> SUFFICES ASSUME NEW i \in 1..Len(Tail(s)), Tail(s)[i] = "handler"
               PROVE  \E j \in 1..(i - 1) : Tail(s)[j] = "authenticate"
    BY DEF Guarded
  <2>1. i + 1 \in 1..Len(s) /\ s[i + 1] = "handler" BY SMTT(60), <1>2, <1>3
  <2>2. PICK j \in 1..(i + 1 - 1) : s[j] = "authenticate" BY SMTT(60), <1>5, <2>1 DEF Guarded
  <2>3. j # 1 BY <1>2, <1>5, <2>2
  <2>4. j - 1 \in 1..(i - 1) /\ Tail(s)[j - 1] = s[j] BY SMTT(60), <1>2, <1>3, <2>2, <2>3
  <2> QED BY <2>2, <2>4
<1>6. ASSUME NoHandler(s) PROVE NoHandler(Tail(s)) /\ Head(s) # "handler"
  BY SMTT(60), <1>2, <1>3, <1>6 DEF NoHandler
<1>7. ASSUME Guarded(s) PROVE Head(s) # "handler" BY SMTT(60), <1>2, <1>7 DEF Guarded
<1>8. "limit" # "handler" /\ "limit" # "authenticate" /\ "authenticate" # "handler" OBVIOUS
<1>9. Head(s) \in Links BY SMTT(60), <1>1
<1>10. Head(s) = "limit" => Inner(e, a, Tail(s)) BY <1>2, <1>4, <1>5, <1>6, <1>8 DEF Inner, Links
<1>11. ASSUME Head(s) = "authenticate" PROVE e \notin Open /\ \A b : b # Null => Inner(e, b, Tail(s))
  BY <1>2, <1>4, <1>6, <1>8, <1>11 DEF Inner, Links
<1> QED BY <1>6, <1>7, <1>9, <1>10, <1>11 DEF Inner

\* A handler runs at one of the stages of DownInv.
LEMMA RunningFacts ==
    ASSUME FlowInv, NEW H, Running(H)
    PROVE  /\ req # Null /\ result = Null /\ ~sent /\ phase = "serving" /\ status = 200
           /\ recorded = <<>> /\ (effect => step = "close")
           /\ todo # <<>> /\ Head(todo) \in H
           /\ \/ /\ open = <<>> /\ actor = Null
                 /\ \/ Head(todo) = "recoverer" /\ Tail(todo) = T1
                    \/ config.production /\ Head(todo) = "limit_all" /\ Tail(todo) = T0
              \/ open = O1 /\ actor = Null /\ Head(todo) = "metrics" /\ Tail(todo) = T2
              \/ open = O2 /\ actor = Null /\ Head(todo) = "logger" /\ Tail(todo) = Route
              \/ open = O3 /\ Inner(req.endpoint, actor, todo) /\ Head(todo) \in Links
<1>1. todo # <<>> /\ result = Null /\ Head(todo) \in H BY DEF Running
<1>2. req # Null BY <1>1 DEF FlowInv, AnswerInv
<1>3. /\ phase = "serving" /\ ~sent /\ status = 200 /\ recorded = <<>>
      /\ effect => step = "close"
  BY <1>1, <1>2 DEF FlowInv, DownInv
<1>4. \/ /\ open = <<>> /\ actor = Null
         /\ \/ todo = T0
            \/ config.production /\ todo = <<"limit_all">> \o T0
      \/ open = O1 /\ actor = Null /\ todo = T1
      \/ open = O2 /\ actor = Null /\ todo = T2
      \/ open = O3 /\ Inner(req.endpoint, actor, todo)
  BY <1>1, <1>2 DEF FlowInv, DownInv
<1>5. Route \in Seq(Handlers) /\ T2 \in Seq(Handlers) /\ T1 \in Seq(Handlers) /\ T0 \in Seq(Handlers)
  BY <1>2, ChainShape DEF FlowInv
<1>6. /\ "recoverer" \in Handlers /\ "metrics" \in Handlers /\ "logger" \in Handlers
      /\ "limit_all" \in Handlers
  BY DEF Handlers
<1>7. /\ Head(T0) = "recoverer" /\ Tail(T0) = T1 /\ Head(T1) = "metrics" /\ Tail(T1) = T2
      /\ Head(T2) = "logger" /\ Tail(T2) = Route
  BY SMTT(60), <1>5, <1>6, Cons DEF T0, T1, T2
<1>8. Head(<<"limit_all">> \o T0) = "limit_all" /\ Tail(<<"limit_all">> \o T0) = T0 BY <1>5, <1>6, Cons
<1>9. Inner(req.endpoint, actor, todo) => Head(todo) \in Links BY <1>1, InnerTail
<1> QED BY <1>1, <1>2, <1>3, <1>4, <1>7, <1>8, <1>9

\* The endpoint's handler runs for somebody known, or the path is public.
LEMMA AtHandler ==
    ASSUME FlowInv, Running({"handler"})
    PROVE  /\ open = O3
           /\ req.endpoint \in Open => actor = Null /\ Check(req.endpoint, req.target) = "ok"
           /\ req.endpoint \notin Open =>
                 /\ actor # Null /\ req.token \in Roles
                 /\ Check(req.endpoint, req.target) =
                       IF Permitted(req.endpoint, req.token, req.target) THEN "ok" ELSE "forbidden"
<1>1. /\ req # Null /\ phase = "serving" /\ todo # <<>> /\ Head(todo) = "handler"
      /\ open = O3 /\ Inner(req.endpoint, actor, todo)
  BY SMTT(60), RunningFacts
<1>2. req.endpoint \notin Open => actor # Null BY <1>1, InnerTail
<1>3. req.endpoint \notin Unknown BY <1>1, InnerTail
<1>4. req.endpoint \in Open => actor = Null BY <1>1 DEF Inner
<1>5. actor # Null => req.token \in Roles BY DEF FlowInv, Types
<1> QED BY <1>1, <1>2, <1>3, <1>4, <1>5, CheckFacts DEF FlowInv

\* A handler or middleware ends the way down.
LEMMA Returned ==
    ASSUME FlowInv, req # Null, result = Null,
           UNCHANGED <<config, req, open, sent, recorded>>,
           result' \in Results, "no_context" \notin result'.classes,
           req.endpoint \in Open => actor' = Null,
           "Forbidden" \in result'.classes \/ status' = 403 => Denied,
           effect' => Allowed,
           open = O3 \/ (open = <<>> /\ config.production /\ result' = HttpError(429))
    PROVE  DownInv' /\ UpInv' /\ RecordInv' /\ AnswerInv' /\ SentInv'
<1>1. ~sent /\ recorded = <<>> BY DEF FlowInv, DownInv
<1>2. result' # Null BY SMTT(60), NullAssumption DEF Results
<1>3. Open' = Open /\ Allowed' = Allowed /\ Denied' = Denied BY Frame
<1>4. DownInv' BY <1>2 DEF DownInv
<1>5. UpInv' BY <1>1, <1>2, <1>3 DEF UpInv
<1>6. RecordInv' BY <1>1, Stacks DEF RecordInv
<1>7. AnswerInv' BY <1>1, <1>2 DEF AnswerInv
<1>8. SentInv' BY <1>1 DEF SentInv, AccessMatrix, CountedAsSent
<1> QED BY <1>4, <1>5, <1>6, <1>7, <1>8

\* The request goes on to the next handler.
LEMMA Proceeds ==
    ASSUME FlowInv, req # Null, result = Null,
           UNCHANGED <<config, phase, req, result, sent, status, recorded, effect>>,
           UNCHANGED <<step, failure>>,
           \/ open' = <<>> /\ actor' = Null /\ todo' = T0
           \/ open' = O1 /\ actor' = Null /\ todo' = T1
           \/ open' = O2 /\ actor' = Null /\ todo' = T2
           \/ open' = O3 /\ Inner(req.endpoint, actor', todo')
    PROVE  DownInv' /\ UpInv' /\ RecordInv' /\ AnswerInv' /\ SentInv'
<1>1. ~sent BY DEF FlowInv, DownInv
<1>2. T0' = T0 /\ T1' = T1 /\ T2' = T2 /\ Open' = Open BY Frame
<1>3. Inner(req.endpoint, actor, todo)' = Inner(req.endpoint, actor', todo') BY <1>2 DEF Inner
<1>4. DownInv' BY SMTT(60), <1>2, <1>3 DEF FlowInv, DownInv
<1>5. UpInv' BY DEF UpInv
<1>6. RecordInv' BY DEF RecordInv
<1>7. AnswerInv' BY <1>1 DEF AnswerInv
<1>8. SentInv' BY <1>1 DEF SentInv, AccessMatrix, CountedAsSent
<1> QED BY <1>4, <1>5, <1>6, <1>7, <1>8

-----------------------------------------------------------------------------
(* Every step preserves the invariant *)

LEMMA RegisterStep ==
    ASSUME FlowInv, NEW s \in DOMAIN permTables, NewService(s) PROVE GrantInv'
<1>1. /\ granted' = [r \in DOMAIN granted \cup DOMAIN permTables[s] |->
                        (IF r \in DOMAIN granted THEN granted[r] ELSE {}) \cup
                        (IF r \in DOMAIN permTables[s] THEN permTables[s][r] ELSE {})]
      /\ started' = started \cup {s} /\ phase' = phase /\ phase = "starting"
  BY DEF NewService, RegisterPermissions
<1>2. /\ DOMAIN permTables[s] \subseteq Roles
      /\ \A r \in DOMAIN permTables[s] : permTables[s][r] \subseteq (IF r = "user" THEN {} ELSE Permissions)
      /\ \A r \in Privileged : r \in DOMAIN permTables[s]
  <2>1. CASE s = "auth" BY <2>1 DEF permTables, Roles, Privileged, Permissions
  <2>2. CASE s = "user" BY <2>2 DEF permTables, Roles, Privileged, Permissions
  <2>3. CASE s = "audit" BY <2>3 DEF permTables, Roles, Privileged, Permissions
  <2> QED BY <2>1, <2>2, <2>3 DEF permTables
<1>3. DOMAIN granted' = DOMAIN granted \cup DOMAIN permTables[s] BY <1>1
<1>4. \A r \in DOMAIN granted' : granted'[r] \subseteq (IF r = "user" THEN {} ELSE Permissions)
  BY <1>1, <1>2, <1>3 DEF FlowInv, GrantInv
<1>5. ASSUME NEW t \in started', NEW r \in Privileged
      PROVE  r \in DOMAIN granted' /\ permTables[t][r] \subseteq granted'[r]
  <2>1. r \in DOMAIN permTables[s] /\ r \in DOMAIN granted' BY <1>2, <1>3
  <2>2. CASE t = s BY <1>1, <2>1, <2>2
  <2>3. CASE t \in started
    <3>1. r \in DOMAIN granted /\ permTables[t][r] \subseteq granted[r] BY <2>3 DEF FlowInv, GrantInv
    <3> QED BY <1>1, <2>1, <3>1
  <2> QED BY <1>1, <2>2, <2>3
<1> QED BY <1>1, <1>2, <1>3, <1>4, <1>5 DEF FlowInv, GrantInv

\* A step that leaves the request alone.
LEMMA FlowUnchanged ==
    ASSUME FlowInv, UNCHANGED <<config, flow, step, failure>>, phase' = phase \/ phase' = "serving"
    PROVE  DownInv' /\ UpInv' /\ RecordInv' /\ AnswerInv' /\ SentInv' /\ UploadingInv'
<1> USE DEF flow
<1>1. /\ T0' = T0 /\ T1' = T1 /\ T2' = T2 /\ Open' = Open /\ Allowed' = Allowed /\ Denied' = Denied
  BY Frame
<1>2. Inner(req.endpoint, actor, todo)' = Inner(req.endpoint, actor, todo) BY <1>1 DEF Inner
<1>3. Failed' = Failed /\ Final' = Final BY DEF Final, Failed
<1>4. DownInv' BY ZenonT(90), <1>1, <1>2 DEF FlowInv, DownInv
<1>5. UpInv' BY <1>1 DEF FlowInv, UpInv
<1>6. RecordInv' BY <1>3 DEF FlowInv, RecordInv
<1>7. AnswerInv' BY DEF FlowInv, AnswerInv
<1>8. AccessMatrix' BY <1>1 DEF FlowInv, SentInv, AccessMatrix
<1>9. CountedAsSent' BY SMTT(60) DEF FlowInv, SentInv, CountedAsSent
<1>10. UploadingInv' BY DEF FlowInv, UploadingInv
<1> QED BY <1>4, <1>5, <1>6, <1>7, <1>8, <1>9, <1>10 DEF SentInv

LEMMA StartUp ==
    ASSUME FlowInv, Listen \/ \E s \in DOMAIN permTables : NewService(s)
    PROVE  FlowInv'
<1>1. ASSUME NEW s \in DOMAIN permTables, NewService(s) PROVE FlowInv'
  <2>1. /\ UNCHANGED <<config, flow, step, failure>> /\ phase' = phase
        /\ UNCHANGED <<hits, served>>
    BY <1>1 DEF NewService, upload
  <2>2. Types' BY <2>1 DEF FlowInv, Types, flow
  <2>3. GrantInv' BY <1>1, RegisterStep
  <2> QED BY <2>1, <2>2, <2>3, FlowUnchanged DEF FlowInv
<1>2. CASE Listen
  <2>1. /\ UNCHANGED <<config, flow, step, failure>> /\ phase' = "serving"
        /\ UNCHANGED <<hits, served, granted, started>> /\ started = DOMAIN permTables
    BY <1>2 DEF Listen, upload
  <2>2. Types' BY <2>1 DEF FlowInv, Types, flow
  <2>3. GrantInv' BY <2>1 DEF FlowInv, GrantInv
  <2> QED BY <2>1, <2>2, <2>3, FlowUnchanged DEF FlowInv
<1> QED BY <1>1, <1>2

LEMMA WindowStep == ASSUME FlowInv, WindowEnds PROVE FlowInv'
<1>1. /\ UNCHANGED <<config, flow, step, failure>> /\ phase' = phase
      /\ UNCHANGED <<served, granted, started>> /\ hits' = [l \in Limiters |-> 0]
  BY DEF WindowEnds, upload
<1>2. Types' BY SMTT(60), <1>1, HttpAssumption DEF FlowInv, Types, flow
<1>3. GrantInv' BY <1>1 DEF FlowInv, GrantInv
<1> QED BY <1>1, <1>2, <1>3, FlowUnchanged DEF FlowInv

LEMMA Tokenized == Tokens = {Null, "bad"} \cup Roles /\ Null \notin Requests
<1>1. Tokens = {Null, "bad"} \cup Roles BY DEF Tokens
<1> QED BY <1>1, NullAssumption DEF Requests

LEMMA ChainStart ==
    Types /\ req # Null =>
        Chain[config][req.endpoint] = IF config.production THEN <<"limit_all">> \o T0 ELSE T0
BY ChainShape

LEMMA ChainStartNext ==
    (Types /\ req # Null =>
        Chain[config][req.endpoint] = IF config.production THEN <<"limit_all">> \o T0 ELSE T0)'
BY ChainStart, PTL

\* A request comes only when the one before is answered, and so is its upload.
LEMMA ReceiveStep ==
    ASSUME FlowInv, NEW e \in Endpoints, NEW t \in Tokens, NEW u \in {"me", "other"}, Receive(e, t, u)
    PROVE  FlowInv'
<1>1. /\ phase = "serving" /\ UNCHANGED <<config, granted, phase, started, hits, step, failure>>
      /\ req' = [endpoint |-> e, token |-> t, target |-> u] /\ todo' = Chain[config][e]
      /\ open' = <<>> /\ actor' = Null /\ result' = Null /\ status' = 200 /\ ~sent' /\ recorded' = <<>>
      /\ ~effect' /\ effect' \in BOOLEAN /\ sent' \in BOOLEAN
      /\ served < MaxRequests /\ served' = served + 1
      /\ req = Null \/ sent
  BY DEF Receive, upload
<1>2. req' \in Requests /\ req' # Null BY SMTT(60), <1>1, Tokenized DEF Requests
<1>3. step = "none" BY <1>1 DEF FlowInv, UploadingInv, AnswerInv
<1>4. Types' BY SMTT(60), <1>1, <1>2, HttpAssumption DEF FlowInv, Types, Statuses
<1>5. GrantInv' BY <1>1 DEF FlowInv, GrantInv
<1>6. todo' = IF config'.production THEN <<"limit_all">> \o T0' ELSE T0'
  BY <1>1, <1>2, <1>4, ChainStartNext
<1>7. DownInv' BY <1>1, <1>3, <1>6 DEF DownInv
<1>8. UpInv' /\ RecordInv' /\ AnswerInv' BY <1>1, <1>2 DEF UpInv, RecordInv, AnswerInv
<1>9. UploadingInv' BY <1>1, <1>3 DEF FlowInv, UploadingInv
<1>10. SentInv' BY <1>1 DEF SentInv, AccessMatrix, CountedAsSent
<1> QED BY <1>4, <1>5, <1>7, <1>8, <1>9, <1>10 DEF FlowInv

LEMMA TooLargeStep == ASSUME FlowInv, NEW e \in Endpoints, BodyTooLarge(e) PROVE FlowInv'
<1> DEFINE E == Wrapped({"fiber", "too_large"})
<1>1. /\ phase = "serving" /\ UNCHANGED <<config, granted, phase, started, hits, step, failure>>
      /\ req' = [endpoint |-> e, token |-> Null, target |-> "other"] /\ todo' = <<>>
      /\ open' = <<>> /\ actor' = Null /\ result' = E /\ status' = 200 /\ ~sent' /\ recorded' = <<>>
      /\ ~effect' /\ effect' \in BOOLEAN /\ sent' \in BOOLEAN
      /\ served < MaxRequests /\ served' = served + 1
      /\ req = Null \/ sent
  BY DEF BodyTooLarge, upload
<1>2. req' \in Requests /\ req' # Null BY SMTT(60), <1>1, Tokenized DEF Requests
<1>3. step = "none" BY <1>1 DEF FlowInv, UploadingInv, AnswerInv
<1>4. Plain(E)
  <2>1. {"fiber", "too_large"} \in SUBSET (Classes \ {"no_context", "Forbidden", "ok", "panic"})
    BY DEF Classes, Kinds
  <2> QED BY <2>1, PlainErrors
<1>5. E \in Results /\ E # Null /\ E # Ok /\ E # Panicked /\ "no_context" \notin E.classes
      /\ "Forbidden" \notin E.classes
  BY SMTT(60), <1>4, PlainErrors
<1> HIDE DEF E
<1>6. Types' BY SMTT(60), <1>1, <1>2, <1>5, HttpAssumption DEF FlowInv, Types, Statuses
<1>7. GrantInv' BY <1>1 DEF FlowInv, GrantInv
<1>8. DownInv' BY <1>1, <1>5 DEF DownInv
<1>9. UpInv' BY SMTT(60), <1>1, <1>2, <1>5 DEF UpInv
<1>10. RecordInv' BY <1>1, <1>5, Stacks DEF RecordInv, E
<1>11. AnswerInv' BY <1>1, <1>2 DEF AnswerInv
<1>12. UploadingInv' BY <1>1, <1>3 DEF FlowInv, UploadingInv
<1>13. SentInv' BY <1>1 DEF SentInv, AccessMatrix, CountedAsSent
<1> QED BY <1>6, <1>7, <1>8, <1>9, <1>10, <1>11, <1>12, <1>13 DEF FlowInv

LEMMA EnterStep == ASSUME FlowInv, Enter PROVE FlowInv'
<1>1. /\ UNCHANGED <<config, granted, phase, started, hits, req, actor, result, status, sent,
                     recorded, effect, served, step, failure>>
      /\ open' = <<Head(todo)>> \o open /\ todo' = Tail(todo)
  BY DEF Enter, upload
<1>2. /\ req # Null /\ result = Null /\ todo # <<>> /\ Head(todo) \in {"recoverer", "metrics", "logger"}
      /\ \/ open = <<>> /\ actor = Null /\ Head(todo) = "recoverer" /\ Tail(todo) = T1
         \/ open = O1 /\ actor = Null /\ Head(todo) = "metrics" /\ Tail(todo) = T2
         \/ open = O2 /\ actor = Null /\ Head(todo) = "logger" /\ Tail(todo) = Route
  <2>1. Running({"recoverer", "metrics", "logger"}) BY DEF Enter
  <2>2. Head(todo) \notin Links /\ Head(todo) # "limit_all" BY <2>1 DEF Running, Links
  <2> QED BY <2>1, <2>2, RunningFacts
<1>3. Inner(req.endpoint, Null, Route) BY <1>2, RouteInner DEF FlowInv, Types, Requests, Route
<1>4. \/ open' = O1 /\ actor' = Null /\ todo' = T1
      \/ open' = O2 /\ actor' = Null /\ todo' = T2
      \/ open' = O3 /\ Inner(req.endpoint, actor', todo')
  BY <1>1, <1>2, <1>3 DEF O1, O2, O3
<1>5. DownInv' /\ UpInv' /\ RecordInv' /\ AnswerInv' /\ SentInv' BY <1>1, <1>2, <1>4, Proceeds
<1>6. Types' BY <1>1 DEF FlowInv, Types
<1>7. GrantInv' BY <1>1 DEF FlowInv, GrantInv
<1>8. UploadingInv' BY <1>1, <1>2 DEF FlowInv, UploadingInv
<1> QED BY <1>5, <1>6, <1>7, <1>8 DEF FlowInv

\* A middleware or handler that returns a plain error; nothing was done, or it
\* was permitted.
LEMMA Refuses ==
    ASSUME FlowInv, NEW err, Plain(err), Return(err), UNCHANGED <<actor, status>>,
           effect' = effect \/ Allowed,
           req # Null, result = Null, step = "none",
           open = O3 \/ (open = <<>> /\ config.production /\ err = HttpError(429)),
           req.endpoint \in Open => actor = Null
    PROVE  /\ DownInv' /\ UpInv' /\ RecordInv' /\ AnswerInv' /\ SentInv' /\ UploadingInv' /\ GrantInv'
           /\ result' \in Results
<1>1. /\ err # Null /\ err # Ok /\ err \in Results
      /\ "no_context" \notin err.classes /\ "Forbidden" \notin err.classes
  BY SMTT(60), PlainErrors
<1>2. /\ UNCHANGED <<config, granted, phase, started, req, open, sent, recorded, step, failure>>
      /\ result' = err /\ todo' = <<>>
  BY <1>1 DEF Return, upload
<1>3. status = 200 /\ (effect' => Allowed)
  <2>1. status = 200 /\ ~effect BY DEF FlowInv, DownInv
  <2>2. CASE effect' = effect BY <2>1, <2>2, Zenon
  <2> QED BY <2>1, <2>2, Zenon
<1>4. DownInv' /\ UpInv' /\ RecordInv' /\ AnswerInv' /\ SentInv' BY SMTT(60), <1>1, <1>2, <1>3, Returned
<1>5. UploadingInv' BY <1>2 DEF FlowInv, UploadingInv
<1>6. GrantInv' BY <1>2 DEF FlowInv, GrantInv
<1> QED BY <1>1, <1>2, <1>4, <1>5, <1>6

LEMMA RateLimitStep == ASSUME FlowInv, RateLimit PROVE FlowInv'
<1> DEFINE l == IF Head(todo) = "limit_all" THEN "all" ELSE req.endpoint
           err == IF hits[l] < MaxHits THEN Null ELSE HttpError(429)
<1>1. /\ Running({"limit", "limit_all"}) /\ Return(err) /\ UNCHANGED <<actor, status, effect>>
      /\ hits' = IF hits[l] < MaxHits THEN [hits EXCEPT ![l] = @ + 1] ELSE hits
  BY DEF RateLimit
<1> HIDE DEF err
<1>2. /\ req # Null /\ result = Null /\ todo # <<>> /\ Head(todo) \in {"limit", "limit_all"}
      /\ \/ open = <<>> /\ actor = Null /\ config.production /\ Head(todo) = "limit_all" /\ Tail(todo) = T0
         \/ open = O3 /\ Inner(req.endpoint, actor, todo) /\ Head(todo) = "limit"
  <2>1. Head(todo) \notin {"recoverer", "metrics", "logger"} /\ (Head(todo) \in Links => Head(todo) = "limit")
    BY <1>1 DEF Running, Links
  <2> QED BY SMTT(60), <1>1, <2>1, RunningFacts
<1>3. step = "none" BY <1>2 DEF FlowInv, UploadingInv
<1>4. hits' \in [Limiters -> 0..MaxHits]
  <2>1. hits \in [Limiters -> 0..MaxHits] /\ MaxHits \in Nat BY HttpAssumption DEF FlowInv, Types
  <2> HIDE DEF l
  <2>2. CASE hits[l] < MaxHits
    <3>1. hits' = [hits EXCEPT ![l] = hits[l] + 1] BY <1>1, <2>2
    <3>2. l \in Limiters => hits[l] + 1 \in 0..MaxHits BY SMTT(60), <2>1, <2>2
    <3> QED BY <2>1, <3>1, <3>2
  <2>3. CASE ~(hits[l] < MaxHits) BY <1>1, <2>1, <2>3
  <2> QED BY <2>2, <2>3
<1>5. /\ UNCHANGED <<config, granted, phase, started, req, open, sent, recorded, served, step, failure>>
  BY <1>1 DEF Return, upload
<1>6. req.endpoint \in Open => actor = Null BY <1>2 DEF Inner
<1>7. CASE err = Null
  <2>1. result' = Null /\ todo' = Tail(todo) BY <1>1, <1>7 DEF Return
  <2>2. \/ open' = <<>> /\ actor' = Null /\ todo' = T0
        \/ open' = O3 /\ Inner(req.endpoint, actor', todo')
    BY <1>1, <1>2, <1>5, <2>1, InnerTail
  <2>3. DownInv' /\ UpInv' /\ RecordInv' /\ AnswerInv' /\ SentInv' BY <1>1, <1>2, <1>5, <2>1, <2>2, Proceeds
  <2>4. Types' BY <1>1, <1>2, <1>4, <1>5, <2>1 DEF FlowInv, Types
  <2>5. GrantInv' BY <1>5 DEF FlowInv, GrantInv
  <2>6. UploadingInv' BY <1>3, <1>5 DEF FlowInv, UploadingInv
  <2> QED BY <2>3, <2>4, <2>5, <2>6 DEF FlowInv
<1>8. CASE err = HttpError(429)
  <2>1. Plain(err) BY SMTT(60), <1>8, PlainErrors
  <2>2. /\ DownInv' /\ UpInv' /\ RecordInv' /\ AnswerInv' /\ SentInv' /\ UploadingInv' /\ GrantInv'
        /\ result' \in Results
    BY <1>1, <1>2, <1>3, <1>6, <1>8, <2>1, Refuses
  <2>3. Types' BY <1>1, <1>4, <1>5, <2>2 DEF FlowInv, Types
  <2> QED BY <2>2, <2>3 DEF FlowInv
<1> QED BY <1>7, <1>8 DEF err

\* A refused step keeps the types.
LEMMA RefusedTypes ==
    ASSUME FlowInv, NEW err, Return(err), UNCHANGED <<hits, actor, status>>, result' \in Results,
           effect' = effect \/ effect' = TRUE
    PROVE  Types'
BY DEF Return, FlowInv, Types

LEMMA AuthenticateStep ==
    ASSUME FlowInv, NEW check, Authenticate(check) PROVE FlowInv'
<1> DEFINE refused == \/ req.token \in {Null, "bad"}
                      \/ check = "revoked"
                      \/ check = "error" /\ config.failClosed
           err == IF req.token = Null THEN HttpError(401)
                  ELSE IF refused THEN Wrapped({"Unauthorized"}) ELSE Null
<1>1. /\ Running({"authenticate"}) /\ Return(err) /\ UNCHANGED <<hits, status, effect>>
      /\ actor' = IF refused THEN actor ELSE [user |-> "me", role |-> req.token]
  BY DEF Authenticate
<1>2. /\ req # Null /\ result = Null /\ todo # <<>> /\ Head(todo) = "authenticate"
      /\ open = O3 /\ Inner(req.endpoint, actor, todo)
  BY SMTT(60), <1>1, RunningFacts
<1>3. req.endpoint \notin Open /\ \A b : b # Null => Inner(req.endpoint, b, Tail(todo)) BY <1>2, InnerTail
<1>4. step = "none" BY <1>2 DEF FlowInv, UploadingInv
<1>5. CASE ~refused
  <2>1. req.token \in Roles BY <1>2, <1>5, Tokenized DEF FlowInv, Types, Requests
  <2>2. actor' = [user |-> "me", role |-> req.token] /\ actor' # Null
    BY SMTT(60), <1>1, <1>5, <2>1, NullAssumption
  <2>3. err = Null BY <1>5
  <2>4. /\ UNCHANGED <<config, granted, phase, started, req, open, sent, recorded, served, step, failure>>
        /\ todo' = Tail(todo) /\ result' = Null
    BY <1>1, <2>3 DEF Return, upload
  <2>5. open' = O3 /\ Inner(req.endpoint, actor', todo') BY <1>2, <1>3, <2>2, <2>4
  <2>6. DownInv' /\ UpInv' /\ RecordInv' /\ AnswerInv' /\ SentInv' BY <1>1, <1>2, <2>4, <2>5, Proceeds
  <2>7. Types' BY <1>1, <1>2, <2>1, <2>2, <2>4 DEF FlowInv, Types
  <2>8. GrantInv' BY <2>4 DEF FlowInv, GrantInv
  <2>9. UploadingInv' BY <1>4, <2>4 DEF FlowInv, UploadingInv
  <2> QED BY <2>6, <2>7, <2>8, <2>9 DEF FlowInv
<1>6. CASE refused
  <2>1. Plain(err)
    <3>1. {"Unauthorized"} \in SUBSET (Classes \ {"no_context", "Forbidden", "ok", "panic"}) BY DEF Classes, Kinds
    <3> QED BY SMTT(60), <1>6, <3>1, PlainErrors
  <2>2. UNCHANGED <<hits, actor, status, effect>> BY <1>1, <1>6
  <2> HIDE DEF err, refused
  <2>3. /\ DownInv' /\ UpInv' /\ RecordInv' /\ AnswerInv' /\ SentInv' /\ UploadingInv' /\ GrantInv'
        /\ result' \in Results
    BY <1>1, <1>2, <1>3, <1>4, <2>1, <2>2, Refuses
  <2>4. Types' BY <1>1, <2>2, <2>3, RefusedTypes
  <2> QED BY <2>3, <2>4 DEF FlowInv
<1> QED BY <1>5, <1>6

LEMMA NotFoundStep == ASSUME FlowInv, NotFound \/ UploadRefused PROVE FlowInv'
<1>1. PICK err : Plain(err) /\ Return(err) /\ UNCHANGED <<hits, actor, status, effect>>
                 /\ Running({"handler", "not_found"}) /\ (Head(todo) = "handler" => step = "none")
  <2>1. CASE NotFound
    <3>1. Running({"handler", "not_found"}) /\ Head(todo) # "handler" BY <2>1 DEF NotFound, Running
    <3> QED BY SMTT(60), <2>1, <3>1, PlainErrors DEF NotFound
  <2>2. CASE UploadRefused
    <3>1. Running({"handler", "not_found"}) BY <2>2 DEF UploadRefused, Uploading, Running
    <3> QED BY SMTT(60), <2>2, <3>1, PlainErrors DEF UploadRefused
  <2> QED BY <2>1, <2>2
<1>2. req # Null /\ result = Null /\ open = O3 /\ Inner(req.endpoint, actor, todo)
  <2>1. Head(todo) \notin {"recoverer", "limit_all", "metrics", "logger"} BY <1>1 DEF Running
  <2> QED BY <1>1, <2>1, RunningFacts
<1>3. step = "none" BY <1>1 DEF FlowInv, UploadingInv, Running
<1>4. /\ DownInv' /\ UpInv' /\ RecordInv' /\ AnswerInv' /\ SentInv' /\ UploadingInv' /\ GrantInv'
      /\ result' \in Results
  BY <1>1, <1>2, <1>3, Refuses DEF Inner
<1>5. Types' BY <1>1, <1>4, RefusedTypes
<1> QED BY <1>4, <1>5 DEF FlowInv

\* The handler answers, and the service did it or did not.
LEMMA Answers ==
    ASSUME FlowInv, NEW s \in {200, 201, 503}, Answer(s), Running({"handler"}), step = "none",
           effect' \in BOOLEAN, effect' => Allowed
    PROVE  FlowInv'
<1>1. /\ UNCHANGED <<config, granted, phase, started, hits, req, open, actor, sent, recorded, served,
                     step, failure>>
      /\ todo' = <<>> /\ result' = Ok /\ status' = s
  BY DEF Answer, upload
<1>2. req # Null /\ result = Null BY RunningFacts
<1>3. open = O3 /\ (req.endpoint \in Open => actor = Null) BY AtHandler
<1>4. Ok \in Results /\ "no_context" \notin Ok.classes /\ "Forbidden" \notin Ok.classes BY OkAndPanicked
<1>5. s # 403 /\ s \in Statuses BY SMTT(60) DEF Statuses
<1>6. DownInv' /\ UpInv' /\ RecordInv' /\ AnswerInv' /\ SentInv'
  BY <1>1, <1>2, <1>3, <1>4, <1>5, Returned
<1>7. Types' BY SMTT(60), <1>1, <1>4, <1>5 DEF FlowInv, Types
<1>8. GrantInv' BY SMTT(60), <1>1 DEF FlowInv, GrantInv
<1>9. UploadingInv' BY <1>1 DEF FlowInv, UploadingInv
<1> QED BY <1>6, <1>7, <1>8, <1>9 DEF FlowInv

LEMMA HandlerStep == ASSUME FlowInv, Handler PROVE FlowInv'
<1> DEFINE check == Check(req.endpoint, req.target)
           s == IF req.endpoint \in Created THEN 201 ELSE 200
<1>1. Running({"handler"}) /\ req.endpoint \notin {"logout", "healthz", "change_picture"} BY DEF Handler
<1>2. req # Null /\ result = Null BY <1>1, RunningFacts
<1>3. step = "none" BY <1>1 DEF FlowInv, UploadingInv
<1>4. open = O3 /\ (req.endpoint \in Open => actor = Null) BY <1>1, AtHandler
<1>5. check = "ok" => Allowed BY <1>1, AtHandler DEF Allowed
<1>6. check = "forbidden" => Denied BY <1>1, AtHandler DEF Denied
<1>7. check \in {"ok", "forbidden"} BY <1>1, AtHandler
<1> HIDE DEF check
<1>8. CASE check = "ok" /\ Answer(s) /\ effect' = TRUE
  <2>1. s \in {200, 201, 503} BY SMTT(60)
  <2> HIDE DEF s
  <2> QED BY SMTT(60), <1>1, <1>3, <1>5, <1>8, <2>1, Answers
<1>9. ASSUME NEW err \in BindErrors \cup ServiceErrors, Return(err), UNCHANGED <<hits, actor, status>>,
             effect' = effect \/ (check = "ok" /\ effect' = TRUE)
      PROVE  FlowInv'
  <2>1. Plain(err) BY PlainErrors
  <2>2. /\ DownInv' /\ UpInv' /\ RecordInv' /\ AnswerInv' /\ SentInv' /\ UploadingInv' /\ GrantInv'
        /\ result' \in Results
    BY <1>2, <1>3, <1>4, <1>5, <1>9, <2>1, Refuses
  <2>3. Types' BY <1>9, <2>2, RefusedTypes
  <2> QED BY <2>2, <2>3 DEF FlowInv
<1>10. ASSUME check = "forbidden", Return(Wrapped({"Forbidden"})), UNCHANGED <<hits, actor, status, effect>>
       PROVE  FlowInv'
  <2> DEFINE F == Wrapped({"Forbidden"})
  <2>1. F \in Results /\ F.classes = {"Forbidden"} BY DEF Wrapped, Results, Classes, Kinds
  <2>2. F # Null /\ F # Ok BY SMTT(60), <2>1, OkAndPanicked, NullAssumption DEF Results
  <2> HIDE DEF F
  <2>3. /\ UNCHANGED <<config, granted, phase, started, req, open, sent, recorded, step, failure>>
        /\ result' = F /\ todo' = <<>>
    BY <1>10, <2>2 DEF Return, upload, F
  <2>4. status = 200 /\ ~effect BY <1>2, <1>3 DEF FlowInv, DownInv
  <2>5. DownInv' /\ UpInv' /\ RecordInv' /\ AnswerInv' /\ SentInv'
    <3>1. result' \in Results /\ "no_context" \notin result'.classes /\ result' # Ok BY <2>1, <2>2, <2>3
    <3>2. Denied BY <1>6, <1>10
    <3> QED BY <1>2, <1>4, <1>10, <2>3, <2>4, <3>1, <3>2, Returned
  <2>6. Types' BY <1>10, <2>1, <2>3, RefusedTypes DEF F
  <2>7. UploadingInv' BY <1>3, <2>3 DEF FlowInv, UploadingInv
  <2>8. GrantInv' BY <2>3 DEF FlowInv, GrantInv
  <2> QED BY <2>5, <2>6, <2>7, <2>8 DEF FlowInv
<1>11. LookupErrors \subseteq ServiceErrors BY DEF LookupErrors, ServiceErrors, Kinds
<1>12. CASE /\ \E err \in CASE check = "ok" -> BindErrors \cup ServiceErrors
                            [] check = "forbidden" -> BindErrors \cup LookupErrors \cup {Wrapped({"Forbidden"})}
                            [] check = "no_context" -> {Wrapped({"no_context"})} :
                  Return(err)
            /\ UNCHANGED <<hits, actor, status, effect>>
  <2>1. CASE check = "ok"
    <3>1. \E err \in BindErrors \cup ServiceErrors : Return(err) BY <1>12, <2>1
    <3> QED BY <1>9, <1>12, <3>1
  <2>2. CASE check = "forbidden"
    <3>1. \E err \in BindErrors \cup LookupErrors \cup {Wrapped({"Forbidden"})} : Return(err) BY <1>12, <2>2
    <3> QED BY <1>9, <1>10, <1>11, <1>12, <2>2, <3>1
  <2> QED BY <1>7, <2>1, <2>2
<1>13. CASE /\ check = "ok" /\ \E err \in Unclassified : Return(err)
            /\ effect' = TRUE /\ UNCHANGED <<hits, actor, status>>
  BY <1>9, <1>13 DEF ServiceErrors
<1> QED BY <1>8, <1>12, <1>13 DEF Handler, check

LEMMA LogoutStep == ASSUME FlowInv, Logout PROVE FlowInv'
<1>1. Running({"handler"}) /\ req.endpoint = "logout" /\ Answer(200)
      /\ effect' \in IF actor = Null THEN {FALSE} ELSE BOOLEAN
  BY DEF Logout
<1>2. step = "none" BY <1>1 DEF FlowInv, UploadingInv
<1>3. req.endpoint \notin Open BY <1>1 DEF Open, Public
<1>4. Allowed BY <1>1, <1>3, AtHandler DEF Allowed, Permitted
<1> QED BY <1>1, <1>2, <1>4, Answers

LEMMA HealthStep == ASSUME FlowInv, Health PROVE FlowInv'
<1>1. PICK s \in {200, 503} : Answer(s) /\ effect' = (s = 200) BY DEF Health
<1>2. Running({"handler"}) /\ req.endpoint = "healthz" BY DEF Health
<1>3. step = "none" BY <1>2 DEF FlowInv, UploadingInv
<1>4. Allowed BY <1>2 DEF Allowed, Open
<1>5. effect' \in BOOLEAN BY <1>1, Zenon
<1>6. s \in {200, 201, 503} BY <1>1
<1> QED BY SMTT(60), <1>1, <1>2, <1>3, <1>4, <1>5, <1>6, Answers

LEMMA PanicStep == ASSUME FlowInv, Panic PROVE FlowInv'
<1>1. /\ UNCHANGED <<config, granted, phase, started, hits, req, open, actor, status, sent, recorded,
                     served, step, failure>>
      /\ todo' = <<>> /\ result' = Panicked /\ step = "none" /\ Running({"handler"})
      /\ effect' \in BOOLEAN /\ (effect' => Check(req.endpoint, req.target) = "ok")
  BY DEF Panic, upload
<1>2. req # Null /\ result = Null /\ status = 200 /\ (effect' => Allowed)
  BY <1>1, RunningFacts, AtHandler DEF Allowed
<1>3. open = O3 /\ (req.endpoint \in Open => actor = Null) BY <1>1, AtHandler
<1>4. Panicked \in Results /\ "no_context" \notin Panicked.classes /\ "Forbidden" \notin Panicked.classes
      /\ Panicked # Ok
  BY OkAndPanicked
<1>5. DownInv' /\ UpInv' /\ RecordInv' /\ AnswerInv' /\ SentInv'
  BY SMTT(60), <1>1, <1>2, <1>3, <1>4, Returned
<1>6. Types' BY <1>1, <1>4 DEF FlowInv, Types
<1>7. GrantInv' BY <1>1 DEF FlowInv, GrantInv
<1>8. UploadingInv' BY <1>1 DEF FlowInv, UploadingInv
<1> QED BY <1>5, <1>6, <1>7, <1>8 DEF FlowInv

\* An upload under way: the handler keeps the request.
LEMMA UploadGoesOn ==
    ASSUME FlowInv, Uploading,
           UNCHANGED <<config, granted, phase, started, hits, req, todo, open, actor, result, status,
                       sent, recorded, served>>,
           failure' \subseteq Classes \ {"no_context", "Forbidden", "ok"},
           effect' \in BOOLEAN, effect' => step' = "close"
    PROVE  FlowInv'
<1>1. Running({"handler"}) /\ req.endpoint = "change_picture" BY DEF Uploading
<1>2. /\ req # Null /\ result = Null /\ todo # <<>> /\ Head(todo) = "handler"
      /\ ~sent /\ status = 200 /\ recorded = <<>> /\ phase = "serving" /\ open = O3
      /\ Inner(req.endpoint, actor, todo)
  BY SMTT(60), <1>1, RunningFacts
<1>3. Open' = Open BY Frame
<1>4. Inner(req.endpoint, actor, todo)' BY <1>2, <1>3 DEF Inner
<1>5. DownInv' BY <1>2, <1>4 DEF DownInv
<1>6. UpInv' /\ RecordInv' /\ AnswerInv' BY <1>2 DEF UpInv, RecordInv, AnswerInv
<1>7. SentInv' BY <1>2 DEF SentInv, AccessMatrix, CountedAsSent
<1>8. Types' BY DEF FlowInv, Types
<1>9. GrantInv' BY DEF FlowInv, GrantInv
<1>10. UploadingInv' BY <1>1, <1>2 DEF UploadingInv
<1> QED BY <1>5, <1>6, <1>7, <1>8, <1>9, <1>10 DEF FlowInv

\* Whoever reaches the upload may change their picture, so it never fails for
\* who asks.
LEMMA UploadRunsStep == ASSUME FlowInv, UploadRuns PROVE FlowInv'
<1> DEFINE F == Classes \ {"no_context", "Forbidden", "ok"}
           check == Check("change_picture", req.target)
<1>1. /\ Uploading /\ UNCHANGED <<config, granted, phase, started, hits, req, todo, open, actor, result,
                                  status, sent, recorded, effect, served>>
  BY DEF UploadRuns, flow
<1>2. req.endpoint = "change_picture" /\ Running({"handler"}) BY <1>1 DEF Uploading
<1>3. check = "ok"
  <2>1. req.endpoint \notin Open BY <1>2 DEF Open, Public
  <2>2. Permitted(req.endpoint, req.token, req.target) BY <1>2 DEF Permitted
  <2> QED BY <1>2, <2>1, <2>2, AtHandler
<1>4. failure \subseteq F BY DEF FlowInv, UploadingInv
<1>5. /\ {"max_size"} \subseteq F /\ {"unknown"} \subseteq F /\ {"deadline"} \subseteq F
      /\ {"canceled"} \subseteq F /\ {"panic"} \subseteq F /\ {"invalid"} \subseteq F
      /\ {"mime_types"} \subseteq F
  BY DEF Classes, Kinds
<1>6. Verdict \subseteq F BY <1>5 DEF Verdict
<1> HIDE DEF F, check
<1>7. failure' \subseteq F /\ step # "close"
  <2>1. ASSUME NEW f \in Files, ReceiveFile(f)
        PROVE  failure' \subseteq F /\ step # "close"
    BY <1>4, <1>5, <2>1 DEF ReceiveFile, Fail
  <2>2. CASE Tell BY <1>4, <1>5, <2>2 DEF Tell, IOError, Fail
  <2>3. CASE Sniff BY <1>4, <1>5, <2>3 DEF Sniff, IOError, Fail
  <2>4. CASE Reset BY <1>4, <1>5, <2>4 DEF Reset, IOError, Fail
  <2>5. CASE Validate BY <1>4, <1>6, <2>5 DEF Validate, Fail
  <2>6. CASE Put BY <1>4, <1>5, <2>6 DEF Put, Fail
  <2>7. CASE Rewind BY <1>4, <1>5, <2>7 DEF Rewind, IOError, Fail
  <2>8. CASE PanicIn BY <1>4, <1>5, <2>8 DEF PanicIn, Fail
  <2>9. CASE Authorize({}) BY <1>4, <2>9 DEF Authorize
  <2> QED BY <1>3, <2>1, <2>2, <2>3, <2>4, <2>5, <2>6, <2>7, <2>8, <2>9 DEF UploadRuns, UploadStep, check
<1>8. ~effect /\ effect \in BOOLEAN BY <1>2, <1>7, RunningFacts DEF FlowInv, Types
<1>9. effect' \in BOOLEAN /\ ~effect' BY <1>1, <1>8
<1> QED BY <1>1, <1>7, <1>9, UploadGoesOn DEF F

LEMMA ServiceClasses ==
    ASSUME NEW err \in ServiceErrors
    PROVE  err.classes # {} /\ err.classes \subseteq Classes \ {"no_context", "Forbidden", "ok"}
<1>1. err.classes # {} BY SMTT(60) DEF ServiceErrors, Unclassified, Wrapped
<1>2. Plain(err) BY PlainErrors
<1> QED BY SMTT(60), <1>1, <1>2 DEF Plain, Results

LEMMA UploadSavesStep == ASSUME FlowInv, UploadSaves PROVE FlowInv'
<1>1. /\ Uploading /\ UNCHANGED <<config, granted, phase, started, hits, req, todo, open, actor, result,
                                  status, sent, recorded, served>>
  BY DEF UploadSaves
<1>2. Running({"handler"}) BY <1>1 DEF Uploading
<1>3. CASE Finish({}) /\ effect' = TRUE
  <2>1. step' = "close" /\ failure' = {} BY <1>3 DEF Finish, Fail
  <2> QED BY <1>1, <1>3, <2>1, UploadGoesOn
<1>4. ASSUME NEW err \in ServiceErrors, Finish(err.classes), UNCHANGED effect \/ effect' = TRUE PROVE FlowInv'
  <2>1. step = "save" /\ step' = "close" /\ failure' = err.classes BY <1>4 DEF Finish, Fail
  <2>2. ~effect /\ effect \in BOOLEAN BY <1>2, <2>1, RunningFacts DEF FlowInv, Types
  <2> QED BY <1>1, <1>4, <2>1, <2>2, ServiceClasses, UploadGoesOn
<1> QED BY <1>3, <1>4 DEF UploadSaves, ServiceErrors

LEMMA UploadEndsStep == ASSUME FlowInv, UploadEnds PROVE FlowInv'
<1> DEFINE R == UploadResult(failure)
<1>1. /\ UNCHANGED <<config, granted, phase, started, hits, req, open, actor, status, sent, recorded,
                     effect, served>>
      /\ Running({"handler"}) /\ req.endpoint = "change_picture" /\ step = "close"
      /\ todo' = <<>> /\ result' = R /\ step' = "none" /\ failure' = {}
  BY DEF UploadEnds, Uploading, Close
<1>2. /\ req # Null /\ result = Null /\ status = 200 BY <1>1, RunningFacts
<1>3. failure \subseteq Classes \ {"no_context", "Forbidden", "ok"} BY DEF FlowInv, UploadingInv
<1>4. R \in Results /\ "no_context" \notin R.classes /\ "Forbidden" \notin R.classes
  <2>1. CASE failure = {} BY <2>1, OkAndPanicked DEF UploadResult
  <2>2. CASE failure # {} /\ failure \subseteq UploadErrors
    <3>1. R = HttpError(400) BY <2>2 DEF UploadResult
    <3>2. Plain(HttpError(400)) BY SMTT(60), PlainErrors
    <3> HIDE DEF R
    <3> QED BY SMTT(60), <2>2, <3>1, <3>2, PlainErrors
  <2>3. CASE failure # {} /\ ~(failure \subseteq UploadErrors)
    <3>1. R = Wrapped(failure) BY <2>3 DEF UploadResult
    <3>2. R \in Results /\ R.classes = failure BY SMTT(60), <1>3, <3>1 DEF Wrapped, Results
    <3> HIDE DEF R
    <3> QED BY <1>3, <2>3, <3>2, OkAndPanicked
  <2> QED BY <2>1, <2>2, <2>3
<1> HIDE DEF R
<1>5. open = O3 /\ (req.endpoint \in Open => actor = Null) BY <1>1, AtHandler
<1>6. Allowed
  <2>1. req.endpoint \notin Open BY <1>1 DEF Open, Public
  <2>2. Permitted(req.endpoint, req.token, req.target) BY <1>1 DEF Permitted
  <2> QED BY <1>1, <2>1, <2>2, AtHandler DEF Allowed
<1>7. status' # 403 BY SMTT(60), <1>1, <1>2
<1>8. DownInv' /\ UpInv' /\ RecordInv' /\ AnswerInv' /\ SentInv'
  BY <1>1, <1>2, <1>4, <1>5, <1>6, <1>7, Returned
<1>9. Types' BY <1>1, <1>4 DEF FlowInv, Types
<1>10. GrantInv' BY <1>1 DEF FlowInv, GrantInv
<1>11. UploadingInv' BY <1>1 DEF UploadingInv
<1> QED BY <1>8, <1>9, <1>10, <1>11 DEF FlowInv

\* On the way up, before the response is sent.
LEMMA Unwound ==
    ASSUME FlowInv, result # Null, ~sent
    PROVE  /\ req # Null /\ result \in Results /\ step = "none"
           /\ open = <<>> \/ open = O1 \/ open = O2 \/ open = O3
           /\ ParseError(result) \in Statuses
           /\ ParseError(result) = 403 => Denied
           /\ Failed => result # Ok /\ result # Panicked
<1>1. req # Null /\ (open = <<>> \/ open = O1 \/ open = O2 \/ open = O3) BY DEF FlowInv, UpInv
<1>2. result \in Results BY DEF FlowInv, Types
<1>3. step = "none" BY DEF FlowInv, UploadingInv
<1>4. "Forbidden" \in result.classes => Denied BY DEF FlowInv, UpInv
<1>5. Failed => result # Ok /\ result # Panicked BY DEF Failed
<1> QED BY SMTT(60), <1>1, <1>2, <1>3, <1>4, <1>5, ParseErrorFacts

\* A middleware that the request passes again.
LEMMA Unwinds ==
    ASSUME FlowInv, result # Null, ~sent,
           UNCHANGED <<config, granted, phase, started, hits, req, todo, actor, sent, effect, served, upload>>,
           status' \in Statuses, result' \in Results, open' \in {<<>>, O1, O2},
           "no_context" \notin result'.classes,
           "Forbidden" \in result'.classes \/ status' = 403 => Denied,
           RecordInv'
    PROVE  FlowInv'
<1>1. result' # Null BY SMTT(60), NullAssumption DEF Results
<1>2. Open' = Open /\ Allowed' = Allowed /\ Denied' = Denied BY Frame
<1>3. UNCHANGED <<step, failure>> BY DEF upload
<1>4. Types' BY DEF FlowInv, Types
<1>5. GrantInv' BY DEF FlowInv, GrantInv
<1>6. DownInv' BY <1>1 DEF DownInv
<1>7. UpInv' BY <1>1, <1>2 DEF FlowInv, UpInv
<1>8. UploadingInv' BY <1>3, Unwound DEF FlowInv, UploadingInv
<1>9. AnswerInv' BY <1>1, Unwound DEF AnswerInv
<1>10. SentInv' BY DEF SentInv, AccessMatrix, CountedAsSent
<1> QED BY <1>4, <1>5, <1>6, <1>7, <1>8, <1>9, <1>10 DEF FlowInv

LEMMA UnwindLoggerStep == ASSUME FlowInv, NEW handles \in BOOLEAN, UnwindLogger(handles) PROVE FlowInv'
<1>1. /\ result # Null /\ ~sent /\ Head(open) = "logger" /\ open # <<>> /\ open' = Tail(open)
      /\ UNCHANGED <<config, granted, phase, started, hits, req, todo, actor, sent, effect, served, upload>>
      /\ recorded' = recorded
  BY DEF UnwindLogger, Unwinding
<1>2. open = O3 /\ open' = O2 BY <1>1, Unwound, Stacks
<1>3. recorded = <<>> BY <1>1, <1>2 DEF FlowInv, RecordInv
<1>4. RecordInv' BY <1>1, <1>2, <1>3, Stacks DEF RecordInv
<1>5. /\ "no_context" \notin result.classes /\ ("Forbidden" \in result.classes \/ status = 403 => Denied)
      /\ status \in Statuses /\ result \in Results
  BY <1>1 DEF FlowInv, UpInv, Types
<1>6. CASE UNCHANGED <<status, result>> BY <1>1, <1>2, <1>4, <1>5, <1>6, Unwinds
<1>7. CASE Failed /\ status' = ParseError(result) /\ result' = Ok
  <2>1. status' \in Statuses /\ (status' = 403 => Denied)
    BY <1>1, <1>7, Unwound
  <2>2. /\ Ok \in Results /\ "no_context" \notin Ok.classes /\ "Forbidden" \notin Ok.classes BY OkAndPanicked
  <2> QED BY <1>1, <1>2, <1>4, <1>5, <1>7, <2>1, <2>2, Unwinds
<1> QED BY <1>6, <1>7 DEF UnwindLogger

LEMMA UnwindMetricsStep == ASSUME FlowInv, UnwindMetrics PROVE FlowInv'
<1>1. /\ result # Null /\ ~sent /\ Head(open) = "metrics" /\ open # <<>> /\ open' = Tail(open)
      /\ UNCHANGED <<config, granted, phase, started, hits, req, todo, actor, result, status, sent, effect,
                     served, upload>>
      /\ recorded' = IF result = Panicked THEN recorded ELSE Append(recorded, Final)
  BY DEF UnwindMetrics, Unwinding, Final
<1>2. open = O2 /\ open' = O1 BY <1>1, Unwound, Stacks
<1>3. recorded = <<>> BY <1>1, <1>2 DEF FlowInv, RecordInv
<1>4. Final' = Final BY <1>1 DEF Final, Failed
<1>5. RecordInv'
  <2>1. CASE result = Panicked BY <1>1, <1>2, <1>3, <2>1, Stacks DEF RecordInv
  <2>2. CASE result # Panicked
    <3>1. recorded' = <<Final'>> /\ result' # Panicked BY SMTT(60), <1>1, <1>3, <1>4, <2>2
    <3> QED BY <1>2, <3>1, Stacks DEF RecordInv
  <2> QED BY <2>1, <2>2
<1>6. /\ "no_context" \notin result.classes /\ ("Forbidden" \in result.classes \/ status = 403 => Denied)
      /\ status \in Statuses /\ result \in Results
  BY <1>1 DEF FlowInv, UpInv, Types
<1> QED BY <1>1, <1>2, <1>5, <1>6, Unwinds

LEMMA UnwindRecovererStep == ASSUME FlowInv, UnwindRecoverer PROVE FlowInv'
<1> DEFINE E == Wrapped({"unknown"})
<1>1. /\ result # Null /\ ~sent /\ Head(open) = "recoverer" /\ open # <<>> /\ open' = Tail(open)
      /\ UNCHANGED <<config, granted, phase, started, hits, req, todo, actor, status, sent, recorded, effect,
                     served, upload>>
      /\ result' = IF result = Panicked THEN E ELSE result
  BY DEF UnwindRecoverer, Unwinding
<1>2. open = O1 /\ open' = <<>> BY <1>1, Unwound, Stacks
<1>3. \/ recorded = <<Final>> /\ result # Panicked
      \/ recorded = <<>> /\ result = Panicked
  BY <1>1, <1>2, Stacks DEF FlowInv, RecordInv
<1>4. RecordInv'
  <2>1. CASE recorded = <<Final>> /\ result # Panicked
    <3>1. Final' = Final BY <1>1, <2>1 DEF Final, Failed
    <3> QED BY <1>1, <1>2, <2>1, <3>1, Stacks DEF RecordInv
  <2>2. CASE recorded = <<>> /\ result = Panicked BY <1>1, <1>2, <2>2, Stacks DEF RecordInv
  <2> QED BY <1>3, <2>1, <2>2
<1>5. /\ "no_context" \notin result.classes /\ ("Forbidden" \in result.classes \/ status = 403 => Denied)
      /\ status \in Statuses /\ result \in Results
  BY <1>1 DEF FlowInv, UpInv, Types
<1>6. E \in Results /\ E # Ok /\ "no_context" \notin E.classes /\ "Forbidden" \notin E.classes
  <2>1. {"unknown"} \in SUBSET (Classes \ {"no_context", "Forbidden", "ok", "panic"}) BY DEF Classes
  <2> QED BY SMTT(60), <2>1, PlainErrors
<1> HIDE DEF E
<1> QED BY <1>1, <1>2, <1>4, <1>5, <1>6, OkAndPanicked, Unwinds

LEMMA SendStep == ASSUME FlowInv, Send PROVE FlowInv'
<1>1. /\ result # Null /\ ~sent /\ open = <<>> /\ sent' = TRUE
      /\ UNCHANGED <<config, granted, phase, started, hits, req, todo, open, actor, result, recorded, effect,
                     served, upload>>
      /\ status' = IF Failed THEN ParseError(result) ELSE status
  BY DEF Send
<1>2. UNCHANGED <<step, failure>> BY <1>1 DEF upload
<1>3. Open' = Open /\ Allowed' = Allowed /\ Denied' = Denied BY <1>1, Frame
<1>4. status' = Final /\ status' \in Statuses /\ (status' = 403 => Denied)
  BY <1>1, Unwound DEF Final, FlowInv, UpInv, Types
<1>5. \/ recorded = <<Final>> /\ result # Panicked
      \/ /\ recorded = <<>>
         /\ \/ result \in {Wrapped({"unknown"}), Wrapped({"fiber", "too_large"})}
            \/ config.production /\ result = HttpError(429)
  BY <1>1, Stacks DEF FlowInv, RecordInv
<1>6. /\ Plain(Wrapped({"unknown"})) /\ Plain(Wrapped({"fiber", "too_large"})) /\ Plain(HttpError(429))
  <2>1. /\ {"unknown"} \in SUBSET (Classes \ {"no_context", "Forbidden", "ok", "panic"})
        /\ {"fiber", "too_large"} \in SUBSET (Classes \ {"no_context", "Forbidden", "ok", "panic"})
    BY DEF Classes
  <2> QED BY SMTT(60), <2>1, PlainErrors
<1>7. result # Panicked BY SMTT(60), <1>5, <1>6, PlainErrors
<1>8. Failed <=> result # Ok BY <1>1, <1>7 DEF Failed
<1>9. UpInv' BY <1>1, <1>3, <1>4 DEF FlowInv, UpInv
<1>10. AccessMatrix'
  <2>1. /\ req.endpoint \in Open => actor = Null
        /\ effect => Allowed
    BY <1>1 DEF FlowInv, UpInv
  <2> QED BY <1>1, <1>3, <1>4, <2>1 DEF AccessMatrix, Allowed, Denied
<1>11. CountedAsSent'
  <2>1. CASE recorded = <<Final>> BY <1>1, <1>4, <2>1 DEF CountedAsSent
  <2>2. CASE /\ recorded = <<>>
             /\ \/ result \in {Wrapped({"unknown"}), Wrapped({"fiber", "too_large"})}
                \/ config.production /\ result = HttpError(429)
    <3>1. Failed BY ZenonT(90), <1>6, <1>8, <2>2, PlainErrors
    <3>2. status' \in {413, 500} \/ (status' = 429 /\ config.production)
      BY SMTT(60), <1>1, <2>2, <3>1, KnownStatuses
    <3> QED BY <1>1, <2>2, <3>2 DEF CountedAsSent
  <2> QED BY <1>5, <2>1, <2>2
<1>13. Types' BY <1>1, <1>4 DEF FlowInv, Types
<1>14. GrantInv' BY <1>1 DEF FlowInv, GrantInv
<1>15. DownInv' /\ RecordInv' BY <1>1 DEF DownInv, RecordInv
<1>16. UploadingInv' BY <1>1, <1>2, Unwound DEF FlowInv, UploadingInv
<1>17. AnswerInv' BY <1>1, Unwound DEF AnswerInv
<1> QED BY <1>9, <1>10, <1>11, <1>13, <1>14, <1>15, <1>16, <1>17 DEF FlowInv, SentInv

-----------------------------------------------------------------------------
(* The theorems *)

\* The request and its upload.
IInv == FlowInv /\ UploadInv

LEMMA InitInv == Init => IInv
<1> SUFFICES ASSUME Init PROVE IInv OBVIOUS
<1>1. /\ config \in Configs /\ granted = NewAuthorizer /\ phase = "starting" /\ started = {}
      /\ hits = [l \in Limiters |-> 0] /\ req = Null /\ todo = <<>> /\ actor = Null /\ result = Null
      /\ status = 200 /\ sent = FALSE /\ recorded = <<>> /\ effect = FALSE /\ served = 0
      /\ step = "none" /\ failure = {}
  BY DEF Init, UploadInit
<1>2. Types
  <2>1. 0 \in 0..MaxRequests /\ 0 \in 0..MaxHits BY SMTT(60), HttpAssumption
  <2>2. hits \in [Limiters -> 0..MaxHits] BY <1>1, <2>1
  <2>3. status \in Statuses BY <1>1 DEF Statuses
  <2> QED BY <1>1, <2>1, <2>2, <2>3 DEF Types
<1>3. GrantInv
  <2>1. DOMAIN granted = {} BY <1>1 DEF NewAuthorizer
  <2> QED BY <1>1, <2>1 DEF GrantInv
<1>4. DownInv /\ UpInv /\ RecordInv BY <1>1 DEF DownInv, UpInv, RecordInv
<1>5. UploadingInv /\ AnswerInv BY <1>1 DEF UploadingInv, AnswerInv
<1>6. SentInv BY <1>1 DEF SentInv, AccessMatrix, CountedAsSent
<1>7. UploadInv BY UploadStart DEF Init
<1> QED BY <1>2, <1>3, <1>4, <1>5, <1>6, <1>7 DEF IInv, FlowInv

LEMMA FlowStep == ASSUME FlowInv, Next PROVE FlowInv'
<1>1. CASE Listen \/ \E s \in DOMAIN permTables : NewService(s) BY <1>1, StartUp
<1>2. CASE \E e \in Endpoints, t \in Tokens, u \in {"me", "other"} : Receive(e, t, u) BY <1>2, ReceiveStep
<1>3. CASE \E e \in Endpoints : BodyTooLarge(e) BY <1>3, TooLargeStep
<1>4. CASE Enter BY <1>4, EnterStep
<1>5. CASE RateLimit BY <1>5, RateLimitStep
<1>6. CASE WindowEnds BY <1>6, WindowStep
<1>7. CASE \E check \in {"fine", "revoked", "error"} : Authenticate(check) BY <1>7, AuthenticateStep
<1>8. CASE Handler BY <1>8, HandlerStep
<1>9. CASE Logout BY <1>9, LogoutStep
<1>10. CASE Health BY <1>10, HealthStep
<1>11. CASE Panic BY <1>11, PanicStep
<1>12. CASE NotFound \/ UploadRefused BY <1>12, NotFoundStep
<1>13. CASE UploadRuns BY <1>13, UploadRunsStep
<1>14. CASE UploadSaves BY <1>14, UploadSavesStep
<1>15. CASE UploadEnds BY <1>15, UploadEndsStep
<1>16. CASE \E handles \in BOOLEAN : UnwindLogger(handles) BY <1>16, UnwindLoggerStep
<1>17. CASE UnwindMetrics BY <1>17, UnwindMetricsStep
<1>18. CASE UnwindRecoverer BY <1>18, UnwindRecovererStep
<1>19. CASE Send BY <1>19, SendStep
<1> QED
  BY <1>1, <1>2, <1>3, <1>4, <1>5, <1>6, <1>7, <1>8, <1>9, <1>10, <1>11, <1>12, <1>13, <1>14, <1>15,
     <1>16, <1>17, <1>18, <1>19
  DEF Next

\* A step of the server is one of the upload, or leaves it alone.
LEMMA UploadSteps == ASSUME Next PROVE UploadNext \/ UNCHANGED upload
<1>1. CASE UploadRuns
  <2>1. PICK check : (\E f \in Files : ReceiveFile(f)) \/ UploadStep \/ Authorize(check)
    BY <1>1 DEF UploadRuns
  <2> QED BY <2>1 DEF UploadNext
<1>2. CASE UploadSaves
  <2>1. Finish({}) \/ \E err \in ServiceErrors : Finish(err.classes)
    BY <1>2 DEF UploadSaves, ServiceErrors
  <2> QED BY <2>1 DEF UploadNext
<1>3. CASE UploadEnds BY <1>3 DEF UploadEnds, UploadNext
<1>4. CASE Listen \/ \E s \in DOMAIN permTables : NewService(s) BY <1>4 DEF Listen, NewService
<1>5. CASE \E e \in Endpoints, t \in Tokens, u \in {"me", "other"} : Receive(e, t, u) BY <1>5 DEF Receive
<1>6. CASE \E e \in Endpoints : BodyTooLarge(e) BY <1>6 DEF BodyTooLarge
<1>7. CASE Enter \/ WindowEnds \/ Panic BY <1>7 DEF Enter, WindowEnds, Panic
<1>8. CASE RateLimit BY <1>8 DEF RateLimit, Return
<1>9. CASE \E check \in {"fine", "revoked", "error"} : Authenticate(check) BY <1>9 DEF Authenticate, Return
<1>10. CASE Handler BY <1>10 DEF Handler, Answer, Return
<1>11. CASE Logout \/ Health BY <1>11 DEF Logout, Health, Answer
<1>12. CASE NotFound \/ UploadRefused BY <1>12 DEF NotFound, UploadRefused, Return
<1>13. CASE \E handles \in BOOLEAN : UnwindLogger(handles) BY <1>13 DEF UnwindLogger
<1>14. CASE UnwindMetrics \/ UnwindRecoverer \/ Send BY <1>14 DEF UnwindMetrics, UnwindRecoverer, Send
<1> QED
  BY <1>1, <1>2, <1>3, <1>4, <1>5, <1>6, <1>7, <1>8, <1>9, <1>10, <1>11, <1>12, <1>13, <1>14
  DEF Next

LEMMA UploadSame == ASSUME UploadInv, UNCHANGED upload PROVE UploadInv'
<1>1. Accepted' = Accepted /\ Found' = Found BY SameFile DEF upload
<1> QED BY <1>1 DEF upload, UploadInv

LEMMA StepInv == IInv /\ [Next]_vars => IInv'
<1> SUFFICES ASSUME IInv, [Next]_vars PROVE IInv' OBVIOUS
<1> USE DEF IInv
<1>1. CASE Next
  <2>1. FlowInv' BY <1>1, FlowStep
  <2>2. UploadInv' BY <1>1, UploadSteps, UploadInvStep, UploadSame
  <2> QED BY <2>1, <2>2
<1>2. CASE UNCHANGED vars
  <2>1. UNCHANGED <<config, granted, phase, started, hits, flow, served, upload, step, failure>>
    BY <1>2 DEF vars, upload
  <2>2. Types' BY <2>1 DEF FlowInv, Types, flow
  <2>3. GrantInv' BY <2>1 DEF FlowInv, GrantInv
  <2>4. UploadInv' BY <2>1, UploadSame
  <2> QED BY <2>1, <2>2, <2>3, <2>4, FlowUnchanged DEF FlowInv
<1> QED BY <1>1, <1>2

LEMMA Invariance == Spec => []IInv
BY InitInv, StepInv, PTL DEF Spec

\* The types, for any number of requests: no limiter lets more than MaxHits of a
\* window through (RateLimit), and no request is counted twice (UnwindMetrics).
THEOREM TypesCorrect == Spec => []TypeOK
<1>1. ASSUME IInv PROVE TypeOK
  <2>1. Len(recorded) <= 1
    <3>1. Len(<<>>) <= 1 BY SMTT(60)
    <3>2. CASE req = Null BY <1>1, <3>1, <3>2 DEF IInv, FlowInv, AnswerInv
    <3>3. CASE req # Null /\ result = Null BY <1>1, <3>1, <3>3 DEF IInv, FlowInv, DownInv
    <3>4. CASE result # Null /\ ~sent
      <4>1. open \in {<<>>, O1, O2, O3} BY <1>1, <3>4 DEF IInv, FlowInv, UpInv
      <4>2. recorded = <<>> \/ recorded = <<Final>> BY <1>1, <3>4, <4>1 DEF IInv, FlowInv, RecordInv
      <4>3. Len(<<Final>>) <= 1 BY SMTT(60)
      <4> QED BY <3>1, <4>2, <4>3
    <3>5. CASE sent
      <4>1. recorded = <<>> \/ recorded = <<status>>
        BY <1>1, <3>5 DEF IInv, FlowInv, SentInv, CountedAsSent
      <4>2. Len(<<status>>) <= 1 BY SMTT(60)
      <4> QED BY <3>1, <4>1, <4>2
    <3> QED BY <3>2, <3>3, <3>4, <3>5
  <2>2. actor = Null \/ actor.role \in Roles BY SMTT(60), <1>1 DEF IInv, FlowInv, Types
  <2>3. \A r \in DOMAIN granted : granted[r] \subseteq Permissions BY <1>1 DEF IInv, FlowInv, GrantInv
  <2> QED BY ZenonT(90), <1>1, <2>1, <2>2, <2>3 DEF IInv, FlowInv, Types, GrantInv, Statuses, TypeOK
<1> QED BY <1>1, Invariance, PTL

\* Whatever the configuration, a protected route does nothing without a token
\* that permits it and refuses nobody permitted with 403, and a public one looks
\* at no token (Routes, Authenticate, the services' checks).
THEOREM AccessAsDocumented == Spec => []AccessMatrix
<1>1. IInv => AccessMatrix BY DEF IInv, FlowInv, SentInv
<1> QED BY <1>1, Invariance, PTL

\* No service misses the actor that Authenticate puts into the context.
THEOREM ContextAlwaysPresent == Spec => []ContextPresent
<1>1. IInv => ContextPresent BY DEF IInv, FlowInv, UpInv, ContextPresent
<1> QED BY <1>1, Invariance, PTL

\* app_request_total counts a request under the status it is answered with
\* (InstrumentHandler, ErrorHandler), the ones it cannot see aside.
THEOREM MetricsTellStatus == Spec => []CountedAsSent
<1>1. IInv => CountedAsSent BY DEF IInv, FlowInv, SentInv
<1> QED BY <1>1, Invariance, PTL

\* Whatever the files, the sizes and the number of attempts: the object stored is
\* the whole file (detectMIME, Put).
THEOREM UploadIsWhole == Spec => []WholeUpload
<1>1. IInv => WholeUpload BY UploadImplies DEF IInv
<1> QED BY <1>1, Invariance, PTL

\* What is stored passed ValidateFile: it is no larger than allowed and an image
\* by its content, its claimed type and its extension, or it was taken for an
\* Office document and is an image by its claimed type only.
THEOREM UploadIsAsClaimed == Spec => []StoredAsClaimed
<1>1. IInv => StoredAsClaimed BY UploadImplies DEF IInv
<1> QED BY <1>1, Invariance, PTL

\* The file of a request is open at most once, and closed with the request
\* (ParsedFile.Open, Close).
THEOREM NoHandleLeaks == Spec => []HandlesClosed
<1>1. IInv => HandlesClosed BY UploadImplies DEF IInv
<1> QED BY <1>1, Invariance, PTL
==============================================================================
