------------------------------- MODULE HttpApi -------------------------------
(***************************************************************************)
(* A request's way through the API server:                                 *)
(*   cmd/api/server.go, container.go   middleware order, start-up          *)
(*   internal/transport/http           routes, middlewares, error mapping  *)
(*   pkg/metrics/request.go            request metrics                     *)
(* and, through Rbac and Upload, the permission checks of the services and *)
(* the file of a profile-picture request.  The handlers a path runs are    *)
(* those of every matching registration, in registration order, until one  *)
(* of them answers; then the middlewares unwind.  Middlewares that only    *)
(* decorate a request (headers, request id, audit context, compression,    *)
(* ETag, CORS) are left out.                                               *)
(***************************************************************************)
EXTENDS Rbac, Upload, Integers

CONSTANTS
    Configs,        \* configurations the server may be started with
    MaxHits,        \* requests a limiter lets through per window, scaled
    MaxRequests \* bound

ASSUME HttpAssumption ==
    /\ Configs \subseteq [production : BOOLEAN, internal : BOOLEAN, failClosed : BOOLEAN]
    /\ MaxHits \in Nat \ {0} /\ MaxRequests \in Nat

VARIABLES
    config,  \* cfg: production, internal mode, fail-closed revocation
    phase,   \* "starting", "serving"
    started, \* services whose constructor ran
    hits,    \* requests counted by each limiter in this window
    req,     \* the request being served: endpoint, token, target
    todo,    \* handlers still to run
    open,    \* middlewares to unwind
    actor,   \* rbac.Context of the request
    result,  \* what the last handler returned: Ok, an error, or a panic
    status,  \* status of the response
    sent,    \* the response went out
    recorded,\* statuses recorded in app_request_total
    effect,  \* history: the service did what it was asked, whatever it answers
    served   \* counter

flow == <<req, todo, open, actor, result, status, sent, recorded, effect>>
vars == <<config, granted, phase, started, hits, flow, served, upload>>

-----------------------------------------------------------------------------
(* Endpoints and routes *)

Public == {"login", "register_complete", "register_token", "refresh",
           "recover", "recover_token", "reset"}
AuthEndpoints == {"logout", "me", "change_password", "permissions",
                  "revoke_user_sessions", "list_user_sessions", "revoke_session"}
UserEndpoints == {"list_users", "delete_picture", "change_picture",
                  "delete_user", "update_user"}
Unknown == {"/api/auth/unknown", "/api/unknown", "/unknown"}
Endpoints == Public \cup AuthEndpoints \cup UserEndpoints \cup Unknown \cup
             {"register", "list_audit", "healthz"}

UnderAuth == Public \cup AuthEndpoints \cup {"register", "/api/auth/unknown"}
UnderApi == UnderAuth \cup UserEndpoints \cup {"list_audit", "/api/unknown"}

Limited == {"login", "register_complete", "recover"}
Limiters == Limited \cup {"all"}

\* What a registration for some paths adds to the chain of endpoint e.
On(paths, e, via) == IF e \in paths THEN via ELSE <<>>

\* Seeded fault: /register is public in internal mode too.
AuthRoutesRegisterOpen(c, e) ==
    On(Limited, e, <<"limit", "handler">>) \o
    On({"register"}, e, <<"handler">>) \o
    On(Public \ Limited, e, <<"handler">>) \o
    On(UnderAuth, e, <<"authenticate">>) \o
    On(AuthEndpoints, e, <<"handler">>)

AuthRoutes(c, e) ==
    On(Limited, e, <<"limit", "handler">>) \o
    On({"register"}, e, IF c.internal THEN <<"authenticate", "handler">> ELSE <<"handler">>) \o
    On(Public \ Limited, e, <<"handler">>) \o
    On(UnderAuth, e, <<"authenticate">>) \o
    On(AuthEndpoints, e, <<"handler">>)

\* router.Use is called on the /api router: it covers all that comes later.
UserRoutes(e) == On(UnderApi, e, <<"authenticate">>) \o On(UserEndpoints, e, <<"handler">>)

AuditRoutes(e) == On({"list_audit"}, e, <<"authenticate", "handler">>)

\* NewServer: the middlewares of every path, then the routes.
Global(c) ==
    (IF c.production THEN <<"limit_all">> ELSE <<>>) \o <<"recoverer", "metrics", "logger">>

Routes(c, e) ==
    On({"healthz"}, e, <<"handler">>) \o AuthRoutes(c, e) \o UserRoutes(e) \o AuditRoutes(e)
    \o <<"not_found">>

\* The handlers of each path, fixed when the routes are registered.
Chain == [c \in Configs |-> [e \in Endpoints |-> Global(c) \o Routes(c, e)]]

-----------------------------------------------------------------------------
(* Errors: the classes found along a chain of wrapped errors *)

Kinds == {"NotFound", "Validation", "Conflict", "Unauthorized", "Forbidden", "Throttled"}

Classes == Kinds \cup {"deadline", "canceled", "too_large", "fiber", "json", "invalid", "max_size",
                      "mime_types", "unknown", "no_context", "ok", "panic"}

HttpError(s) == [http |-> s, classes |-> {}]
Wrapped(classes) == [http |-> 0, classes |-> classes]

appErrStatusMap ==
    [NotFound |-> 404, Validation |-> 422, Conflict |-> 409, Unauthorized |-> 401,
     Forbidden |-> 403, Throttled |-> 429]

ParseError(err) ==
    LET Has(c) == c \in err.classes IN
    IF err.http # 0 THEN err.http
    ELSE IF Has("deadline") THEN 504
    ELSE IF Has("canceled") THEN 499
    ELSE IF Has("too_large") THEN 413
    ELSE IF Has("fiber") THEN 500
    ELSE IF Has("json") THEN 400
    ELSE IF Has("invalid") THEN 422
    ELSE IF \E k \in Kinds : Has(k) THEN appErrStatusMap[CHOOSE k \in Kinds : Has(k)]
    ELSE 500

\* What binding a request may fail with, and a service after its checks.  A
\* path parameter that is no UUID is a 400, a bad query string a fiber error;
\* parseJSONBindErr passes on what it does not know.
BindErrors == {HttpError(400), Wrapped({"json"}), Wrapped({"invalid"}), Wrapped({"fiber"}),
               Wrapped({"unknown"})}
Unclassified == {Wrapped({k}) : k \in {"deadline", "canceled", "unknown"}}
ServiceErrors ==
    Unclassified \cup {Wrapped({k}) : k \in Kinds \ {"Forbidden"}}
                 \cup {Wrapped({"deadline", "NotFound"})}

\* No token, no actor and no result is different from any there is.
ASSUME NullAssumption ==
    /\ Null \notin {"bad"} \cup Roles
    /\ Null \notin [user : {"me"}, role : Roles]
    /\ Null \notin [endpoint : Endpoints, token : {Null, "bad"} \cup Roles, target : {"me", "other"}]
    /\ Null \notin [http : Nat, classes : SUBSET Classes]

Ok == Wrapped({"ok"})
Panicked == Wrapped({"panic"})
Failed == result \notin {Null, Ok, Panicked}

-----------------------------------------------------------------------------
(* Start-up *)

Init ==
    /\ config \in Configs
    /\ granted = NewAuthorizer
    /\ phase = "starting" /\ started = {}
    /\ hits = [l \in Limiters |-> 0]
    /\ req = Null /\ todo = <<>> /\ open = <<>> /\ actor = Null
    /\ result = Null /\ status = 200 /\ sent = FALSE /\ recorded = <<>>
    /\ effect = FALSE /\ served = 0
    /\ UploadInit

\* NewContainer constructs the services, user before auth before audit.
NewService(s) ==
    /\ phase = "starting"
    /\ s = CASE started = {} -> "user" [] started = {"user"} -> "auth" [] OTHER -> "audit"
    /\ s \notin started
    /\ started' = started \cup {s}
    /\ RegisterPermissions(permTables[s])
    /\ UNCHANGED <<config, phase, hits, flow, served, upload>>

Listen ==
    /\ phase = "starting" /\ started = DOMAIN permTables
    /\ phase' = "serving"
    /\ UNCHANGED <<config, granted, started, hits, flow, served, upload>>

-----------------------------------------------------------------------------
(* Down the chain *)

\* A token is absent, refused by VerifyAccessToken, or that of user "me" with a
\* role; target is the user the request is about.
Tokens == {Null, "bad"} \cup Roles

Receive(e, token, target) ==
    /\ phase = "serving" /\ (req = Null \/ sent) /\ served < MaxRequests
    /\ req' = [endpoint |-> e, token |-> token, target |-> target]
    /\ todo' = Chain[config][e]
    /\ open' = <<>> /\ actor' = Null /\ result' = Null /\ status' = 200
    /\ sent' = FALSE /\ recorded' = <<>> /\ effect' = FALSE
    /\ served' = served + 1
    /\ UNCHANGED <<config, granted, phase, started, hits, upload>>

\* Fiber refuses the body before any handler runs.
BodyTooLarge(e) ==
    /\ phase = "serving" /\ (req = Null \/ sent) /\ served < MaxRequests
    /\ req' = [endpoint |-> e, token |-> Null, target |-> "other"]
    /\ result' = Wrapped({"fiber", "too_large"})
    /\ todo' = <<>> /\ open' = <<>> /\ actor' = Null /\ status' = 200
    /\ sent' = FALSE /\ recorded' = <<>> /\ effect' = FALSE
    /\ served' = served + 1
    /\ UNCHANGED <<config, granted, phase, started, hits, upload>>

Running(handlers) == todo # <<>> /\ result = Null /\ Head(todo) \in handlers

Enter ==
    /\ Running({"recoverer", "metrics", "logger"})
    /\ open' = <<Head(todo)>> \o open
    /\ todo' = Tail(todo)
    /\ UNCHANGED <<config, granted, phase, started, hits, req, actor, result, status, sent,
                   recorded, effect, served, upload>>

\* Pass on to the next handler, or return an error.
Return(err) ==
    /\ IF err = Null THEN todo' = Tail(todo) /\ result' = Null
       ELSE todo' = <<>> /\ result' = err
    /\ UNCHANGED <<config, granted, phase, started, req, open, sent, recorded, served, upload>>

RateLimit ==
    LET l == IF Head(todo) = "limit_all" THEN "all" ELSE req.endpoint
    IN /\ Running({"limit", "limit_all"})
       /\ hits' = IF hits[l] < MaxHits THEN [hits EXCEPT ![l] = @ + 1] ELSE hits
       /\ Return(IF hits[l] < MaxHits THEN Null ELSE HttpError(429))
       /\ UNCHANGED <<actor, status, effect>>

WindowEnds ==
    /\ \E l \in Limiters : hits[l] > 0
    /\ hits' = [l \in Limiters |-> 0]
    /\ UNCHANGED <<config, granted, phase, started, flow, served, upload>>

\* check is what the revocation store answers.
Authenticate(check) ==
    LET refused == \/ req.token \in {Null, "bad"}
                   \/ check = "revoked"
                   \/ check = "error" /\ config.failClosed
    IN /\ Running({"authenticate"})
       /\ Return(IF req.token = Null THEN HttpError(401)
                 ELSE IF refused THEN Wrapped({"Unauthorized"}) ELSE Null)
       /\ actor' = IF refused THEN actor ELSE [user |-> "me", role |-> req.token]
       /\ UNCHANGED <<hits, status, effect>>

-----------------------------------------------------------------------------
(* The endpoint's handler and service *)

\* The authorisation each service starts with.
Check(e, target) ==
    CASE e = "register" -> IF config.internal THEN Require(actor, {"auth.register-user"}) ELSE "ok"
      [] e = "me" -> RequireSelfOr(actor, "me", "user.read")
      [] e = "change_password" -> RequireSelfOr(actor, "me", "auth.change-password")
      [] e = "permissions" -> IF actor = Null THEN "no_context" ELSE "ok"
      [] e = "revoke_user_sessions" -> Require(actor, {"auth.revoke-user-sessions"})
      [] e = "list_user_sessions" -> RequireSelfOr(actor, target, "auth.view-user-sessions")
      [] e = "revoke_session" -> RequireSelfOr(actor, target, "auth.revoke-user-sessions")
      [] e = "list_users" -> Require(actor, {"user.read"})
      [] e \in {"change_picture", "delete_picture"} -> RequireSelfOr(actor, "me", "user.update")
      [] e = "delete_user" -> Require(actor, {"user.delete"})
      [] e = "update_user" -> RequireSelfOr(actor, target, "user.update")
      [] e = "list_audit" -> Require(actor, {"audit.read"})
      [] OTHER -> "ok"

\* The handler returns without error.
Answer(s) ==
    /\ todo' = <<>> /\ result' = Ok /\ status' = s
    /\ UNCHANGED <<config, granted, phase, started, hits, req, open, actor, sent, recorded, served, upload>>

Created == {"register", "register_complete"}

\* RevokeSession has to load the session to know whose it is.
LookupErrors == IF req.endpoint = "revoke_session" THEN {Wrapped({"NotFound"})} ELSE {}

\* Services that commit a transaction.  They may still return an error then: the
\* answer to COMMIT is lost, the event is not produced, or the revocation marker
\* is not written and the caller has to know.
Committing == {"register", "register_complete", "login", "refresh", "recover", "reset",
               "change_password", "revoke_user_sessions", "revoke_session", "delete_picture",
               "delete_user", "update_user"}

Handler ==
    /\ Running({"handler"}) /\ req.endpoint \notin {"logout", "healthz", "change_picture"}
    /\ LET check == Check(req.endpoint, req.target) IN
       \/ /\ check = "ok"
          /\ Answer(IF req.endpoint \in Created THEN 201 ELSE 200)
          /\ effect' = TRUE
       \/ /\ check = "ok" /\ req.endpoint \in Committing
          /\ \E err \in Unclassified : Return(err)
          /\ effect' = TRUE /\ UNCHANGED <<hits, actor, status>>
       \/ /\ \E err \in CASE check = "ok" -> BindErrors \cup ServiceErrors
                          [] check = "forbidden" -> BindErrors \cup LookupErrors \cup
                                                    {Wrapped({"Forbidden"})}
                          [] check = "no_context" -> {Wrapped({"no_context"})} :
                Return(err)
          /\ UNCHANGED <<hits, actor, status, effect>>

\* An error of the service is only logged.
Logout ==
    /\ Running({"handler"}) /\ req.endpoint = "logout"
    /\ Answer(200)
    /\ effect' \in IF actor = Null THEN {FALSE} ELSE BOOLEAN

Health ==
    /\ Running({"handler"}) /\ req.endpoint = "healthz"
    /\ \E s \in {200, 503} : Answer(s) /\ effect' = (s = 200)

\* changeProfilePicture, step by step; the request holds no file, or an upload
\* runs to its deferred Close.
Uploading == Running({"handler"}) /\ req.endpoint = "change_picture"

\* ErrMultipartForm.
UploadRefused ==
    /\ Uploading /\ step = "none"
    /\ Return(HttpError(400))
    /\ UNCHANGED <<hits, actor, status, effect>>

UploadErrors == {"max_size", "mime_types", "invalid"}
UploadResult(classes) ==
    IF classes = {} THEN Ok
    ELSE IF classes \subseteq UploadErrors THEN HttpError(400) ELSE Wrapped(classes)

UploadRuns ==
    /\ Uploading
    /\ LET check == Check("change_picture", req.target) IN
       \/ \E f \in Files : ReceiveFile(f)
       \/ UploadStep
       \/ Authorize(CASE check = "ok" -> {} [] check = "forbidden" -> {"Forbidden"}
                      [] check = "no_context" -> {"no_context"})
    /\ UNCHANGED <<config, granted, phase, started, hits, flow, served>>

UploadSaves ==
    /\ Uploading
    /\ \/ Finish({}) /\ effect' = TRUE
       \/ \E err \in Unclassified : Finish(err.classes) /\ effect' = TRUE
       \/ \E err \in ServiceErrors : Finish(err.classes) /\ UNCHANGED effect
    /\ UNCHANGED <<config, granted, phase, started, hits, req, todo, open, actor, result, status,
                   sent, recorded, served>>

UploadEnds ==
    /\ Uploading /\ step = "close"
    /\ Close
    /\ todo' = <<>> /\ result' = UploadResult(failure)
    /\ UNCHANGED <<config, granted, phase, started, hits, req, open, actor, status, sent,
                   recorded, effect, served>>

\* Before or after the service's transaction.
Panic ==
    /\ Running({"handler"}) /\ step = "none"
    /\ todo' = <<>> /\ result' = Panicked
    /\ effect' \in IF req.endpoint \in Committing /\ Check(req.endpoint, req.target) = "ok"
                   THEN BOOLEAN ELSE {FALSE}
    /\ UNCHANGED <<config, granted, phase, started, hits, req, open, actor, status, sent,
                   recorded, served, upload>>

NotFound ==
    /\ Running({"not_found"})
    /\ Return(HttpError(404))
    /\ UNCHANGED <<hits, actor, status, effect>>

-----------------------------------------------------------------------------
(* Back up *)

Unwinding(m) == result # Null /\ ~sent /\ open # <<>> /\ Head(open) = m

\* Fiber's logger may run the ErrorHandler itself to log the final status.
UnwindLogger(handles) ==
    /\ Unwinding("logger")
    /\ open' = Tail(open)
    /\ IF handles /\ Failed
       THEN status' = ParseError(result) /\ result' = Ok
       ELSE UNCHANGED <<status, result>>
    /\ UNCHANGED <<config, granted, phase, started, hits, req, todo, actor, sent, recorded,
                   effect, served, upload>>

\* Seeded fault: the status is not resolved from the error.
UnwindMetricsUnresolved ==
    /\ Unwinding("metrics")
    /\ open' = Tail(open)
    /\ recorded' = IF result = Panicked THEN recorded ELSE Append(recorded, status)
    /\ UNCHANGED <<config, granted, phase, started, hits, req, todo, actor, result, status,
                   sent, effect, served, upload>>

\* A panic passes InstrumentHandler by.
UnwindMetrics ==
    /\ Unwinding("metrics")
    /\ open' = Tail(open)
    /\ recorded' = IF result = Panicked THEN recorded
                   ELSE Append(recorded, IF Failed THEN ParseError(result) ELSE status)
    /\ UNCHANGED <<config, granted, phase, started, hits, req, todo, actor, result, status,
                   sent, effect, served, upload>>

UnwindRecoverer ==
    /\ Unwinding("recoverer")
    /\ open' = Tail(open)
    /\ result' = IF result = Panicked THEN Wrapped({"unknown"}) ELSE result
    /\ UNCHANGED <<config, granted, phase, started, hits, req, todo, actor, status, sent,
                   recorded, effect, served, upload>>

\* The app's ErrorHandler, and the response.  That an error does not encode as
\* JSON is left out: errors hold strings, and maps and lists of them.
Send ==
    /\ result # Null /\ ~sent /\ open = <<>>
    /\ status' = IF Failed THEN ParseError(result) ELSE status
    /\ sent' = TRUE
    /\ UNCHANGED <<config, granted, phase, started, hits, req, todo, open, actor, result,
                   recorded, effect, served, upload>>

Next ==
    \/ \E s \in DOMAIN permTables : NewService(s)
    \/ Listen
    \/ \E e \in Endpoints, t \in Tokens, u \in {"me", "other"} : Receive(e, t, u)
    \/ \E e \in Endpoints : BodyTooLarge(e)
    \/ Enter \/ RateLimit \/ WindowEnds
    \/ \E check \in {"fine", "revoked", "error"} : Authenticate(check)
    \/ Handler \/ Logout \/ Health \/ Panic \/ NotFound
    \/ UploadRefused \/ UploadRuns \/ UploadSaves \/ UploadEnds
    \/ \E handles \in BOOLEAN : UnwindLogger(handles)
    \/ UnwindMetrics \/ UnwindRecoverer \/ Send

Spec == Init /\ [][Next]_vars

-----------------------------------------------------------------------------
(* Properties *)

\* Types; no limiter lets more than MaxHits requests of a window through
\* (RateLimit), and a request is counted at most once.
TypeOK ==
    /\ DOMAIN granted \subseteq Roles
    /\ \A r \in DOMAIN granted : granted[r] \subseteq Permissions
    /\ phase \in {"starting", "serving"} /\ started \subseteq DOMAIN permTables
    /\ hits \in [Limiters -> 0..MaxHits]
    /\ status \in {200, 201, 400, 401, 403, 404, 409, 413, 422, 429, 499, 500, 503, 504}
    /\ actor = Null \/ actor.role \in Roles
    /\ Len(recorded) <= 1 /\ served \in 0..MaxRequests

\* The README's table of authenticated routes.
Permitted(e, role, target) ==
    CASE e \in {"logout", "me", "change_password", "permissions", "change_picture",
                "delete_picture"} -> TRUE
      [] e \in {"list_user_sessions", "revoke_session", "update_user"} ->
            target = "me" \/ role \in {"admin", "system"}
      [] e \in {"revoke_user_sessions", "list_users", "delete_user", "list_audit",
                "register"} -> role \in {"admin", "system"}

Open == Public \cup {"healthz"} \cup (IF config.internal THEN {} ELSE {"register"})

\* Who may do what, from the token to the service: nothing behind a protected
\* route is done without a token that permits it, not even by a request that is
\* answered with an error, nobody permitted is answered 403, and public routes do not look at tokens (Routes, Authenticate, permTables).
AccessMatrix ==
    sent =>
        LET e == req.endpoint IN
        /\ e \in Open => actor = Null /\ status # 403
        /\ effect /\ e \notin Open => req.token \in Roles /\ Permitted(e, req.token, req.target)
        /\ status = 403 => req.token \in Roles /\ ~Permitted(e, req.token, req.target)

\* No service looks for an actor that no middleware put into the context, which
\* would be a 500 (ErrCtxNotFound).
ContextPresent == result # Null => "no_context" \notin result.classes

\* The status recorded in app_request_total is the one sent (server.go: "exactly
\* as the app ErrorHandler will"); what is not recorded was refused by Fiber or
\* the production limiter, or panicked.
CountedAsSent ==
    sent => \/ recorded = <<status>>
            \/ recorded = <<>> /\ (status \in {413, 500} \/ (status = 429 /\ config.production))

\* "Revokes the current session; always returns 200" (README, DELETE logout).
LogoutRevokes ==
    sent /\ req.endpoint = "logout" /\ status = 200 => effect
=============================================================================
