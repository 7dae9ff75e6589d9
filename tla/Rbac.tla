-------------------------------- MODULE Rbac --------------------------------
(***************************************************************************)
(* internal/rbac: the in-memory permission table, filled by the service    *)
(* constructors at start-up, and the checks the services make.             *)
(***************************************************************************)
EXTENDS FiniteSets

CONSTANT Null

VARIABLE granted \* authorizer.table: the roles registered and what they hold

Roles == {"admin", "user", "system"}

AuthPerms == {"auth.change-password", "auth.register-user",
              "auth.revoke-user-sessions", "auth.view-user-sessions"}
UserPerms == {"user.read", "user.update", "user.delete"}
AuditPerms == {"audit.read"}
Permissions == AuthPerms \cup UserPerms \cup AuditPerms

\* permTables of internal/auth, internal/user and internal/audit; the last has
\* no entry for plain users.
permTables ==
    [auth  |-> [r \in Roles |-> IF r = "user" THEN {} ELSE AuthPerms],
     user  |-> [r \in Roles |-> IF r = "user" THEN {} ELSE UserPerms],
     audit |-> [r \in {"admin", "system"} |-> AuditPerms]]

NewAuthorizer == [r \in {} |-> {}]

\* Seeded fault: a role's entry is replaced by the service registered last.
RegisterPermissionsReplace(perms) ==
    granted' = [r \in DOMAIN granted \cup DOMAIN perms |->
                   IF r \in DOMAIN perms THEN perms[r] ELSE granted[r]]

RegisterPermissions(perms) ==
    granted' = [r \in DOMAIN granted \cup DOMAIN perms |->
                   (IF r \in DOMAIN granted THEN granted[r] ELSE {}) \cup
                   (IF r \in DOMAIN perms THEN perms[r] ELSE {})]

can(role, perms) == role \in DOMAIN granted /\ perms \subseteq granted[role]

\* The answer of a check: nil, ErrUnauthorizedPermission, or ErrCtxNotFound
\* when nothing put an actor into the context.
Require(actor, perms) ==
    IF actor = Null THEN "no_context"
    ELSE IF can(actor.role, perms) THEN "ok" ELSE "forbidden"

RequireSelfOr(actor, user, perm) ==
    IF actor = Null THEN "no_context"
    ELSE IF actor.user = user THEN "ok"
    ELSE IF can(actor.role, {perm}) THEN "ok" ELSE "forbidden"
=============================================================================
