------------------------------ MODULE ConnPool ------------------------------
(***************************************************************************)
(* The PostgreSQL connections of the API process:                          *)
(*   internal/infrastructure/postgres/postgres.go  GetConn, Transact       *)
(* A request runs statements on connections of the pool and transactions   *)
(* on a connection it keeps, one after the other.  Acquire waits while all *)
(* connections are in use.  What the statements do to the rows is in       *)
(* AuthService, Registration and ProfilePicture; ApiServer runs these      *)
(* steps inside its requests and closes the pool.                          *)
(***************************************************************************)
EXTENDS Naturals, FiniteSets

CONSTANTS
    Requests,
    MaxConns \* cfg.Postgres.MaxConns

ASSUME PoolAssumption == IsFiniteSet(Requests) /\ MaxConns \in Nat \ {0}

VARIABLES
    pool,    \* "open", "closing", "closed"
    at,      \* where each request is in its database calls, "handler" outside
    outcome, \* of the function each Transact was given
    conn,    \* requests that hold a pool connection
    intx     \* requests whose connection has a transaction open

poolVars == <<pool, at, outcome, conn, intx>>

PoolInit ==
    /\ pool = "open"
    /\ at = [r \in Requests |-> "handler"] /\ outcome = [r \in Requests |-> "ok"]
    /\ conn = {} /\ intx = {}

Go(r, step) == at' = [at EXCEPT ![r] = step]
Waiting == {r \in Requests : at[r] \in {"query", "acquire"}}

-----------------------------------------------------------------------------
(* Statements *)

\* Seeded fault: every statement takes a connection of the pool.
GetConnPool(r) == "pool"

\* The context holds the transaction exactly inside the function of Transact.
GetConn(r) == IF at[r] = "tx" THEN "tx" ELSE "pool"

\* A repository method or Ping.  One that runs in the transaction needs nothing
\* more; on the pool it waits for a connection.
Statement(r) ==
    /\ at[r] \in {"handler", "tx"} /\ GetConn(r) = "pool"
    /\ Go(r, "query")
    /\ UNCHANGED <<pool, outcome, conn, intx>>

StatementDone(r) ==
    /\ at[r] = "busy"
    /\ Go(r, "handler") /\ conn' = conn \ {r}
    /\ UNCHANGED <<pool, outcome, intx>>

\* Only the Ping of the health check waits with a timeout.
PingTimesOut(r) ==
    /\ at[r] = "query"
    /\ Go(r, "handler")
    /\ UNCHANGED <<pool, outcome, conn, intx>>

\* pgxpool (not part of the repository): a free connection, or an error once
\* the pool is being closed.
Acquire(r) ==
    /\ r \in Waiting /\ pool = "open" /\ Cardinality(conn) < MaxConns
    /\ conn' = conn \cup {r}
    /\ Go(r, IF at[r] = "query" THEN "busy" ELSE "begin")
    /\ UNCHANGED <<pool, outcome, intx>>

AcquireFails(r) ==
    /\ r \in Waiting /\ pool # "open"
    /\ Go(r, "handler")
    /\ UNCHANGED <<pool, outcome, conn, intx>>

-----------------------------------------------------------------------------
(* Transact *)

Transact(r) ==
    /\ at[r] = "handler"
    /\ Go(r, "acquire")
    /\ UNCHANGED <<pool, outcome, conn, intx>>

BeginTx(r) ==
    /\ at[r] = "begin"
    /\ \/ Go(r, "tx") /\ intx' = intx \cup {r} /\ UNCHANGED outcome
       \/ /\ Go(r, "release") /\ outcome' = [outcome EXCEPT ![r] = "error"]
          /\ UNCHANGED intx
    /\ UNCHANGED <<pool, conn>>

\* Seeded fault: a panic passes the deferred COMMIT or ROLLBACK by.
FnReturnsUnrecovered(r, out) ==
    /\ at[r] = "tx"
    /\ Go(r, IF out = "panic" THEN "release" ELSE "end")
    /\ outcome' = [outcome EXCEPT ![r] = out]
    /\ UNCHANGED <<pool, conn, intx>>

FnReturns(r, out) ==
    /\ at[r] = "tx"
    /\ Go(r, "end")
    /\ outcome' = [outcome EXCEPT ![r] = out]
    /\ UNCHANGED <<pool, conn, intx>>

\* COMMIT or ROLLBACK, with a context of its own.  One that fails or takes too
\* long may have ended the transaction, or not.
EndTx(r, works) ==
    /\ at[r] = "end"
    /\ \/ Go(r, "release") /\ intx' = intx \ {r}
       \/ ~works /\ Go(r, "failed") /\ UNCHANGED intx
    /\ outcome' = [outcome EXCEPT ![r] = IF @ = "ok" /\ ~works THEN "error" ELSE @]
    /\ UNCHANGED <<pool, conn>>

\* The deferred Release; pgxpool destroys a connection with an open transaction,
\* and PostgreSQL rolls it back.  A panic goes on up.
Release(r) ==
    /\ at[r] \in {"release", "failed"}
    /\ conn' = conn \ {r} /\ intx' = intx \ {r}
    /\ Go(r, IF outcome[r] = "panic" THEN "panic" ELSE "handler")
    /\ outcome' = [outcome EXCEPT ![r] = "ok"]
    /\ UNCHANGED pool

PoolStep(r) ==
    \/ Statement(r) \/ StatementDone(r) \/ PingTimesOut(r) \/ Acquire(r)
    \/ Transact(r) \/ BeginTx(r)
    \/ \E out \in {"ok", "error", "panic"} : FnReturns(r, out)
    \/ \E works \in BOOLEAN : EndTx(r, works)
    \/ Release(r)

-----------------------------------------------------------------------------
(* Properties *)

\* Requests never wait for each other's connections: when all of them are in
\* use, one belongs to a request that goes on without another (GetConn inside
\* Transact).
PoolNeverStuck ==
    Waiting # {} /\ Cardinality(conn) = MaxConns => conn \ Waiting # {}

\* A transaction is over before its connection goes back, whether its function
\* returns, fails or panics; only a COMMIT or ROLLBACK that failed leaves one to
\* pgxpool.  A request that is out of Transact holds no connection (Transact's
\* deferred calls).
TransactionsClosed ==
    \A r \in Requests :
        /\ r \in intx => at[r] \in {"tx", "end", "failed"}
        /\ r \in conn => at[r] \notin {"handler", "panic"}
=============================================================================
