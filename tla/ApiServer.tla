------------------------------ MODULE ApiServer ------------------------------
(***************************************************************************)
(* The life of an API process: cmd/api/main.go and cmd/api/server.go.      *)
(* main starts the server in a goroutine and waits for a signal; it then   *)
(* sleeps, runs Shutdown in another goroutine and waits for it or for the  *)
(* deadline.  Shutdown closes the listener, waits for the open requests    *)
(* and runs the hook that closes the PostgreSQL pool and the Redis client. *)
(* The requests use the pool as ConnPool says.                             *)
(* Time is in ticks; a tick waits for whatever main can do at once.        *)
(***************************************************************************)
EXTENDS ConnPool

CONSTANTS
    Null,
    Drain,   \* time.Sleep(5 s)
    Deadline \* context.WithTimeout(25 s)

ASSUME ServerAssumption == Drain \in Nat /\ Deadline \in Nat \ {0}
ASSUME NullAssumption == Null \notin {"failed", "graceful", "error", "timed out", "ok"}

VARIABLES
    main,     \* where main is
    timer,    \* ticks since the signal, or since Shutdown was called
    listener, \* "none", "open", "failed", "closed"
    shutdown, \* the Shutdown goroutine
    done,     \* what it sent on the channel: Null, "ok", "error"
    redis,
    request,  \* state of each request
    met,      \* history: requests that found the pool or Redis closed
    exit      \* how the process ended

procVars == <<main, timer, exit>>
serverVars == <<listener, shutdown, done, redis>>
reqVars == <<request, met>>
vars == <<procVars, serverVars, reqVars, poolVars>>

Running == {r \in Requests : request[r] = "running"}
Alive == exit = Null
Expired == main = "select" /\ timer >= Deadline

Init ==
    /\ main = "boot" /\ timer = 0 /\ exit = Null
    /\ listener = "none" /\ shutdown = "idle" /\ done = Null
    /\ redis = "open" /\ PoolInit
    /\ request = [r \in Requests |-> "outside"]
    /\ met = {}

\* The process ends: whatever is running is cut off.
Exit(how) ==
    /\ exit' = how
    /\ main' = "returned"
    /\ request' = [r \in Requests |-> IF r \in Running THEN "cut" ELSE request[r]]
    /\ at' = [r \in Requests |-> "handler"] /\ outcome' = [r \in Requests |-> "ok"]
    /\ conn' = {} /\ intx' = {}
    /\ UNCHANGED <<timer, serverVars, met, pool>>

-----------------------------------------------------------------------------
(* main *)

\* Configuration, pool, container and server.
Boot ==
    /\ main = "boot"
    /\ \/ main' = "wait" /\ UNCHANGED <<timer, exit, serverVars, reqVars, poolVars>>
       \/ Exit("failed")

\* The goroutine of server.Start; a Listen error is only logged.
Start(ok) ==
    /\ Alive /\ main \in {"wait", "sleep"} /\ listener = "none"
    /\ listener' = IF ok THEN "open" ELSE "failed"
    /\ UNCHANGED <<procVars, shutdown, done, redis, reqVars, poolVars>>

Signal ==
    /\ main = "wait"
    /\ main' = "sleep" /\ timer' = 0
    /\ UNCHANGED <<exit, serverVars, reqVars, poolVars>>

BeginShutdown ==
    /\ main = "sleep" /\ timer >= Drain
    /\ main' = "select" /\ timer' = 0
    /\ shutdown' = "called"
    /\ UNCHANGED <<exit, listener, done, redis, reqVars, poolVars>>

\* Seeded fault: the result of Shutdown is not looked at.
ReceiveDoneUnchecked ==
    /\ main = "select" /\ done # Null
    /\ Exit("graceful")

ReceiveDone ==
    /\ main = "select" /\ done # Null
    /\ Exit(IF done = "ok" THEN "graceful" ELSE "error")

\* Seeded fault: main waits for Shutdown alone.
ReceiveDeadlineNever == FALSE /\ Exit("timed out")

ReceiveDeadline ==
    /\ Expired
    /\ Exit("timed out")

-----------------------------------------------------------------------------
(* The Shutdown goroutine *)

\* No more connections are accepted.
CloseListener ==
    /\ Alive /\ shutdown = "called"
    /\ listener' = IF listener = "open" THEN "closed" ELSE listener
    /\ shutdown' = "draining"
    /\ UNCHANGED <<procVars, done, redis, reqVars, poolVars>>

\* Seeded fault: the open requests are not waited for.
DrainedEarly ==
    /\ Alive /\ shutdown = "draining"
    /\ shutdown' = "hook ok"
    /\ UNCHANGED <<procVars, listener, done, redis, reqVars, poolVars>>

Drained ==
    /\ Alive /\ shutdown = "draining"
    /\ Running = {}
    /\ shutdown' = "hook ok"
    /\ UNCHANGED <<procVars, listener, done, redis, reqVars, poolVars>>

GiveUp ==
    /\ Alive /\ shutdown = "draining"
    /\ Expired
    /\ shutdown' = "hook error"
    /\ UNCHANGED <<procVars, listener, done, redis, reqVars, poolVars>>

InHook == shutdown \in {"hook ok", "hook error"}

\* pgpool.Close refuses new users and waits for the connections in use.
ClosePool ==
    /\ Alive /\ InHook
    /\ \/ pool = "open" /\ pool' = "closing"
       \/ pool = "closing" /\ conn = {} /\ pool' = "closed"
    /\ UNCHANGED <<procVars, serverVars, reqVars, at, outcome, conn, intx>>

CloseRedis ==
    /\ Alive /\ InHook /\ pool = "closed"
    /\ redis' = "closed"
    /\ done' = IF shutdown = "hook ok" THEN "ok" ELSE "error"
    /\ shutdown' = "returned"
    /\ UNCHANGED <<procVars, listener, reqVars, poolVars>>

-----------------------------------------------------------------------------
(* Requests *)

Arrive(r) ==
    /\ Alive /\ listener = "open"
    /\ request[r] = "outside"
    /\ request' = [request EXCEPT ![r] = "running"]
    /\ UNCHANGED <<procVars, serverVars, met, poolVars>>

UsePool(r) ==
    /\ r \in Running
    /\ PoolStep(r)
    /\ UNCHANGED <<procVars, serverVars, reqVars>>

PoolClosed(r) ==
    /\ r \in Running
    /\ AcquireFails(r)
    /\ met' = met \cup {r}
    /\ UNCHANGED <<procVars, serverVars, request>>

UseRedis(r) ==
    /\ r \in Running /\ at[r] \in {"handler", "tx"}
    /\ redis = "closed"
    /\ met' = met \cup {r}
    /\ UNCHANGED <<procVars, serverVars, request, poolVars>>

\* The handler returns, or its panic reaches the recoverer.
Finish(r) ==
    /\ r \in Running /\ at[r] \in {"handler", "panic"}
    /\ request' = [request EXCEPT ![r] = "answered"]
    /\ at' = [at EXCEPT ![r] = "handler"]
    /\ UNCHANGED <<procVars, serverVars, met, pool, outcome, conn, intx>>

-----------------------------------------------------------------------------

\* main takes its turn before time passes on, and the Start goroutine is
\* scheduled within the drain.
Tick ==
    /\ Alive
    /\ \/ main = "sleep" /\ timer < Drain /\ listener # "none"
       \/ main = "select" /\ timer < Deadline /\ done = Null
    /\ timer' = timer + 1
    /\ UNCHANGED <<main, exit, serverVars, reqVars, poolVars>>

Main == Boot \/ BeginShutdown \/ ReceiveDone \/ ReceiveDeadline
Shutdown == CloseListener \/ Drained \/ GiveUp \/ ClosePool \/ CloseRedis
Request(r) ==
    Arrive(r) \/ UsePool(r) \/ PoolClosed(r) \/ UseRedis(r) \/ Finish(r)

Next ==
    \/ Main \/ Signal \/ Shutdown \/ Tick
    \/ \E ok \in BOOLEAN : Start(ok)
    \/ \E r \in Requests : Request(r)

Spec == Init /\ [][Next]_vars

\* main, the Start goroutine and the clock go on; Shutdown and the requests may
\* hang.
FairSpec ==
    Spec /\ WF_vars(Main) /\ WF_vars(\E ok \in BOOLEAN : Start(ok)) /\ WF_vars(Tick)

-----------------------------------------------------------------------------
(* Properties *)

\* Types; a connection is held only by a running request, and the timer stays
\* within the drain and the deadline.
TypeOK ==
    /\ main \in {"boot", "wait", "sleep", "select", "returned"}
    /\ timer \in Nat
    /\ main = "sleep" => timer <= Drain
    /\ main = "select" => timer <= Deadline
    /\ exit \in {Null, "failed", "graceful", "error", "timed out"}
    /\ listener \in {"none", "open", "failed", "closed"}
    /\ shutdown \in {"idle", "called", "draining", "hook ok", "hook error", "returned"}
    /\ done \in {Null, "ok", "error"}
    /\ redis \in {"open", "closed"} /\ pool \in {"open", "closing", "closed"}
    /\ at \in [Requests -> {"handler", "query", "busy", "acquire", "begin", "tx", "end",
                            "release", "failed", "panic"}]
    /\ outcome \in [Requests -> {"ok", "error", "panic"}]
    /\ request \in [Requests -> {"outside", "running", "answered", "cut"}]
    /\ conn \subseteq Running /\ met \subseteq Requests

\* A shutdown reported as graceful cut no request off (main's select on done
\* and on the deadline, with Shutdown's result).
GracefulMeansDrained ==
    exit = "graceful" => \A r \in Requests : request[r] # "cut"

\* A request finds the pool or Redis closed only once the deadline has passed
\* (OnPostShutdown runs after the drain).
PoolOutlivesRequests ==
    met # {} => Expired \/ exit \in {"timed out", "error"}

\* After a signal the process ends, whatever hangs (the ctx.Done branch).
ExitsAfterSignal == main = "sleep" ~> exit # Null
=============================================================================
