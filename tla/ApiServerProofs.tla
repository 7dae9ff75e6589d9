-------------------------- MODULE ApiServerProofs --------------------------
(***************************************************************************)
(* Proofs about ApiServer and ConnPool for any number of requests and of   *)
(* connections, any drain and any deadline.                                *)
(***************************************************************************)
EXTENDS ApiServer, FiniteSetTheorems, TLAPS

\* A request holds a connection only while it needs no other, and a transaction
\* only between BeginTx and the end of Transact.
HeldInv ==
    \A r \in Requests :
        /\ r \in conn => at[r] \in {"busy", "begin", "tx", "end", "release", "failed"}
        /\ r \in intx => at[r] \in {"tx", "end", "failed"}

\* How far Shutdown is tells what is closed and what it will report.
PhaseInv ==
    /\ shutdown # "idle" => main \in {"select", "returned"}
    /\ shutdown \notin {"idle", "called"} => listener # "open"
    /\ done # Null <=> shutdown = "returned"
    /\ pool # "open" => InHook \/ shutdown = "returned"
    /\ redis # "open" => shutdown = "returned"

\* Shutdown reports success only with no request left, and an error only after
\* the deadline.
ReportInv ==
    /\ shutdown = "hook ok" \/ done = "ok" => Running = {}
    /\ shutdown = "hook error" \/ done = "error" => Expired \/ exit \in {"timed out", "error"}
    /\ met # {} => shutdown = "hook error" \/ done = "error"

\* Requests are cut off by the end of the process alone.
EndInv ==
    /\ exit # Null => main = "returned"
    /\ exit = Null => \A r \in Requests : request[r] # "cut"

\* TypeOK in the parts that change together.
ProcTypes ==
    /\ main \in {"boot", "wait", "sleep", "select", "returned"}
    /\ timer \in Nat
    /\ main = "sleep" => timer <= Drain
    /\ main = "select" => timer <= Deadline
    /\ exit \in {Null, "failed", "graceful", "error", "timed out"}
ServerTypes ==
    /\ listener \in {"none", "open", "failed", "closed"}
    /\ shutdown \in {"idle", "called", "draining", "hook ok", "hook error", "returned"}
    /\ done \in {Null, "ok", "error"}
    /\ redis \in {"open", "closed"} /\ pool \in {"open", "closing", "closed"}
RequestTypes ==
    /\ request \in [Requests -> {"outside", "running", "answered", "cut"}]
    /\ conn \subseteq Running /\ met \subseteq Requests
PoolTypes ==
    /\ at \in [Requests -> {"handler", "query", "busy", "acquire", "begin", "tx", "end",
                            "release", "failed", "panic"}]
    /\ outcome \in [Requests -> {"ok", "error", "panic"}]
    /\ conn \subseteq Requests /\ intx \subseteq Requests

IInv ==
    /\ ProcTypes /\ ServerTypes /\ RequestTypes /\ PoolTypes
    /\ HeldInv /\ PhaseInv /\ ReportInv /\ EndInv /\ GracefulMeansDrained

\* The invariant holds at first.
LEMMA InitIInv == Init => IInv
<1> SUFFICES ASSUME Init PROVE IInv OBVIOUS
<1>1. ProcTypes /\ ServerTypes BY DEF Init, PoolInit, ProcTypes, ServerTypes
<1>4. RequestTypes /\ PoolTypes BY DEF Init, PoolInit, RequestTypes, PoolTypes
<1>2. HeldInv /\ PhaseInv BY DEF Init, PoolInit, HeldInv, PhaseInv
<1>3. ReportInv /\ EndInv /\ GracefulMeansDrained
  BY Zenon, NullAssumption DEF NullAssumption, Init, ReportInv, EndInv, GracefulMeansDrained
<1> QED BY <1>1, <1>2, <1>3, <1>4 DEF IInv

-----------------------------------------------------------------------------
(* Database calls *)

\* What a request's database calls keep, and that they change no connection but
\* its own and leave the pool open or closed as it is.
LEMMA PoolStepKeeps ==
    ASSUME PoolTypes, HeldInv, NEW r \in Requests, PoolStep(r) \/ AcquireFails(r)
    PROVE  PoolTypes' /\ HeldInv' /\ conn' \subseteq conn \cup {r} /\ pool' = pool
<1> USE DEF PoolTypes, HeldInv, Go
<1>1. CASE Statement(r) BY <1>1 DEF Statement, GetConn
<1>2. CASE StatementDone(r) BY <1>2 DEF StatementDone
<1>3. CASE PingTimesOut(r) BY <1>3 DEF PingTimesOut
<1>4. CASE Acquire(r) BY <1>4 DEF Acquire, Waiting
<1>5. CASE AcquireFails(r) BY <1>5 DEF AcquireFails, Waiting
<1>6. CASE Transact(r) BY <1>6 DEF Transact
<1>7. CASE BeginTx(r) BY <1>7 DEF BeginTx
<1>8. ASSUME NEW out \in {"ok", "error", "panic"}, FnReturns(r, out)
      PROVE  PoolTypes' /\ HeldInv' /\ conn' \subseteq conn \cup {r} /\ pool' = pool
  BY <1>8 DEF FnReturns
<1>9. ASSUME NEW works \in BOOLEAN, EndTx(r, works)
      PROVE  PoolTypes' /\ HeldInv' /\ conn' \subseteq conn \cup {r} /\ pool' = pool
  <2>1. outcome' \in [Requests -> {"ok", "error", "panic"}] BY <1>9 DEF EndTx
  <2>2. CASE Go(r, "release") /\ intx' = intx \ {r} BY <1>9, <2>1, <2>2 DEF EndTx
  <2>3. CASE Go(r, "failed") /\ UNCHANGED intx BY <1>9, <2>1, <2>3 DEF EndTx
  <2> QED BY <1>9, <2>2, <2>3 DEF EndTx
<1>10. CASE Release(r) BY <1>10 DEF Release
<1> HIDE DEF PoolTypes, HeldInv, Go
<1> QED BY <1>1, <1>2, <1>3, <1>4, <1>5, <1>6, <1>7, <1>8, <1>9, <1>10 DEF PoolStep

-----------------------------------------------------------------------------
(* The process *)

\* The end of the process, from a state in which main has not ended yet.
LEMMA ExitKeeps ==
    ASSUME IInv, exit = Null, NEW how \in {"failed", "graceful", "error", "timed out"}, Exit(how),
           how = "graceful" => Running = {},
           how \in {"failed", "graceful"} => shutdown # "hook error" /\ done # "error",
           how = "failed" => shutdown = "idle"
    PROVE  IInv'
<1> USE DEF IInv, Exit, serverVars
<1>1. main' = "returned" /\ exit' = how /\ how # Null BY Zenon, NullAssumption DEF NullAssumption
<1>2. Running' = {} BY Zenon DEF Running, RequestTypes
<1>3. ProcTypes' /\ ServerTypes' BY ZenonT(90), <1>1 DEF ProcTypes, ServerTypes
<1>9. RequestTypes' /\ PoolTypes' BY Zenon, <1>2 DEF RequestTypes, PoolTypes
<1>4. HeldInv' BY Zenon DEF HeldInv
<1>5. PhaseInv' BY Zenon, <1>1 DEF PhaseInv, InHook
<1>6. ReportInv' BY Zenon, <1>1, <1>2 DEF ReportInv, Expired
<1>7. EndInv' BY Zenon, <1>1 DEF EndInv
<1>8. GracefulMeansDrained'
  <2> SUFFICES ASSUME how = "graceful", NEW r \in Requests PROVE request'[r] # "cut"
    BY Zenon, <1>1 DEF GracefulMeansDrained
  <2> QED BY Zenon DEF EndInv, Running
<1> QED BY Zenon, <1>3, <1>4, <1>5, <1>6, <1>7, <1>8, <1>9

\* Every step of main keeps the invariant.
LEMMA MainKeeps == ASSUME IInv, Main \/ Signal PROVE IInv'
<1>1. exit # Null => main = "returned" BY DEF IInv, EndInv
<1>2. CASE Boot
  <2>1. main = "boot" /\ exit = Null /\ shutdown = "idle" /\ done = Null
    BY <1>1, <1>2 DEF Boot, IInv, PhaseInv
  <2>2. CASE Exit("failed") BY Zenon, NullAssumption, <2>1, <2>2, ExitKeeps DEF NullAssumption
  <2>3. CASE main' = "wait" /\ UNCHANGED <<timer, exit, serverVars, reqVars, poolVars>>
    <3> USE <2>3 DEF serverVars, reqVars, poolVars
    <3>1. ProcTypes' /\ ServerTypes' BY <2>1 DEF IInv, ProcTypes, ServerTypes
    <3>6. RequestTypes' /\ PoolTypes' BY DEF IInv, RequestTypes, PoolTypes, Running
    <3>2. HeldInv' BY DEF IInv, HeldInv
    <3>3. PhaseInv' BY <2>1 DEF IInv, PhaseInv, InHook
    <3>4. ReportInv' BY Zenon, <2>1 DEF IInv, ReportInv, Running, Expired
    <3>5. EndInv' /\ GracefulMeansDrained' BY <2>1 DEF IInv, EndInv, GracefulMeansDrained
    <3> QED BY <3>1, <3>2, <3>3, <3>4, <3>5, <3>6 DEF IInv
  <2> QED BY <1>2, <2>2, <2>3 DEF Boot
<1>3. CASE BeginShutdown \/ Signal
  <2>1. main \in {"wait", "sleep"} /\ main' \in {"sleep", "select"} /\ exit = Null /\ timer' = 0
        /\ (main' = "sleep" => shutdown' = shutdown) /\ (main' = "select" => shutdown' = "called")
        /\ UNCHANGED <<exit, listener, done, redis, reqVars, poolVars>>
    BY <1>1, <1>3 DEF BeginShutdown, Signal, serverVars
  <2>2. shutdown = "idle" /\ done = Null BY <2>1 DEF IInv, PhaseInv
  <2> USE <2>1, <2>2 DEF reqVars, poolVars
  <2>9. ProcTypes' BY ServerAssumption DEF ServerAssumption, IInv, ProcTypes
  <2>3. ServerTypes' BY Zenon DEF IInv, ServerTypes
  <2>8. RequestTypes' /\ PoolTypes' BY DEF IInv, RequestTypes, PoolTypes, Running
  <2>4. HeldInv' BY DEF IInv, HeldInv
  <2>5. PhaseInv' BY Zenon DEF IInv, PhaseInv, InHook
  <2>6. ReportInv' BY Zenon DEF IInv, ReportInv, Running, Expired
  <2>7. EndInv' /\ GracefulMeansDrained' BY DEF IInv, EndInv, GracefulMeansDrained
  <2> QED BY <2>3, <2>4, <2>5, <2>6, <2>7, <2>8, <2>9 DEF IInv
<1>4. CASE ReceiveDone
  <2>1. main = "select" /\ exit = Null /\ shutdown = "returned" /\ done \in {"ok", "error"}
    BY Zenon, <1>1, <1>4 DEF ReceiveDone, IInv, PhaseInv, ServerTypes
  <2>2. done = "ok" => Running = {} BY Zenon DEF IInv, ReportInv
  <2> QED BY Zenon, <1>4, <2>1, <2>2, ExitKeeps DEF ReceiveDone
<1>5. CASE ReceiveDeadline
  <2>1. main = "select" /\ exit = Null BY Zenon, <1>1, <1>5 DEF ReceiveDeadline, Expired
  <2> QED BY Zenon, <1>5, <2>1, ExitKeeps DEF ReceiveDeadline
<1> QED BY <1>2, <1>3, <1>4, <1>5 DEF Main

\* Every step of the Shutdown goroutine keeps the invariant.
LEMMA ShutdownKeeps == ASSUME IInv, Shutdown PROVE IInv'
<1>1. Alive /\ UNCHANGED <<procVars, reqVars, at, outcome, conn, intx>>
  BY Zenon DEF Shutdown, CloseListener, Drained, GiveUp, ClosePool, CloseRedis, poolVars
<1> USE <1>1 DEF procVars, reqVars
<1>2. ProcTypes' /\ RequestTypes' /\ PoolTypes' /\ HeldInv'
  BY Zenon DEF IInv, ProcTypes, RequestTypes, PoolTypes, HeldInv, Running
<1>3. EndInv' /\ GracefulMeansDrained' BY DEF IInv, EndInv, GracefulMeansDrained
<1>4. Running' = Running /\ (Expired' <=> Expired) BY DEF Running, Expired
<1>5. CASE CloseListener
  <2> USE <1>5 DEF CloseListener, poolVars
  <2>1. ServerTypes' BY DEF IInv, ServerTypes
  <2>2. PhaseInv' BY DEF IInv, PhaseInv, InHook, ServerTypes
  <2>3. ReportInv' BY Zenon, <1>4 DEF IInv, ReportInv
  <2> QED BY <1>2, <1>3, <2>1, <2>2, <2>3 DEF IInv
<1>6. CASE Drained
  <2> USE <1>6 DEF Drained, poolVars
  <2>1. ServerTypes' BY Zenon DEF IInv, ServerTypes
  <2>2. PhaseInv' BY Zenon DEF IInv, PhaseInv, InHook
  <2>3. ReportInv' BY Zenon, <1>4 DEF IInv, ReportInv
  <2> QED BY Zenon, <1>2, <1>3, <2>1, <2>2, <2>3 DEF IInv
<1>7. CASE GiveUp
  <2> USE <1>7 DEF GiveUp, poolVars
  <2>1. ServerTypes' BY Zenon DEF IInv, ServerTypes
  <2>2. PhaseInv' BY Zenon DEF IInv, PhaseInv, InHook
  <2>3. ReportInv' BY Zenon, <1>4 DEF IInv, ReportInv, PhaseInv
  <2> QED BY Zenon, <1>2, <1>3, <2>1, <2>2, <2>3 DEF IInv
<1>8. CASE ClosePool
  <2> USE <1>8 DEF ClosePool, serverVars
  <2>1. ServerTypes' BY Zenon DEF IInv, ServerTypes
  <2>2. PhaseInv' BY Zenon DEF IInv, PhaseInv, InHook
  <2>3. ReportInv' BY Zenon, <1>4 DEF IInv, ReportInv
  <2> QED BY <1>2, <1>3, <2>1, <2>2, <2>3 DEF IInv
<1>9. CASE CloseRedis
  <2> USE <1>9 DEF CloseRedis, poolVars, InHook
  <2>1. ServerTypes' BY Zenon DEF IInv, ServerTypes
  <2>2. PhaseInv' BY Zenon, NullAssumption DEF NullAssumption, IInv, PhaseInv
  <2>3. ReportInv' BY Zenon, NullAssumption, <1>4 DEF NullAssumption, IInv, ReportInv, PhaseInv
  <2> QED BY Zenon, <1>2, <1>3, <2>1, <2>2, <2>3 DEF IInv
<1> QED BY <1>5, <1>6, <1>7, <1>8, <1>9 DEF Shutdown

\* A tick does not step over a limit, nor back before one.
LEMMA TimerStep ==
    ASSUME NEW t \in Nat
    PROVE  t + 1 \in Nat /\ \A d \in Nat : (t < d => t + 1 <= d) /\ (t >= d => t + 1 >= d)
  OBVIOUS

\* Time and the Start goroutine keep the invariant.
LEMMA ClockKeeps == ASSUME IInv, Tick \/ \E ok \in BOOLEAN : Start(ok) PROVE IInv'
<1>1. UNCHANGED <<main, exit, shutdown, done, redis, reqVars, poolVars>>
  BY DEF Tick, Start, procVars, serverVars
<1> USE <1>1 DEF reqVars, poolVars
<1>2. RequestTypes' /\ PoolTypes' /\ HeldInv'
  BY DEF IInv, RequestTypes, PoolTypes, HeldInv, Running
<1>3. EndInv' /\ GracefulMeansDrained' BY DEF IInv, EndInv, GracefulMeansDrained
<1>4. Running' = Running BY DEF Running
<1>5. CASE Tick
  <2>5. timer \in Nat /\ timer' = timer + 1 /\ main' = main /\ exit' = exit
    BY Zenon, <1>5 DEF Tick, IInv, ProcTypes
  <2>6. timer + 1 \in Nat /\ \A d \in Nat : (timer < d => timer + 1 <= d) /\ (timer >= d => timer + 1 >= d)
    BY <2>5, TimerStep
  <2>7. (main = "sleep" => timer < Drain) /\ (main = "select" => timer < Deadline)
    BY <1>5 DEF Tick
  <2>8. (main = "sleep" => timer + 1 <= Drain) /\ (main = "select" => timer + 1 <= Deadline)
    BY ServerAssumption, <2>6, <2>7 DEF ServerAssumption
  <2>1. ProcTypes' BY Zenon, <2>5, <2>6, <2>8 DEF IInv, ProcTypes
  <2>2. ServerTypes' /\ PhaseInv' BY Zenon, <1>5 DEF Tick, IInv, ServerTypes, PhaseInv, InHook, serverVars
  <2>3. Expired => Expired' BY ServerAssumption, <2>5, <2>6 DEF ServerAssumption, Expired
  <2>4. ReportInv' BY Zenon, <1>4, <2>3 DEF IInv, ReportInv
  <2> QED BY <1>2, <1>3, <2>1, <2>2, <2>4 DEF IInv
<1>6. ASSUME NEW ok \in BOOLEAN, Start(ok) PROVE IInv'
  <2>1. main \in {"wait", "sleep"} /\ timer' = timer /\ listener' \in {"open", "failed"}
    BY <1>6 DEF Start, procVars
  <2>2. ProcTypes' /\ ServerTypes' BY ZenonT(90), <2>1 DEF IInv, ProcTypes, ServerTypes
  <2>3. PhaseInv' BY Zenon, <2>1 DEF IInv, PhaseInv, InHook
  <2>4. ReportInv' BY Zenon, <1>4, <2>1 DEF IInv, ReportInv, Expired
  <2> QED BY <1>2, <1>3, <2>2, <2>3, <2>4 DEF IInv
<1> QED BY <1>5, <1>6

-----------------------------------------------------------------------------
(* Requests *)

\* A request that is running when the pool or Redis is closed runs after the
\* deadline: the drain was given up.
LEMMA ClosedIsLate ==
    ASSUME IInv, Running # {}, pool # "open" \/ redis # "open"
    PROVE  shutdown = "hook error" \/ done = "error"
  BY Zenon DEF IInv, PhaseInv, ReportInv, InHook, ServerTypes

\* Every step of a request keeps the invariant.
LEMMA RequestKeeps == ASSUME IInv, NEW r \in Requests, Request(r) PROVE IInv'
<1>1. UNCHANGED <<procVars, serverVars>> /\ pool' = pool
  <2>1. CASE UsePool(r) BY <2>1, PoolStepKeeps DEF UsePool, IInv
  <2>2. CASE PoolClosed(r) BY <2>2, PoolStepKeeps DEF PoolClosed, IInv
  <2> QED BY <2>1, <2>2 DEF Request, Arrive, UseRedis, Finish, poolVars
<1> USE <1>1 DEF procVars, serverVars
<1>2. ProcTypes' /\ ServerTypes' /\ PhaseInv' BY ZenonT(90) DEF IInv, ProcTypes, ServerTypes, PhaseInv, InHook
<1>3. Expired' <=> Expired BY DEF Expired
<1>4. CASE Arrive(r)
  <2>1. Running' = Running \cup {r} BY <1>4 DEF Arrive, Running, IInv, RequestTypes
  <2>2. RequestTypes' BY <1>4, <2>1 DEF Arrive, IInv, RequestTypes, poolVars
  <2>3. PoolTypes' /\ HeldInv' BY <1>4 DEF Arrive, IInv, PoolTypes, HeldInv, poolVars
  <2>4. shutdown # "hook ok" /\ done # "ok" BY Zenon, NullAssumption, <1>4 DEF NullAssumption, Arrive, IInv, PhaseInv
  <2>5. ReportInv' BY Zenon, <1>3, <1>4, <2>4 DEF Arrive, IInv, ReportInv
  <2>6. EndInv' /\ GracefulMeansDrained'
    BY <1>4 DEF Arrive, Alive, IInv, EndInv, GracefulMeansDrained, RequestTypes
  <2> QED BY <1>2, <2>2, <2>3, <2>5, <2>6 DEF IInv
<1>5. CASE UsePool(r) \/ PoolClosed(r)
  <2>1. r \in Running /\ (PoolStep(r) \/ AcquireFails(r)) /\ request' = request
    BY <1>5 DEF UsePool, PoolClosed, reqVars
  <2>2. PoolTypes' /\ HeldInv' /\ conn' \subseteq conn \cup {r} BY <2>1, PoolStepKeeps DEF IInv
  <2>3. Running' = Running BY <2>1 DEF Running
  <2>4. met' = met \/ (pool # "open" /\ met' = met \cup {r})
    BY <1>5 DEF UsePool, PoolClosed, AcquireFails, reqVars
  <2>5. RequestTypes' BY <2>1, <2>2, <2>3, <2>4 DEF IInv, RequestTypes
  <2>6. ReportInv' BY Zenon, <1>3, <2>1, <2>3, <2>4, ClosedIsLate DEF IInv, ReportInv
  <2>7. EndInv' /\ GracefulMeansDrained' BY <2>1 DEF IInv, EndInv, GracefulMeansDrained
  <2> QED BY <1>2, <2>2, <2>5, <2>6, <2>7 DEF IInv
<1>6. CASE UseRedis(r)
  <2>1. r \in Running /\ redis # "open" /\ met' = met \cup {r} /\ UNCHANGED <<request, poolVars>>
    BY <1>6 DEF UseRedis
  <2>2. Running' = Running BY <2>1 DEF Running
  <2>3. RequestTypes' BY <2>1, <2>2 DEF IInv, RequestTypes, poolVars
  <2>4. PoolTypes' /\ HeldInv' BY <2>1 DEF IInv, PoolTypes, HeldInv, poolVars
  <2>5. ReportInv' BY Zenon, <1>3, <2>1, <2>2, ClosedIsLate DEF IInv, ReportInv
  <2>6. EndInv' /\ GracefulMeansDrained' BY <2>1 DEF IInv, EndInv, GracefulMeansDrained
  <2> QED BY <1>2, <2>3, <2>4, <2>5, <2>6 DEF IInv
<1>7. CASE Finish(r)
  <2>1. Running' = Running \ {r} BY <1>7 DEF Finish, Running, IInv, RequestTypes
  <2>2. r \notin conn BY <1>7 DEF Finish, IInv, HeldInv
  <2>3. RequestTypes' BY <1>7, <2>1, <2>2 DEF Finish, IInv, RequestTypes
  <2>4. PoolTypes' BY <1>7 DEF Finish, IInv, PoolTypes
  <2>5. HeldInv' BY <1>7 DEF Finish, IInv, HeldInv, PoolTypes
  <2>6. ReportInv' BY Zenon, <1>3, <1>7, <2>1 DEF Finish, IInv, ReportInv
  <2>7. EndInv' /\ GracefulMeansDrained'
    BY <1>7 DEF Finish, IInv, EndInv, GracefulMeansDrained, RequestTypes
  <2> QED BY <1>2, <2>3, <2>4, <2>5, <2>6, <2>7 DEF IInv
<1> QED BY <1>4, <1>5, <1>6, <1>7 DEF Request

-----------------------------------------------------------------------------
(* The theorems *)

\* Every step keeps the invariant.
LEMMA NextKeeps == IInv /\ [Next]_vars => IInv'
<1> SUFFICES ASSUME IInv, [Next]_vars PROVE IInv' OBVIOUS
<1>1. CASE Next BY <1>1, MainKeeps, ShutdownKeeps, ClockKeeps, RequestKeeps DEF Next
<1>2. CASE UNCHANGED vars
  <2> USE <1>2 DEF vars, procVars, serverVars, reqVars, poolVars, IInv
  <2>1. ProcTypes' BY Zenon DEF ProcTypes
  <2>6. ServerTypes' BY Zenon DEF ServerTypes
  <2>2. RequestTypes' /\ PoolTypes' BY DEF RequestTypes, PoolTypes, Running
  <2>3. HeldInv' /\ PhaseInv' BY Zenon DEF HeldInv, PhaseInv, InHook
  <2>4. ReportInv' BY Zenon DEF ReportInv, Running, Expired
  <2>5. EndInv' /\ GracefulMeansDrained' BY DEF EndInv, GracefulMeansDrained
  <2> QED BY <2>1, <2>2, <2>3, <2>4, <2>5, <2>6
<1> QED BY <1>1, <1>2

LEMMA Invariant == Spec => []IInv
  BY InitIInv, NextKeeps, PTL DEF Spec

\* The variables keep their types, and only running requests hold connections.
THEOREM Typed == Spec => []TypeOK
<1>1. IInv => TypeOK BY Zenon DEF IInv, ProcTypes, ServerTypes, RequestTypes, PoolTypes, TypeOK
<1> QED BY <1>1, Invariant, PTL

\* Requests never wait for each other's connections: a holder never waits, as
\* GetConn gives the statements of a transaction its own connection.
THEOREM PoolIsNeverStuck == Spec => []PoolNeverStuck
<1>1. IInv => PoolNeverStuck
  <2> SUFFICES ASSUME IInv, Cardinality(conn) = MaxConns PROVE conn \ Waiting # {}
    BY DEF PoolNeverStuck
  <2>1. conn # {} BY PoolAssumption, FS_EmptySet DEF PoolAssumption
  <2>2. \A r \in conn : r \notin Waiting BY DEF IInv, PoolTypes, HeldInv, Waiting
  <2> QED BY <2>1, <2>2
<1> QED BY <1>1, Invariant, PTL

\* No transaction outlives its Transact, panics included, unless its COMMIT or
\* ROLLBACK failed; no connection is kept after it.
THEOREM TransactionsAreClosed == Spec => []TransactionsClosed
<1>1. IInv => TransactionsClosed BY DEF IInv, HeldInv, TransactionsClosed
<1> QED BY <1>1, Invariant, PTL

\* A shutdown that main reports as graceful cut no request off.
THEOREM GracefulIsDrained == Spec => []GracefulMeansDrained
<1>1. IInv => GracefulMeansDrained BY DEF IInv
<1> QED BY <1>1, Invariant, PTL

\* No request finds the pool or Redis closed before the deadline.
THEOREM PoolsOutliveRequests == Spec => []PoolOutlivesRequests
<1>1. IInv => PoolOutlivesRequests BY Zenon DEF IInv, ReportInv, PoolOutlivesRequests
<1> QED BY <1>1, Invariant, PTL
=============================================================================
