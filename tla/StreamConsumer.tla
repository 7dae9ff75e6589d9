--------------------------- MODULE StreamConsumer ---------------------------
(***************************************************************************)
(* The Redis-stream consumer of the mail worker, with the process that     *)
(* hosts it:                                                               *)
(*   internal/infrastructure/redis/stream_consumer.go  (the consumer)      *)
(*   internal/infrastructure/redis/stream_producer.go  (XADD)              *)
(*   cmd/worker/main.go                                (process lifetime)  *)
(*   internal/worker/auth_worker.go, pkg/mailer        (what handlers do)  *)
(*                                                                         *)
(* One stream, one consumer group, one worker process that may stop and    *)
(* start again.  Redis keeps the stream, the group's cursor, the pending   *)
(* entries list (PEL) with its delivery counters, the dedup keys and the   *)
(* dead-letter stream; all of that survives the process.  Every Redis      *)
(* command is one atomic step, and the code between two commands belongs   *)
(* to the step of the command before it.                                   *)
(***************************************************************************)
EXTENDS Naturals, FiniteSets

CONSTANTS
    MaxMsgs,      \* bound: entries ever added to the stream
    Slots,        \* the semaphore's slots: cfg.Concurrency of them
    BatchSize,    \* cfg.BatchSize
    MaxRetries,   \* cfg.MaxRetries
    UseDLQ,       \* cfg.UseDLQ
    Undecodable,  \* entries whose payload decodeMessage rejects
    Env,          \* which environment events this instance allows
    MaxEvents     \* bound: environment events in one behaviour

(***************************************************************************)
(* Environment events.                                                     *)
(*   crash       the process dies (SIGKILL, OOM)                           *)
(*   shutdown    SIGTERM: the context every consumer runs under is         *)
(*               cancelled (main.go 48-53, 86)                             *)
(*   redis_error a Redis command reports an error; the server may or may   *)
(*               not have applied it                                       *)
(*   set_retry   the client library repeats SET NX after a lost reply and  *)
(*               so sees its own key (no MaxRetries in main.go 40-44)      *)
(*   slow        a handler outlasts MinIdle, or shutdownTimeout            *)
(*   mail_late   Mailer.Send gives up at its timeout, the abandoned        *)
(*               goroutine still delivers (mailer.go 65-70)                *)
(***************************************************************************)
EnvEvents == {"crash", "shutdown", "redis_error", "set_retry", "slow", "mail_late"}

ASSUME ConfigAssumption ==
    /\ MaxMsgs \in Nat
    /\ BatchSize \in Nat \ {0}
    /\ MaxRetries \in Nat \ {0}
    /\ UseDLQ \in BOOLEAN
    /\ Undecodable \subseteq 1..MaxMsgs
    /\ Env \subseteq EnvEvents
    /\ MaxEvents \in Nat

Msgs == 1..MaxMsgs          \* stream entries, in ID order

VARIABLES
    \* Redis
    added,      \* entries 1..added are in the stream
    group,      \* does the consumer group exist?
    cursor,     \* the group's last-delivered ID
    pel,        \* delivery counter of each pending entry, 0 when not pending
    idle,       \* pending entries idle for at least MinIdle
    dedup,      \* entries whose dedup key exists
    dlq,        \* entries copied to the dead-letter stream
    \* the worker process
    loop,       \* where Start is
    batch,      \* entries fetched and not yet dispatched
    scan,       \* claimPending's cursor
    cancelled,  \* is the consumers' context cancelled?
    hs,         \* the handle goroutine in each semaphore slot
    events,     \* environment events so far
    \* history
    skipped,    \* entries older than the group: "$" never delivers them
    done,       \* entries some handler finished successfully
    mails,      \* mails that left for each entry
    leaked,     \* entries whose dedup key outlived an unfinished handler
    overtaken,  \* entries reclaimed while a handler still had them
    exposed     \* entries handled without a claim, or mailed by a send reported failed

redisVars == <<added, group, cursor, pel, idle, dedup, dlq>>
procVars  == <<loop, batch, scan, cancelled, hs>>
histVars  == <<skipped, done, mails, leaked, overtaken, exposed>>
vars == <<added, group, cursor, pel, idle, dedup, dlq, loop, batch, scan,
          cancelled, hs, events, skipped, done, mails, leaked, overtaken, exposed>>

HandlerPC == {"free", "claim", "run", "release", "recover", "decide", "dead", "ack"}
LoopPC    == {"down", "top", "reclaim", "redispatch", "read", "dispatch",
              "drain", "returned"}

NoMsg   == 0
Free    == [pc |-> "free", msg |-> NoMsg]
Busy(m) == \E s \in Slots : hs[s].msg = m

Pending   == {m \in Msgs : pel[m] > 0}
Delivered == (1..cursor) \ skipped

\* The first n elements of S in ID order: what COUNT n returns.
FirstOf(S, n) == {m \in S : Cardinality({k \in S : k < m}) < n}

\* An environment event e happens now.
Event(e) ==
    /\ e \in Env
    /\ events < MaxEvents
    /\ events' = events + 1

Step(s, pc) == hs' = [hs EXCEPT ![s].pc = pc]

\* Seeded fault: a handler that returns without giving its slot back.
FinishLeaksSlot(s) == UNCHANGED hs

Finish(s) == hs' = [hs EXCEPT ![s] = Free]      \* defer func() { <-sem }()

Init ==
    /\ added = 0
    /\ group = FALSE
    /\ cursor = 0
    /\ pel = [m \in Msgs |-> 0]
    /\ idle = {}
    /\ dedup = {}
    /\ dlq = {}
    /\ loop = "down"
    /\ batch = {}
    /\ scan = 1
    /\ cancelled = FALSE
    /\ hs = [s \in Slots |-> Free]
    /\ events = 0
    /\ skipped = {}
    /\ done = {}
    /\ mails = [m \in Msgs |-> 0]
    /\ leaked = {}
    /\ overtaken = {}
    /\ exposed = {}

-----------------------------------------------------------------------------
(* Producer and clock *)

\* produceStream: XADD of one envelope with a fresh ID.
Produce ==
    /\ added < MaxMsgs
    /\ added' = added + 1
    /\ UNCHANGED <<group, cursor, pel, idle, dedup, dlq, procVars, events, histVars>>

\* A pending entry reaches MinIdle.  Without "slow" no handler, and no wait
\* for a slot, takes that long.
GrowIdle(m) ==
    /\ m \in Pending \ idle
    /\ "slow" \in Env \/ (m \notin batch /\ ~Busy(m))
    /\ idle' = idle \cup {m}
    /\ UNCHANGED <<added, group, cursor, pel, dedup, dlq, procVars, events, histVars>>

-----------------------------------------------------------------------------
(* The process: cmd/worker *)

\* run and Start up to the loop: ensureGroup creates the group at "$" or
\* finds it (BUSYGROUP).
StartConsumer ==
    /\ loop = "down"
    /\ group' = TRUE
    /\ cursor' = IF group THEN cursor ELSE added
    /\ skipped' = IF group THEN skipped ELSE 1..added
    /\ loop' = "top"
    /\ UNCHANGED <<added, pel, idle, dedup, dlq, batch, scan, cancelled, hs,
                   events, done, mails, leaked, overtaken, exposed>>

\* The process is gone: goroutines and fetched batches vanish, the dedup keys
\* of the handlers that were running stay in Redis.
ProcessGone ==
    /\ loop' = "down"
    /\ batch' = {}
    /\ scan' = 1
    /\ cancelled' = FALSE
    /\ hs' = [s \in Slots |-> Free]
    /\ leaked' = leaked \cup
           {m \in dedup \ done : \E s \in Slots : hs[s].msg = m /\ hs[s].pc \in {"run", "release", "recover"}}
    /\ UNCHANGED <<redisVars, skipped, done, mails, overtaken, exposed>>

Crash ==
    /\ loop # "down"
    /\ Event("crash")
    /\ ProcessGone

\* SIGTERM, or another consumer of the errgroup failing.
Cancel ==
    /\ loop # "down"
    /\ ~cancelled
    /\ Event("shutdown")
    /\ cancelled' = TRUE
    /\ UNCHANGED <<redisVars, loop, batch, scan, hs, histVars>>

\* waitForShutdown: Start has returned, so main returns and the process ends.
Exit ==
    /\ loop = "returned"
    /\ ProcessGone
    /\ UNCHANGED events

\* waitForShutdown: shutdownTimeout passed first.
ExitTimeout ==
    /\ cancelled
    /\ loop # "returned"
    /\ "slow" \in Env
    /\ ProcessGone
    /\ UNCHANGED events

-----------------------------------------------------------------------------
(* The loop of Start *)

\* case <-ctx.Done(): return at once, whatever the handlers are doing.
LoopDone ==
    /\ loop = "top"
    /\ cancelled
    /\ loop' = "returned"
    /\ UNCHANGED <<redisVars, batch, scan, cancelled, hs, events, histVars>>

\* case <-claimTicker.C: a ready ticker may win the select over ctx.Done().
LoopTick ==
    /\ loop = "top"
    /\ loop' = "reclaim"
    /\ scan' = 1
    /\ UNCHANGED <<redisVars, batch, cancelled, hs, events, histVars>>

\* default: neither the context nor the ticker is ready.
LoopDefault ==
    /\ loop = "top"
    /\ ~cancelled
    /\ loop' = "read"
    /\ UNCHANGED <<redisVars, batch, scan, cancelled, hs, events, histVars>>

\* XREADGROUP ">": up to COUNT new entries become pending with counter 1.
Deliver(upto) ==
    /\ cursor' = upto
    /\ pel' = [m \in Msgs |-> IF cursor < m /\ m <= upto THEN 1 ELSE pel[m]]

XReadGroup ==
    LET upto == IF cursor + BatchSize < added THEN cursor + BatchSize ELSE added
    IN  /\ loop = "read"
        /\ \/ \* entries, or redis.Nil after Block; cancelling the context does
              \* not interrupt a call already in flight
              /\ Deliver(upto)
              /\ batch' = (cursor + 1)..upto
              /\ loop' = IF upto = cursor THEN "top" ELSE "dispatch"
              /\ UNCHANGED events
           \/ \* the call fails on the cancelled context: log, sleep, continue
              /\ cancelled
              /\ loop' = "top"
              /\ UNCHANGED <<cursor, pel, batch, events>>
           \/ \* an error, even one whose command Redis executed all the same
              /\ Event("redis_error")
              /\ Deliver(upto) \/ UNCHANGED <<cursor, pel>>
              /\ loop' = "top"
              /\ UNCHANGED batch
        /\ UNCHANGED <<added, group, idle, dedup, dlq, scan, cancelled, hs, histVars>>

\* for _, m := range ...: sem <- struct{}{}; go c.handle(ctx, m, sem).
\* Both loops dispatch alike; they differ in what a cancelled context does.
Dispatch(s) ==
    /\ loop \in {"dispatch", "redispatch"}
    /\ hs[s].pc = "free"
    /\ \E m \in batch :
          /\ \A k \in batch : m <= k
          /\ batch' = batch \ {m}
          /\ hs' = [hs EXCEPT ![s] =
                       [pc |-> IF m \in Undecodable THEN "dead" ELSE "claim", msg |-> m]]
    /\ UNCHANGED <<redisVars, loop, scan, cancelled, events, histVars>>

\* claimPending returns to XReadGroup, which an already cancelled context
\* fails at once: log, sleep, continue.
ClaimReturns == IF cancelled THEN "top" ELSE "read"

Dispatched ==
    /\ batch = {}
    /\ \/ loop = "dispatch" /\ loop' = "top"
       \/ loop = "redispatch" /\ loop' = IF scan = 0 THEN ClaimReturns ELSE "reclaim"
    /\ UNCHANGED <<redisVars, batch, scan, cancelled, hs, events, histVars>>

\* Start's dispatch loop waits for its handlers, claimPending just returns.
DispatchDone ==
    /\ batch # {}
    /\ cancelled
    /\ \/ loop = "dispatch" /\ loop' = "drain"
       \/ loop = "redispatch" /\ loop' = ClaimReturns
    /\ batch' = {}
    /\ UNCHANGED <<redisVars, scan, cancelled, hs, events, histVars>>

\* Filling the semaphore succeeds once every handler has left its slot.
Drained ==
    /\ loop = "drain"
    /\ \A s \in Slots : hs[s].pc = "free"
    /\ loop' = "returned"
    /\ UNCHANGED <<redisVars, batch, scan, cancelled, hs, events, histVars>>

\* XAUTOCLAIM re-delivers up to COUNT idle entries from the cursor on: their
\* counters grow and their idle time restarts.
Redeliver(found) ==
    /\ pel' = [m \in Msgs |-> IF m \in found THEN pel[m] + 1 ELSE pel[m]]
    /\ idle' = idle \ found

\* The next cursor is 0 when the scan has reached the end of the PEL.
XAutoClaim ==
    LET found == FirstOf({m \in idle : m >= scan}, BatchSize)
        rest  == {m \in Pending : \A k \in found : m > k}
    IN  /\ loop = "reclaim"
        /\ \/ /\ ~cancelled
              /\ Redeliver(found)
              /\ batch' = found
              /\ IF Cardinality(found) < BatchSize \/ rest = {}
                 THEN scan' = 0
                 ELSE scan' \in rest /\ \A k \in rest : scan' <= k
              /\ overtaken' = overtaken \cup {m \in found : Busy(m)}
              /\ loop' = "redispatch"
              /\ UNCHANGED events
           \/ \* the call fails on the cancelled context: claimPending returns
              /\ cancelled
              /\ loop' = ClaimReturns
              /\ UNCHANGED <<pel, idle, batch, scan, overtaken, events>>
           \/ /\ Event("redis_error")
              /\ Redeliver(found) \/ UNCHANGED <<pel, idle>>
              /\ loop' = ClaimReturns
              /\ UNCHANGED <<batch, scan, overtaken>>
        /\ UNCHANGED <<added, group, cursor, dedup, dlq, cancelled, hs,
                       skipped, done, mails, leaked, exposed>>

-----------------------------------------------------------------------------
(* handle: one goroutine per slot *)

\* Seeded fault: a duplicate is only logged, and handled again.
ClaimDedupRunsDuplicate(s) ==
    /\ hs[s].pc = "claim"
    /\ dedup' = dedup \cup {hs[s].msg}
    /\ Step(s, "run")
    /\ UNCHANGED <<added, group, cursor, pel, idle, dlq, loop, batch, scan,
                   cancelled, events, histVars>>

\* SET key NX: redis.Nil means duplicate, any other error means "process
\* anyway".  On a cancelled context the command is not even sent.
ClaimDedup(s) ==
    LET m == hs[s].msg
    IN  /\ hs[s].pc = "claim"
        /\ \/ /\ ~cancelled /\ m \notin dedup
              /\ dedup' = dedup \cup {m}
              /\ Step(s, "run")
              /\ UNCHANGED <<events, leaked, exposed>>
           \/ /\ ~cancelled /\ m \in dedup
              /\ Step(s, "ack")
              /\ UNCHANGED <<dedup, events, leaked, exposed>>
           \/ /\ cancelled
              /\ exposed' = exposed \cup {m}
              /\ Step(s, "run")
              /\ UNCHANGED <<dedup, events, leaked>>
           \/ /\ Event("redis_error")
              /\ dedup' \in {dedup, dedup \cup {m}}
              /\ exposed' = exposed \cup {m}
              /\ Step(s, "run")
              /\ UNCHANGED leaked
           \/ /\ m \notin dedup
              /\ Event("set_retry")
              /\ dedup' = dedup \cup {m}
              /\ leaked' = leaked \cup {m}
              /\ Step(s, "ack")
              /\ UNCHANGED exposed
        /\ UNCHANGED <<added, group, cursor, pel, idle, dlq, loop, batch, scan,
                       cancelled, skipped, done, mails, overtaken>>

Sent(m) == mails' = [mails EXCEPT ![m] = @ + 1]

\* c.handler(ctx, env): render and Mailer.Send.
RunHandler(s) ==
    LET m == hs[s].msg
    IN  /\ hs[s].pc = "run"
        /\ \/ \* nil
              /\ done' = done \cup {m}
              /\ Sent(m)
              /\ Step(s, "ack")
              /\ UNCHANGED <<events, exposed>>
           \/ \* an error
              /\ Step(s, "release")
              /\ UNCHANGED <<done, mails, events, exposed>>
           \/ \* ErrSendTimeout, and the mail leaves after all
              /\ Event("mail_late")
              /\ Sent(m)
              /\ exposed' = exposed \cup {m}
              /\ Step(s, "release")
              /\ UNCHANGED done
           \/ \* a panic, caught by the deferred recover
              /\ Step(s, "recover")
              /\ UNCHANGED <<done, mails, events, exposed>>
        /\ UNCHANGED <<redisVars, loop, batch, scan, cancelled, skipped, leaked, overtaken>>

\* DEL key on the handler's own context, after an error or a panic.  A failed
\* DEL is logged and ignored.
ReleaseDedup(s) ==
    LET m == hs[s].msg
    IN  /\ hs[s].pc \in {"release", "recover"}
        /\ \/ /\ ~cancelled
              /\ dedup' = dedup \ {m}
              /\ UNCHANGED events
           \/ /\ cancelled
              /\ UNCHANGED <<dedup, events>>
           \/ /\ Event("redis_error")
              /\ dedup' \in {dedup, dedup \ {m}}
        /\ leaked' = leaked \cup ({m} \cap (dedup' \ done))
        /\ Step(s, IF hs[s].pc = "release" THEN "decide" ELSE "dead")
        /\ UNCHANGED <<added, group, cursor, pel, idle, dlq, loop, batch, scan,
                       cancelled, skipped, done, mails, overtaken, exposed>>

\* Seeded fault: deliveryCount reports the retries, not the deliveries.
deliveryCountOffByOne(m, failed) == IF failed \/ pel[m] = 0 THEN 1 ELSE pel[m] - 1

\* XPENDING's counter; 1 when the call fails or the entry is not pending.
deliveryCount(m, failed) == IF failed \/ pel[m] = 0 THEN 1 ELSE pel[m]

DecideRetry(s) ==
    /\ hs[s].pc = "decide"
    /\ \E failed \in BOOLEAN :
          /\ IF failed /\ ~cancelled THEN Event("redis_error") ELSE UNCHANGED events
          /\ cancelled => failed
          /\ IF deliveryCount(hs[s].msg, failed) >= MaxRetries
             THEN Step(s, "dead")
             ELSE Finish(s)
    /\ UNCHANGED <<redisVars, loop, batch, scan, cancelled, histVars>>

\* Seeded fault: the caller acks whatever the dead-letter write returned.
toDLQIgnoresError(s) ==
    /\ hs[s].pc = "dead"
    /\ \/ dlq' = dlq \cup {hs[s].msg} /\ UNCHANGED events
       \/ dlq' = dlq /\ Event("redis_error")
    /\ Step(s, "ack")
    /\ UNCHANGED <<added, group, cursor, pel, idle, dedup, loop, batch, scan,
                   cancelled, histVars>>

\* toDLQ, on a context that is never cancelled; a failed write skips the ack.
toDLQ(s) ==
    LET m == hs[s].msg
    IN  /\ hs[s].pc = "dead"
        /\ \/ /\ dlq' = IF UseDLQ THEN dlq \cup {m} ELSE dlq
              /\ Step(s, "ack")
              /\ UNCHANGED events
           \/ /\ UseDLQ
              /\ Event("redis_error")
              /\ dlq' \in {dlq, dlq \cup {m}}
              /\ Finish(s)
        /\ UNCHANGED <<added, group, cursor, pel, idle, dedup, loop, batch, scan,
                       cancelled, histVars>>

\* ack, on a context that is never cancelled; a failed XACK is only logged.
Ack(s) ==
    LET m == hs[s].msg
    IN  /\ hs[s].pc = "ack"
        /\ \/ /\ pel' = [pel EXCEPT ![m] = 0]
              /\ idle' = idle \ {m}
              /\ UNCHANGED events
           \/ /\ Event("redis_error")
              /\ UNCHANGED <<pel, idle>>
        /\ Finish(s)
        /\ UNCHANGED <<added, group, cursor, dedup, dlq, loop, batch, scan,
                       cancelled, histVars>>

-----------------------------------------------------------------------------
Handle(s) ==
    \/ ClaimDedup(s) \/ RunHandler(s) \/ ReleaseDedup(s)
    \/ DecideRetry(s) \/ toDLQ(s) \/ Ack(s)

LoopStep ==
    \/ LoopDone \/ LoopTick \/ LoopDefault \/ XReadGroup \/ XAutoClaim
    \/ (\E s \in Slots : Dispatch(s)) \/ Dispatched \/ DispatchDone \/ Drained

Next ==
    \/ Produce
    \/ \E m \in Msgs : GrowIdle(m)
    \/ StartConsumer \/ Crash \/ Cancel \/ Exit \/ ExitTimeout
    \/ LoopStep
    \/ \E s \in Slots : Handle(s)

Spec == Init /\ [][Next]_vars

\* The scheduler runs every runnable goroutine, handlers are bounded by the
\* mailer's and the client's timeouts, time passes, the supervisor restarts the
\* worker, a ready ticker is preferred to the default branch, and the ticker is
\* not ready every time the loop looks at a cancelled context.
Fairness ==
    /\ WF_vars(StartConsumer)
    /\ WF_vars(Exit)
    /\ WF_vars(LoopStep)
    /\ SF_vars(LoopTick)
    /\ SF_vars(LoopDone)
    /\ \A m \in Msgs : WF_vars(GrowIdle(m))
    /\ \A s \in Slots : WF_vars(Handle(s))

FairSpec == Spec /\ Fairness

-----------------------------------------------------------------------------
(* Properties *)

\* Types; only delivered entries are pending, batched or skipped (Start, claimPending).
TypeOK ==
    /\ added \in 0..MaxMsgs
    /\ group \in BOOLEAN
    /\ cursor \in 0..added
    /\ pel \in [Msgs -> Nat]
    /\ idle \subseteq Pending
    /\ dedup \subseteq Msgs
    /\ dlq \subseteq Msgs
    /\ loop \in LoopPC
    /\ batch \subseteq Delivered
    /\ scan \in Nat
    /\ cancelled \in BOOLEAN
    /\ hs \in [Slots -> [pc : HandlerPC, msg : {NoMsg} \cup Msgs]]
    /\ events \in 0..MaxEvents
    /\ skipped \subseteq 1..cursor
    /\ done \subseteq Msgs
    /\ mails \in [Msgs -> Nat]
    /\ leaked \subseteq Msgs
    /\ overtaken \subseteq Msgs
    /\ exposed \subseteq Msgs

\* Handled, or kept for an operator to look at.
Settled(m) == m \in done \/ m \in dlq

\* "at-least-once semantics" (stream_consumer.go:166): a delivered entry that is
\* no longer pending was handled or sits in the dead-letter stream.
NoLoss == UseDLQ => \A m \in Delivered \ Pending : Settled(m)

\* The only ways to lose an entry, whatever fails and whenever: its dedup key
\* outlived a handler that had not finished, or it was reclaimed while a
\* handler still had it.
LossOnlyThroughClaim ==
    UseDLQ => \A m \in Delivered \ Pending : Settled(m) \/ m \in leaked \/ m \in overtaken

\* One mail per entry at most.
NoDuplicateMail == \A m \in Msgs : mails[m] <= 1

\* The only ways to mail an entry twice, whatever fails and whenever: a handler
\* ran although it could not claim the entry, or a send that was reported failed
\* went out.  No redelivery does it, no crash and no reclaimed entry.
DuplicateOnlyUnclaimed == \A m \in Msgs : mails[m] > 1 => m \in exposed

\* The delivery counter passes MaxRetries only as often as something outside
\* the handler went wrong, if handlers end before their entry is taken from them
\* (deliveryCount, toDLQ, claimPending).
RetriesBounded == "slow" \notin Env => \A m \in Msgs : pel[m] <= MaxRetries + events

\* After Start has returned no handler is running.
ReturnsDrained == loop = "returned" => \A s \in Slots : hs[s].pc = "free"

\* Every entry added while the group exists is eventually acknowledged.
EventuallyAcked ==
    \A m \in Msgs : (group /\ m <= added) ~> (m \in skipped \/ (m <= cursor /\ m \notin Pending))

\* A cancelled worker process ends.
ShutdownCompletes == cancelled ~> loop = "down"
=============================================================================
