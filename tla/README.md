# TLA+ models of golang-restapi

TLA+ specifications, TLC configurations and TLAPS proofs for the backend in
`src/`: an HTTP API and a mail worker over PostgreSQL, Redis and an S3-compatible
object storage. `PROJECT.json` maps every definition to the lines it models and
lists the runs, the seeded faults, the hazards and the theorems.

    cd tla
    tlc -workers 2 -config ProfilePicture.cfg MCProfilePicture
    tlapm AccountProofs.tla

## The system and its models

| part | code | module |
| --- | --- | --- |
| mail worker: stream consumer, dead letters, process life | `internal/infrastructure/redis/stream_*.go`, `cmd/worker`, `internal/worker` | StreamConsumer |
| sessions, refresh tokens, passwords, recovery tokens, deletion | `internal/auth/service.go`, `internal/user/service.go`, the repositories and `postgres.go` | AuthService, with AccountSpec as its abstract specification |
| revocation of access tokens | `internal/infrastructure/redis/revocation.go`, `access_token.go`, `Authenticate` | Revocation |
| registration by invitation | `Register`, `CompleteRegistration`, the token repository | Registration |
| profile, picture and their audit trail | `internal/user/service.go`, `internal/infrastructure/r2`, `internal/audit` | ProfilePicture |
| session cookies and the tabs of a browser | `auth_handler.go`, `middlewares.go` | ClientSession (extends AccountSpec) |
| permissions | `internal/rbac` | Rbac |
| upload validation and the file handle | `uploader.go`, `user_handler.go`, `r2.go` | Upload |
| routes, middlewares, error mapping, request metrics | `cmd/api/server.go`, `internal/transport/http`, `pkg/metrics/request.go` | HttpApi (extends Rbac and Upload) |
| list endpoints | `internal/ports/repository`, `query_builder.go`, the two `List` methods | ListQuery |
| database connections and `Transact` | `internal/infrastructure/postgres/postgres.go` | ConnPool |
| API process: start, signal, drain, exit | `cmd/api/main.go`, `server.go` | ApiServer (extends ConnPool) |

How they meet: an API request (HttpApi) runs a service method. The methods about
accounts are AuthService, Registration and ProfilePicture, and their transactions
meet in PostgreSQL's row locks. After a commit they write revocation markers,
which AuthService uses through what they promise and Revocation models in detail,
and produce mail events, which StreamConsumer consumes. What the transactions do
to sessions is AccountSpec, on which ClientSession builds. The connections they run
on are ConnPool's, which ApiServer composes with the life of the process. `MC*`
modules hold the definitions TLC needs for small instances, `*Proofs` modules the
theorems.

### StreamConsumer
Redis keeps the stream, the group's cursor, the pending list with its delivery
counters, the dedup keys and the dead-letter stream, and survives the worker. One
Redis command is one step, with the Go code up to the next one. `loop` is where
`Start` is, `hs` the handler in each semaphore slot. `Env` names the disturbances
an instance allows (crash, shutdown, Redis errors that may or may not have been
applied, a repeated SET NX, slow handlers, a mail that leaves after its timeout).
The 7-day expiry of dedup keys is left out: it is longer than any retry.

### AuthService and AccountSpec
Each request is a process running one service method, one SQL statement per step,
under READ COMMITTED: statements see committed rows, wait for row locks and
re-read the row they waited for; writes become visible at COMMIT. COMMIT may be
applied with its answer lost, statements may fail, PostgreSQL aborts a request in
a lock cycle. Requests are numbered, and a number stands for the password, refresh
token or access token the request makes. Login's lookup, bcrypt comparison
and signing are one step: the last two are local, and the token is dated a little
early, before its session is stored. A throttler that fails ends a recovery before
it touches the account, as one that throttles does. The audit INSERT of
RevokeSession and Logout share-locks the actor's row; the model takes the actor for
the owner of the session, the one whose row others contend for. That of
RevokeUserSessions is left out, its actor being an administrator with a row of their
own. `assured` are the sessions an administrator was told are
revoked. AccountSpec says the same of the
committed rows in single atomic operations; `ImplementsAccount` is the refinement.

### ClientSession
The tabs of a browser share one cookie jar. A request carries the cookies of the
moment it leaves and an answer changes the jar when it arrives, so requests and
answers overtake each other; answers get lost, cookies and sessions expire, and
somebody else may end sessions or delete the account (a login that races the
deletion keeps a session that cannot be refreshed). On the server a request is one
operation of AccountSpec. The Expires of a cookie is sent in whole seconds; a tick
here is long enough for the rounding not to show. The check of an access token is
that of a working revocation store: what a failing one lets through in fail-open
mode is HttpApi's and Revocation's.

### Revocation
Time is in ticks; claims carry whole seconds and watermarks do not. Each instance
has a clock ahead of the slowest by at most `MaxOffset`, a SET arrives up to
`MaxDelay` after the clock was read, markers are read up to `CheckDelay` after the
token was verified. A watermark is one that RevokeUser wrote:
the refusal of one that does not parse is left out.

### Registration and ProfilePicture
Same treatment of statements, locks and COMMIT as AuthService. In ProfilePicture a
transaction that begins by locking the user row is one step, because that row is
all it shares with the others; ChangePassword reads the row before its transaction
and is two. Uploads and background deletes fail independently and a crash drops
them. `trail` is the last audit entry about the profile, written in the
transaction that changes it.

### Rbac, Upload and HttpApi
A request passes the handlers of every matching registration in order, then the
middlewares unwind. One request is served at a time: requests share only the
limiters and the permission table, which is fixed after start-up. Outcomes of
binding, validation, services, the revocation store and panics are inputs.
A service may report an error after its commit (the COMMIT's answer is lost, the
event or the marker is not written), so an error answer does not mean that nothing
was done. That writing the JSON of an answer fails is left out.
Middlewares that only decorate a request (request id, helmet, CORS, compression,
ETag, audit context) are left out. The handler of `change_picture` runs Upload's
steps: validation tells, sniffs and rewinds the lazily opened handle that the upload
reads afterwards, an attempt may fail having read part of it, and any step may
panic. A file is its size in blocks of the 512 bytes sniffed, the type of its
content, the type claimed and the extension.

### ListQuery
The sanitising of filters, sort, dates, page and limit, and the SELECT and COUNT
as two statements with writes in between. The largest `int` is `MaxInt`, scaled down
together with `math.MaxInt32` (`MaxOffset`). ListPages reaches the overflow of the
offset: page 87 with limit 2 has a product that comes out negative and is clamped.
With limit 3 it comes out as 2, the case ListHugePage is about; `BelowWrap` is the
condition that it does not. Other requests insert rows and soft-delete them; an
UPDATE, which moves a row from one filter to another, has for a list the effect of
both and is left out. An ordering of rows is any that the ORDER BY allows. `TablesAssumption` says
what the schema and Go's types guarantee: ids are keys, the columns a list may be
sorted by are not NULL, page and limit are ints, a bound that parses is a time.

### ConnPool and ApiServer
main, the Start and Shutdown goroutines, the hook that closes the pools, and
requests that run statements and transactions on connections of the pool. Acquire
waits while all are in use; the deferred calls of `Transact` commit, roll back or
re-panic, then release. Ticks scale the 5 s drain to 2 and the 25 s deadline to 3. main does what
it can before time passes.

## Runs

| run | module / cfg | what it shows |
| --- | --- | --- |
| stream_all_faults | MCStreamConsumer / StreamAllFaults | with every disturbance, a message is lost only through a leaked claim or a reclaim of a running entry, and mailed twice only if it was handled without a claim or a send reported as failed went out |
| stream_liveness | MCStreamConsumer / StreamLiveness | bounded retries, every entry is acknowledged, a cancelled worker ends |
| stream_shutdown_loss | MCStreamConsumer / StreamShutdownLoss | **violation**: see below |
| auth_all | MCAuthService / AuthAll | all methods: one writer of the user row, one use per refresh and recovery token, access tokens of revoked sessions denied, also where a marker failed if an administrator was told that all went well, sessions of an old password only from racing logins |
| auth_transactions | MCAuthService / AuthTransactions | refinement of AccountSpec; every request ends |
| revocation_markers | MCRevocation / RevocationMarkers | revoked tokens stay rejected, other denials are brief |
| registration | MCRegistration / Registration | a token creates one account, superseded links are dead, live links are bounded, requests end |
| profile_picture | MCProfilePicture / ProfilePicture | the referenced picture exists, other images are accounted for and cleaned up, the audit trail ends with what the row holds |
| client_session | MCClientSession / ClientSession | a browser keeps its session, gets new access tokens, and none outlives its session by more than its lifetime |
| http_api | MCHttpApi / HttpApi | access matrix of the README, actor always present, metric equals response; what is uploaded is the whole file and its handle is closed |
| list_pages | MCListQuery / ListPages | rows and total match the echoed search, walks are complete, "showing X of Y" is wrong only after a write between SELECT and COUNT |
| api_server | ApiServer / ApiServer | requests do not wait for each other's connections in a circle, transactions are closed, graceful means drained, pools outlive requests, a signal ends the process |

Each property of a passing run has a seeded fault (the operators commented
"Seeded fault") under which TLC refutes it.

**Bounds.** Two requests of AuthService cover every pairwise race, and with two
sessions and four requests in all a token can be made, used, replaced and used
again. Two consumer slots let a handler race the reclaimed copy of its entry.
Three images let a picture be replaced twice. Two live tokens take two
overlapping invitations and a lock cycle takes two more, hence the four tokens of
Registration; SQL leaves the order in which an UPDATE locks its rows open, so the
model allows every order. With an access token good for one tick and a session
for two, the instants 0, 2 and 3 of ClientSession have tokens that expired under a
live session and sessions that expired under their cookies; four secrets per session
are its own, the jar's and one for each tab on its way. The files of HttpApi are
empty, allowed and one block too large, and two upload attempts make one retry. Three
requests on two connections leave one waiting. Every bound is large enough for the seeded faults of its
run to show; beyond that the bounds were chosen for the running time, and a
violation that needs more requests, entries or ticks would be missed where no
theorem covers the property.

**Deadlock** is checked in the StreamConsumer runs. The other configurations turn
it off because their requests or ticks are bounded and used up.

**Fairness.**
- StreamLiveness: goroutines are scheduled, handlers end (mailer and client have
  timeouts), the worker is restarted, and Go's random `select` neither ignores a
  ready ticker for ever nor always prefers it over the cancelled context (the two
  strong-fairness conjuncts).
- AuthTransactions, Registration: a statement that can run is run, and
  PostgreSQL's deadlock detector acts on a request that stays in a cycle. New
  requests are not fair.
- ProfilePicture: a cleanup goroutine ends; it has a 30 s timeout.
- ClientSession: a request that was sent is served and its answer arrives, unless
  it is lost (weak, per tab); a tab whose access token has run out asks for a new one
  if it gets to ask again and again (strong: other tabs may keep it waiting).
- ApiServer: main, the Start goroutine and the clock go on. Shutdown and the
  requests may hang.

## Disagreements with the documentation

`stream_shutdown_loss`: when a SIGTERM arrives between a handler's claim and its
end, `Start` returns at the loop top, the process exits, and after the restart the
redelivered entry is acknowledged as a duplicate although nobody handled it.
`stream_consumer.go:166` claims at-least-once semantics for the dedup check, README
840 says that the claim is released if handling fails so that the retry
re-processes, and README 851 that the worker waits up to 10 s for consumers to drain.
(`stream_consumer.go:273`, "lost messages are not [acceptable]", is about the
dead-letter write alone.) The configurations below are kept beside the runs, and TLC
reports each of them violated.

| cfg | property | statement it refutes |
| --- | --- | --- |
| StreamReclaimLoss | NoLoss | the same statements, by an entry reclaimed while its handler runs |
| StreamDrain | ReturnsDrained | README 851: "waits up to 10 s for consumers to drain"; `Start` returns without waiting for its handlers |
| StreamShutdownDuplicate | NoDuplicateMail | README 839: the claim prevents duplicate mails on redelivery |
| AuthOldPassword | OldPasswordIsDead | `auth/service.go:503`: refresh is dead after a reset; a racing login survives |
| AuthDeletedSession | DeleteLeavesNoSession | `user/service.go:175`: a committed delete leaves no session alive; the row stays but cannot be refreshed |
| AuthStaleVerify | ChangeVerifiesCurrent | `auth/service.go:515`: of two overlapping changes, the second verified a replaced password |
| RevocationOverwritten | RevokedIsRejected | `ports/revocation/revocation.go`: "at or before the moment of the call"; fails when clock offset plus SET delay exceed the skew, as this configuration assumes |
| RegistrationTwoInvites | LatestInviteWins | `auth/service.go:128`: two overlapping invitations both stay usable |
| PictureStaleRow | OnlyPasswordChanges | ChangePassword writes back a whole row read before its transaction |
| HttpLogout | LogoutRevokes | README 633: logout revokes and always returns 200 |
| UploadImages | OnlyImages | README 643: "jpeg/png/webp"; `uploader.go:207` checks of an Office document only that the claimed type is allowed |
| ListHugePage | OffsetSaturates | `query_builder.go:163`: a product that wraps to a small positive number is not noticed |
| ListZeroTime | FilterEchoed | `daterange.go:6`: a zero time is echoed and not applied |
| ListShowing | ShowingXofY | README 676: a delete between SELECT and COUNT |

## Proofs

Each proof module extends its component and finds an inductive invariant:
`Init => IInv`, `IInv /\ [Next]_vars => IInv'` with a lemma per action or class of
actions, and the property from it. They hold for every value of the constants under
the component's named assumptions (bounds are naturals, the null value is none of the
others). Each state invariant of a passing run is the conclusion of a theorem, and so
are the type invariants, which no run checks again.

- **StreamConsumerProofs**: `TypeCorrect`, `LossOnlyThroughClaimHolds`,
  `SecondMailOnlyUnclaimed`, `RetriesAreBounded`. LossOnlyThroughClaim is about
  acknowledged entries; the invariant adds why a dedup key exists (finished, leaked,
  or a handler holds it), why a handler about to acknowledge may, and that two
  handlers of one entry mean it was overtaken. For the second mail, `OneInv` says that
  an entry nothing exposed has one holder of its key and keeps the key once finished.
  For the retries, `BudgetInv` says that an entry is with a handler, in the batch that
  is being dispatched, or has `Slack`: it was let go below MaxRetries, or an event paid
  for it. The bound is stated, and checked, for handlers that end before their entry is
  reclaimed ("slow" is not in Env).
- **AuthServiceProofs**: `ServiceImplementsAccount` (the refinement of AccountSpec),
  `UserRowHasOneWriter`, `RefreshTokenUsedOnce`, `RecoveryTokenUsedOnce`,
  `OldPasswordNeedsRace`, `RevokedAreDenied`, `AssuredAreDenied`,
  `RevokedStaysRevoked`, `NoRefreshOnceDeleted`, `ServiceTypeCorrect`. Every step is put into one of a few
  classes (a request arrives, runs a statement, ends, commits, follows up on a commit);
  `CoreInv` is proved class by class. It says that a request past its locking read
  holds the row and the row is as it read it, that holders of the user row do not
  conflict, and that the number of a running request is in no row yet. Over it lie
  layers of one theorem each: used refresh tokens are no session's token again
  (`UsesInv`), a reset past its lookup has a live token locked (`ResetInv`), a change
  that chose its sessions has locked or will lock each live one (`ChangeInv`), tokens
  are signed before they are handed out (`MintedInv`), an assured session has a marker
  or only tokens from before the watermark, and gets no more (`AssuredInv`). For the refinement each commit
  is matched with one operation of AccountSpec and any other step with a stutter; the
  whole-row writes are harmless because `CoreInv` says the row did not change meanwhile.
- **RegistrationProofs**: `TokenAppliedOnce`, `SupersededStaysDead`, `LinksBounded`,
  `RegistrationTypeCorrect`. The row lock keeps a completion's token live until it
  commits, and the tokens a Register chose are dead, locked by it or still on its list.
  Live tokens are made by different processes (`ByInv`), which bounds their number.
- **ClientSessionProofs**: `BrowserKeepsSession`, `AccessExposureBounded`,
  `BrowserTypeCorrect`. A refresh token on its way to the browser is the current one
  of its session and nothing else in the browser holds it (`AnswerInv`), a refresh
  cookie outlives its session (`CookieInv`), and an access token was minted while its
  session lived (`AccessInv`).
- **HttpApiProofs**: `AccessAsDocumented`, `ContextAlwaysPresent`, `MetricsTellStatus`,
  `UploadIsWhole`, `UploadIsAsClaimed`, `NoHandleLeaks`,
  `TypesCorrect`. `FlowInv` follows a request down its chain and up again: the chain
  left is that of its route, and no handler of a protected endpoint is left that no
  authentication precedes (`DownInv`); a result forbids only what the
  token does not permit, and what was done was permitted (`UpInv`); the metric is recorded between the
  unwinding of two middlewares (`RecordInv`). `GrantInv` says that the permission table
  has what the services registered. `UploadInv` follows the handle: there is at most
  one, it is at the start of the file whenever the file is to be read, and validation
  has accepted the file once it is put.
- **ApiServerProofs**: `PoolIsNeverStuck`, `TransactionsAreClosed`,
  `GracefulIsDrained`, `PoolsOutliveRequests`, `Typed`. A request has a connection
  only where its calls say so and none while it waits for one (`HeldInv`), how far
  Shutdown is tells what is closed (`PhaseInv`), it reports success only with no
  request left and an error only after the deadline (`ReportInv`), and only the end of
  the process cuts requests off (`EndInv`).
- **AccountProofs**, about Revocation and ProfilePicture (whose specification is
  `ProfileInit`, `ProfileNext`, `ProfileSpec`, so that one module can extend both).
  `RevokedStaysRejected`, `DenialsAreBrief`, `RevocationTypeCorrect`, under `Margins`:
  clock offset plus SET delay, and clock offset plus check delay, fit in the skew. The
  invariant says that every condemned token is covered by a marker that outlives it by
  the check delay; an overwriting SET keeps that because its watermark is at most
  `MaxDelay` older. `ReferencedPictureExists`, `NothingElseIsStored`, `TrailIsTrue`,
  `ProfileTypeCorrect`: names are never reused, an image waiting for its swap is
  stored, unreferenced and held once, and no cleanup runs for the current picture,
  apart from the excused ones (lost COMMIT answer, row restored by ChangePassword).
- **ListQueryProofs**: `FilterIsEchoed`, `PageIsEchoed`, `WalkIsComplete`,
  `WalkByIdIsComplete`, `OffsetIsSaturated`, `ShowingIsTrue`, for any tables, searches
  and writes. The code needs two conditions, which TLC evaluates to TRUE on the
  tables and searches of ListPages. `NoZeroTimes`: no bound, and no end of a named day,
  is the zero time, which WhereBetween takes for an open side (ListZeroTime is the
  counterexample without it). `TablesFit`: the tables have at most `MaxOffset` rows.
  `OffsetIsSaturated` needs neither: below twice `MaxInt + 1` a product that overflows
  comes out negative (`WrapNegative`), so the clamp catches it, and whatever page and
  limit are the offset is one PostgreSQL accepts. `FilterIsEchoed` needs only the first. Five layers of invariant:
  - `TableInv`: what is stored, now and at either statement, is finite and has grown by
    no more than the writes so far; ids are unique.
  - `RequestInv`: the search is sanitised (`Applied`) and the query is the one it
    builds. Resubmitting what was echoed changes nothing but the page, so both survive
    NextPage.
  - `FilterInv`: the rows read, and those counted, are rows that the echoed filter
    denotes. Condition by condition, `MatchingDenoted` shows that the WHERE clauses
    keep exactly those.
  - `PageInv`: the rows are a page (`IsPage`), where the product does not wrap. Their positions are expressed by
    counting: fewer rows of the filter come before a row of the page than its position
    says, and no more after it than there are positions left. `OrderedRanks` derives
    that from the cardinality of the image of an interval, without induction.
  - `WalkInv`: while nobody writes and the sort tells the rows apart, the pages so far
    are one after another a prefix of the list, without repetition. At the last page
    `total_pages` announces, the prefix has as many rows as the filter denotes, so it
    has all of them (`WalkWhole`).

  `ShowingIsTrue` says when ListShowing's counterexample cannot occur: if the SELECT and
  the COUNT saw the same table and the product did not wrap.

Only model-checked is liveness (`EventuallyAcked`, `ShutdownCompletes`, both
`RequestsEnd`, `CleanedUp`, `Renewed`, `ExitsAfterSignal`): fairness is out of the
prover's reach. So are the violations above, which are behaviours TLC exhibits.

## Not modelled

- Audit trail writer outside the profile: an INSERT inside the modelled
  transactions; every `audit.Record` call is in a `Transact`, so it shares their
  outcome.
- Clients that send tokens in the Authorization header; RBAC's listing of permissions.
- bcrypt, SHA-256 and random tokens: taken as injective and fresh.
- Configuration, validation library, SQL string building, nullable and string
  helpers, logging, the Prometheus registry, the CLI, mocks, migrations, deployment.

Wider or narrower than the code: a ping of the pool may time out at any moment
(ConnPool allows more than the code does), and a consumer whose group cannot be
created, which returns before its loop, is left out of StreamConsumer.

Hazards outside the models: a listener that fails to start is only logged
(`main.go:64`); `Retry-After` is the zero time when the throttler fails
(`auth_handler.go:234`); the throttle key may expire between SET NX and TTL
(`throttler.go:59`); a sort without tie-break may repeat or skip rows between pages
(`query_builder.go:147`); entries added before the consumer group exists are never
delivered (`stream_consumer.go:304`).

## Plan

Composition of Revocation and ClientSession: what a browser sees of a revocation
whose marker is late.
