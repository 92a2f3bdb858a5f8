# TLA+ verification of the payment service

Specifications of the parts of the service whose correctness depends on the
order in which concurrent work happens, the TLC instances that check them, and
TLAPS proofs of the properties that matter most. Everything is translated from
the Go code and the migrations; docs and comments serve as claims to hold
against it.

Run from this directory:

    tlc -workers 2 -config LedgerSafety.cfg MCWebhookLedger
    tlapm WebhookLedgerProofs.tla

## The system

Stripe delivers events to `POST /webhooks/stripe`: at least once, unordered and
possibly to several replicas at a time. The service keeps its tables in step
with Stripe, signs users in, sends them to Stripe's checkout, and cleans up
after itself. One binary does all of it, from one environment.

| Part | Code | State | Operations |
|---|---|---|---|
| webhook endpoint | `handler/stripe_handler.go`, `middleware/timeout.go`, `recoverer.go` | none; a request context with a deadline | verify, process, answer 2xx or 500 |
| webhook service | `service/webhook_service.go` | none | claim, dispatch, settle; replay |
| ledger | `repository/postgres/webhook_repo.go`, migration 00003 | one row per event: status, attempts, updated_at, payload | claim, mark processed / skipped / failed, reclaim, list, claim for retry, purge |
| sweeper | `worker/webhook_sweeper.go` | a batch in memory | reclaim abandoned claims, replay failed events |
| projection | event handlers of the service, `subscription_repo.go`, migrations 00002 and 00004 | one row per subscription: status, two ordering cursors, dunning columns | insert, status update, invoice update |
| refresh tokens | `service/auth_service.go`, `refresh_token_repo.go`, migration 00006 | one row per token: family, expiry, used, revoked | issue, rotate, revoke, prune |
| payload retention | `worker/retention.go`, migration 00005 | payload and payload_purged_at of the ledger | purge in batches |
| users, checkout, portal | `user_repo.go`, `auth_service.go`, `checkout_service.go`, `stripe/client.go` | stripe_customer_id and password digest of a user | register, rehash at login, create session, link customer |
| rate limiter | `middleware/ratelimit.go` | buckets per client | allow, prune, reset at capacity |
| configuration | `config/config.go`, the constructors of every component | the environment | load, validate, wire |
| process | `cmd/api/main.go`, `database/postgres.go` | the pool, two servers, background workers | start, serve, drain, close |
| web session | `web/src/api/client.ts`, `lib/session.ts`, `hooks/useAuth.tsx` | access token in memory | renew and retry |

What makes it hard: handlers on several replicas, sweepers and retention workers
share rows through separate statements; a request's context ends at any moment;
a commit may succeed with its reply lost; a process may die between two
statements; events arrive late, twice and out of order; three time windows in
the configuration have to be ordered for the claims to be exclusive; rows are
read, held across a call to Stripe or a password hash, and written back whole. The
hazards are listed with their lines in `PROJECT.json`.

## Modules

### WebhookLedger

The rows of `processed_webhooks` and every worker that writes to them. Handlers
and sweepers are processes with a program counter; a database statement is one
step, and between two steps anything else may run.

| Variables | In the code |
|---|---|
| `status`, `attempts`, `age` | the row; `age` is `now() - updated_at`, set to 0 by the trigger on every change |
| `pc`, `cur`, `elapsed`, `live`, `batch` | a goroutine: where it is, its event, how long it has run, whether its context is alive, what a sweep has listed |
| `deliveries`, `faults` | bounds on Stripe and on the injected faults |
| `acked`, `token`, `applied` | history: a 2xx was sent; the attempt number a worker's claim wrote; completed dispatches |

| Actions | In the code |
|---|---|
| `HandleWebhook`, `TryClaimEvent`, `AnswerDuplicate`, `ClaimErrs` | `HandleWebhook` and `ProcessEvent` up to the claim |
| `DispatchApplies`, `DispatchSkips`, `DispatchErrs`, `DispatchErrsLate` | the call of `dispatch`; what it writes is `SubscriptionProjection` |
| `Settle`, `SettleErrs` | `MarkEventProcessed`, `MarkEventSkipped`, `MarkEventFailed`, whose errors are only logged |
| `ReclaimAbandoned`, `ReclaimErrs`, `ListRetryable`, `ListErrs`, `ClaimEventForRetry`, `RetryClaimErrs`, `EndSweep` | one `Sweep` |
| `CancelContext`, `Crash`, `Tick` | the client hangs up or the service shuts down; the process dies or a handler panics; time, with the request deadline |

A statement works only under a live context. One that errs may have committed
(`ClaimErrs`, `RetryClaimErrs`, `DispatchErrsLate`). A sweeper's context has no
deadline, so the time a replay may take is a constant, `ReplayLimit`, above
`AgeCap` for "no limit".

`WebhookInbox` is the abstract specification: an event is received once, may be
applied while it is open, is closed once, and is not applied after that.
`ImplementsInbox` states the refinement: processing and failed are both open.

### SubscriptionProjection

The event handlers and the row of one subscription. Events are numbered in the
order Stripe creates them; `ev`, fixed at the start, says what each reports.
`Dispatch` starts a handler for any event that has happened, any number of times
up to `MaxRuns`, on any worker. `SELECT ... FOR UPDATE` and the write that
commits are two steps with `lock` held between them; `FetchSubscription` reads
Stripe's state at the time of the call. `Commit` covers the lost reply, `Fail`
every other error. The columns no property tells apart (price, period, trial)
are left out of the row.

### RefreshTokens

The rows of `refresh_tokens` and the requests on them, statement by statement at
READ COMMITTED: a row lock is waited for and the row then read as last
committed; an UPDATE takes the set of its rows when it starts, locks them one at
a time in any order and looks at each again. `DeadlockVictim` is PostgreSQL's
deadlock detector (external). A family is named by the id of its first token,
and tokens are numbered as they are minted. The reply to a commit may be lost.

### WebhookPipeline

`SubscriptionProjection` with events dispatched as the ledger allows it: one
worker at a time, and never again once a result was reported. That this is what
the ledger allows is `ImplementsInbox` and `LiveHolderOwnsClaim`, both proved.

### PayloadRetention

The payload column: who reads it, who replaces it by a skeleton and when. One
handler, one sweeper and the retention worker meet on the rows; a row carries
the time since `updated_at` (for backoffs and stale claims) and since
`received_at` (for the two retention windows). A replay works on the payload of
the listing, which the row may have lost since. `Verdicts` says what a dispatch
makes of a skeleton: it still parses, a checkout or an invoice in it needs no
action, and a subscription event fails on its missing item. `considered` is
history: the events settled by a dispatch that had the full payload.
`RetentionAssumption` is what `validateRetention` and `validateSweeper` let
through.

### BillingAccounts

The users table and the customer each user is linked to. Its two writers,
`Login` with `SaveRehash` and `TakeEvent` with `linkCustomer`, read a row, work,
and write every column of their copy; checkouts and portal sessions read a row
and call Stripe with it. Stripe creates a customer when a session with an email
only is completed. Two handlers store a subscription: `RecordSubscription` for
the checkout's event, behind the link, and `createFromEvent` for a subscription
event that finds no row, which may come first and makes no link. The row keeps
the owner it was stored with. `lost` and `owner` are history: whose link a later write took
away, and whose checkout made a customer.

### ServiceConfig

How a process comes by its parameters. `Config` and `Validate` are `Load` and
`Validate` for every setting that anything checks or defaults, and each action
after them is a constructor called by `run` or by one of the two command-line
tools: what it refuses and what it runs with. `wired` collects the latter. The
last two are `run`'s listeners: a port may be taken, and a metrics address may
not be one of the host's.
Secrets, URLs and DSNs are the shapes that `Validate` tells apart. Integers have
their widths: a setting narrowed to an int32 wraps around, and so does the
product of attempts and backoff that `validateRetention` multiplies by ten.

### ServiceProcess

`run` from the pool to the exit: `pc` is its place, and the handlers, a scrape
of the metrics server and the workers run beside it on a pool of `MaxConns`
connections. Every step of the start may fail, the listener may fail later, and
a second signal kills. `Tick` counts request ages and the shutdown budget. A
deadline cancels a context, which ends a statement; a handler that is busy with
something else goes on, for `MaxAge` at most.

### RateLimiter

The map of buckets under its mutex and, outside of it, the reservation and its
cancellation with the time the request read at the start. `rate.Limiter` is
external: `Reserved` and `Cancelled` follow its documented arithmetic in whole
units. Buckets live in `heap` by reference, since a request may hold one that
the map has dropped. A header is the sequence of its parts, and `Hops` walks it
as `clientAddr` does. `due` is what the bucket would hold if only admitted
requests counted, the measure the properties compare it with.

## Runs

Passing:

| Run | Instance | Shows |
|---|---|---|
| `ledger_safety` | 1 event, 2 handlers, 2 sweepers, 2 deliveries, 1 fault | a succeeded row was applied; every claim is counted; settled rows are final; sweepers keep the budget; with windows longer than the work a live worker owns its claim, and the ledger implements `WebhookInbox` |
| `ledger_liveness` | 2 events (one of an unhandled type), 1 handler, 1 sweeper, batch of 1, replays of any length | every received or acknowledged event is settled or dead-lettered |
| `projection_safety` | 3-event histories over 2 timestamps or over 3 distinct ones, 4 dispatches, 2 workers, 1 fault | the row is at the newest event; nothing acknowledged is lost; only older events are stale; the dunning columns follow the newest invoice and nothing acknowledged is newer; the row ends with Stripe's status |
| `tokens_safety` | 3 tokens, 2 requests at a time out of 3, 1 fault, a clock that passes expiry and grace | one live token per login; exchanges are valid; reuse is detected; revocations are complete; nobody is stuck |
| `retention` | 1 event of any kind, 2 deliveries, 2 faults, the outer window at ten times the budget, which here meets `BoundOutlastsRetries` | a payload outlives the retries, and no event is settled from a skeleton; a purged payload stays purged; every payload is purged |
| `accounts` | 2 users, one with an old digest, 2 customers, 2 sessions, 2 workers, 2 faults | portals and subscriptions stay with the payer; a link falls only to a stale copy; an identity splits only by two unlinked checkouts or a lost link; an acknowledged checkout is recorded |
| `config` | the production baseline with every one change, the development one with every one or two, every combination of the windows, all four entry points, ports free or taken | what the operator set is what runs, short windows are unvalidated ones, the purge clears the retry budget, what is validated boots, each with the exceptions named in the property |
| `process` | a request with a deadline below and one above the shutdown budget, either of which may run past it, a worker, a scrape, one connection | handlers outlast the pool only when cut; only requests that have run for the whole budget, or came late, are cut; nothing is left open; a signal ends the process |
| `ratelimit` | 3 requests in flight out of 4, 4 clients behind a proxy, 2 entries, 1 token per 2 ticks | callers do not choose their key; a bucket keeps its rate; lone denials are free; pruning forgets nothing; the map is bounded |

`TypeOK` is an invariant of its own in `ledger_safety` and `ratelimit` and a
conjunct of one invariant in the other modules.

Violations, each a statement of a doc or comment that the code does not keep:

| Run | Statement | What happens |
|---|---|---|
| `projection_resurrects` | a stale update "cannot resurrect a canceled subscription" | a checkout stores the live snapshot under the checkout event's older time |
| `pipeline_recount` | the ledger keeps `payment_failure_count` "from double-counting" | the commit's reply is lost, the event is marked failed and handed out again, and an event as old as the cursor is not stale |
| `accounts_lost_link` | "A different id on an existing user is not overwritten" | `UpdateUser` writes a copy: a login that rehashes puts NULL over a link made meanwhile, and a second checkout's event replaces it |

### Met on the way

Behaviour the properties allow by name or by their assumptions:

- A settle tests the status and not the claim. With replays longer than the
  windows, a worker whose claim was reclaimed and taken again settles the new
  holder's row, although "it can only settle an event it still holds"
  (`webhook_repo.go:198-201`). The sweeper's context has no deadline.
- Dispatch and settle commit separately; when the settle is lost the event is
  applied again, although a duplicate "can never apply the same event twice"
  (migration 00003, lines 7-9). The cursors make that harmless except for the
  failure counter.
- `run` passes 0 to `NewWebhookRepo`, so `TryClaimEvent` uses five minutes
  whatever WEBHOOK_STALE_CLAIM_AFTER says. A webhook timeout of five minutes or
  more passes validation (with a longer write timeout and stale window) and lets
  a redelivery take a live claim. `ShortWindowsAreUnvalidated` names the case;
  `docs/ARCHITECTURE.md:462-464` has the configuration refuse it.
- A sweeper interval under four nanoseconds passes validation and panics in
  `rand.Int64N`; values above an int32 are narrowed, and a number of attempts
  that becomes negative gives way to the default; ten times attempts times
  backoff may overflow, which lets an outer window through that is too short;
  the tools run workers whose settings were not validated because the workers
  are switched off. METRICS_BIND_ADDRESS is validated by nothing: one that is
  not the host's ends the start at `net.Listen`, after the workers are running.
- A deletion that creates the row, or falls back to an update after losing the
  insert, stores the object's own status, against `webhook_service.go:688-689`.
- When a reuse revokes a family, the successor of a rotation that commits during
  the UPDATE stays live, against `docs/ARCHITECTURE.md:262-263`;
  `RevocationIsComplete` is about the rows the statement found.
- Two denied requests that overlap in the limiter can cost tokens: a
  cancellation gives nothing back for reservations made after its own
  (`ratelimit.go:143-147` wants none to be lost).
- The margin of the retention window counts attempts and backoffs, not sweep
  intervals, stale claims or faults. `BoundOutlastsRetries` counts them all;
  nothing validates it. With the sweeper switched off, a row
  abandoned in processing keeps its payload for ever. A purged payload is not
  empty, so `ReplayEvent`'s branch for a payload that is no longer retained is
  not the one taken.
- The ledger report tells operators to `SET attempts = 0` on a dead letter
  (`main.go:506`), which `CHECK (attempts >= 1)` refuses (migration 00003, lines
  74-75). The model has no such step.
- A subscription event handled before the checkout's stores the subscription of
  a user who is not linked yet: until the checkout's event is settled the user
  has a subscription and no portal.
- The default webhook deadline (25 s) exceeds the default shutdown budget
  (15 s), so a webhook may be cut; while a scrape holds up the metrics server
  the API accepts requests; a listener that fails closes the pool under the
  handlers.
- A redelivery by Stripe claims a dead-lettered event (the budget binds sweepers
  only); a listed event whose next attempt has failed meanwhile is retried
  without waiting for its backoff.

### Bounds

One event is enough for the races of `WebhookLedger`, since no statement but the
batches touches two rows; `ledger_liveness` has two events and a batch of one,
so that an event could starve another, and delivers each once, so that nothing
hangs on a redelivery. Two attempts give a first claim, a retry
and a dead letter. `AgeCap` is above every window, so older rows are not told
apart. The windows are the smallest that keep the order of the configuration
(timeout < window) with a tick on each side; in `ledger_safety` a replay lasts
at most as long as the windows, in `ledger_liveness` any time. Two workers suffice for the row
races of the projection, three events for a newest, an older and one in
between; equal timestamps are included, and a fourth dispatch repeats one. A
history repeats no event but failed payments, since a redelivery does, and its
first update is to `active`, since the handlers only copy an update's status. In
`RefreshTokens` three tokens give a login, its successor and the successor a
reused token's request mints.

In `PayloadRetention` one event suffices, as the windows are a row's own, and
the ages are told apart up to the outer window. A sweep lasts a tick at most,
with which the outer window is exactly what `BoundOutlastsRetries` asks for. `BillingAccounts` needs two
sessions for a second checkout, two workers for a stale copy and two faults for
a link and a record that both fail; of its users
one registered before the cost was raised (`EarlyUsers`). A configuration
goes wrong in one setting or in a pair that is compared; the three windows and
the switch are combined in full. Its `MaxInt32` is 127, its
`MaxInt64` 8388607 and its nanosecond a second long, so that TLC's integers hold
the products and two days of backoff overflow one. In `ServiceProcess` one
connection makes everybody wait for it, the deadlines are on either side of
the budget as the defaults are, and `MaxAge` is above both. Four requests of a two-entry map fill it and
reset it; with one token a bucket is empty after one request.

`CHECK_DEADLOCK` is off where the bounded numbers of events, requests or
sessions run out, and for the process, which ends. Symmetry over workers or
slots is used in safety runs with several of them, never where liveness is
checked.

### Fairness

`LiveSpec` of `WebhookLedger` assumes weak fairness of time and of each worker's own steps: a
goroutine that can step does, and a sweeper's timer restarts it. Nothing is
assumed of Stripe (no redelivery has to come), and faults are finitely many.
`DispatchErrs` may happen at every dispatch, so an event that never succeeds is
included: it ends as a dead letter.

`PayloadRetention` assumes the same of the handler, the sweeper, the retention
worker and time; a sweep starts on time and ends, as its timer and the statement
timeout have it. `ServiceProcess` assumes it of `run`, of time, and of statements and
handlers, whose contexts and the statement timeout end them; nothing of scrapes,
clients or signals.

## Proofs

Each module of theorems extends the component it is about. The theorems hold for
every value of the constants that the component's ASSUME admits, and for the
specification without fairness.

| Module | Theorem | States |
|---|---|---|
| `WebhookLedgerProofs` | `TypeCorrect` | `TypeOK` |
| | `SettledRowsAreFinal` | `SettledIsFinal` |
| | `SucceededRowsWereApplied` | `SucceededWasApplied` |
| | `BudgetIsKept` | `SweepersKeepBudget` |
| | `EveryClaimIsCounted` | `ClaimsAreCounted` |
| | `LiveHoldersOwnTheirClaims` | `LiveHolderOwnsClaim`, if `ClaimsOutliveWork` |
| | `OnlyHoldersSettle` | `ClaimsEndProperly`, if `ClaimsOutliveWork` |
| | `LedgerImplementsInbox` | `ImplementsInbox`, if `ClaimsOutliveWork` |
| `SubscriptionProjectionProofs` | `NewestWins` | `NewestEventWins` |
| | `NoAcknowledgedLoss` | `AcknowledgedIsOnRow` |
| | `StaleIsSuperseded` | `StaleOnlyIfSuperseded` |
| | `DunningAgrees` | `DunningFollowsInvoices` |
| | `Convergence` | `ConvergesToStripe` |
| `RefreshTokensProofs` | `OneWinner` | `OneLiveTokenPerFamily` |
| | `ValidExchange` | `ExchangesAreValid` |
| | `ReuseDetected` | `ReuseIsDetected` |
| | `CompleteRevocation` | `RevocationIsComplete` |
| | `NoStandstill` | `SomebodyCanGoOn`, the first half of `NobodyIsStuck` |
| `BillingAccountsProofs` | `OwnPortal` | `PortalOpensOwnAccount` |
| | `PayerOwns` | `SubscriptionBelongsToPayer` |
| | `SettledRecorded` | `SettledCheckoutIsRecorded` |
| | `SplitByRaceOnly` | `IdentitySplitsByRaceOnly` |
| | `StaleCopyOnly` | `LinkFallsToStaleCopyOnly` |
| `ServiceProcessProofs` | `PoolClosesLast` | `PoolOutlivesHandlers` |
| | `GracefulShutdown` | `ShutdownKeepsRequests` |
| | `NothingLeftOpen` | `ExitLeavesNothingOpen` |
| `RateLimiterProofs` | `BoundedMap` | `TypeOK` |
| | `RateKept` | `BucketKeepsRate` |
| | `DenialsAreFree` | `LoneDenialsAreFree` |
| | `PruneIsSafe` | `PruneForgetsNothing`, if `TTLOutlastsRefill` |
| | `OwnKey` | `CallerDoesNotChooseKey` |
| `PayloadRetentionProofs` | `ForGood` | `MinimisedForGood` |
| | `UnseenIsOld` | an event settled without its full payload was skipped, past the outer bound |
| | `WaitingKeepsPayloads` | `SettledFromFullPayload`, if `PurgeWaitsForBudget` |
| | `PurgeWaits` | `PurgeWaitsForBudget`, if `BoundOutlastsRetries` |
| | `SettledSeen` | `SettledFromFullPayload`, if `BoundOutlastsRetries` |
| `ServiceConfigProofs` | `SettingsTakeEffect` | `OperatorSettingsTakeEffect` |
| | `WindowsCompared` | `ShortWindowsAreUnvalidated` |
| | `PurgeMargin` | `PurgeClearsRetryBudget` |
| | `Boots` | `AcceptedConfigBoots` |

In the seven modules other than the ledger's, `Invariance` states the inductive
invariant `Inv`, which TLC has checked as an invariant of the module's run
before it was proved. A proof has one lemma per action, and the theorems follow
from `Inv` or, for action properties, from `Inv` and what a step may do.

### Assumptions

Those of the ledger and the projection type the constants and give the windows
and the times of a history their order. The others have, besides types:

- `AccountsAssumption`, `ProcessAssumption`: finitely many sessions, requests
  and workers, so that a count of them is a number. `TokenAssumption`: finitely
  many requests at a time, so that those who wait for each other come full circle.
- `RetentionAssumption`: what `validateRetention` and `validateSweeper` let
  through. `PowerAssumption`: a power of two is a number, which the provers know
  of literals only.
- `ChainAssumption`: clients and proxies have addresses; a header may have any
  parts, blank ones included.
- `UnitsAssumption`: the default of 25 connections fits an int32.
- `EnvironmentAssumption`: a numeric setting is an integer or does not parse, and
  a setting that `Load` requires is not the empty string, which counts as unset.

Three statements are hypotheses of single theorems, as the configuration does not
enforce them. `ClaimsOutliveWork`: the windows are no shorter than the work done
under a claim. `TTLOutlastsRefill`: a bucket is kept for longer than a refill
takes plus the longest time a request spends in the limiter. By default it is
kept for 15 minutes and refilled in 25 seconds; with a rate so low that a refill
takes longer than the TTL, pruning does forget.

`BoundOutlastsRetries`: a sweep has room for every event, and the outer bound is
no shorter than one `Cycle` for each attempt after the first and one `Delay` for
each fault. A `Delay` is the longest backoff with an interval and two sweeps; a
`Cycle` has a stale window, an interval and a sweep in addition. With the
defaults and short sweeps five cycles are some three hours of ninety days, which
leaves thousands of faults. Room for every event is more than the code needs,
which is room for those that are due at once; with a smaller batch the time an
event waits depends on the others.

### Inductive invariants

`WebhookLedgerProofs`. `TypeOK` is not inductive alone: `TypeInv` adds `Control`,
which ties a worker's place to what it has in hand. `ClaimInv` adds that no
worker's token exceeds the row's attempts: a new claim then writes a number no
other holder has, which gives `ClaimsAreCounted`. The lemmas `RowSteps`,
`HolderSteps` and `AttemptsGrow` say once what a step can do to a row or to a
holder, and the theorems follow from them rather than from the twenty actions.

In its second part, on exclusion, `Timely` relates the clocks: a live holder
that owns its claim has worked at least as long as the row is old, and a live
handler has not reached its deadline. With windows no shorter than the work, a
row with a live holder is too young for `TryClaimEvent` or
`ReclaimAbandonedEvents` to take, which keeps `LiveHolderOwnsClaim`. So a worker
"can only settle an event it still holds", and a reclaim finds nobody alive
(`OnlyHoldersSettle`). The refinement follows: only a live worker applies, it
owns its claim, so the row is open. Which configurations meet the assumption on
the handlers' windows is `WindowsCompared`.

`SubscriptionProjectionProofs`. The properties speak of rows and answers; what
carries them from one to the other is in the middle of a handler. `LockInv`: who
is between the SELECT and the write holds the lock and has the row's cursor.
`CarriedInv`: the status a handler is about to write is its event's or, for a
checkout, was Stripe's at some moment since. `RowInv` says the same of the row
and that its event is the newest written; `AnswerInv` is about the answers given.
`Convergence` needs the newest event of a history; that it exists is the
least-number principle, taken from the well-founded order of the numbers.

`RefreshTokensProofs`. `OneLive` is the property; it needs `SuccessorInv` (the
successor minted for a request is no row yet), `Distinct` (no two requests have
the same one) and `RotationInv` (what was seen under FOR UPDATE stands, and the
lock is held, until the commit). `TableInv` says that a row that is gone was
pruned late enough, which is `ReuseDetected`. `RevocationInv` follows an UPDATE
through its rows: each is revoked, gone, still to be visited, or locked by it.
`NoStandstill` rests on `HolderInv`: a request that is answered, or has not yet
got its row, holds no lock. So whoever is waited for is unanswered, and if nobody
could go on, everybody unanswered would wait for another. `CircleExists` finds a
circle among them, in a smallest set that nobody waits out of, and PostgreSQL
aborts one of a circle.

`BillingAccountsProofs`. A customer is a user's own when the user's checkout made
it. `StripeInv` says that a session's customer is its user's own, `LinkInv` that
a row's link is, and `WorkerInv` that the link on a copy is, on its way back to
the row; a copy with a link agrees with the row unless the link was lost. Under
`SubInv` a stored subscription is the payer's, a settled checkout has one, and
its owner has a link unless the link was lost. Before the checkout is settled
the owner may have none, as `createFromEvent` makes none; `FindsLinked` says
which handlers run behind a link. The last two theorems are about what writing a
copy back can undo.

`ServiceProcessProofs`. `RunInv` says what is open at each place of `run`,
`Drain` that past the drain nobody arrives and whoever is left was cut, and
`BudgetInv` that a request from before the signal is at least as old as the
budget spent, so that one which is cut has had all of it.

`RateLimiterProofs`. `RateInv` says why giving a token back is safe although
others reserved in between: reservations that can still be given back are for
times one `Period` apart up to the bucket's last one, each at a time at which
the account of admitted requests would have a token. `FreeInv` says what a
reservation that met no other will find when it is given back. `TypeInv` bounds
the times of requests and buckets by one another, for which every request is in
the limiter for at most `MaxDelay`. `OwnKey` is about `Hops`, a recursive
function: that it exists, and that the hops of a header with a part for each
proxy end with those parts, are shown by the least number for which they fail.

`PayloadRetentionProofs`. A payload is read into a listing, from there into a
worker's hand, and the row may lose it meanwhile: `ListInv` and `HandInv` say
that a skeleton there is a skeleton in the row, for good. `RowInv` says that an
open row has one only past the outer bound. `BudgetInv` adds that the
budget of such a row is spent, so that no sweeper lists it. `ClockInv`
is an account of time for `PurgeWaits`: `Left` is the longest until the next
attempt of an open row, from where the sweep is. The age of the row and `Left`
together are at most what its attempts and the faults so far may cost. A tick
moves one unit from `Left` to the age, a claim or a fault pays for what it adds
to `Left`, and so a row with an attempt left is younger than the bound.

`ServiceConfigProofs`. `Inv` says that past `Load` the configuration was
accepted, and that each parameter in `wired` is what its constructor makes of
the accepted setting, a worker's only if the worker runs. The theorems are then
about what `Wrap` and the defaults make of a number of any size.

### Only model-checked

- Liveness (`ReceivedIsResolved`, `EveryPayloadIsMinimised`,
  `SignalEndsProcess`): the prover has no rules for fairness.
- The second half of `NobodyIsStuck`, that a request has a step exactly when
  `CanGoOn` says so: it speaks of ENABLED, for which it has none either.
- The violations, which are counterexamples.

## Plan

`PurgeWaits` for a batch smaller than the number of events, from a bound on the
events that are due at once.

## Not modelled

Signature verification, parsing, password hashing, JWTs, routing, CORS, logging,
metrics and rendering hold no shared state, and the read API changes nothing.
The renew-and-retry loop of the web client runs in one page at a time; its
effect on the server, several refreshes of one cookie, is in `RefreshTokens`.
Soft deletion of users has no caller. Migrations are run by another tool. The
skip of an invoice event whose row does not exist yet is in the projection, and
no property faults it, as the handler states it as intended.
