-------------------------- MODULE PayloadRetention --------------------------
(***************************************************************************)
(* The retention of webhook payloads beside the sweeper that replays them. *)
(*                                                                         *)
(* processed_webhooks.payload is the raw event.  The sweeper replays       *)
(* failed events from it, and the retention worker reduces it to a         *)
(* skeleton once the row is past a window that counts from received_at.    *)
(* Each action is one SQL statement, or one dispatch with the statement    *)
(* that settles it.  Time is counted in ticks.  What the ledger guarantees *)
(* about claims is WebhookLedger's subject; here one handler, one sweeper  *)
(* and one retention worker meet, and the payload is what matters.         *)
(*                                                                         *)
(* attempts only grows.  webhook-report prints an UPDATE that sets it to 0 *)
(* to make a dead letter retryable (cmd/api/main.go:506), and the table    *)
(* refuses it: CHECK (attempts >= 1), migrations/00003.  What revives a    *)
(* dead letter is another delivery.                                        *)
(***************************************************************************)
EXTENDS Naturals, FiniteSets, FiniteSetsExt

CONSTANTS
    Events,           \* Stripe event ids
    NoEvent,          \* in hand: nothing
    MaxAttempts,      \* SweeperConfig.MaxAttempts
    BaseBackoff,      \* SweeperConfig.BaseBackoff
    MaxBackoff,       \* SweeperConfig.MaxBackoff
    StaleClaimAfter,  \* SweeperConfig.StaleClaimAfter, and the repository's
    SweepInterval,    \* SweeperConfig.Interval
    SweepBatch,       \* SweeperConfig.BatchSize
    SweepLimit,       \* the longest a sweep lasts
    WebhookTimeout,   \* the deadline of a webhook request
    SettledAfter,     \* RetentionConfig.SettledAfter
    UnsettledAfter,   \* RetentionConfig.UnsettledAfter
    PurgeBatch,       \* RetentionConfig.BatchSize
    AgeCap,           \* bound: ages are not told apart beyond this
    MaxDeliveries,    \* bound: deliveries by Stripe
    MaxFaults         \* bound: failed calls, crashes and skipped locks

(* customer.subscription.*, then checkout and invoice events, then the     *)
(* types the service does not subscribe to.                                *)
Kinds   == {"subscription", "payment", "other"}
Workers == {"handler", "sweeper"}

(* What config.validateRetention and validateSweeper let through. *)
ASSUME RetentionAssumption ==
    /\ NoEvent \notin Events /\ IsFiniteSet(Events)
    /\ {MaxAttempts, BaseBackoff, MaxBackoff, StaleClaimAfter, SweepInterval,
        SweepBatch, SweepLimit, WebhookTimeout, SettledAfter, UnsettledAfter,
        PurgeBatch, AgeCap, MaxDeliveries, MaxFaults} \subseteq Nat
    /\ MaxAttempts >= 1 /\ SweepBatch >= 1 /\ PurgeBatch >= 1 /\ SweepInterval >= 1
    /\ BaseBackoff >= 1 /\ BaseBackoff <= MaxBackoff
    /\ StaleClaimAfter > WebhookTimeout
    /\ SettledAfter >= 1 /\ UnsettledAfter >= SettledAfter
    /\ UnsettledAfter >= 10 * MaxAttempts * MaxBackoff
    /\ AgeCap > UnsettledAfter /\ AgeCap > StaleClaimAfter

(* Arithmetic that the provers lack: powers of two are numbers. *)
ASSUME PowerAssumption == \A n \in 1 .. MaxAttempts : 2 ^ (n - 1) \in Nat

VARIABLES
    row,         \* the processed_webhooks table
    hand,        \* what each worker is dispatching: the event and its payload
    listed,      \* retryFailed's listing, the payload of each row included
    sweep,       \* where the sweep is: idle, listing or retrying
    sinceSweep,  \* ticks since the sweep started, or since the timer was reset
    pass,        \* whether a retention pass is under way
    considered,  \* history: events dispatched from their full payload to a verdict
    deliveries, faults

vars == <<row, hand, listed, sweep, sinceSweep, pass, considered,
          deliveries, faults>>

Payloads == {"none", "full", "skeleton"}

Rows == [kind     : Kinds,
         status   : {"absent", "processing", "failed", "succeeded", "skipped"},
         payload  : Payloads,
         attempts : 0 .. MaxAttempts + MaxDeliveries,
         idle     : 0 .. AgeCap,    \* since updated_at
         age      : 0 .. AgeCap]    \* since received_at

(* The rows keep to the schema, and attempts to what the retry budget and  *)
(* the deliveries can make of them (TryClaimEvent, ClaimEventForRetry).    *)
TypeOK ==
    /\ row \in [Events -> Rows]
    /\ hand \in [Workers -> [event : Events \cup {NoEvent}, payload : Payloads]]
    /\ listed \in [Events -> Payloads]
    /\ sweep \in {"idle", "list", "retry"}
    /\ sinceSweep \in 0 .. SweepInterval + SweepLimit
    /\ pass \in {"idle", "purge"}
    /\ considered \subseteq Events
    /\ deliveries \in 0 .. MaxDeliveries /\ faults \in 0 .. MaxFaults

Nothing == [event |-> NoEvent, payload |-> "none"]

Init ==
    /\ row = [e \in Events |-> [kind |-> "other", status |-> "absent", payload |-> "none",
                                attempts |-> 0, idle |-> 0, age |-> 0]]
    /\ hand = [w \in Workers |-> Nothing]
    /\ listed = [e \in Events |-> "none"]
    /\ sweep = "idle" /\ sinceSweep = 0
    /\ pass = "idle"
    /\ considered = {}
    /\ deliveries = 0 /\ faults = 0

Fault == faults < MaxFaults /\ faults' = faults + 1

sweeping == <<listed, sweep, sinceSweep>>

(* ORDER BY ... LIMIT n: the rows of S that come first by column. *)
Batches(S, n, column) ==
    {B \in SUBSET S : /\ Cardinality(B) = Min({n, Cardinality(S)})
                      /\ \A d \in B, e \in S \ B : column[d] >= column[e]}

-----------------------------------------------------------------------------
(* The webhook endpoint. *)

Claimed(r) == [r EXCEPT !.status = "processing", !.attempts = @ + 1, !.idle = 0]

Received(k) == [kind |-> k, status |-> "processing", payload |-> "full",
                attempts |-> 1, idle |-> 0, age |-> 0]

(* A conflict updates the claim only: a purged row stays purged. *)
RestoringClaim(r, k) ==
    IF r.status = "absent" THEN Received(k) ELSE [Claimed(r) EXCEPT !.payload = "full"]

ClaimRow(r, k) ==
    IF r.status = "absent" THEN Received(k) ELSE Claimed(r)

Claimable(r) == \/ r.status \in {"absent", "failed"}
                \/ r.status = "processing" /\ r.idle > StaleClaimAfter

(* The handler dispatches the body it verified, not what the row holds. *)
TryClaimEvent(e, k) ==
    /\ hand["handler"] = Nothing
    /\ deliveries < MaxDeliveries
    /\ deliveries' = deliveries + 1
    /\ Claimable(row[e])
    /\ row[e].status # "absent" => k = row[e].kind
    /\ row' = [row EXCEPT ![e] = ClaimRow(@, k)]
    /\ hand' = [hand EXCEPT !["handler"] = [event |-> e, payload |-> "full"]]
    /\ UNCHANGED <<sweeping, pass, considered, faults>>

(* What dispatch can return.  A skeleton still parses, and has no mode, no *)
(* subscription and no items: a checkout and an invoice need no action     *)
(* then, and a subscription event fails on its missing item.               *)
Verdicts(k, p) ==
    IF k = "other" THEN {"skipped"}
    ELSE IF p = "full" THEN {"succeeded", "skipped", "failed"}
    ELSE IF k = "subscription" THEN {"failed"}
    ELSE {"skipped"}

(* The settling UPDATE has no effect on a row that is not in processing. *)
SettleRow(r, verdict) ==
    IF r.status = "processing" THEN [r EXCEPT !.status = verdict, !.idle = 0] ELSE r

(* A worker dispatches what it holds and settles the row. *)
DispatchAndSettle(w) ==
    LET e == hand[w].event IN
    /\ e # NoEvent
    /\ \E verdict \in Verdicts(row[e].kind, hand[w].payload) :
        /\ row' = [row EXCEPT ![e] = SettleRow(@, verdict)]
        /\ considered' = IF verdict # "failed" /\ hand[w].payload = "full"
                         THEN considered \cup {e} ELSE considered
    /\ hand' = [hand EXCEPT ![w] = Nothing]
    /\ UNCHANGED <<sweeping, pass, deliveries, faults>>

(* The worker's process dies.  A restarted sweeper sweeps after its jitter. *)
Crash(w) ==
    /\ hand[w] # Nothing
    /\ Fault
    /\ hand' = [hand EXCEPT ![w] = Nothing]
    /\ \/ w = "handler" /\ UNCHANGED sweeping
       \/ /\ w = "sweeper"
          /\ listed' = [e \in Events |-> "none"]
          /\ sweep' = "idle" /\ sinceSweep' = 0
    /\ UNCHANGED <<row, pass, considered, deliveries>>

-----------------------------------------------------------------------------
(* The sweeper. *)

Abandoned == {e \in Events : row[e].status = "processing" /\ row[e].idle > StaleClaimAfter}

(* reclaimAbandoned: a failed call ends nothing, the sweep goes on. *)
ReclaimAbandonedEvents ==
    /\ sweep = "idle" /\ sinceSweep >= SweepInterval
    /\ sweep' = "list" /\ sinceSweep' = 0
    /\ \/ /\ \E B \in Batches(Abandoned, SweepBatch, [e \in Events |-> row[e].idle]) :
                row' = [e \in Events |-> IF e \in B THEN SettleRow(row[e], "failed")
                                         ELSE row[e]]
          /\ UNCHANGED faults
       \/ Fault /\ UNCHANGED row
    /\ UNCHANGED <<hand, listed, pass, considered, deliveries>>

Backoff(n) == Min({BaseBackoff * 2 ^ (n - 1), MaxBackoff})

Due(r) == r.idle > Backoff(r.attempts)

MayRetry(r) == r.status = "failed" /\ r.attempts < MaxAttempts

Retryable == {e \in Events : MayRetry(row[e]) /\ Due(row[e])}

(* The listing carries the payload; payload_purged_at is not asked about. *)
ListRetryableEvents ==
    /\ sweep = "list"
    /\ \/ /\ \E B \in Batches(Retryable, SweepBatch, [e \in Events |-> row[e].idle]) :
                listed' = [e \in Events |-> IF e \in B THEN row[e].payload ELSE "none"]
          /\ sweep' = "retry"
          /\ UNCHANGED <<sinceSweep, faults>>
       \/ /\ Fault
          /\ sweep' = "idle" /\ sinceSweep' = 0
          /\ UNCHANGED listed
    /\ UNCHANGED <<row, hand, pass, considered, deliveries>>

(* retryFailed's loop: claim a listed event, or pass it over. *)
ClaimEventForRetry(e) ==
    /\ sweep = "retry" /\ hand["sweeper"] = Nothing
    /\ listed[e] # "none"
    /\ listed' = [listed EXCEPT ![e] = "none"]
    /\ \/ /\ MayRetry(row[e])
          /\ row' = [row EXCEPT ![e] = Claimed(@)]
          /\ hand' = [hand EXCEPT !["sweeper"] = [event |-> e, payload |-> listed[e]]]
          /\ UNCHANGED faults
       \/ /\ ~MayRetry(row[e])
          /\ UNCHANGED <<row, hand, faults>>
       \/ Fault /\ UNCHANGED <<row, hand>>
    /\ UNCHANGED <<sweep, sinceSweep, pass, considered, deliveries>>

EndSweep ==
    /\ sweep = "retry" /\ hand["sweeper"] = Nothing
    /\ \A e \in Events : listed[e] = "none"
    /\ sweep' = "idle" /\ sinceSweep' = 0
    /\ UNCHANGED <<row, hand, listed, pass, considered, deliveries, faults>>

-----------------------------------------------------------------------------
(* The retention worker. *)

Window(status) == IF status = "failed" THEN UnsettledAfter ELSE SettledAfter

OneWindow(r) ==
    /\ r.payload = "full"
    /\ r.status \notin {"absent", "processing"}
    /\ r.age > SettledAfter

NoOuterBound(r) ==
    /\ r.payload = "full"
    /\ r.status \in {"succeeded", "skipped"}
    /\ r.age > SettledAfter

(* A row in processing is never due, whatever its age. *)
PastWindow(r) ==
    /\ r.payload = "full"
    /\ r.status \notin {"absent", "processing"}
    /\ r.age > Window(r.status)

DueNow == {e \in Events : PastWindow(row[e])}

(* The trigger moves updated_at with the payload. *)
Purged(r) == [r EXCEPT !.payload = "skeleton", !.idle = 0]

(* One batch of RunOnce's loop.  SKIP LOCKED passes over rows that another *)
(* statement holds; a short batch or an error ends the pass.  The timer    *)
(* starts the next one; what the pass reports is DueNow's size.            *)
PurgePayloads ==
    /\ \/ \E locked \in SUBSET DueNow :
            /\ \/ locked = {} /\ UNCHANGED faults
               \/ locked # {} /\ Fault
            /\ \E B \in Batches(DueNow \ locked, PurgeBatch, [e \in Events |-> row[e].age]) :
                /\ row' = [e \in Events |-> IF e \in B THEN Purged(row[e]) ELSE row[e]]
                /\ pass' = IF Cardinality(B) < PurgeBatch THEN "idle" ELSE "purge"
       \/ Fault /\ pass' = "idle" /\ UNCHANGED row
    /\ UNCHANGED <<hand, sweeping, considered, deliveries>>

-----------------------------------------------------------------------------
Older(n) == Min({n + 1, AgeCap})

(* Time passes.  The sweeper's timer fires on time, a sweep ends within    *)
(* SweepLimit, and a request within its deadline.                          *)
Tick ==
    /\ \/ sweep = "idle" /\ sinceSweep < SweepInterval
       \/ sweep # "idle" /\ sinceSweep < SweepLimit
    /\ hand["handler"] # Nothing => row[hand["handler"].event].idle < WebhookTimeout
    /\ sinceSweep' = sinceSweep + 1
    /\ row' = [e \in Events |->
                 IF row[e].status = "absent" THEN row[e]
                 ELSE [row[e] EXCEPT !.idle = Older(@), !.age = Older(@)]]
    /\ UNCHANGED <<hand, listed, sweep, pass, considered, deliveries, faults>>

HandlerStep   == DispatchAndSettle("handler")
SweepStep     == \/ ReclaimAbandonedEvents \/ ListRetryableEvents \/ EndSweep
                 \/ \E e \in Events : ClaimEventForRetry(e)
                 \/ DispatchAndSettle("sweeper")

Next ==
    \/ \E e \in Events, k \in Kinds : TryClaimEvent(e, k)
    \/ HandlerStep \/ SweepStep \/ PurgePayloads
    \/ \E w \in Workers : Crash(w)
    \/ Tick

Spec == Init /\ [][Next]_vars

(* Each worker runs on, and so does the clock.  Deliveries and crashes owe *)
(* nothing.                                                                *)
LiveSpec == /\ Spec /\ WF_vars(HandlerStep) /\ WF_vars(SweepStep)
            /\ WF_vars(PurgePayloads) /\ WF_vars(Tick)

-----------------------------------------------------------------------------
(* Properties *)

(* The longest a failed event waits for its next attempt, or a fault holds *)
(* it up, and the longest from a claim whose worker dies to the next one.  *)
Delay == MaxBackoff + 1 + SweepInterval + 2 * SweepLimit
Cycle == StaleClaimAfter + 1 + SweepInterval + SweepLimit + Delay

(* A sweep has room for every event, and the outer bound for every attempt *)
(* and fault.  The ten backoffs an attempt that config asks for leave that *)
(* room as long as sweeps are short and faults few; nothing compares them. *)
BoundOutlastsRetries ==
    /\ Cardinality(Events) <= SweepBatch
    /\ UnsettledAfter >= (MaxAttempts - 1) * Cycle + MaxFaults * Delay

(* PurgePayloads, webhook_repo.go:446 with config.validateRetention: the   *)
(* sweeper is done with an event before the event loses its payload,       *)
(* through failed calls, crashes and reclaims.                             *)
PurgeWaitsForBudget ==
    [][\A e \in Events : /\ row[e].status = "failed" /\ row[e].payload = "full"
                         /\ row'[e].payload # "full"
                         => row[e].attempts >= MaxAttempts]_vars

(* ReplayEvent, webhook_service.go:201: an event is settled only after it  *)
(* was dispatched from its full payload.  A skeleton still parses, and a   *)
(* checkout or an invoice replayed from one is skipped without a trace of  *)
(* what it said.  (With the types.)                                        *)
SettledFromFullPayload ==
    TypeOK /\ \A e \in Events :
        row[e].status \in {"succeeded", "skipped"} => e \in considered

(* TryClaimEvent's ON CONFLICT, webhook_repo.go:174: a payload that was    *)
(* minimised never comes back, not by a redelivery that carries it nor by  *)
(* a replay of a listing that still held it.                               *)
MinimisedForGood ==
    [][\A e \in Events : row[e].payload = "skeleton" => row'[e].payload = "skeleton"]_vars

(* RunOnce, retention.go:151, with the sweeper's reclaim: a payload past   *)
(* the outer bound is minimised in the end, be its row settled, dead       *)
(* lettered, or abandoned in processing by a worker that died.             *)
EveryPayloadIsMinimised ==
    \A e \in Events : row[e].age > UnsettledAfter ~> row[e].payload = "skeleton"
=============================================================================
