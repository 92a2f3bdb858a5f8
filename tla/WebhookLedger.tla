--------------------------- MODULE WebhookLedger ---------------------------
(***************************************************************************)
(* The webhook ledger (table processed_webhooks) and everybody who writes  *)
(* to it: the HTTP handlers that run WebhookService.ProcessEvent for one   *)
(* Stripe delivery each, and the sweepers (one per replica) that reclaim   *)
(* abandoned claims and replay failed events.                              *)
(*                                                                         *)
(* The protocol is claim -> dispatch -> settle, three separate database    *)
(* calls.  Between any two of them another worker may run, time may pass,  *)
(* the worker's context may end or the worker may die.  What a dispatch    *)
(* does to the subscriptions is left to SubscriptionProjection; here it    *)
(* succeeds, asks to be skipped, or fails.                                 *)
(***************************************************************************)
EXTENDS Naturals, Sequences

CONSTANTS
    Events,           \* Stripe event ids
    Handled,          \* those whose type is in handledEventTypes
    Handlers,         \* request goroutines running HandleWebhook
    Sweepers,         \* WebhookSweeper goroutines, one per replica
    NoEvent,          \* what a worker holds when it holds nothing
    MaxAttempts,      \* WEBHOOK_SWEEPER_MAX_ATTEMPTS
    BaseBackoff,      \* WEBHOOK_SWEEPER_BASE_BACKOFF, in ticks
    MaxBackoff,       \* WEBHOOK_SWEEPER_MAX_BACKOFF, in ticks
    BatchSize,        \* WEBHOOK_SWEEPER_BATCH_SIZE
    StaleClaimAfter,  \* WEBHOOK_STALE_CLAIM_AFTER: the sweeper's window
    RepoStaleAfter,   \* the repository's own window, used by TryClaimEvent
    WebhookTimeout,   \* HTTP_WEBHOOK_TIMEOUT: deadline of a handler's context
    ReplayLimit,      \* longest a sweeper's replay lasts; > AgeCap: unlimited
    AgeCap,           \* ages above every window are not told apart
    MaxDeliveries,    \* bound: deliveries Stripe makes of one event
    MaxFaults         \* bound: failed calls, lost replies, cancellations, crashes

Workers == Handlers \cup Sweepers

(* What config.Validate enforces (validateSweeper), plus the facts that    *)
(* make the constants above what their comments say.                       *)
ASSUME ConfigAssumption ==
    /\ MaxAttempts \in Nat \ {0} /\ BatchSize \in Nat \ {0}
    /\ BaseBackoff \in Nat \ {0} /\ MaxBackoff \in Nat
    /\ MaxBackoff >= BaseBackoff
    /\ WebhookTimeout \in Nat \ {0} /\ StaleClaimAfter \in Nat
    /\ StaleClaimAfter > WebhookTimeout

ASSUME ModelAssumption ==
    /\ Handled \subseteq Events /\ NoEvent \notin Events
    /\ Handlers \cap Sweepers = {}
    /\ RepoStaleAfter \in Nat \ {0} /\ ReplayLimit \in Nat \ {0}
    /\ MaxDeliveries \in Nat /\ MaxFaults \in Nat /\ AgeCap \in Nat
    /\ \A d \in {StaleClaimAfter, RepoStaleAfter, MaxBackoff, WebhookTimeout} :
          AgeCap > d

VARIABLES
    status,      \* processed_webhooks.status, "absent" before the row exists
    attempts,    \* processed_webhooks.attempts
    age,         \* now() - updated_at in ticks, saturating at AgeCap
    pc,          \* where each worker is
    cur,         \* the event it works on
    elapsed,     \* ticks since its request started, or its retry was claimed
    live,        \* its context is neither cancelled nor past its deadline
    batch,       \* what a sweeper has listed and not yet tried
    deliveries,  \* how often Stripe has delivered each event
    acked,       \* history: Stripe was answered 2xx for the event
    token,       \* history: the value of attempts written by a worker's claim
    applied,     \* history: completed dispatches of the event, counted to 2
    faults       \* faults injected so far

row    == <<status, attempts, age>>
worker == <<pc, cur, elapsed, live, token, batch>>
vars   == <<row, worker, deliveries, acked, applied, faults>>

Statuses == {"absent", "processing", "succeeded", "skipped", "failed"}
Settled  == {"succeeded", "skipped"}
Holding  == {"claimed", "applied", "skipping", "failing"}
PCs      == {"idle", "claiming", "listing", "batch"} \cup Holding

(* The rows keep to the schema (webhook_status, attempts), and a worker is *)
(* where the code can be, with an event of the table in hand or none.      *)
TypeOK ==
    /\ status \in [Events -> Statuses]
    /\ attempts \in [Events -> Nat]
    /\ age \in [Events -> 0 .. AgeCap]
    /\ pc \in [Workers -> PCs]
    /\ cur \in [Workers -> Events \cup {NoEvent}]
    /\ elapsed \in [Workers -> 0 .. AgeCap]
    /\ live \in [Workers -> BOOLEAN]
    /\ batch \in [Sweepers -> Seq(Events)]
    /\ deliveries \in [Events -> 0 .. MaxDeliveries]
    /\ acked \in [Events -> BOOLEAN]
    /\ token \in [Workers -> Nat]
    /\ applied \in [Events -> 0 .. 2]
    /\ faults \in 0 .. MaxFaults

Init ==
    /\ status = [e \in Events |-> "absent"]
    /\ attempts = [e \in Events |-> 0]
    /\ age = [e \in Events |-> 0]
    /\ pc = [w \in Workers |-> "idle"]
    /\ cur = [w \in Workers |-> NoEvent]
    /\ elapsed = [w \in Workers |-> 0]
    /\ live = [w \in Workers |-> TRUE]
    /\ batch = [s \in Sweepers |-> <<>>]
    /\ deliveries = [e \in Events |-> 0]
    /\ acked = [e \in Events |-> FALSE]
    /\ token = [w \in Workers |-> 0]
    /\ applied = [e \in Events |-> 0]
    /\ faults = 0

-----------------------------------------------------------------------------
(* Rows.  The updated_at trigger restarts a row's age on every change.     *)

WriteRow(e, s, a) ==
    /\ status' = [status EXCEPT ![e] = s]
    /\ attempts' = [attempts EXCEPT ![e] = a]
    /\ age' = [age EXCEPT ![e] = 0]

(* TryClaimEvent: the INSERT, or the WHERE of its ON CONFLICT branch.      *)
ClaimsAnyProcessing(e) == status[e] \in {"absent", "failed", "processing"}

ClaimsOldRows(e) == status[e] \in {"absent", "failed"} \/ age[e] > RepoStaleAfter

Claimable(e) ==
    \/ status[e] = "absent"
    \/ status[e] = "failed"
    \/ status[e] = "processing" /\ age[e] > RepoStaleAfter

(* ClaimEventForRetry's WHERE.                                             *)
RetriesAnyFailed(e) == status[e] = "failed"

MayRetry(e) == status[e] = "failed" /\ attempts[e] < MaxAttempts

(* The attempts every claim writes.                                        *)
RestartsAttempts(e) == 1

NextAttempt(e) == attempts[e] + 1

(* ReclaimAbandonedEvents' inner SELECT.                                   *)
Abandoned ==
    {e \in Events : status[e] = "processing" /\ age[e] > StaleClaimAfter}

(* ListRetryableEvents: LEAST(base * 2^(attempts-1), max) has elapsed.     *)
Backoff(a) ==
    LET doubled == BaseBackoff * 2^(a - 1)
    IN  IF doubled < MaxBackoff THEN doubled ELSE MaxBackoff

RetryableAtBudget ==
    {e \in Events : /\ status[e] = "failed" /\ attempts[e] <= MaxAttempts
                    /\ age[e] > Backoff(attempts[e])}

Retryable ==
    {e \in Events : /\ status[e] = "failed" /\ attempts[e] < MaxAttempts
                    /\ age[e] > Backoff(attempts[e])}

(* ORDER BY updated_at LIMIT BatchSize over the rows in S.                 *)
OldestFirst(S) ==
    {b \in UNION {[1 .. n -> S] : n \in 0 .. BatchSize} :
        /\ \A i, j \in DOMAIN b : i < j => b[i] # b[j] /\ age[b[i]] >= age[b[j]]
        /\ \A e \in S : \/ \E i \in DOMAIN b : b[i] = e
                        \/ /\ Len(b) = BatchSize
                           /\ \A i \in DOMAIN b : age[b[i]] >= age[e]}

-----------------------------------------------------------------------------
(* Workers.                                                                *)

Goes(w, label) == pc' = [pc EXCEPT ![w] = label]

Takes(w, e, n) ==
    /\ cur' = [cur EXCEPT ![w] = e]
    /\ token' = [token EXCEPT ![w] = n]
    /\ elapsed' = [elapsed EXCEPT ![w] = IF w \in Sweepers THEN 0 ELSE @]

(* The request is answered, or the sweep is over: the next one runs under  *)
(* a context of its own.                                                   *)
Finish(w) ==
    /\ Goes(w, "idle")
    /\ cur' = [cur EXCEPT ![w] = NoEvent]
    /\ token' = [token EXCEPT ![w] = 0]
    /\ elapsed' = [elapsed EXCEPT ![w] = 0]
    /\ live' = [live EXCEPT ![w] = TRUE]
    /\ batch' = [s \in Sweepers |-> IF s = w THEN <<>> ELSE batch[s]]

(* A replay is over: on to the next listed event under the same context.   *)
NextListed(s) ==
    /\ Goes(s, "batch")
    /\ cur' = [cur EXCEPT ![s] = NoEvent]
    /\ token' = [token EXCEPT ![s] = 0]
    /\ elapsed' = [elapsed EXCEPT ![s] = 0]
    /\ UNCHANGED <<live, batch>>

(* A call to the database errs: always when the context has ended, and     *)
(* otherwise as one of the injected faults.                                *)
Fault == faults < MaxFaults /\ faults' = faults + 1

CallFails(w) == IF live[w] THEN Fault ELSE UNCHANGED faults

CallWorks(w) == live[w] /\ UNCHANGED faults

-----------------------------------------------------------------------------
(* HandleWebhook and ProcessEvent up to the claim.                         *)

HandleWebhook(h, e) ==
    /\ pc[h] = "idle"
    /\ deliveries[e] < MaxDeliveries
    /\ deliveries' = [deliveries EXCEPT ![e] = @ + 1]
    /\ Goes(h, "claiming")
    /\ cur' = [cur EXCEPT ![h] = e]
    /\ UNCHANGED <<row, elapsed, live, token, batch, acked, applied, faults>>

TryClaimEvent(h) ==
    LET e == cur[h] IN
    /\ pc[h] = "claiming"
    /\ CallWorks(h)
    /\ Claimable(e)
    /\ WriteRow(e, "processing", NextAttempt(e))
    /\ Goes(h, "claimed")
    /\ Takes(h, e, NextAttempt(e))
    /\ UNCHANGED <<live, batch, deliveries, acked, applied>>

(* No row came back: OutcomeDuplicate, acknowledged with a 2xx.            *)
AnswerDuplicate(h) ==
    /\ pc[h] = "claiming"
    /\ CallWorks(h)
    /\ ~Claimable(cur[h])
    /\ Finish(h)
    /\ acked' = [acked EXCEPT ![cur[h]] = TRUE]
    /\ UNCHANGED <<row, deliveries, applied>>

(* The claim errs and Stripe is answered 500.  The statement may have      *)
(* committed all the same, its reply lost: the row is claimed by nobody.   *)
ClaimErrs(h) ==
    LET e == cur[h] IN
    /\ pc[h] = "claiming"
    /\ CallFails(h)
    /\ \/ UNCHANGED row
       \/ live[h] /\ Claimable(e) /\ WriteRow(e, "processing", NextAttempt(e))
    /\ Finish(h)
    /\ UNCHANGED <<deliveries, acked, applied>>

-----------------------------------------------------------------------------
(* dispatch, as ProcessEvent and ReplayEvent call it.                      *)

CountApplied(e) ==
    applied' = [applied EXCEPT ![e] = IF @ < 2 THEN @ + 1 ELSE @]

Dispatched(w, label) ==
    /\ pc[w] = "claimed"
    /\ Goes(w, label)
    /\ UNCHANGED <<row, cur, elapsed, live, token, batch, deliveries, acked>>

(* OutcomeProcessed or OutcomeStale: every write has committed.            *)
DispatchApplies(w) ==
    /\ Dispatched(w, "applied")
    /\ CallWorks(w)
    /\ cur[w] \in Handled
    /\ CountApplied(cur[w])

(* A type nobody subscribed to, or OutcomeSkipped.                         *)
DispatchSkips(w) ==
    /\ Dispatched(w, "skipping")
    /\ UNCHANGED <<applied, faults>>

(* An error: the handler's own verdict on the event, or a context that     *)
(* has ended.                                                              *)
DispatchErrs(w) ==
    /\ Dispatched(w, "failing")
    /\ cur[w] \in Handled
    /\ UNCHANGED <<applied, faults>>

(* An error after the writes committed: the reply to the commit was lost.  *)
DispatchErrsLate(w) ==
    /\ Dispatched(w, "failing")
    /\ live[w] /\ Fault
    /\ cur[w] \in Handled
    /\ CountApplied(cur[w])

-----------------------------------------------------------------------------
(* MarkEventProcessed, MarkEventSkipped and MarkEventFailed.               *)

SkipsSucceed(w) ==
    IF pc[w] = "failing" THEN "failed" ELSE "succeeded"

UnknownVerdict(w) ==
    CASE pc[w] = "applied"  -> "processed"
      [] pc[w] = "skipping" -> "skipped"
      [] pc[w] = "failing"  -> "failed"

Verdict(w) ==
    CASE pc[w] = "applied"  -> "succeeded"
      [] pc[w] = "skipping" -> "skipped"
      [] pc[w] = "failing"  -> "failed"

(* AND status = 'processing'.                                              *)
StillClaimed(e) == status[e] = "processing"

Settling(w) == pc[w] \in {"applied", "skipping", "failing"}

(* Whatever became of the settle, the outcome is the dispatch's: a handler *)
(* answers 500 for a failure and 2xx otherwise, a sweeper moves on.        *)
Return(w) ==
    IF w \in Handlers
      THEN /\ Finish(w)
           /\ acked' = [acked EXCEPT ![cur[w]] = @ \/ pc[w] # "failing"]
      ELSE /\ NextListed(w)
           /\ UNCHANGED acked

(* The UPDATE ran; when it matched no row the error is only logged.        *)
Settle(w) ==
    /\ Settling(w)
    /\ CallWorks(w)
    /\ IF StillClaimed(cur[w])
         THEN WriteRow(cur[w], Verdict(w), attempts[cur[w]])
         ELSE UNCHANGED row
    /\ Return(w)
    /\ UNCHANGED <<deliveries, applied>>

(* The UPDATE errs, which is only logged too.  (One that committed with    *)
(* its reply lost does what Settle does.)                                  *)
SettleErrs(w) ==
    /\ Settling(w)
    /\ CallFails(w)
    /\ Return(w)
    /\ UNCHANGED <<row, deliveries, applied>>

-----------------------------------------------------------------------------
(* WebhookSweeper.Sweep: reclaimAbandoned, then retryFailed.               *)

ReclaimAbandoned(s) ==
    /\ pc[s] = "idle"
    /\ CallWorks(s)
    /\ \E b \in OldestFirst(Abandoned) :
          LET taken == {b[i] : i \in DOMAIN b} IN
          /\ status' = [e \in Events |-> IF e \in taken THEN "failed" ELSE status[e]]
          /\ age' = [e \in Events |-> IF e \in taken THEN 0 ELSE age[e]]
    /\ Goes(s, "listing")
    /\ UNCHANGED <<attempts, cur, elapsed, live, token, batch,
                   deliveries, acked, applied>>

ReclaimErrs(s) ==
    /\ pc[s] = "idle"
    /\ CallFails(s)
    /\ Goes(s, "listing")
    /\ UNCHANGED <<row, cur, elapsed, live, token, batch,
                   deliveries, acked, applied>>

ListRetryable(s) ==
    /\ pc[s] = "listing"
    /\ CallWorks(s)
    /\ \E b \in OldestFirst(Retryable) : batch' = [batch EXCEPT ![s] = b]
    /\ Goes(s, "batch")
    /\ UNCHANGED <<row, cur, elapsed, live, token, deliveries, acked, applied>>

ListErrs(s) ==
    /\ pc[s] = "listing"
    /\ CallFails(s)
    /\ Finish(s)
    /\ UNCHANGED <<row, deliveries, acked, applied>>

(* The loop of retryFailed: claim the next listed event, or pass over it   *)
(* because somebody else got there first.                                  *)
ClaimEventForRetry(s) ==
    /\ pc[s] = "batch" /\ batch[s] # <<>>
    /\ CallWorks(s)
    /\ batch' = [batch EXCEPT ![s] = Tail(@)]
    /\ LET e == Head(batch[s]) IN
       IF MayRetry(e)
         THEN /\ WriteRow(e, "processing", NextAttempt(e))
              /\ Goes(s, "claimed")
              /\ Takes(s, e, NextAttempt(e))
         ELSE UNCHANGED <<row, pc, cur, token, elapsed>>
    /\ UNCHANGED <<live, deliveries, acked, applied>>

(* The claim errs and the loop continues; it may have committed unseen.    *)
RetryClaimErrs(s) ==
    /\ pc[s] = "batch" /\ batch[s] # <<>>
    /\ live[s] /\ Fault
    /\ batch' = [batch EXCEPT ![s] = Tail(@)]
    /\ LET e == Head(batch[s]) IN
       \/ UNCHANGED row
       \/ MayRetry(e) /\ WriteRow(e, "processing", NextAttempt(e))
    /\ UNCHANGED <<pc, cur, elapsed, live, token, deliveries, acked, applied>>

(* The batch is done, or ctx.Err() != nil at the top of the loop.          *)
EndSweep(s) ==
    /\ pc[s] = "batch"
    /\ batch[s] = <<>> \/ ~live[s]
    /\ Finish(s)
    /\ UNCHANGED <<row, deliveries, acked, applied, faults>>

-----------------------------------------------------------------------------
(* The environment.                                                        *)

(* The client hangs up on a handler, or a shutdown signal reaches a sweep. *)
CancelContext(w) ==
    /\ pc[w] # "idle" /\ live[w]
    /\ Fault
    /\ live' = [live EXCEPT ![w] = FALSE]
    /\ UNCHANGED <<row, pc, cur, elapsed, token, batch, deliveries, acked, applied>>

(* The process dies, or a panic is recovered above the handler.            *)
Crash(w) ==
    /\ pc[w] # "idle"
    /\ Fault
    /\ Finish(w)
    /\ UNCHANGED <<row, deliveries, acked, applied>>

Older(n) == IF n < AgeCap THEN n + 1 ELSE AgeCap

(* The deadline the Timeout middleware puts on a handler's context.        *)
NoDeadline(w) == FALSE

DeadlinePasses(w) ==
    w \in Handlers /\ pc[w] # "idle" /\ elapsed[w] + 1 >= WebhookTimeout

(* A tick.  ReplayLimit is an assumption about sweepers, whose context has *)
(* no deadline: no tick passes over a replay that has reached it.          *)
Tick ==
    /\ \A s \in Sweepers : pc[s] \in Holding => elapsed[s] < ReplayLimit
    /\ age' = [e \in Events |->
                 IF status[e] = "absent" THEN 0 ELSE Older(age[e])]
    /\ elapsed' = [w \in Workers |->
                     IF pc[w] = "idle" \/ (w \in Sweepers /\ pc[w] \notin Holding)
                       THEN 0 ELSE Older(elapsed[w])]
    /\ live' = [w \in Workers |-> live[w] /\ ~DeadlinePasses(w)]
    /\ UNCHANGED <<status, attempts, pc, cur, token, batch,
                   deliveries, acked, applied, faults>>

-----------------------------------------------------------------------------
HandlerStep(h) ==
    \/ TryClaimEvent(h) \/ AnswerDuplicate(h) \/ ClaimErrs(h)

WorkStep(w) ==
    \/ DispatchApplies(w) \/ DispatchSkips(w) \/ DispatchErrs(w)
    \/ DispatchErrsLate(w) \/ Settle(w) \/ SettleErrs(w)

SweepStep(s) ==
    \/ ReclaimAbandoned(s) \/ ReclaimErrs(s) \/ ListRetryable(s) \/ ListErrs(s)
    \/ ClaimEventForRetry(s) \/ RetryClaimErrs(s) \/ EndSweep(s)

Next ==
    \/ \E h \in Handlers, e \in Events : HandleWebhook(h, e)
    \/ \E h \in Handlers : HandlerStep(h)
    \/ \E w \in Workers : WorkStep(w)
    \/ \E s \in Sweepers : SweepStep(s)
    \/ \E w \in Workers : CancelContext(w) \/ Crash(w)
    \/ Tick

Spec == Init /\ [][Next]_vars

(* What the Go runtime and the process supervisor give: goroutines that    *)
(* can step do, timers fire (a sweep starts again), clocks move.  Nothing  *)
(* is assumed of Stripe, and only finitely many faults happen.             *)
Fairness ==
    /\ WF_vars(Tick)
    /\ \A h \in Handlers : WF_vars(HandlerStep(h))
    /\ \A w \in Workers : WF_vars(WorkStep(w))
    /\ \A s \in Sweepers : WF_vars(SweepStep(s))

LiveSpec == Spec /\ Fairness

-----------------------------------------------------------------------------
(* Properties.                                                             *)

(* A row says succeeded only if some dispatch of that event completed,     *)
(* although it is not always the worker that completed it who still holds  *)
(* the claim when the row is settled (MarkEventProcessed).                 *)
SucceededWasApplied ==
    \A e \in Events : status[e] = "succeeded" => applied[e] > 0

(* Two workers on one event got there by two different claims, each of     *)
(* which was counted in attempts (TryClaimEvent, ClaimEventForRetry).      *)
ClaimsAreCounted ==
    \A v, w \in Workers :
        pc[v] \in Holding /\ pc[w] \in Holding /\ v # w /\ cur[v] = cur[w]
          => token[v] # token[w]

(* A worker whose context is alive still holds the claim it took: the row  *)
(* is processing and nobody has claimed it since.  Hence at most one such  *)
(* worker per event, and no settle that finds the row in other hands.      *)
(* This needs ClaimsOutliveWork.                                           *)
LiveHolderOwnsClaim ==
    \A w \in Workers :
        pc[w] \in Holding /\ live[w]
          => status[cur[w]] = "processing" /\ attempts[cur[w]] = token[w]

(* The windows exceed the longest processing time, as the comments on      *)
(* defaultStaleClaimAfter and SweeperConfig.StaleClaimAfter ask.           *)
ClaimsOutliveWork ==
    /\ WebhookTimeout <= RepoStaleAfter
    /\ ReplayLimit <= RepoStaleAfter /\ ReplayLimit <= StaleClaimAfter

(* A settled row keeps its status and attempts, whatever late worker,      *)
(* redelivery or sweep comes by: succeeded and skipped are terminal.       *)
SettledIsFinal ==
    [][\A e \in Events : status[e] \in Settled =>
          status'[e] = status[e] /\ attempts'[e] = attempts[e]]_vars

(* No sweeper takes an event past its budget, however old its listing is   *)
(* and however many sweepers run: beyond MaxAttempts only a delivery by    *)
(* Stripe claims (ClaimEventForRetry).                                     *)
SweepersKeepBudget ==
    [][\A e \in Events : attempts'[e] > attempts[e] =>
          \/ attempts'[e] <= MaxAttempts
          \/ \E h \in Handlers : pc[h] = "claiming" /\ cur[h] = e
                                 /\ pc'[h] # "claiming"]_vars

DeadLettered(e) == status[e] = "failed" /\ attempts[e] >= MaxAttempts

(* Every event that reached the ledger is in the end settled, or is        *)
(* dead-lettered for a human: no crash, lost reply or expired deadline     *)
(* leaves it in processing or cycling for ever (Sweep).                    *)
ReceivedIsResolved ==
    \A e \in Events :
        status[e] # "absent" \/ acked[e] ~> status[e] \in Settled \/ DeadLettered(e)

(* The refinement mapping: failed and processing are both "open".          *)
Fate(e) ==
    CASE status[e] = "absent"                    -> "unseen"
      [] status[e] \in {"processing", "failed"} -> "open"
      [] status[e] = "succeeded"                 -> "applied"
      [] status[e] = "skipped"                   -> "ignored"

Inbox == INSTANCE WebhookInbox
             WITH fate <- [e \in Events |-> Fate(e)],
                  done <- {e \in Events : applied[e] > 0}

(* The ledger implements WebhookInbox (given ClaimsOutliveWork): no step   *)
(* of any worker applies an event whose row is already settled.            *)
ImplementsInbox == Inbox!Spec
=============================================================================
