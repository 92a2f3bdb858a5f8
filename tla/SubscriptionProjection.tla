----------------------- MODULE SubscriptionProjection -----------------------
(***************************************************************************)
(* The event handlers of WebhookService and the row of the subscriptions   *)
(* table they maintain, for one Stripe subscription.                       *)
(*                                                                         *)
(* Workers handle the subscription's events concurrently, in any order and *)
(* more than once: what the webhook ledger lets through.  Every database   *)
(* or Stripe call of a handler is a step; a transaction that locks the row *)
(* is two, the SELECT ... FOR UPDATE and the write that commits.           *)
(***************************************************************************)
EXTENDS Naturals

CONSTANTS
    Events,      \* numbered in the order Stripe creates them
    Histories,   \* what the events may say: [Events -> EventRecord]
    Workers,
    NoWorker,    \* holder of a row lock nobody holds
    Named,       \* events whose metadata.user_id or client_reference_id
                 \* names a local user
    MaxRuns,     \* bound: dispatches, repeats included
    MaxFaults    \* bound: errors, lost commit replies and crashes

Statuses == {"incomplete", "active", "past_due", "canceled"}

SubscriptionKinds == {"updated", "deleted"}
InvoiceKinds == {"payment_succeeded", "payment_failed"}
Kinds == {"checkout"} \cup SubscriptionKinds \cup InvoiceKinds

(* event.type, event.created (in seconds, never 0) and the status its      *)
(* subscription object reports.                                            *)
EventRecord ==
    [kind : Kinds, created : Nat \ {0}, status : Statuses]

ASSUME ProjectionAssumption ==
    /\ Events \subseteq Nat \ {0} /\ NoWorker \notin Workers
    /\ Histories \subseteq [Events -> EventRecord]
    /\ \A h \in Histories : \A d, e \in Events :
          d < e => h[d].created <= h[e].created
    /\ Named \subseteq Events /\ MaxRuns \in Nat /\ MaxFaults \in Nat

VARIABLES
    ev,         \* the history, fixed at the start
    now,        \* the events up to this number have happened at Stripe
    row,        \* the subscriptions row; 0 stands for NULL in it
    linked,     \* the owner's users.stripe_customer_id is set
    lock,       \* who holds the row lock
    pc, cur,    \* where each worker is, with which event
    seen,       \* the cursor it read under the lock
    sets,       \* the status it is about to write
    runs,       \* dispatches so far
    handled,    \* history: how dispatches of each event returned
    written,    \* history: events of the subscription stream that committed
    faults

vars == <<ev, now, row, linked, lock, pc, cur, seen, sets, runs, handled,
          written, faults>>

local == <<cur, seen, sets>>

Rows == [exists : BOOLEAN,
         status : Statuses,
         at     : Nat,             \* last_stripe_event_at
         id     : Events \cup {0},  \* last_stripe_event_id
         invoiceAt : Nat,          \* last_invoice_event_at
         invoiceId : Events \cup {0},
         failedAt  : Nat,          \* payment_failed_at
         failures  : Nat]          \* payment_failure_count

NoRow == [exists |-> FALSE, status |-> "incomplete", at |-> 0, id |-> 0,
          invoiceAt |-> 0, invoiceId |-> 0, failedAt |-> 0, failures |-> 0]

PCs == {"idle", "update", "fallback", "locked", "fallbackLocked", "resolve",
        "link", "fetch", "insert", "invoice", "invoiceLocked"}

Results == {"processed", "stale", "skipped"}

(* The row keeps to the schema (subscription_status, the two cursors, the  *)
(* dunning columns), and a handler is where its code can be.               *)
TypeOK ==
    /\ ev \in Histories
    /\ now \in Events \cup {0}
    /\ row \in Rows
    /\ linked \in BOOLEAN
    /\ lock \in Workers \cup {NoWorker}
    /\ pc \in [Workers -> PCs]
    /\ cur \in [Workers -> Events \cup {0}]
    /\ seen \in [Workers -> Nat]
    /\ sets \in [Workers -> Statuses]
    /\ runs \in 0 .. MaxRuns
    /\ handled \in [Events -> SUBSET Results]
    /\ written \in SUBSET Events
    /\ faults \in 0 .. MaxFaults

Init ==
    /\ ev \in Histories
    /\ now = 0
    /\ row = NoRow
    /\ linked \in BOOLEAN
    /\ lock = NoWorker
    /\ pc = [w \in Workers |-> "idle"]
    /\ cur = [w \in Workers |-> 0]
    /\ seen = [w \in Workers |-> 0]
    /\ sets = [w \in Workers |-> "incomplete"]
    /\ runs = 0
    /\ handled = [e \in Events |-> {}]
    /\ written = {}
    /\ faults = 0

Kind(e)    == ev[e].kind
Created(e) == ev[e].created

-----------------------------------------------------------------------------
(* Stripe: events happen in order; the subscription's state is what the    *)
(* latest subscription event made it, deletion being final.                *)

Occur ==
    /\ now + 1 \in Events
    /\ now' = now + 1
    /\ UNCHANGED <<ev, row, linked, lock, pc, local, runs, handled, written, faults>>

StripeStatus ==
    LET past == {e \in Events : e <= now /\ Kind(e) \in SubscriptionKinds}
    IN  IF past = {} THEN "incomplete"
        ELSE LET last == CHOOSE e \in past : \A d \in past : d <= e
             IN  IF Kind(last) = "deleted" THEN "canceled" ELSE ev[last].status

-----------------------------------------------------------------------------
(* Steps of a handler.                                                     *)

Goes(w, label) == pc' = [pc EXCEPT ![w] = label]

(* dispatch returns.                                                       *)
Return(w, result) ==
    /\ Goes(w, "idle")
    /\ cur' = [cur EXCEPT ![w] = 0]
    /\ seen' = [seen EXCEPT ![w] = 0]
    /\ sets' = [sets EXCEPT ![w] = "incomplete"]
    /\ handled' = [handled EXCEPT ![cur[w]] = @ \cup (result \cap Results)]

Fault == faults < MaxFaults /\ faults' = faults + 1

(* A commit: its reply arrives, or is lost and the handler reports an      *)
(* error although the write is in the table.                               *)
Commit(w, result) ==
    \/ Return(w, {result}) /\ UNCHANGED faults
    \/ Return(w, {}) /\ Fault

(* dispatch: one branch per event type.  statusUpdateFrom computes the     *)
(* status first, overriding the object's when the event is a deletion.     *)
ObjectStatus(e) == ev[e].status

StatusOf(e) ==
    IF Kind(e) = "deleted" THEN "canceled" ELSE ev[e].status

Dispatch(w, e) ==
    /\ pc[w] = "idle" /\ e <= now
    /\ runs < MaxRuns
    /\ runs' = runs + 1
    /\ cur' = [cur EXCEPT ![w] = e]
    /\ Goes(w, CASE Kind(e) = "checkout" -> "link"
                 [] Kind(e) \in SubscriptionKinds -> "update"
                 [] OTHER -> "invoice")
    /\ sets' = [sets EXCEPT ![w] = StatusOf(e)]
    /\ UNCHANGED <<ev, now, row, linked, lock, seen, handled, written, faults>>

(* SELECT ... FOR UPDATE waits for the lock.                               *)
LockIgnored(w) == TRUE

LockFree(w) == lock = NoWorker

(* UpdateSubscriptionStatus up to the lock; ErrNotFound when no row.       *)
LockForStatus(w) ==
    /\ pc[w] \in {"update", "fallback"}
    /\ \/ /\ row.exists
          /\ LockFree(w)
          /\ lock' = w
          /\ seen' = [seen EXCEPT ![w] = row.at]
          /\ Goes(w, IF pc[w] = "update" THEN "locked" ELSE "fallbackLocked")
       \/ /\ ~row.exists /\ pc[w] = "update"
          /\ Goes(w, "resolve")
          /\ UNCHANGED <<lock, seen>>
    /\ UNCHANGED <<ev, now, row, linked, cur, sets, runs, handled, written, faults>>

(* Strictly older events are rejected; 0 is a NULL cursor.                 *)
SupersededByEqual(created, cursor) == created <= cursor

NeverSuperseded(created, cursor) == FALSE

Superseded(created, cursor) == created < cursor

(* ErrStaleEvent: the transaction rolls back.  upsertSubscription's caller *)
(* reports the event processed all the same.                               *)
RejectStale(w) ==
    /\ pc[w] \in {"locked", "fallbackLocked"}
    /\ Superseded(Created(cur[w]), seen[w])
    /\ lock' = NoWorker
    /\ Return(w, {IF pc[w] = "locked" THEN "stale" ELSE "processed"})
    /\ UNCHANGED <<ev, now, row, linked, runs, written, faults>>

(* The UPDATE of UpdateSubscriptionStatus and its commit.                  *)
CommitStatus(w) ==
    /\ pc[w] \in {"locked", "fallbackLocked"}
    /\ ~Superseded(Created(cur[w]), seen[w])
    /\ row' = [row EXCEPT !.status = sets[w], !.at = Created(cur[w]), !.id = cur[w]]
    /\ written' = written \cup {cur[w]}
    /\ lock' = NoWorker
    /\ Commit(w, "processed")
    /\ UNCHANGED <<ev, now, linked, runs>>

(* createFromEvent: resolveUser by metadata, else by the customer id.      *)
ResolveOwner(w) ==
    /\ pc[w] = "resolve"
    /\ IF cur[w] \in Named \/ linked
         THEN /\ Goes(w, "insert")
              /\ sets' = [sets EXCEPT ![w] = ObjectStatus(cur[w])]
              /\ UNCHANGED <<cur, seen, handled>>
         ELSE Return(w, {"skipped"})
    /\ UNCHANGED <<ev, now, row, linked, lock, runs, written, faults>>

(* handleCheckoutCompleted: resolveUser and linkCustomer, which leaves the *)
(* user unlinked when the session names no customer, the user has another  *)
(* one or another user has this one.                                       *)
LinkCustomer(w) ==
    /\ pc[w] = "link"
    /\ IF cur[w] \in Named \/ linked
         THEN /\ Goes(w, "fetch")
              /\ linked' \in {TRUE, linked}
              /\ UNCHANGED <<local, handled>>
         ELSE /\ Return(w, {"skipped"})
              /\ UNCHANGED linked
    /\ UNCHANGED <<ev, now, row, lock, runs, written, faults>>

(* GetSubscription: the state at Stripe when the call is made, not when    *)
(* the event was created.                                                  *)
FetchSubscription(w) ==
    /\ pc[w] = "fetch"
    /\ sets' = [sets EXCEPT ![w] = StripeStatus]
    /\ Goes(w, "insert")
    /\ UNCHANGED <<ev, now, row, linked, lock, cur, seen, runs, handled, written, faults>>

(* upsertSubscription: the INSERT, or ErrConflict and the fallback.        *)
CreateSubscription(w) ==
    /\ pc[w] = "insert"
    /\ IF row.exists
         THEN /\ Goes(w, "fallback")
              /\ UNCHANGED <<row, local, handled, written, faults>>
         ELSE /\ row' = [NoRow EXCEPT !.exists = TRUE, !.status = sets[w],
                                      !.at = Created(cur[w]), !.id = cur[w]]
              /\ written' = written \cup {cur[w]}
              /\ Commit(w, "processed")
    /\ UNCHANGED <<ev, now, linked, lock, runs>>

(* The cursor RecordInvoicePayment guards on, not the status stream's.     *)
StatusCursor(r) == r.at

InvoiceCursor(r) == r.invoiceAt

(* RecordInvoicePayment up to the lock; without a row the invoice is       *)
(* skipped for good.                                                       *)
LockForInvoice(w) ==
    /\ pc[w] = "invoice"
    /\ IF row.exists
         THEN /\ LockFree(w)
              /\ lock' = w
              /\ seen' = [seen EXCEPT ![w] = InvoiceCursor(row)]
              /\ Goes(w, "invoiceLocked")
              /\ UNCHANGED <<cur, sets, handled>>
         ELSE /\ Return(w, {"skipped"})
              /\ UNCHANGED lock
    /\ UNCHANGED <<ev, now, row, linked, runs, written, faults>>

RejectStaleInvoice(w) ==
    /\ pc[w] = "invoiceLocked"
    /\ Superseded(Created(cur[w]), seen[w])
    /\ lock' = NoWorker
    /\ Return(w, {"stale"})
    /\ UNCHANGED <<ev, now, row, linked, runs, written, faults>>

(* successQuery and failureQuery.                                          *)
Paid(r, e) ==
    [r EXCEPT !.failedAt = 0, !.failures = 0,
              !.invoiceAt = Created(e), !.invoiceId = e]

Declined(r, e) ==
    [r EXCEPT !.failedAt = Created(e), !.failures = @ + 1,
              !.invoiceAt = Created(e), !.invoiceId = e]

CommitInvoice(w) ==
    /\ pc[w] = "invoiceLocked"
    /\ ~Superseded(Created(cur[w]), seen[w])
    /\ row' = IF Kind(cur[w]) = "payment_succeeded"
                THEN Paid(row, cur[w]) ELSE Declined(row, cur[w])
    /\ lock' = NoWorker
    /\ Commit(w, "processed")
    /\ UNCHANGED <<ev, now, linked, runs, written>>

(* Any call errs, the context ends, or the worker dies: an open            *)
(* transaction rolls back, and the dispatch reports no result.             *)
Fail(w) ==
    /\ pc[w] # "idle"
    /\ Fault
    /\ lock' = IF lock = w THEN NoWorker ELSE lock
    /\ Return(w, {})
    /\ UNCHANGED <<ev, now, row, linked, runs, written>>

-----------------------------------------------------------------------------
Step(w) ==
    \/ LockForStatus(w) \/ RejectStale(w) \/ CommitStatus(w)
    \/ ResolveOwner(w) \/ LinkCustomer(w) \/ FetchSubscription(w)
    \/ CreateSubscription(w)
    \/ LockForInvoice(w) \/ RejectStaleInvoice(w) \/ CommitInvoice(w)

Next ==
    \/ Occur
    \/ \E w \in Workers : (\E e \in Events : Dispatch(w, e)) \/ Step(w) \/ Fail(w)

Spec == Init /\ [][Next]_vars

-----------------------------------------------------------------------------
(* Properties.                                                             *)

Stream == {e \in Events : Kind(e) \in SubscriptionKinds \cup {"checkout"}}

(* The row carries the newest event written so far: of two events racing   *)
(* for the row the older never ends up on top, and the status is the one   *)
(* that event reported (UpdateSubscriptionStatus, CreateSubscription).     *)
(* The cursors so never go back.  (With the types.)                        *)
NewestEventWins ==
    /\ TypeOK
    /\ row.exists =>
           /\ row.id \in written /\ row.at = Created(row.id)
           /\ \A e \in written : Created(e) <= row.at
           /\ Kind(row.id) = "updated" => row.status = ev[row.id].status

(* No event is acknowledged as processed or stale while the row is still   *)
(* older than it: an acknowledged status is never lost.                    *)
AcknowledgedIsOnRow ==
    \A e \in Stream :
        handled[e] \cap {"processed", "stale"} # {}
          => row.exists /\ Created(e) <= row.at

(* A subscription event is dropped as stale only because a newer one of    *)
(* its own stream was written: invoices cannot starve it.                  *)
StaleOnlyIfSuperseded ==
    \A e \in Events :
        Kind(e) \in SubscriptionKinds /\ "stale" \in handled[e]
          => \E d \in written : Created(d) > Created(e)

(* The dunning columns follow the newest invoice event: the flag is up     *)
(* exactly when the event at the cursor is a failure, and no invoice event *)
(* was acknowledged, as processed or as stale, that is newer than the      *)
(* cursor.  Of two invoices racing for the row the older never ends up on  *)
(* top (RecordInvoicePayment under the row lock).                          *)
DunningFollowsInvoices ==
    /\ row.failedAt # 0 <=> row.failures > 0
    /\ IF row.invoiceId = 0 THEN row.invoiceAt = 0 /\ row.failedAt = 0
       ELSE /\ row.invoiceAt = Created(row.invoiceId)
            /\ row.failedAt =
                 IF Kind(row.invoiceId) = "payment_failed" THEN row.invoiceAt ELSE 0
    /\ \A e \in Events :
          Kind(e) \in InvoiceKinds /\ handled[e] \cap {"processed", "stale"} # {}
            => Created(e) <= row.invoiceAt

(* Timestamps tell the stream's events apart and deletions say canceled.   *)
Distinguishable ==
    /\ \A d, e \in Stream : d # e => Created(d) # Created(e)
    /\ \A e \in Stream : Kind(e) = "deleted" => ev[e].status = "canceled"

(* Once everything has happened at Stripe and each event of the stream was *)
(* acknowledged, in whatever order and however often besides, the row      *)
(* shows the status the subscription has at Stripe.                        *)
ConvergesToStripe ==
    /\ Distinguishable
    /\ now + 1 \notin Events
    /\ \A e \in Stream : handled[e] \cap {"processed", "stale"} # {}
    /\ row.exists
    => row.status = StripeStatus

(* "cannot resurrect a canceled subscription" (ARCHITECTURE.md, Ordering). *)
CanceledStaysCanceled ==
    [][Distinguishable /\ row.exists /\ row.status = "canceled"
         => row'.status = "canceled"]_vars
=============================================================================
