--------------------------- MODULE BillingAccounts ---------------------------
(***************************************************************************)
(* A user's row and the Stripe customer it is linked to.                   *)
(*                                                                         *)
(* UpdateUser writes every mutable column from a copy the caller read      *)
(* earlier.  Two callers do so: a login that upgrades the password digest, *)
(* and the webhook handler that links the customer a checkout created.     *)
(* Checkouts and portal sessions read the row and then call Stripe.  Two   *)
(* kinds of event store a subscription: the completed checkout, which      *)
(* links the customer first, and a customer.subscription.* event that      *)
(* finds no row, which does not.  Stripe orders neither after the other.   *)
(*                                                                         *)
(* Each action is one statement or one call; a worker is one request, or   *)
(* one webhook event that WebhookLedger gives to one worker at a time and  *)
(* hands out again until it is settled.                                    *)
(***************************************************************************)
EXTENDS Naturals, FiniteSets

CONSTANTS
    Users,            \* user ids
    EarlyUsers,       \* users who registered before the configured cost was raised
    Customers,        \* Stripe customer ids
    Sessions,         \* checkout session ids, and the subscription each creates
    Workers,          \* concurrent requests and webhook deliveries
    Prices,           \* price ids a caller may send
    AllowedPriceIDs,  \* CheckoutConfig.AllowedPriceIDs
    None,
    MaxFaults         \* bound: failed calls and crashes

ASSUME AccountsAssumption ==
    /\ None \notin Users \cup Customers \cup Sessions \cup Workers
    /\ IsFiniteSet(Sessions) /\ MaxFaults \in Nat

VARIABLES
    user,      \* the users table
    sub,       \* the subscriptions table: whose each subscription is
    session,   \* Stripe: the checkout sessions
    owner,     \* Stripe: the user whose checkout created each customer
    event,     \* where each session's checkout.session.completed is
    worker,    \* where each worker is, and the copy of the user it holds
    lost,      \* history: users whose link a later write removed or replaced
    faults

vars == <<user, sub, session, owner, event, worker, lost, faults>>

UserRows == [known : BOOLEAN, digest : {"outdated", "current"},
             customer : Customers \cup {None}]

Idle == [at |-> "idle", id |-> None, copy |-> None, session |-> None]

(* The rows keep to the schema, and a worker that has returned holds no    *)
(* copy of a user (users, HandleCheckout, ProcessEvent).                   *)
TypeOK ==
    /\ user \in [Users -> UserRows]
    /\ sub \in [Sessions -> Users \cup {None}]
    /\ session \in [Sessions -> [state : {"none", "open", "complete"},
                                 reference : Users \cup {None}, byEmail : BOOLEAN,
                                 customer : Customers \cup {None}]]
    /\ owner \in [Customers -> Users \cup {None}]
    /\ event \in [Sessions -> {"none", "pending", "held", "settled"}]
    /\ worker \in [Workers -> [at : {"rehash", "checkout", "portal", "link", "record", "create"},
                               id : Users, copy : UserRows,
                               session : Sessions \cup {None}] \cup {Idle}]
    /\ lost \subseteq Users
    /\ faults \in 0 .. MaxFaults

Unregistered == [known |-> FALSE, digest |-> "current", customer |-> None]
Outdated     == [known |-> TRUE, digest |-> "outdated", customer |-> None]

Init ==
    /\ user = [u \in Users |-> IF u \in EarlyUsers THEN Outdated ELSE Unregistered]
    /\ sub = [s \in Sessions |-> None]
    /\ session = [s \in Sessions |-> [state |-> "none", reference |-> None,
                                      byEmail |-> FALSE, customer |-> None]]
    /\ owner = [c \in Customers |-> None]
    /\ event = [s \in Sessions |-> "none"]
    /\ worker = [w \in Workers |-> Idle]
    /\ lost = {} /\ faults = 0

stripe == <<session, owner>>

Fault == faults < MaxFaults /\ faults' = faults + 1

(* GetUserByID, GetUserByEmail: the worker goes on with a copy of the row. *)
Reads(w, u, label, s) ==
    /\ worker[w] = Idle
    /\ user[u].known
    /\ worker' = [worker EXCEPT ![w] = [at |-> label, id |-> u, copy |-> user[u],
                                        session |-> s]]

Returns(w) == worker' = [worker EXCEPT ![w] = Idle]

(* uq_users_stripe_customer_id *)
Conflicts(u, r) == r.customer # None /\ \E v \in Users \ {u} : user[v].customer = r.customer

(* UpdateUser: every mutable column, or nothing when an index objects. *)
UpdateUser(u, r) ==
    /\ user' = IF Conflicts(u, r) THEN user ELSE [user EXCEPT ![u] = r]
    /\ lost' = IF user[u].customer \notin {None, user'[u].customer}
               THEN lost \cup {u} ELSE lost

-----------------------------------------------------------------------------
(* Registration and login. *)

Register(u) ==
    /\ ~user[u].known
    /\ user' = [user EXCEPT ![u].known = TRUE]
    /\ UNCHANGED <<sub, stripe, event, worker, lost, faults>>

(* Only a login that rehashes writes the row; hashing takes its time. *)
Login(w, u) ==
    /\ user[u].digest = "outdated"
    /\ Reads(w, u, "rehash", None)
    /\ UNCHANGED <<user, sub, stripe, event, lost, faults>>

(* A failed upgrade is logged and the login succeeds. *)
SaveRehash(w) ==
    /\ worker[w].at = "rehash"
    /\ \/ /\ UpdateUser(worker[w].id, [worker[w].copy EXCEPT !.digest = "current"])
          /\ UNCHANGED faults
       \/ Fault /\ UNCHANGED <<user, lost>>
    /\ Returns(w)
    /\ UNCHANGED <<sub, stripe, event>>

-----------------------------------------------------------------------------
(* Checkout and the billing portal. *)

priceAllowed(p) == AllowedPriceIDs = {} \/ p \in AllowedPriceIDs

OpenCheckout(w, u) ==
    /\ \E p \in Prices : priceAllowed(p)
    /\ Reads(w, u, "checkout", None)
    /\ UNCHANGED <<user, sub, stripe, event, lost, faults>>

(* The customer of the copy, or the email when the copy has none. *)
SessionFor(u, copy) ==
    [state |-> "open", reference |-> u, byEmail |-> copy.customer = None,
     customer |-> copy.customer]

Unused == {s \in Sessions : session[s].state = "none"}

(* A call that fails opens no session; every call fails once the bounded   *)
(* set of session ids is used up.                                          *)
CreateCheckoutSession(w) ==
    /\ worker[w].at = "checkout"
    /\ \/ /\ \E s \in Unused :
                session' = [session EXCEPT ![s] = SessionFor(worker[w].id, worker[w].copy)]
          /\ UNCHANGED faults
       \/ Fault /\ UNCHANGED session
       \/ Unused = {} /\ UNCHANGED <<session, faults>>
    /\ Returns(w)
    /\ UNCHANGED <<user, sub, owner, event, lost>>

AnyoneHasPortal(u) == TRUE

(* A user without a customer is answered ErrNotFound. *)
HasPortal(u) == user[u].customer # None

OpenPortal(w, u) ==
    /\ HasPortal(u)
    /\ Reads(w, u, "portal", None)
    /\ UNCHANGED <<user, sub, stripe, event, lost, faults>>

(* Stripe answers with a link, or fails; no row changes either way. *)
CreatePortalSession(w) ==
    /\ worker[w].at = "portal"
    /\ Returns(w)
    /\ UNCHANGED <<user, sub, stripe, event, lost, faults>>

-----------------------------------------------------------------------------
(* Stripe: the user pays.  An email makes a customer, whoever has one. *)
CompleteSession(s) ==
    /\ session[s].state = "open"
    /\ \E c \in Customers :
        /\ \/ ~session[s].byEmail /\ c = session[s].customer /\ UNCHANGED owner
           \/ /\ session[s].byEmail /\ owner[c] = None
              /\ owner' = [owner EXCEPT ![c] = session[s].reference]
        /\ session' = [session EXCEPT ![s].state = "complete", ![s].customer = c]
    /\ event' = [event EXCEPT ![s] = "pending"]
    /\ UNCHANGED <<user, sub, worker, lost, faults>>

(* Stripe: a session opened in the dashboard for a customer, without a     *)
(* reference to a user of this service.                                    *)
CompleteOutside(s, c) ==
    /\ s \in Unused
    /\ owner[c] # None
    /\ session' = [session EXCEPT ![s].state = "complete", ![s].customer = c]
    /\ event' = [event EXCEPT ![s] = "pending"]
    /\ UNCHANGED <<user, sub, owner, worker, lost, faults>>

-----------------------------------------------------------------------------
(* checkout.session.completed. *)

NullMatches(s) ==
    IF session[s].reference # None THEN {session[s].reference}
    ELSE {u \in Users : user[u].customer \in {None, session[s].customer}}

(* resolveUser: the reference, or who is linked to the customer. *)
ResolvesTo(s) ==
    IF session[s].reference # None THEN {session[s].reference}
    ELSE {u \in Users : user[u].customer = session[s].customer}

TakeEvent(w, s) ==
    /\ event[s] = "pending"
    /\ \/ /\ \E u \in ResolvesTo(s) : Reads(w, u, "link", s)
          /\ event' = [event EXCEPT ![s] = "held"]
       \/ /\ worker[w] = Idle /\ ResolvesTo(s) = {}
          /\ event' = [event EXCEPT ![s] = "settled"]
          /\ UNCHANGED worker
    /\ UNCHANGED <<user, sub, stripe, lost, faults>>

SettlesFailed(w) ==
    /\ Returns(w)
    /\ event' = [event EXCEPT ![worker[w].session] = "settled"]

(* A failed dispatch gives the event back to the ledger. *)
Retries(w) ==
    /\ Returns(w)
    /\ event' = [event EXCEPT ![worker[w].session] = "pending"]

Goes(w, label) == worker' = [worker EXCEPT ![w].at = label] /\ UNCHANGED event

LinksAlways(w) == TRUE

(* A copy that has a customer, this one or another, is left alone. *)
Links(w) == worker[w].copy.customer = None

LinkFailureIgnored(w) == Fault /\ Goes(w, "record")

LinkFails(w) == Fault /\ Retries(w)

linkCustomer(w) ==
    /\ worker[w].at = "link"
    /\ \/ ~Links(w) /\ Goes(w, "record") /\ UNCHANGED <<user, lost, faults>>
       \/ /\ Links(w)
          /\ UpdateUser(worker[w].id, [worker[w].copy EXCEPT
                                          !.customer = session[worker[w].session].customer])
          /\ Goes(w, "record")
          /\ UNCHANGED faults
       \/ Links(w) /\ LinkFails(w) /\ UNCHANGED <<user, lost>>
    /\ UNCHANGED <<sub, stripe>>

(* CreateSubscription: a row that is there keeps its owner. *)
Stores(s, u) == sub' = [sub EXCEPT ![s] = IF @ = None THEN u ELSE @]

(* The subscription is fetched and stored under the resolved user. *)
RecordSubscription(w) ==
    /\ worker[w].at = "record"
    /\ \/ /\ Stores(worker[w].session, worker[w].id)
          /\ event' = [event EXCEPT ![worker[w].session] = "settled"]
          /\ Returns(w)
          /\ UNCHANGED faults
       \/ Fault /\ Retries(w) /\ UNCHANGED sub
    /\ UNCHANGED <<user, stripe, lost>>

-----------------------------------------------------------------------------
(* customer.subscription.*: any number of them, at any time after the      *)
(* session completed.                                                      *)

(* UpdateSubscriptionStatus finds no row, and resolveUser reads the user:  *)
(* the session's metadata, which Stripe copies to the subscription, names  *)
(* who the reference names.  (A row stored between the two statements      *)
(* makes the insert a conflict, as one stored after them does.)  With a    *)
(* row, or nobody to own it, the event changes no owner.                   *)
TakeSubscriptionEvent(w, s) ==
    /\ session[s].state = "complete" /\ sub[s] = None
    /\ \E u \in ResolvesTo(s) : Reads(w, u, "create", s)
    /\ UNCHANGED <<user, sub, stripe, event, lost, faults>>

(* No link is made; a failed event comes again like any other. *)
createFromEvent(w) ==
    /\ worker[w].at = "create"
    /\ \/ Stores(worker[w].session, worker[w].id) /\ UNCHANGED faults
       \/ Fault /\ UNCHANGED sub
    /\ Returns(w)
    /\ UNCHANGED <<user, stripe, event, lost>>

-----------------------------------------------------------------------------
HoldsCheckout(w) == worker[w].at \in {"link", "record"}

Crash(w) ==
    /\ worker[w] # Idle
    /\ Fault
    /\ \/ HoldsCheckout(w) /\ Retries(w)
       \/ ~HoldsCheckout(w) /\ Returns(w) /\ UNCHANGED event
    /\ UNCHANGED <<user, sub, stripe, lost>>

WorkStep(w) ==
    \/ SaveRehash(w) \/ CreateCheckoutSession(w) \/ CreatePortalSession(w)
    \/ linkCustomer(w) \/ RecordSubscription(w) \/ createFromEvent(w)

Next ==
    \/ \E u \in Users : Register(u)
    \/ \E w \in Workers, u \in Users : Login(w, u) \/ OpenCheckout(w, u) \/ OpenPortal(w, u)
    \/ \E w \in Workers, s \in Sessions : TakeEvent(w, s) \/ TakeSubscriptionEvent(w, s)
    \/ \E w \in Workers : WorkStep(w) \/ Crash(w)
    \/ \E s \in Sessions : CompleteSession(s)
    \/ \E s \in Sessions, c \in Customers : CompleteOutside(s, c)

Spec == Init /\ [][Next]_vars

-----------------------------------------------------------------------------
(* Properties *)

(* CreatePortalSession, checkout_service.go:198: the portal opens on a     *)
(* customer that the caller's own checkout created, whatever is linked or  *)
(* lost between the read of the row and the call.                          *)
PortalOpensOwnAccount ==
    \A w \in Workers : worker[w].at = "portal" =>
        \E c \in Customers : worker[w].copy.customer = c /\ owner[c] = worker[w].id

(* resolveUser and upsertSubscription, webhook_service.go:335: a stored    *)
(* subscription is under the user whose checkout created the paying        *)
(* customer, by reference or by the customer.  (With the types.)           *)
SubscriptionBelongsToPayer ==
    TypeOK /\ \A s \in Sessions : sub[s] # None => owner[session[s].customer] = sub[s]

(* linkCustomer, webhook_service.go:371: a link that is on the row is      *)
(* replaced or removed only by a caller whose copy of it is out of date.   *)
LinkFallsToStaleCopyOnly ==
    [][\A u \in Users : user[u].customer # None /\ user'[u].customer # user[u].customer
         => \E w \in Workers : /\ worker'[w] # worker[w] /\ worker[w].id = u
                               /\ worker[w].copy.customer # user[u].customer]_vars

EmailSessions(u) == {s \in Sessions : session[s].reference = u /\ session[s].byEmail}

(* linkCustomer before upsertSubscription, webhook_service.go:318: once    *)
(* the checkout's event is settled, a user has a subscription that the     *)
(* portal cannot show only if two of their checkouts started without a     *)
(* customer, or if the link was lost.  Until then createFromEvent may have *)
(* stored the subscription of a user who has no link.                      *)
IdentitySplitsByRaceOnly ==
    \A s \in Sessions :
        sub[s] # None /\ event[s] = "settled"
          /\ sub[s] \notin lost /\ Cardinality(EmailSessions(sub[s])) <= 1
            => user[sub[s]].customer = session[s].customer

(* handleCheckoutCompleted, webhook_service.go:287: a completed checkout   *)
(* that is acknowledged to Stripe, so that it never comes again, has its   *)
(* subscription under the user who opened it, whichever calls failed, and  *)
(* wherever the process died, on the way.                                  *)
SettledCheckoutIsRecorded ==
    \A s \in Sessions : event[s] = "settled" /\ session[s].reference # None
                            => sub[s] = session[s].reference

-----------------------------------------------------------------------------
(* Said of the code, and not so.                                           *)

(* webhook_service.go:368: "A different id on an existing user is not      *)
(* overwritten".  UpdateUser writes the copy, so a link made after the     *)
(* copy was read goes, be the writer another checkout or a login.          *)
LinkIsNeverReplaced ==
    [][\A u \in Users : user[u].customer # None => user'[u].customer = user[u].customer]_vars
=============================================================================
