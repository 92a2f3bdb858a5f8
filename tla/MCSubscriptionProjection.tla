---------------------- MODULE MCSubscriptionProjection ----------------------
(* Small instances of SubscriptionProjection for TLC. *)
EXTENDS WebhookPipeline, TLC

CONSTANT MaxCreated   \* bound on event.created

(* What one event can say.  Only subscription objects carry a status. *)
SubscriptionUpdated ==
    [kind : {"updated"}, created : 1 .. MaxCreated, status : {"active", "past_due"}]

SubscriptionDeleted ==
    [kind : {"deleted"}, created : 1 .. MaxCreated, status : {"canceled"}]

NoObjectStatus(kinds) ==
    [kind : kinds, created : 1 .. MaxCreated, status : {"incomplete"}]

Checkout == NoObjectStatus({"checkout"})
Invoice  == NoObjectStatus(InvoiceKinds)

(* Stripe stamps events in order, and updates nothing after a deletion. *)
Ordered(h) ==
    \A d, e \in Events : d < e =>
        /\ h[d].created <= h[e].created
        /\ h[d].kind = "deleted" => h[e].kind \in InvoiceKinds

(* Every event says something new (a repeat is a redelivery), except that  *)
(* payments may fail again.  At least one event is about the subscription. *)
(* The handlers only copy the status of an update, so the first may as     *)
(* well be active.                                                         *)
SaysNew(h) ==
    /\ \A d, e \in Events : d < e /\ h[d].kind # "payment_failed" =>
          h[d].kind # h[e].kind \/ h[d].status # h[e].status
    /\ \E e \in Events : h[e].kind \notin InvoiceKinds
    /\ \A e \in Events : h[e].status = "past_due" =>
          \E d \in Events : d < e /\ h[d].status = "active"

AnyHistory ==
    {h \in [Events -> SubscriptionUpdated \cup SubscriptionDeleted
                        \cup Checkout \cup Invoice] :
        Ordered(h) /\ SaysNew(h)}

(* The events of the subscription stream only, a second or more apart. *)
DistinctHistory ==
    {h \in [Events -> SubscriptionUpdated \cup SubscriptionDeleted \cup Checkout] :
        /\ Ordered(h) /\ SaysNew(h)
        /\ \A d, e \in Events : d < e => h[d].created < h[e].created}

(* Any three events over two seconds, two of them in the same one, or the *)
(* stream's events over three.                                            *)
BothHistories ==
    {h \in AnyHistory : {h[e].created : e \in Events} = {1, 2}}
      \cup DistinctHistory

WorkerSymmetry == Permutations(Workers)
=============================================================================
