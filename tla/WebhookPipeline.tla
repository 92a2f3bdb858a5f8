-------------------------- MODULE WebhookPipeline --------------------------
(* The ledger in front of the projection: SubscriptionProjection, with      *)
(* events dispatched as the ledger lets them be.  By WebhookInbox, which    *)
(* the ledger implements, an event is dispatched only while its row is      *)
(* open, and by LiveHolderOwnsClaim by one worker at a time; a dispatch     *)
(* that reports a result settles its row, one that errs leaves it failed    *)
(* for the sweeper or for a redelivery.  No settle is lost here.            *)
EXTENDS SubscriptionProjection, FiniteSets

(* TryClaimEvent or ClaimEventForRetry takes the row.                       *)
MayClaim(e) == handled[e] = {} /\ \A w \in Workers : cur[w] # e

PipelineNext ==
    \/ Occur
    \/ \E w \in Workers : \/ \E e \in Events : MayClaim(e) /\ Dispatch(w, e)
                          \/ Step(w)
                          \/ Fail(w)

PipelineSpec == Init /\ [][PipelineNext]_vars

(* "The event ledger already makes a redelivery a no-op, which is what      *)
(* keeps `payment_failure_count` from double-counting" (ARCHITECTURE.md):   *)
(* the counter is at most the number of failed payments there have been.    *)
FailuresCountedOnce ==
    row.failures <=
        Cardinality({e \in Events : e <= now /\ Kind(e) = "payment_failed"})
=============================================================================
