---------------------------- MODULE WebhookInbox ----------------------------
(***************************************************************************)
(* What the webhook ledger promises, without claims, workers, attempts,    *)
(* clocks or faults: an event is received once, may be applied any number  *)
(* of times while it is open, is closed at most once and, when it is       *)
(* closed as applied, has been.  Nothing is applied after the close.       *)
(***************************************************************************)
CONSTANT Events

VARIABLES
    fate,   \* "unseen", "open", "applied" or "ignored"
    done    \* events a dispatch of which has completed

vars == <<fate, done>>

Init ==
    /\ fate = [e \in Events |-> "unseen"]
    /\ done = {}

Receive(e) ==
    /\ fate[e] = "unseen"
    /\ fate' = [fate EXCEPT ![e] = "open"]
    /\ UNCHANGED done

Apply(e) ==
    /\ fate[e] = "open"
    /\ done' = done \cup {e}
    /\ UNCHANGED fate

Close(e) ==
    /\ fate[e] = "open"
    /\ \/ e \in done /\ fate' = [fate EXCEPT ![e] = "applied"]
       \/ fate' = [fate EXCEPT ![e] = "ignored"]
    /\ UNCHANGED done

Next == \E e \in Events : Receive(e) \/ Apply(e) \/ Close(e)

Spec == Init /\ [][Next]_vars
=============================================================================
