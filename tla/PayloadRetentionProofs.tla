----------------------- MODULE PayloadRetentionProofs -----------------------
(***************************************************************************)
(* Proofs about the retention of payloads, for any set of events, any      *)
(* configuration that config lets through, and any bounds: a payload that  *)
(* was minimised never comes back, and an event that is settled without    *)
(* having been dispatched from its full payload had lost it past the outer *)
(* bound.                                                                  *)
(*                                                                         *)
(* That there is no such event depends on how long sweeps, backoffs and    *)
(* faults take against the outer bound.  Wherever PurgeWaitsForBudget      *)
(* holds, SettledFromFullPayload holds; and it holds under                 *)
(* BoundOutlastsRetries.  The invariant for that, ClockInv, is an account: *)
(* each attempt pays for a Cycle of the age of a row and each fault for a  *)
(* Delay, with what is left until the next attempt included.               *)
(*                                                                         *)
(* The inductive invariant Inv follows the payload out of the row: what    *)
(* the listing or a worker's hand holds as a skeleton is a skeleton in the *)
(* row, for good, and the row of an open event that holds one is past the  *)
(* outer bound.                                                            *)
(***************************************************************************)
EXTENDS PayloadRetention, FiniteSetTheorems, TLAPS

Settled(e) == row[e].status \in {"succeeded", "skipped"}

(* A row has a payload once it exists; an open one is minimised only past  *)
(* the outer bound, and so is one that was settled unseen.                 *)
RowInv(e) ==
    /\ row[e].status = "absent" <=> row[e].payload = "none"
    /\ row[e].payload = "skeleton" /\ ~Settled(e) => row[e].age > UnsettledAfter
    /\ Settled(e) /\ e \notin considered =>
           /\ row[e].status = "skipped" /\ row[e].payload = "skeleton"
           /\ row[e].age > UnsettledAfter

(* What was listed is a row's, and a skeleton there is one in the row.     *)
ListInv(e) ==
    /\ listed[e] # "none" => row[e].status # "absent"
    /\ listed[e] = "skeleton" => row[e].payload = "skeleton"

(* So is what a worker holds.                                              *)
HandInv(w) ==
    hand[w].event # NoEvent =>
        /\ hand[w].payload # "none"
        /\ row[hand[w].event].status # "absent"
        /\ hand[w].payload = "skeleton" => row[hand[w].event].payload = "skeleton"

Inv ==
    /\ TypeOK
    /\ \A e \in Events : row[e].attempts <= MaxAttempts + deliveries
    /\ \A e \in Events : RowInv(e) /\ ListInv(e)
    /\ \A w \in Workers : HandInv(w)

(* Where purges wait for the budget: an open row that was minimised has    *)
(* spent its budget, so that nobody lists it or holds it minimised.        *)
BudgetInv ==
    /\ \A e \in Events :
           /\ row[e].payload = "skeleton" /\ ~Settled(e) => row[e].attempts >= MaxAttempts
           /\ listed[e] # "skeleton"
           /\ Settled(e) => e \in considered
    /\ \A w \in Workers : hand[w].event # NoEvent => hand[w].payload # "skeleton"

-----------------------------------------------------------------------------
(* Rows. *)

(* What the assumption says of the constants.                              *)
LEMMA Constants ==
    /\ NoEvent \notin Events
    /\ MaxAttempts \in Nat /\ MaxDeliveries \in Nat /\ MaxFaults \in Nat
    /\ SweepInterval \in Nat /\ SweepLimit \in Nat
    /\ SettledAfter \in Nat /\ UnsettledAfter \in Nat /\ AgeCap \in Nat
    /\ AgeCap > UnsettledAfter
BY RetentionAssumption, Zenon

(* The fields of a row.                                                    *)
LEMMA RowFields ==
    ASSUME NEW r \in Rows
    PROVE  /\ r.kind \in Kinds
           /\ r.status \in {"absent", "processing", "failed", "succeeded", "skipped"}
           /\ r.payload \in Payloads
           /\ r.attempts \in Nat /\ r.attempts <= MaxAttempts + MaxDeliveries
           /\ r.idle \in 0 .. AgeCap /\ r.age \in 0 .. AgeCap
BY Constants DEF Rows

(* A row is what its fields are.                                           *)
LEMMA RowIs ==
    ASSUME NEW k \in Kinds, NEW p \in Payloads,
           NEW s \in {"absent", "processing", "failed", "succeeded", "skipped"},
           NEW n \in Nat, n <= MaxAttempts + MaxDeliveries,
           NEW i \in 0 .. AgeCap, NEW a \in 0 .. AgeCap
    PROVE  [kind |-> k, status |-> s, payload |-> p, attempts |-> n,
            idle |-> i, age |-> a] \in Rows
BY Constants DEF Rows

(* A claim of a row that exists touches its status and its counters only.  *)
LEMMA ClaimedIs ==
    ASSUME NEW r \in Rows
    PROVE  Claimed(r) = [kind |-> r.kind, status |-> "processing", payload |-> r.payload,
                         attempts |-> r.attempts + 1, idle |-> 0, age |-> r.age]
<1>1. Claimed(r) = [r EXCEPT !.status = "processing", !.attempts = r.attempts + 1,
                             !.idle = 0]
  BY Zenon DEF Claimed
<1> QED
  BY <1>1, Zenon DEF Rows

(* The settling UPDATE touches the status of a row in processing only.     *)
LEMMA SettledIs ==
    ASSUME NEW r \in Rows, NEW v
    PROVE  SettleRow(r, v) =
             IF r.status = "processing"
             THEN [kind |-> r.kind, status |-> v, payload |-> r.payload,
                   attempts |-> r.attempts, idle |-> 0, age |-> r.age]
             ELSE r
<1>1. SettleRow(r, v) = IF r.status = "processing"
                         THEN [r EXCEPT !.status = v, !.idle = 0] ELSE r
  BY Zenon DEF SettleRow
<1>2. [r EXCEPT !.status = v, !.idle = 0] =
        [kind |-> r.kind, status |-> v, payload |-> r.payload,
         attempts |-> r.attempts, idle |-> 0, age |-> r.age]
  <2>1. PICK q : q = [r EXCEPT !.status = v, !.idle = 0]
    BY Zenon
  <2>2. q = [kind |-> r.kind, status |-> v, payload |-> r.payload,
             attempts |-> r.attempts, idle |-> 0, age |-> r.age]
    BY <2>1, Zenon DEF Rows
  <2> QED
    BY <2>1, <2>2, Zenon
<1> QED
  BY <1>1, <1>2, Zenon

(* PurgePayloads touches the payload.                                      *)
LEMMA PurgedIs ==
    ASSUME NEW r \in Rows
    PROVE  Purged(r) = [kind |-> r.kind, status |-> r.status, payload |-> "skeleton",
                        attempts |-> r.attempts, idle |-> 0, age |-> r.age]
<1>1. Purged(r) = [r EXCEPT !.payload = "skeleton", !.idle = 0]
  BY Zenon DEF Purged
<1> QED
  BY <1>1, Zenon DEF Rows

(* A tick makes a row no younger, and keeps it past the outer bound.       *)
LEMMA OlderIs ==
    ASSUME NEW n \in 0 .. AgeCap
    PROVE  /\ Older(n) \in 0 .. AgeCap
           /\ n > UnsettledAfter => Older(n) > UnsettledAfter
<1>1. n \in Nat /\ AgeCap \in Nat /\ UnsettledAfter \in Nat /\ AgeCap > UnsettledAfter
  BY Constants
<1>2. \E x \in {n + 1, AgeCap} : \A y \in {n + 1, AgeCap} : x =< y
  BY <1>1
<1>3. Older(n) \in {n + 1, AgeCap} /\ \A y \in {n + 1, AgeCap} : Older(n) =< y
  BY <1>2, Zenon DEF Older, Min
<1> QED
  BY <1>1, <1>3

(* The same, field by field.  A delivery inserts a first attempt.          *)
LEMMA ReceivedFields ==
    ASSUME NEW k \in Kinds
    PROVE  /\ Received(k).status = "processing" /\ Received(k).payload = "full"
           /\ Received(k).attempts = 1 /\ Received(k).age = 0
BY Zenon DEF Received

(* A claim counts an attempt and keeps payload and age.                    *)
LEMMA ClaimedFields ==
    ASSUME NEW r \in Rows, NEW q, q = Claimed(r)
    PROVE  /\ q.status = "processing" /\ q.attempts = r.attempts + 1
           /\ q.payload = r.payload /\ q.age = r.age
BY ClaimedIs

(* Settling writes the verdict only.                                       *)
LEMMA SettledFields ==
    ASSUME NEW r \in Rows, NEW v, r.status = "processing", NEW q, q = SettleRow(r, v)
    PROVE  /\ q.status = v /\ q.attempts = r.attempts
           /\ q.payload = r.payload /\ q.age = r.age
<1>1. q = [kind |-> r.kind, status |-> v, payload |-> r.payload,
           attempts |-> r.attempts, idle |-> 0, age |-> r.age]
  BY SettledIs, Zenon
<1> QED
  BY <1>1

(* Purging changes the payload only.                                       *)
LEMMA PurgedFields ==
    ASSUME NEW r \in Rows, NEW q, q = Purged(r)
    PROVE  /\ q.status = r.status /\ q.attempts = r.attempts
           /\ q.payload = "skeleton" /\ q.age = r.age
BY PurgedIs

(* A tick changes the two times only.                                      *)
LEMMA AgedFields ==
    ASSUME NEW r \in Rows, NEW i \in 0 .. AgeCap, NEW a \in 0 .. AgeCap,
           NEW q, q = [kind |-> r.kind, status |-> r.status, payload |-> r.payload,
                       attempts |-> r.attempts, idle |-> i, age |-> a]
    PROVE  /\ q \in Rows /\ q.status = r.status /\ q.payload = r.payload
           /\ q.attempts = r.attempts /\ q.idle = i /\ q.age = a
<1>1. /\ r.kind \in Kinds /\ r.payload \in Payloads
      /\ r.status \in {"absent", "processing", "failed", "succeeded", "skipped"}
      /\ r.attempts \in Nat /\ r.attempts <= MaxAttempts + MaxDeliveries
  BY RowFields, Zenon
<1>2. q \in Rows
  BY <1>1, RowIs, Zenon
<1> QED
  BY <1>2, Zenon

-----------------------------------------------------------------------------
(* What every step has in common. *)

(* A row that exists stays, and stays minimised once it is.                *)
Forward(e) ==
    /\ row[e].status # "absent" => row'[e].status # "absent"
    /\ row[e].payload = "skeleton" => row'[e].payload = "skeleton"

(* A row that does not change keeps what is said of it.                    *)
LEMMA RowKept ==
    ASSUME NEW e \in Events, RowInv(e), row'[e] = row[e], considered \subseteq considered'
    PROVE  RowInv(e)' /\ Forward(e)
BY Zenon DEF RowInv, Settled, Forward

(* The listing and the hands after a step: what they hold is what they     *)
(* held, or comes from a row.                                              *)
LEMMA Assemble ==
    ASSUME Inv, TypeOK',
           \A e \in Events : row'[e].attempts <= MaxAttempts + deliveries',
           \A e \in Events : RowInv(e)' /\ Forward(e),
           \A e \in Events :
               \/ listed'[e] \in {"none", listed[e]}
               \/ row[e].status # "absent" /\ listed'[e] = row[e].payload,
           \A w \in Workers :
               \/ hand'[w] \in {Nothing, hand[w]}
               \/ /\ hand'[w].event \in Events /\ row'[hand'[w].event].status # "absent"
                  /\ \/ hand'[w].payload = "full"
                     \/ /\ hand'[w].payload = listed[hand'[w].event]
                        /\ hand'[w].payload # "none"
    PROVE  Inv'
<1>1. \A e \in Events : ListInv(e)'
  BY Zenon DEF Inv, ListInv, Forward
<1>2. ASSUME NEW w \in Workers PROVE HandInv(w)'
  <2>1. CASE hand'[w] = Nothing
    BY <2>1 DEF HandInv, Nothing
  <2>2. CASE hand'[w] = hand[w]
    <3>1. hand[w].event \in Events \cup {NoEvent} /\ HandInv(w)
      BY Zenon DEF Inv, TypeOK
    <3> QED
      BY <2>2, <3>1, Zenon DEF HandInv, Forward
  <2>3. CASE /\ hand'[w].event \in Events /\ row'[hand'[w].event].status # "absent"
             /\ \/ hand'[w].payload = "full"
                \/ /\ hand'[w].payload = listed[hand'[w].event]
                   /\ hand'[w].payload # "none"
    <3>1. PICK e \in Events : e = hand'[w].event
      BY <2>3, Zenon
    <3>2. ListInv(e) /\ Forward(e)
      BY Zenon DEF Inv
    <3> QED
      BY <2>3, <3>1, <3>2, Zenon DEF HandInv, ListInv, Forward
  <2> QED
    BY <2>1, <2>2, <2>3, Zenon
<1> QED
  BY <1>1, <1>2, Zenon DEF Inv

-----------------------------------------------------------------------------
(* Every action keeps the invariant, and no row goes backwards. *)

(* At the start there are no rows and nothing is in hand.                  *)
LEMMA InitInv == Init => Inv
<1> SUFFICES ASSUME Init PROVE Inv
  BY Zenon
<1>1. TypeOK
  BY Constants DEF Init, TypeOK, Rows, Kinds, Payloads, Nothing
<1>2. \A e \in Events : RowInv(e) /\ ListInv(e) /\ row[e].attempts <= MaxAttempts + deliveries
  BY Constants DEF Init, RowInv, ListInv, Settled
<1>3. \A w \in Workers : HandInv(w)
  BY Zenon DEF Init, HandInv, Nothing
<1> QED
  BY <1>1, <1>2, <1>3, Zenon DEF Inv

(* One row changes, to r.                                                  *)
LEMMA OneRow ==
    ASSUME Inv, NEW e \in Events, NEW r \in Rows, row' = [row EXCEPT ![e] = r],
           considered \subseteq considered', deliveries \in Nat, deliveries' \in Nat,
           deliveries <= deliveries',
           r.attempts <= MaxAttempts + deliveries',
           RowInv(e)', Forward(e)
    PROVE  /\ row' \in [Events -> Rows]
           /\ \A d \in Events : row'[d].attempts <= MaxAttempts + deliveries'
           /\ \A d \in Events : RowInv(d)' /\ Forward(d)
<1>1. row \in [Events -> Rows]
  BY Zenon DEF Inv, TypeOK
<1>2. row' \in [Events -> Rows] /\ row'[e] = r /\ \A d \in Events : d # e => row'[d] = row[d]
  BY <1>1, Zenon
<1>3. ASSUME NEW d \in Events, d # e
      PROVE  row'[d].attempts <= MaxAttempts + deliveries' /\ RowInv(d)' /\ Forward(d)
  <2>1. row'[d] = row[d] /\ row[d] \in Rows /\ RowInv(d)
        /\ row[d].attempts <= MaxAttempts + deliveries
    BY <1>1, <1>2, <1>3, Zenon DEF Inv
  <2>2. row[d].attempts \in Nat
    BY <2>1, RowFields, Zenon
  <2> QED
    BY <2>1, <2>2, RowKept, Constants
<1> QED
  BY <1>2, <1>3, Zenon

(* TryClaimEvent: a new row with the payload, or a claim that leaves the   *)
(* payload alone.                                                          *)
LEMMA TryClaimInv ==
    ASSUME Inv, NEW e \in Events, NEW k \in Kinds, TryClaimEvent(e, k)
    PROVE  Inv' /\ \A d \in Events : Forward(d)
<1> DEFINE r == ClaimRow(row[e], k)
<1>1. /\ row \in [Events -> Rows] /\ row[e] \in Rows /\ RowInv(e)
      /\ row[e].attempts <= MaxAttempts + deliveries
      /\ deliveries \in Nat /\ deliveries < MaxDeliveries /\ deliveries' = deliveries + 1
      /\ Claimable(row[e])
      /\ row' = [row EXCEPT ![e] = r]
      /\ hand' = [hand EXCEPT !["handler"] = [event |-> e, payload |-> "full"]]
      /\ UNCHANGED <<listed, sweep, sinceSweep, pass, considered, faults>>
  BY Constants DEF Inv, TypeOK, TryClaimEvent, sweeping
<1>2. /\ r \in Rows /\ r.attempts <= MaxAttempts + deliveries' /\ r.status = "processing"
      /\ r.payload = IF row[e].status = "absent" THEN "full" ELSE row[e].payload
      /\ row[e].status # "absent" => r.age = row[e].age
  <2>1. CASE row[e].status = "absent"
    <3>1. r = [kind |-> k, status |-> "processing", payload |-> "full",
               attempts |-> 1, idle |-> 0, age |-> 0]
      BY <2>1, Zenon DEF ClaimRow, Received
    <3>2. 1 <= MaxAttempts + MaxDeliveries /\ 0 \in 0 .. AgeCap
          /\ 1 <= MaxAttempts + deliveries'
      BY <1>1, Constants
    <3>3. r \in Rows
      BY <3>1, <3>2, RowIs, ZenonT(40) DEF Payloads
    <3> QED
      BY <2>1, <3>1, <3>2, <3>3
  <2>2. CASE row[e].status # "absent"
    <3>1. r = [kind |-> row[e].kind, status |-> "processing", payload |-> row[e].payload,
               attempts |-> row[e].attempts + 1, idle |-> 0, age |-> row[e].age]
      BY <1>1, <2>2, ClaimedIs, Zenon DEF ClaimRow
    <3>2. /\ row[e].kind \in Kinds /\ row[e].payload \in Payloads
          /\ row[e].attempts \in Nat /\ row[e].age \in 0 .. AgeCap
      BY <1>1, RowFields, Zenon
    <3>3. /\ row[e].attempts + 1 \in Nat /\ 0 \in 0 .. AgeCap
          /\ row[e].attempts + 1 <= MaxAttempts + MaxDeliveries
          /\ row[e].attempts + 1 <= MaxAttempts + deliveries'
      BY <1>1, <3>2, Constants
    <3>4. r \in Rows
      BY <3>1, <3>2, <3>3, RowIs
    <3> QED
      BY <2>2, <3>1, <3>3, <3>4
  <2> QED
    BY <2>1, <2>2, Zenon
<1> HIDE DEF r
<1>3. row'[e] = r
  BY <1>1, Zenon
<1>4. RowInv(e)' /\ Forward(e)
  <2>1. ~Settled(e)
    BY <1>1, Zenon DEF Claimable, Settled
  <2> QED
    BY <1>1, <1>2, <1>3, <2>1, Zenon DEF RowInv, Settled, Forward
<1>5. /\ row' \in [Events -> Rows]
      /\ \A d \in Events : row'[d].attempts <= MaxAttempts + deliveries'
      /\ \A d \in Events : RowInv(d)' /\ Forward(d)
  <2>1. considered \subseteq considered' /\ deliveries' \in Nat /\ deliveries <= deliveries'
    BY <1>1
  <2> QED
    BY <1>1, <1>2, <1>4, <2>1, OneRow, Zenon
<1>6. /\ hand' \in [Workers -> [event : Events \cup {NoEvent}, payload : Payloads]]
      /\ \A w \in Workers :
           \/ hand'[w] = hand[w]
           \/ hand'[w].event = e /\ hand'[w].payload = "full"
  BY <1>1, Zenon DEF Inv, TypeOK, Workers, Payloads
<1>7. TypeOK'
  BY <1>1, <1>5, <1>6, Constants DEF Inv, TypeOK
<1>8. \A w \in Workers :
        \/ hand'[w] \in {Nothing, hand[w]}
        \/ /\ hand'[w].event \in Events /\ row'[hand'[w].event].status # "absent"
           /\ \/ hand'[w].payload = "full"
              \/ /\ hand'[w].payload = listed[hand'[w].event]
                 /\ hand'[w].payload # "none"
  BY <1>2, <1>3, <1>6, Zenon
<1>9. \A d \in Events : listed'[d] \in {"none", listed[d]}
  BY <1>1, Zenon
<1> QED
  BY <1>5, <1>7, <1>8, <1>9, Assemble, Zenon

(* dispatch and settle: a skeleton settles a row as skipped or not at all. *)
LEMMA DispatchInv ==
    ASSUME Inv, NEW w \in Workers, DispatchAndSettle(w)
    PROVE  Inv' /\ \A d \in Events : Forward(d)
<1>1. PICK e \in Events : e = hand[w].event
  BY Zenon DEF DispatchAndSettle, Inv, TypeOK
<1>2. PICK verdict \in Verdicts(row[e].kind, hand[w].payload) :
        /\ row' = [row EXCEPT ![e] = SettleRow(row[e], verdict)]
        /\ considered' = IF verdict # "failed" /\ hand[w].payload = "full"
                         THEN considered \cup {e} ELSE considered
  BY <1>1, Zenon DEF DispatchAndSettle, Inv, TypeOK
<1>3. /\ row \in [Events -> Rows] /\ row[e] \in Rows /\ RowInv(e)
      /\ row[e].attempts <= MaxAttempts + deliveries /\ deliveries \in Nat
      /\ hand[w].payload \in {"full", "skeleton"}
      /\ hand[w].payload = "skeleton" => row[e].payload = "skeleton"
      /\ hand' = [hand EXCEPT ![w] = Nothing]
      /\ UNCHANGED <<listed, sweep, sinceSweep, pass, deliveries, faults>>
  <2>1. HandInv(w) /\ hand[w].payload \in Payloads
    BY Zenon DEF Inv, TypeOK
  <2>2. e # NoEvent
    BY Constants, Zenon
  <2> QED
    BY <1>1, <2>1, <2>2
       DEF Inv, TypeOK, DispatchAndSettle, sweeping, HandInv, Payloads
<1>4. /\ verdict \in {"succeeded", "skipped", "failed"}
      /\ hand[w].payload = "skeleton" => verdict \in {"skipped", "failed"}
  BY <1>2, <1>3, Zenon DEF Verdicts
<1> DEFINE r == SettleRow(row[e], verdict)
<1>5. /\ r \in Rows /\ r.attempts = row[e].attempts /\ r.payload = row[e].payload
      /\ r.age = row[e].age
      /\ r.status = IF row[e].status = "processing" THEN verdict ELSE row[e].status
  <2>1. CASE row[e].status = "processing"
    <3>1. r = [kind |-> row[e].kind, status |-> verdict, payload |-> row[e].payload,
               attempts |-> row[e].attempts, idle |-> 0, age |-> row[e].age]
      BY <1>3, <2>1, SettledIs, Zenon
    <3>2. /\ row[e].kind \in Kinds /\ row[e].payload \in Payloads
          /\ row[e].attempts \in Nat /\ row[e].attempts <= MaxAttempts + MaxDeliveries
          /\ row[e].age \in 0 .. AgeCap /\ 0 \in 0 .. AgeCap
      BY <1>3, RowFields, Constants
    <3>3. r \in Rows
      BY <1>4, <3>1, <3>2, RowIs
    <3> QED
      BY <2>1, <3>1, <3>3
  <2>2. CASE row[e].status # "processing"
    BY <1>3, <2>2, SettledIs, Zenon
  <2> QED
    BY <2>1, <2>2, Zenon
<1> HIDE DEF r
<1>6. row' = [row EXCEPT ![e] = r] /\ row'[e] = r
  BY <1>2, <1>3, Zenon DEF r
<1>7. RowInv(e)' /\ Forward(e)
  <2>1. CASE row[e].status = "processing"
    <3>1. /\ ~Settled(e) /\ row[e].payload # "none"
          /\ row[e].payload = "skeleton" => row[e].age > UnsettledAfter
      BY <1>3, <2>1, Zenon DEF RowInv, Settled
    <3>2. Settled(e)' /\ e \notin considered' =>
            r.status = "skipped" /\ row[e].payload = "skeleton"
      BY <1>2, <1>3, <1>4, <1>5, <1>6, <2>1, Zenon DEF Settled
    <3>3. Forward(e)
      BY <1>4, <1>5, <1>6, <2>1, Zenon DEF Forward
    <3> QED
      BY <1>4, <1>5, <1>6, <2>1, <3>1, <3>2, <3>3, Zenon DEF RowInv, Settled
  <2>2. CASE row[e].status # "processing"
    BY <1>2, <1>3, <1>5, <1>6, <2>2, Zenon DEF RowInv, Settled, Forward
  <2> QED
    BY <2>1, <2>2, Zenon
<1>8. /\ row' \in [Events -> Rows]
      /\ \A d \in Events : row'[d].attempts <= MaxAttempts + deliveries'
      /\ \A d \in Events : RowInv(d)' /\ Forward(d)
  <2>1. considered \subseteq considered' /\ deliveries <= deliveries'
        /\ r.attempts <= MaxAttempts + deliveries'
    BY <1>2, <1>3, <1>5
  <2> QED
    BY <1>3, <1>5, <1>6, <1>7, <2>1, OneRow, ZenonT(40)
<1>9. /\ hand' \in [Workers -> [event : Events \cup {NoEvent}, payload : Payloads]]
      /\ \A u \in Workers : hand'[u] \in {Nothing, hand[u]}
  BY <1>3, Zenon DEF Inv, TypeOK, Nothing, Payloads
<1>10. TypeOK'
  BY <1>2, <1>3, <1>8, <1>9, Zenon DEF Inv, TypeOK
<1>11. \A d \in Events : listed'[d] \in {"none", listed[d]}
  BY <1>3, Zenon
<1> QED
  BY <1>8, <1>9, <1>10, <1>11, Assemble, Zenon

(* A crash drops what is in hand, and the sweeper's listing with it.       *)
LEMMA CrashInv ==
    ASSUME Inv, NEW w \in Workers, Crash(w)
    PROVE  Inv' /\ \A d \in Events : Forward(d)
<1>1. /\ hand' = [hand EXCEPT ![w] = Nothing]
      /\ UNCHANGED <<row, pass, considered, deliveries>>
      /\ faults < MaxFaults /\ faults' = faults + 1
      /\ \/ UNCHANGED <<listed, sweep, sinceSweep>>
         \/ listed' = [e \in Events |-> "none"] /\ sweep' = "idle" /\ sinceSweep' = 0
  BY Zenon DEF Crash, Fault, sweeping
<1>2. /\ \A d \in Events : row'[d].attempts <= MaxAttempts + deliveries'
      /\ \A d \in Events : RowInv(d)' /\ Forward(d)
  BY <1>1, RowKept, Zenon DEF Inv
<1>3. /\ hand' \in [Workers -> [event : Events \cup {NoEvent}, payload : Payloads]]
      /\ \A u \in Workers : hand'[u] \in {Nothing, hand[u]}
  BY <1>1, Zenon DEF Inv, TypeOK, Nothing, Payloads
<1>4. /\ listed' \in [Events -> Payloads]
      /\ \A d \in Events : listed'[d] \in {"none", listed[d]}
      /\ sweep' \in {"idle", "list", "retry"}
      /\ sinceSweep' \in 0 .. SweepInterval + SweepLimit
  BY <1>1, Constants DEF Inv, TypeOK, Payloads
<1>5. TypeOK'
  BY <1>1, <1>3, <1>4, Constants DEF Inv, TypeOK
<1> QED
  BY <1>2, <1>3, <1>4, <1>5, Assemble, Zenon

(* Some rows change, each to a row with its attempts.                      *)
LEMMA SomeRows ==
    ASSUME Inv, row' \in [Events -> Rows], UNCHANGED <<considered, deliveries>>,
           \A e \in Events : row'[e].attempts = row[e].attempts,
           \A e \in Events : RowInv(e)' /\ Forward(e),
           UNCHANGED hand, listed' = listed,
           sweep' \in {"idle", "list", "retry"}, sinceSweep' \in 0 .. SweepInterval + SweepLimit,
           pass' \in {"idle", "purge"}, faults' \in 0 .. MaxFaults
    PROVE  Inv'
<1>1. TypeOK'
  BY Zenon DEF Inv, TypeOK
<1>2. \A e \in Events : row'[e].attempts <= MaxAttempts + deliveries'
  BY Zenon DEF Inv
<1>3. \A w \in Workers : hand'[w] \in {Nothing, hand[w]}
  BY Zenon
<1>4. \A e \in Events : listed'[e] \in {"none", listed[e]}
  BY Zenon
<1> QED
  BY <1>1, <1>2, <1>3, <1>4, Assemble, Zenon

(* A failed call is counted.                                               *)
LEMMA FaultType == ASSUME TypeOK, Fault \/ UNCHANGED faults PROVE faults' \in 0 .. MaxFaults
BY Constants DEF TypeOK, Fault

(* reclaimAbandoned: abandoned rows become failed, their payload is left.  *)
LEMMA ReclaimInv ==
    ASSUME Inv, ReclaimAbandonedEvents
    PROVE  Inv' /\ \A d \in Events : Forward(d)
<1>1. /\ sweep' = "list" /\ sinceSweep' = 0
      /\ UNCHANGED <<hand, listed, pass, considered, deliveries>>
      /\ Fault \/ UNCHANGED faults
  BY Zenon DEF ReclaimAbandonedEvents
<1>2. PICK B : \/ row' = [e \in Events |-> IF e \in B THEN SettleRow(row[e], "failed")
                                           ELSE row[e]]
               \/ row' = row
  BY Zenon DEF ReclaimAbandonedEvents
<1>3. row \in [Events -> Rows]
  BY Zenon DEF Inv, TypeOK
<1>4. ASSUME NEW e \in Events
      PROVE  /\ row'[e] \in Rows /\ row'[e].attempts = row[e].attempts
             /\ RowInv(e)' /\ Forward(e)
  <2>1. RowInv(e) /\ row[e] \in Rows
    BY <1>3, Zenon DEF Inv
  <2>2. CASE row'[e] = row[e]
    BY <1>1, <2>1, <2>2, RowKept, Zenon
  <2>3. CASE row'[e] = SettleRow(row[e], "failed") /\ row[e].status = "processing"
    <3>1. row'[e] = [kind |-> row[e].kind, status |-> "failed", payload |-> row[e].payload,
                     attempts |-> row[e].attempts, idle |-> 0, age |-> row[e].age]
      BY <2>1, <2>3, SettledIs, Zenon
    <3>2. /\ row[e].kind \in Kinds /\ row[e].payload \in Payloads
          /\ row[e].attempts \in Nat /\ row[e].attempts <= MaxAttempts + MaxDeliveries
          /\ row[e].age \in 0 .. AgeCap /\ 0 \in 0 .. AgeCap
      BY <2>1, RowFields, Constants
    <3>3. row'[e] \in Rows
      BY <3>1, <3>2, RowIs
    <3>4. /\ row'[e].status = "failed" /\ row'[e].payload = row[e].payload
          /\ row'[e].age = row[e].age /\ row'[e].attempts = row[e].attempts
      BY <3>1
    <3>5. RowInv(e)' /\ Forward(e)
      BY <2>1, <2>3, <3>4, Zenon DEF RowInv, Settled, Forward
    <3> QED
      BY <3>3, <3>4, <3>5, Zenon
  <2>4. \/ row'[e] = row[e]
        \/ row'[e] = SettleRow(row[e], "failed")
    BY <1>2, Zenon
  <2>5. row[e].status # "processing" => SettleRow(row[e], "failed") = row[e]
    BY <2>1, SettledIs, Zenon
  <2> QED
    BY <2>2, <2>3, <2>4, <2>5, Zenon
<1>5. row' \in [Events -> Rows]
  BY <1>2, <1>3, <1>4, Zenon
<1>6. Inv'
  <2>1. faults' \in 0 .. MaxFaults /\ pass' \in {"idle", "purge"}
        /\ sinceSweep' \in 0 .. SweepInterval + SweepLimit
    BY <1>1, FaultType, Constants DEF Inv, TypeOK
  <2> QED
    BY <1>1, <1>4, <1>5, <2>1, SomeRows, Zenon
<1> QED
  BY <1>4, <1>6, Zenon

(* The listing takes the payload of rows that exist.                       *)
LEMMA ListingInv ==
    ASSUME Inv, ListRetryableEvents
    PROVE  Inv' /\ \A d \in Events : Forward(d)
<1>1. /\ UNCHANGED <<row, hand, pass, considered, deliveries>>
      /\ Fault \/ UNCHANGED faults
      /\ sweep' \in {"idle", "list", "retry"}
      /\ sinceSweep' = 0 \/ UNCHANGED sinceSweep
  BY Zenon DEF ListRetryableEvents
<1>2. /\ listed' \in [Events -> Payloads]
      /\ \A e \in Events : \/ listed'[e] \in {"none", listed[e]}
                           \/ row[e].status # "absent" /\ listed'[e] = row[e].payload
  <2>1. CASE UNCHANGED listed
    BY <2>1, Zenon DEF Inv, TypeOK
  <2>2. CASE \E B \in Batches(Retryable, SweepBatch, [e \in Events |-> row[e].idle]) :
               listed' = [e \in Events |-> IF e \in B THEN row[e].payload ELSE "none"]
    <3>1. PICK B \in SUBSET Retryable :
            listed' = [e \in Events |-> IF e \in B THEN row[e].payload ELSE "none"]
      BY <2>2, Zenon DEF Batches
    <3>2. \A e \in B : e \in Events /\ row[e].status # "absent"
      BY Zenon DEF Retryable, MayRetry
    <3>3. \A e \in Events : row[e].payload \in Payloads
      BY RowFields, Zenon DEF Inv, TypeOK
    <3> QED
      BY <3>1, <3>2, <3>3, Zenon DEF Payloads
  <2> QED
    BY <2>1, <2>2, Zenon DEF ListRetryableEvents
<1>3. /\ \A d \in Events : row'[d].attempts <= MaxAttempts + deliveries'
      /\ \A d \in Events : RowInv(d)' /\ Forward(d)
  BY <1>1, RowKept, Zenon DEF Inv
<1>4. TypeOK'
  <2>1. faults' \in 0 .. MaxFaults /\ sinceSweep' \in 0 .. SweepInterval + SweepLimit
    BY <1>1, FaultType, Constants DEF Inv, TypeOK
  <2> QED
    BY <1>1, <1>2, <2>1, Zenon DEF Inv, TypeOK
<1>5. \A w \in Workers : hand'[w] \in {Nothing, hand[w]}
  BY <1>1, Zenon
<1> QED
  BY <1>2, <1>3, <1>4, <1>5, Assemble, Zenon

(* ClaimEventForRetry hands on the payload that was listed.                *)
LEMMA RetryInv ==
    ASSUME Inv, NEW e \in Events, ClaimEventForRetry(e)
    PROVE  Inv' /\ \A d \in Events : Forward(d)
<1>1. /\ listed[e] # "none" /\ listed' = [listed EXCEPT ![e] = "none"]
      /\ UNCHANGED <<sweep, sinceSweep, pass, considered, deliveries>>
      /\ Fault \/ UNCHANGED faults
  BY Zenon DEF ClaimEventForRetry
<1>2. /\ row \in [Events -> Rows] /\ row[e] \in Rows /\ RowInv(e)
      /\ row[e].attempts <= MaxAttempts + deliveries /\ deliveries \in Nat
      /\ listed \in [Events -> Payloads]
  BY DEF Inv, TypeOK
<1>3. /\ listed' \in [Events -> Payloads]
      /\ \A d \in Events : listed'[d] \in {"none", listed[d]}
  BY <1>1, <1>2, Zenon DEF Payloads
<1>4. faults' \in 0 .. MaxFaults
  BY <1>1, FaultType, Zenon DEF Inv
<1>5. CASE UNCHANGED <<row, hand>>
  <2>1. /\ \A d \in Events : row'[d].attempts <= MaxAttempts + deliveries'
        /\ \A d \in Events : RowInv(d)' /\ Forward(d)
    BY <1>1, <1>5, RowKept, Zenon DEF Inv
  <2>2. TypeOK'
    BY <1>1, <1>3, <1>4, <1>5, Zenon DEF Inv, TypeOK
  <2>3. \A w \in Workers : hand'[w] \in {Nothing, hand[w]}
    BY <1>5, Zenon
  <2> QED
    BY <1>3, <2>1, <2>2, <2>3, Assemble, Zenon
<1>6. CASE /\ MayRetry(row[e])
           /\ row' = [row EXCEPT ![e] = Claimed(row[e])]
           /\ hand' = [hand EXCEPT !["sweeper"] = [event |-> e, payload |-> listed[e]]]
  <2> DEFINE r == Claimed(row[e])
  <2>1. r = [kind |-> row[e].kind, status |-> "processing", payload |-> row[e].payload,
             attempts |-> row[e].attempts + 1, idle |-> 0, age |-> row[e].age]
    BY <1>2, ClaimedIs, Zenon
  <2>2. /\ row[e].kind \in Kinds /\ row[e].payload \in Payloads
        /\ row[e].attempts \in Nat /\ row[e].age \in 0 .. AgeCap
    BY <1>2, RowFields, Zenon
  <2>3. /\ row[e].attempts + 1 \in Nat /\ 0 \in 0 .. AgeCap
        /\ row[e].attempts + 1 <= MaxAttempts + MaxDeliveries
        /\ row[e].attempts + 1 <= MaxAttempts + deliveries'
    BY <1>1, <1>2, <1>6, <2>2, Constants DEF MayRetry
  <2>4. r \in Rows /\ r.status = "processing" /\ r.payload = row[e].payload
        /\ r.age = row[e].age /\ r.attempts <= MaxAttempts + deliveries'
    <3>1. r \in Rows
      BY <2>1, <2>2, <2>3, RowIs
    <3> QED
      BY <2>1, <2>3, <3>1
  <2> HIDE DEF r
  <2>5. row' = [row EXCEPT ![e] = r] /\ row'[e] = r
    BY <1>2, <1>6, Zenon DEF r
  <2>6. RowInv(e)' /\ Forward(e)
    BY <1>2, <1>6, <2>4, <2>5, Zenon DEF RowInv, Settled, Forward, MayRetry
  <2>7. /\ row' \in [Events -> Rows]
        /\ \A d \in Events : row'[d].attempts <= MaxAttempts + deliveries'
        /\ \A d \in Events : RowInv(d)' /\ Forward(d)
    <3>1. considered \subseteq considered' /\ deliveries' \in Nat /\ deliveries <= deliveries'
      BY <1>1, <1>2
    <3> QED
      BY <1>2, <2>4, <2>5, <2>6, <3>1, OneRow, Zenon
  <2>8. /\ hand' \in [Workers -> [event : Events \cup {NoEvent}, payload : Payloads]]
        /\ \A w \in Workers :
             \/ hand'[w] = hand[w]
             \/ hand'[w].event = e /\ hand'[w].payload = listed[e]
    BY <1>2, <1>6, Zenon DEF Inv, TypeOK, Workers
  <2>9. \A w \in Workers :
          \/ hand'[w] \in {Nothing, hand[w]}
          \/ /\ hand'[w].event \in Events /\ row'[hand'[w].event].status # "absent"
             /\ \/ hand'[w].payload = "full"
                \/ /\ hand'[w].payload = listed[hand'[w].event]
                   /\ hand'[w].payload # "none"
    BY <1>1, <2>4, <2>5, <2>8, Zenon
  <2>10. TypeOK'
    BY <1>1, <1>3, <1>4, <2>7, <2>8, Zenon DEF Inv, TypeOK
  <2> QED
    BY <1>3, <2>7, <2>9, <2>10, Assemble, Zenon
<1> QED
  BY <1>2, <1>5, <1>6, Zenon DEF ClaimEventForRetry

(* The end of a sweep.                                                     *)
LEMMA EndSweepInv ==
    ASSUME Inv, EndSweep
    PROVE  Inv' /\ \A d \in Events : Forward(d)
<1>1. /\ UNCHANGED <<row, hand, listed, pass, considered, deliveries, faults>>
      /\ sweep' = "idle" /\ sinceSweep' = 0
  BY Zenon DEF EndSweep
<1>2. \A d \in Events : RowInv(d)' /\ Forward(d)
  BY <1>1, RowKept, Zenon DEF Inv
<1>3. sinceSweep' \in 0 .. SweepInterval + SweepLimit
  BY <1>1, Constants
<1> QED
  BY <1>1, <1>2, <1>3, SomeRows, Zenon DEF Inv, TypeOK

(* PurgePayloads takes payloads of rows past their window: settled ones,   *)
(* and failed ones past the outer bound.                                   *)
LEMMA PurgeInv ==
    ASSUME Inv, PurgePayloads
    PROVE  Inv' /\ \A d \in Events : Forward(d)
<1>1. /\ UNCHANGED <<hand, listed, sweep, sinceSweep, considered, deliveries>>
      /\ Fault \/ UNCHANGED faults
      /\ pass' \in {"idle", "purge"}
  BY Zenon DEF PurgePayloads, sweeping
<1>2. PICK B \in SUBSET DueNow :
        \/ row' = [e \in Events |-> IF e \in B THEN Purged(row[e]) ELSE row[e]]
        \/ row' = row
  BY Zenon DEF PurgePayloads, Batches
<1>3. row \in [Events -> Rows]
  BY Zenon DEF Inv, TypeOK
<1>4. ASSUME NEW e \in Events
      PROVE  /\ row'[e] \in Rows /\ row'[e].attempts = row[e].attempts
             /\ RowInv(e)' /\ Forward(e)
  <2>1. RowInv(e) /\ row[e] \in Rows
    BY <1>3, Zenon DEF Inv
  <2>2. CASE row'[e] = row[e]
    BY <1>1, <2>1, <2>2, RowKept, Zenon
  <2>3. CASE row'[e] = Purged(row[e]) /\ e \in DueNow
    <3>1. row'[e] = [kind |-> row[e].kind, status |-> row[e].status, payload |-> "skeleton",
                     attempts |-> row[e].attempts, idle |-> 0, age |-> row[e].age]
      BY <2>1, <2>3, PurgedIs, Zenon
    <3>2. /\ row[e].kind \in Kinds
          /\ row[e].status \in {"absent", "processing", "failed", "succeeded", "skipped"}
          /\ row[e].attempts \in Nat /\ row[e].attempts <= MaxAttempts + MaxDeliveries
          /\ row[e].age \in 0 .. AgeCap /\ 0 \in 0 .. AgeCap
      BY <2>1, RowFields, Constants
    <3>3. row'[e] \in Rows
      BY <3>1, <3>2, RowIs DEF Payloads
    <3>4. /\ row'[e].status = row[e].status /\ row'[e].payload = "skeleton"
          /\ row'[e].age = row[e].age /\ row'[e].attempts = row[e].attempts
      BY <3>1
    <3>5. /\ row[e].status \in {"failed", "succeeded", "skipped"}
          /\ row[e].payload = "full"
          /\ row[e].status = "failed" => row[e].age > UnsettledAfter
      BY <2>3, <3>2, Zenon DEF DueNow, PastWindow, Window
    <3>6. RowInv(e)' /\ Forward(e)
      BY <1>1, <2>1, <3>4, <3>5, Zenon DEF RowInv, Settled, Forward
    <3> QED
      BY <3>3, <3>4, <3>6, Zenon
  <2> QED
    BY <1>2, <2>2, <2>3, Zenon
<1>5. row' \in [Events -> Rows]
  BY <1>2, <1>3, <1>4, Zenon
<1>6. Inv'
  <2>1. faults' \in 0 .. MaxFaults
    BY <1>1, FaultType, Zenon DEF Inv
  <2> QED
    BY <1>1, <1>4, <1>5, <2>1, SomeRows, Zenon DEF Inv, TypeOK
<1> QED
  BY <1>4, <1>6, Zenon

(* Rows grow older.                                                        *)
LEMMA TickInv ==
    ASSUME Inv, Tick
    PROVE  Inv' /\ \A d \in Events : Forward(d)
<1>1. /\ UNCHANGED <<hand, listed, sweep, pass, considered, deliveries, faults>>
      /\ sinceSweep' = sinceSweep + 1
      /\ sinceSweep < SweepInterval \/ sinceSweep < SweepLimit
      /\ row' = [e \in Events |->
                   IF row[e].status = "absent" THEN row[e]
                   ELSE [row[e] EXCEPT !.idle = Older(@), !.age = Older(@)]]
  BY Zenon DEF Tick
<1>2. row \in [Events -> Rows]
  BY Zenon DEF Inv, TypeOK
<1>3. ASSUME NEW e \in Events
      PROVE  /\ row'[e] \in Rows /\ row'[e].attempts = row[e].attempts
             /\ RowInv(e)' /\ Forward(e)
  <2>1. RowInv(e) /\ row[e] \in Rows
    BY <1>2, Zenon DEF Inv
  <2>2. CASE row[e].status = "absent"
    <3>1. row'[e] = row[e]
      BY <1>1, <2>2, Zenon
    <3> QED
      BY <1>1, <2>1, <3>1, RowKept, Zenon
  <2>3. CASE row[e].status # "absent"
    <3>1. PICK i, a : i = Older(row[e].idle) /\ a = Older(row[e].age)
      BY Zenon
    <3>2. row'[e] = [row[e] EXCEPT !.idle = i, !.age = a]
      BY <1>1, <2>3, <3>1, Zenon
    <3>3. row[e].idle \in 0 .. AgeCap /\ row[e].age \in 0 .. AgeCap
      BY <2>1, RowFields, Zenon
    <3>4. /\ i \in 0 .. AgeCap /\ a \in 0 .. AgeCap
          /\ row[e].age > UnsettledAfter => a > UnsettledAfter
      BY <3>1, <3>3, OlderIs, Zenon
    <3>5. /\ row'[e] \in Rows
          /\ row'[e].status = row[e].status /\ row'[e].payload = row[e].payload
          /\ row'[e].age = a /\ row'[e].attempts = row[e].attempts
      <4>1. row'[e] = [kind |-> row[e].kind, status |-> row[e].status,
                       payload |-> row[e].payload, attempts |-> row[e].attempts,
                       idle |-> i, age |-> a]
        BY <2>1, <3>2, Zenon DEF Rows
      <4> QED
        BY <2>1, <3>4, <4>1, AgedFields
    <3>6. RowInv(e)' /\ Forward(e)
      BY <1>1, <2>1, <3>4, <3>5, Zenon DEF RowInv, Settled, Forward
    <3> QED
      BY <3>5, <3>6, Zenon
  <2> QED
    BY <2>2, <2>3, Zenon
<1>4. row' \in [Events -> Rows]
  <2>1. row' = [e \in Events |-> row'[e]]
    BY <1>1, Zenon
  <2> QED
    BY <1>3, <2>1, Zenon
<1>5. sinceSweep' \in 0 .. SweepInterval + SweepLimit
  <2>1. sinceSweep \in 0 .. SweepInterval + SweepLimit
    BY Zenon DEF Inv, TypeOK
  <2>2. /\ sinceSweep' = sinceSweep + 1
        /\ sinceSweep < SweepInterval \/ sinceSweep < SweepLimit
    BY <1>1, Zenon
  <2> QED
    BY <2>1, <2>2, Constants
<1> QED
  BY <1>1, <1>3, <1>4, <1>5, SomeRows, Zenon DEF Inv, TypeOK

(* A step that changes nothing.                                            *)
LEMMA StutterInv ==
    ASSUME Inv, UNCHANGED vars
    PROVE  Inv' /\ \A d \in Events : Forward(d)
<1>1. UNCHANGED <<row, hand, listed, sweep, sinceSweep, pass, considered,
                  deliveries, faults>>
  BY Zenon DEF vars
<1>2. \A d \in Events : RowInv(d)' /\ Forward(d)
  BY <1>1, RowKept, Zenon DEF Inv
<1> QED
  BY <1>1, <1>2, SomeRows, Zenon DEF Inv, TypeOK

(* Every step keeps Inv and takes no row backwards.                        *)
LEMMA NextInv ==
    ASSUME Inv, [Next]_vars
    PROVE  Inv' /\ \A d \in Events : Forward(d)
BY TryClaimInv, DispatchInv, CrashInv, ReclaimInv, ListingInv, RetryInv, EndSweepInv,
   PurgeInv, TickInv, StutterInv, ZenonT(40)
   DEF Next, HandlerStep, SweepStep, Workers

-----------------------------------------------------------------------------
(* The budget: what follows when purges wait for it. *)

(* A step of a row that can be ignored for the budget: it is as it was, or *)
(* was minimised and open already and has no fewer attempts.               *)
Calm(e) ==
    /\ row'[e].payload = "skeleton" /\ ~Settled(e)' =>
           /\ row[e].payload = "skeleton" /\ ~Settled(e)
           /\ row'[e].attempts >= row[e].attempts
    /\ Settled(e)' => Settled(e)

(* A row that did not change is calm, and so is one that grew older.       *)
LEMMA CalmRow ==
    ASSUME TypeOK, NEW e \in Events,
           row'[e].payload = row[e].payload, row'[e].status = row[e].status,
           row'[e].attempts = row[e].attempts
    PROVE  Calm(e)
BY RowFields DEF TypeOK, Calm, Settled

(* Put together: rows are calm or spent; nothing is newly listed or held   *)
(* as a skeleton.                                                          *)
LEMMA BudgetAssemble ==
    ASSUME Inv, BudgetInv, considered \subseteq considered',
           row' \in [Events -> Rows],
           \A e \in Events : \/ Calm(e)
                             \/ /\ Settled(e)' => Settled(e) \/ e \in considered'
                                /\ row'[e].payload = "skeleton" /\ ~Settled(e)'
                                       => row'[e].attempts >= MaxAttempts,
           \A e \in Events : listed'[e] \in {"none", "full", listed[e]},
           \A w \in Workers : \/ hand'[w] \in {Nothing, hand[w]}
                              \/ hand'[w].payload # "skeleton"
    PROVE  BudgetInv'
<1>1. ASSUME NEW e \in Events, row'[e].payload = "skeleton", ~Settled(e)'
      PROVE  row'[e].attempts >= MaxAttempts
  <2>1. /\ row[e].attempts \in Nat /\ row'[e].attempts \in Nat /\ MaxAttempts \in Nat
    BY RowFields, Constants, Zenon DEF Inv, TypeOK
  <2>2. CASE Calm(e)
    <3>1. /\ row[e].payload = "skeleton" /\ ~Settled(e)
          /\ row'[e].attempts >= row[e].attempts
      BY <1>1, <2>2, Zenon DEF Calm
    <3>2. row[e].attempts >= MaxAttempts
      BY <3>1, Zenon DEF BudgetInv
    <3> QED
      BY <2>1, <3>1, <3>2
  <2> QED
    BY <1>1, <2>2, Zenon
<1>2. ASSUME NEW e \in Events PROVE listed'[e] # "skeleton"
  <2>1. listed[e] # "skeleton" /\ listed'[e] \in {"none", "full", listed[e]}
    BY Zenon DEF BudgetInv
  <2> QED
    BY <2>1
<1>3. ASSUME NEW e \in Events, Settled(e)' PROVE e \in considered'
  <2>1. Settled(e) => e \in considered
    BY Zenon DEF BudgetInv
  <2> QED
    BY <1>3, <2>1, Zenon DEF Calm
<1>4. ASSUME NEW w \in Workers, hand'[w].event # NoEvent
      PROVE  hand'[w].payload # "skeleton"
  <2>1. hand'[w] = hand[w] \/ hand'[w].payload # "skeleton"
    BY <1>4 DEF Nothing
  <2>2. hand[w].event # NoEvent => hand[w].payload # "skeleton"
    BY Zenon DEF BudgetInv
  <2> QED
    BY <1>4, <2>1, <2>2, Zenon
<1> QED
  BY <1>1, <1>2, <1>3, <1>4, Zenon DEF BudgetInv

(* Nothing is budgeted at the start.                                       *)
LEMMA InitBudget == Init => BudgetInv
BY DEF Init, BudgetInv, Settled, Nothing

(* A claim leaves the payload and counts an attempt.                       *)
LEMMA ClaimCalm ==
    ASSUME Inv, NEW e \in Events, ~Settled(e), row[e].status # "absent",
           row'[e] = Claimed(row[e])
    PROVE  Calm(e)
<1>1. row[e] \in Rows /\ row[e].attempts \in Nat
  BY RowFields, Zenon DEF Inv, TypeOK
<1>2. row'[e] = [kind |-> row[e].kind, status |-> "processing", payload |-> row[e].payload,
                 attempts |-> row[e].attempts + 1, idle |-> 0, age |-> row[e].age]
  BY <1>1, ClaimedIs, Zenon
<1>3. /\ row'[e].status = "processing" /\ row'[e].payload = row[e].payload
      /\ row'[e].attempts = row[e].attempts + 1
  BY <1>2
<1> QED
  BY <1>1, <1>3 DEF Calm, Settled

(* A delivery brings the full payload.                                     *)
LEMMA TryClaimBudget ==
    ASSUME Inv, Inv', BudgetInv, NEW e \in Events, NEW k \in Kinds, TryClaimEvent(e, k)
    PROVE  BudgetInv'
<1>1. /\ row \in [Events -> Rows] /\ row' \in [Events -> Rows]
      /\ row' = [row EXCEPT ![e] = ClaimRow(row[e], k)]
      /\ Claimable(row[e])
      /\ hand' = [hand EXCEPT !["handler"] = [event |-> e, payload |-> "full"]]
      /\ UNCHANGED <<listed, considered>>
  BY Zenon DEF Inv, TypeOK, TryClaimEvent, sweeping
<1>2. \A d \in Events : Calm(d)
  <2>1. \A d \in Events \ {e} : Calm(d)
    BY <1>1, CalmRow, Zenon DEF Inv
  <2>2. CASE row[e].status = "absent"
    <3>1. row'[e] = Received(k)
      BY <1>1, <2>2, Zenon DEF ClaimRow
    <3>2. Calm(e)
      BY <3>1 DEF Received, Calm, Settled
    <3> QED
      BY <2>1, <3>2, Zenon
  <2>3. CASE row[e].status # "absent"
    <3>1. row'[e] = Claimed(row[e])
      BY <1>1, <2>3, Zenon DEF ClaimRow
    <3>2. ~Settled(e)
      BY <1>1, Zenon DEF Claimable, Settled
    <3>3. Calm(e)
      BY <2>3, <3>1, <3>2, ClaimCalm, Zenon
    <3> QED
      BY <2>1, <3>3, Zenon
  <2> QED
    BY <2>1, <2>2, <2>3, Zenon
<1>3. \A w \in Workers : hand'[w] = hand[w] \/ hand'[w].payload # "skeleton"
  BY <1>1, Zenon DEF Inv, TypeOK, Workers
<1> QED
  BY <1>1, <1>2, <1>3, BudgetAssemble, Zenon

(* A worker dispatches a full payload, and a settling considers the event. *)
LEMMA DispatchBudget ==
    ASSUME Inv, Inv', BudgetInv, NEW w \in Workers, DispatchAndSettle(w)
    PROVE  BudgetInv'
<1>1. PICK e \in Events : e = hand[w].event
  BY Zenon DEF DispatchAndSettle, Inv, TypeOK
<1>2. PICK verdict \in Verdicts(row[e].kind, hand[w].payload) :
        /\ row' = [row EXCEPT ![e] = SettleRow(row[e], verdict)]
        /\ considered' = IF verdict # "failed" /\ hand[w].payload = "full"
                         THEN considered \cup {e} ELSE considered
  BY <1>1, Zenon DEF DispatchAndSettle, Inv, TypeOK
<1>3. /\ row \in [Events -> Rows] /\ row' \in [Events -> Rows] /\ row[e] \in Rows
      /\ hand[w].payload = "full"
      /\ hand' = [hand EXCEPT ![w] = Nothing]
      /\ UNCHANGED listed
  <2>1. HandInv(w) /\ hand[w].payload \in Payloads
    BY Zenon DEF Inv, TypeOK
  <2>2. e # NoEvent
    BY Constants, Zenon
  <2>3. hand[w].event # NoEvent => hand[w].payload # "skeleton"
    BY Zenon DEF BudgetInv
  <2> QED
    BY <1>1, <2>1, <2>2, <2>3, Zenon
       DEF Inv, TypeOK, DispatchAndSettle, sweeping, HandInv, Payloads
<1>4. verdict \in {"succeeded", "skipped", "failed"}
  BY <1>2, <1>3, Zenon DEF Verdicts
<1>5. row'[e] = SettleRow(row[e], verdict)
  BY <1>2, <1>3, Zenon
<1>6. /\ row'[e].payload = row[e].payload /\ row'[e].attempts = row[e].attempts
      /\ row'[e].status = IF row[e].status = "processing" THEN verdict ELSE row[e].status
  BY <1>3, <1>5, SettledIs
<1>7. \A d \in Events :
        \/ Calm(d)
        \/ /\ Settled(d)' => Settled(d) \/ d \in considered'
           /\ row'[d].payload = "skeleton" /\ ~Settled(d)' => row'[d].attempts >= MaxAttempts
  <2>1. \A d \in Events \ {e} : Calm(d)
    BY <1>2, <1>3, CalmRow, Zenon DEF Inv
  <2>2. CASE row'[e].status = row[e].status
    BY <1>6, <2>1, <2>2, CalmRow, Zenon DEF Inv
  <2>3. CASE row[e].status = "processing" /\ verdict = "failed"
    <3>1. row[e].attempts \in Nat
      BY <1>3, RowFields, Zenon
    <3>2. Calm(e)
      BY <1>6, <2>3, <3>1 DEF Calm, Settled
    <3> QED
      BY <2>1, <3>2, Zenon
  <2>4. CASE row[e].status = "processing" /\ verdict # "failed"
    BY <1>2, <1>3, <1>4, <1>6, <2>1, <2>4, Zenon DEF Settled
  <2> QED
    BY <1>6, <2>2, <2>3, <2>4, Zenon
<1>8. \A u \in Workers : hand'[u] \in {Nothing, hand[u]}
  BY <1>3, Zenon DEF Inv, TypeOK
<1>9. considered \subseteq considered'
  BY <1>2, Zenon
<1> QED
  BY <1>3, <1>7, <1>8, <1>9, BudgetAssemble, Zenon

(* The steps of the sweep.                                                 *)
LEMMA SweepBudget ==
    ASSUME Inv, Inv', BudgetInv,
           \/ ReclaimAbandonedEvents \/ ListRetryableEvents \/ EndSweep
           \/ \E e \in Events : ClaimEventForRetry(e)
    PROVE  BudgetInv'
<1>1. row \in [Events -> Rows] /\ row' \in [Events -> Rows]
  BY Zenon DEF Inv, TypeOK
<1>2. CASE ReclaimAbandonedEvents
  <2>1. UNCHANGED <<hand, listed, considered>>
    BY <1>2, Zenon DEF ReclaimAbandonedEvents
  <2>2. \A e \in Events : row'[e] \in {row[e], SettleRow(row[e], "failed")}
    BY <1>2, Zenon DEF ReclaimAbandonedEvents
  <2>3. \A e \in Events : Calm(e)
    <3>1. TAKE e \in Events
    <3>2. row[e] \in Rows /\ row[e].attempts \in Nat
      BY <1>1, RowFields, Zenon
    <3>3. CASE row'[e] = row[e]
      BY <3>3, CalmRow, Zenon DEF Inv
    <3>4. CASE row'[e] = SettleRow(row[e], "failed") /\ row[e].status = "processing"
      <4>1. /\ row'[e].payload = row[e].payload /\ row'[e].attempts = row[e].attempts
            /\ row'[e].status = "failed"
        BY <3>2, <3>4, SettledIs
      <4> QED
        BY <3>2, <3>4, <4>1 DEF Calm, Settled
    <3>5. row[e].status # "processing" => SettleRow(row[e], "failed") = row[e]
      BY <3>2, SettledIs, Zenon
    <3> QED
      BY <2>2, <3>3, <3>4, <3>5, Zenon
  <2> QED
    BY <1>1, <2>1, <2>3, BudgetAssemble, Zenon
<1>3. CASE ListRetryableEvents
  <2>1. UNCHANGED <<row, hand, considered>>
    BY <1>3, Zenon DEF ListRetryableEvents
  <2>2. \A e \in Events : Calm(e)
    BY <2>1, CalmRow, Zenon DEF Inv
  <2>3. \A e \in Events : \/ listed'[e] \in {"none", listed[e]}
                          \/ listed'[e] = row[e].payload /\ MayRetry(row[e])
    BY <1>3, Zenon DEF ListRetryableEvents, Batches, Retryable
  <2>4. ASSUME NEW e \in Events, MayRetry(row[e])
        PROVE  row[e].payload \in {"none", "full"}
    <3>1. row[e].payload \in Payloads /\ row[e].attempts \in Nat
      BY <1>1, RowFields, Zenon
    <3>2. ~Settled(e) /\ ~(row[e].attempts >= MaxAttempts)
      BY <2>4, <3>1, Constants DEF MayRetry, Settled
    <3> QED
      BY <3>1, <3>2, Zenon DEF BudgetInv, Payloads
  <2>5. \A e \in Events : listed'[e] \in {"none", "full", listed[e]}
    BY <2>1, <2>3, <2>4, Zenon
  <2> QED
    BY <1>1, <2>1, <2>2, <2>5, BudgetAssemble, Zenon
<1>4. CASE EndSweep
  <2>1. UNCHANGED <<row, hand, listed, considered>>
    BY <1>4, Zenon DEF EndSweep
  <2>2. \A e \in Events : Calm(e)
    BY <2>1, CalmRow, Zenon DEF Inv
  <2> QED
    BY <1>1, <2>1, <2>2, BudgetAssemble, Zenon
<1>5. ASSUME NEW e \in Events, ClaimEventForRetry(e)
      PROVE  BudgetInv'
  <2>1. /\ listed' = [listed EXCEPT ![e] = "none"] /\ listed \in [Events -> Payloads]
        /\ UNCHANGED considered
    BY <1>5, Zenon DEF ClaimEventForRetry, Inv, TypeOK
  <2>2. \A d \in Events : listed'[d] \in {"none", listed[d]}
    BY <2>1, Zenon
  <2>3. CASE UNCHANGED <<row, hand>>
    <3>1. \A d \in Events : Calm(d)
      BY <2>3, CalmRow, Zenon DEF Inv
    <3> QED
      BY <1>1, <2>1, <2>2, <2>3, <3>1, BudgetAssemble, Zenon
  <2>4. CASE /\ MayRetry(row[e])
             /\ row' = [row EXCEPT ![e] = Claimed(row[e])]
             /\ hand' = [hand EXCEPT !["sweeper"] = [event |-> e, payload |-> listed[e]]]
    <3>1. row'[e] = Claimed(row[e]) /\ ~Settled(e) /\ row[e].status # "absent"
      BY <1>1, <2>4, Zenon DEF MayRetry, Settled
    <3>2. \A d \in Events \ {e} : Calm(d)
      BY <1>1, <2>4, CalmRow, Zenon DEF Inv
    <3>3. \A d \in Events : Calm(d)
      BY <3>1, <3>2, ClaimCalm, Zenon
    <3>4. \A w \in Workers : \/ hand'[w] = hand[w]
                             \/ hand'[w].event = e /\ hand'[w].payload = listed[e]
      BY <2>4, Zenon DEF Inv, TypeOK, Workers
    <3>5. listed[e] # "skeleton"
      BY Zenon DEF BudgetInv
    <3>6. \A w \in Workers : \/ hand'[w] \in {Nothing, hand[w]}
                             \/ hand'[w].payload # "skeleton"
      BY <2>1, <3>4, <3>5, Zenon
    <3> QED
      BY <1>1, <2>1, <2>2, <3>3, <3>6, BudgetAssemble, Zenon
  <2> QED
    BY <1>1, <1>5, <2>3, <2>4, Zenon DEF ClaimEventForRetry
<1> QED
  BY <1>2, <1>3, <1>4, <1>5, Zenon

(* The other steps; the purge under PurgeWaitsForBudget's condition.       *)
LEMMA OtherBudget ==
    ASSUME Inv, Inv', BudgetInv,
           \/ \E w \in Workers : Crash(w)
           \/ Tick \/ UNCHANGED vars
    PROVE  BudgetInv'
<1>1. row \in [Events -> Rows] /\ row' \in [Events -> Rows]
  BY Zenon DEF Inv, TypeOK
<1>2. ASSUME NEW w \in Workers, Crash(w)
      PROVE  BudgetInv'
  <2>1. /\ hand' = [hand EXCEPT ![w] = Nothing] /\ UNCHANGED <<row, considered>>
        /\ UNCHANGED listed \/ listed' = [e \in Events |-> "none"]
    BY <1>2, Zenon DEF Crash, sweeping
  <2>2. /\ \A e \in Events : Calm(e)
        /\ \A e \in Events : listed'[e] \in {"none", "full", listed[e]}
        /\ \A u \in Workers : hand'[u] \in {Nothing, hand[u]}
    BY <2>1, CalmRow, Zenon DEF Inv, TypeOK
  <2> QED
    BY <1>1, <2>1, <2>2, BudgetAssemble, Zenon
<1>3. CASE Tick
  <2>1. /\ UNCHANGED <<hand, listed, considered>>
        /\ row' = [e \in Events |->
                     IF row[e].status = "absent" THEN row[e]
                     ELSE [row[e] EXCEPT !.idle = Older(@), !.age = Older(@)]]
    BY <1>3, Zenon DEF Tick
  <2>2. \A e \in Events : Calm(e)
    <3>1. TAKE e \in Events
    <3>2. PICK i, a : row'[e] = row[e] \/ row'[e] = [row[e] EXCEPT !.idle = i, !.age = a]
      BY <2>1, Zenon
    <3>3. row[e] \in Rows
      BY <1>1, Zenon
    <3>4. /\ row'[e].payload = row[e].payload /\ row'[e].status = row[e].status
          /\ row'[e].attempts = row[e].attempts
      BY <3>2, <3>3, Zenon DEF Rows
    <3> QED
      BY <3>4, CalmRow, Zenon DEF Inv
  <2> QED
    BY <1>1, <2>1, <2>2, BudgetAssemble, Zenon
<1>4. CASE UNCHANGED vars
  <2>1. UNCHANGED <<row, hand, listed, considered>>
    BY <1>4, Zenon DEF vars
  <2>2. \A e \in Events : Calm(e)
    BY <2>1, CalmRow, Zenon DEF Inv
  <2> QED
    BY <1>1, <2>1, <2>2, BudgetAssemble, Zenon
<1> QED
  BY <1>2, <1>3, <1>4, Zenon

(* A purge that waits for the budget.                                      *)
Waits ==
    \A e \in Events : /\ row[e].status = "failed" /\ row[e].payload = "full"
                      /\ row'[e].payload # "full"
                      => row[e].attempts >= MaxAttempts

(* The purge minimises settled rows, and failed ones whose budget is spent.*)
LEMMA PurgeBudget ==
    ASSUME Inv, Inv', BudgetInv, PurgePayloads, Waits
    PROVE  BudgetInv'
<1>1. row \in [Events -> Rows] /\ row' \in [Events -> Rows]
  BY Zenon DEF Inv, TypeOK
<1>2. UNCHANGED <<hand, listed, considered>>
  BY Zenon DEF PurgePayloads, sweeping
<1>3. \A e \in Events : \/ row'[e] = row[e]
                        \/ row'[e] = Purged(row[e]) /\ e \in DueNow
  BY Zenon DEF PurgePayloads, Batches
<1>4. \A e \in Events :
        \/ Calm(e)
        \/ /\ Settled(e)' => Settled(e) \/ e \in considered'
           /\ row'[e].payload = "skeleton" /\ ~Settled(e)' => row'[e].attempts >= MaxAttempts
  <2>1. TAKE e \in Events
  <2>2. row[e] \in Rows
    BY <1>1, Zenon
  <2>3. CASE row'[e] = row[e]
    BY <2>3, CalmRow, Zenon DEF Inv
  <2>4. CASE row'[e] = Purged(row[e]) /\ e \in DueNow
    <3>1. /\ row'[e].status = row[e].status /\ row'[e].payload = "skeleton"
          /\ row'[e].attempts = row[e].attempts
      BY <2>2, <2>4, PurgedIs
    <3>2. row[e].payload = "full" /\ row[e].status \in {"failed", "succeeded", "skipped"}
      BY <2>2, <2>4, RowFields, Zenon DEF DueNow, PastWindow
    <3>3. row[e].status = "failed" => row[e].attempts >= MaxAttempts
      BY <3>1, <3>2, Zenon DEF Waits
    <3> QED
      BY <1>2, <3>1, <3>2, <3>3, Zenon DEF Settled
  <2> QED
    BY <1>3, <2>3, <2>4, Zenon
<1> QED
  BY <1>1, <1>2, <1>4, BudgetAssemble, Zenon

(* Every step keeps the budget if its purge waits for it.                  *)
LEMMA NextBudget ==
    ASSUME Inv, Inv', BudgetInv, [Next]_vars, [Waits]_vars
    PROVE  BudgetInv'
<1>1. CASE PurgePayloads /\ Waits
  BY <1>1, PurgeBudget, Zenon
<1>2. CASE UNCHANGED vars
  BY <1>2, OtherBudget, Zenon
<1>3. CASE Next /\ ~PurgePayloads
  BY <1>3, TryClaimBudget, DispatchBudget, SweepBudget, OtherBudget, Zenon
     DEF Next, HandlerStep, SweepStep, Workers
<1> QED
  BY <1>1, <1>2, <1>3, Zenon

-----------------------------------------------------------------------------
(* Time: what the outer bound has to outlast. *)

(* Ticks to the next reclaim, and to the next listing, of a sweep in state *)
(* sw that counts t ticks.                                                 *)
ToReclaim(sw, t) ==
    IF sw = "idle" THEN SweepInterval - t ELSE SweepLimit - t + SweepInterval

ToList(sw, t) ==
    IF sw = "list" THEN SweepLimit - t ELSE ToReclaim(sw, t) + SweepLimit

(* Ticks to the next attempt of an open row r, which is listed or not.     *)
LeftOf(r, isListed, sw, t) ==
    IF r.status = "processing"
    THEN Delay + (IF r.idle <= StaleClaimAfter
                  THEN StaleClaimAfter + 1 - r.idle + SweepInterval + SweepLimit
                  ELSE ToReclaim(sw, t))
    ELSE IF isListed THEN SweepLimit - t
    ELSE IF r.idle <= MaxBackoff
         THEN MaxBackoff + 1 - r.idle + SweepInterval + 2 * SweepLimit
         ELSE ToList(sw, t)

(* The timer fires on time, a sweep keeps to its limit, and the listing is *)
(* worked off when the sweep ends.                                         *)
Timely(sw, t, isListed) ==
    /\ sw \in {"idle", "list", "retry"} /\ t \in Nat
    /\ sw = "idle" => t <= SweepInterval
    /\ sw # "idle" => t <= SweepLimit
    /\ isListed => sw = "retry"

Listed(e) == listed[e] # "none"

SweepInv == \A e \in Events : Timely(sweep, sinceSweep, Listed(e))

Left(e) == LeftOf(row[e], Listed(e), sweep, sinceSweep)

(* An open row with its payload and attempts left.                         *)
Trying(e) ==
    /\ row[e].status \in {"processing", "failed"} /\ row[e].payload = "full"
    /\ row[e].attempts < MaxAttempts

(* Each attempt and each fault accounts for so much of its age, what is    *)
(* left before the next attempt included.                                  *)
TimeInv(e) ==
    /\ row[e].status # "absent" => row[e].attempts >= 1
    /\ Trying(e) => row[e].age + Left(e) <= row[e].attempts * Cycle + faults * Delay

(* The constants are numbers, and ages tell the backoff and the window.    *)
LEMMA Times ==
    /\ SweepInterval \in Nat /\ SweepLimit \in Nat /\ MaxBackoff \in Nat
    /\ StaleClaimAfter \in Nat /\ AgeCap \in Nat
    /\ Delay \in Nat /\ Delay = MaxBackoff + 1 + SweepInterval + 2 * SweepLimit
    /\ Cycle \in Nat
    /\ Cycle = StaleClaimAfter + 1 + SweepInterval + SweepLimit + Delay
    /\ MaxBackoff < AgeCap /\ StaleClaimAfter < AgeCap
<1>1. /\ SweepInterval \in Nat /\ SweepLimit \in Nat /\ MaxBackoff \in Nat
      /\ StaleClaimAfter \in Nat /\ AgeCap \in Nat /\ UnsettledAfter \in Nat
      /\ StaleClaimAfter < AgeCap /\ UnsettledAfter < AgeCap
      /\ MaxAttempts \in Nat /\ MaxAttempts >= 1
      /\ UnsettledAfter >= 10 * MaxAttempts * MaxBackoff
  BY RetentionAssumption, Zenon
<1>2. 10 * MaxAttempts * MaxBackoff >= MaxBackoff
  <2>1. PICK n \in Nat : MaxAttempts = n + 1
    <3>1. MaxAttempts - 1 \in Nat /\ MaxAttempts = (MaxAttempts - 1) + 1
      BY <1>1
    <3> QED
      BY <3>1, Zenon
  <2>2. n * MaxBackoff \in Nat
    BY <1>1
  <2>3. 10 * (n + 1) * MaxBackoff = 10 * (n * MaxBackoff) + 10 * MaxBackoff
    BY <1>1
  <2> QED
    BY <1>1, <2>1, <2>2, <2>3
<1>3. MaxBackoff < AgeCap
  BY <1>1, <1>2
<1> QED
  BY <1>1, <1>3 DEF Delay, Cycle

(* What remains after a delay is paid for if the delay was.                *)
LEMMA LessLeft ==
    ASSUME NEW a \in Nat, NEW l \in Nat, NEW m \in Nat, NEW d \in Nat,
           NEW p \in Nat, NEW q \in Nat, a + l <= p + q, m <= d, d <= l
    PROVE  a + m <= p + q
OBVIOUS

(* What attempts and faults allow so far is part of what they allow in all. *)
LEMMA AllowanceGrows ==
    ASSUME NEW a \in Nat, NEW l \in Nat, NEW p \in Nat, NEW q \in Nat,
           NEW m \in Nat, NEW k \in Nat, NEW u \in Nat,
           a + l <= p + q, u >= (p + m) + (q + k)
    PROVE  a <= u
OBVIOUS

(* Counting one more attempt, or one more fault.                           *)
LEMMA Products ==
    ASSUME NEW n \in Nat
    PROVE  /\ n * Cycle \in Nat /\ (n + 1) * Cycle = n * Cycle + Cycle
           /\ n * Delay \in Nat /\ (n + 1) * Delay = n * Delay + Delay
<1>1. Cycle \in Nat /\ Delay \in Nat
  BY Times, Zenon
<1> QED
  BY <1>1

(* How much can be left.                                                   *)
LEMMA LeftRange ==
    ASSUME NEW r \in Rows, NEW l \in BOOLEAN, NEW sw, NEW t, Timely(sw, t, l)
    PROVE  /\ ToReclaim(sw, t) \in 0 .. SweepInterval + SweepLimit
           /\ LeftOf(r, l, sw, t) \in Nat
           /\ r.status = "processing" =>
                  Delay <= LeftOf(r, l, sw, t) /\ LeftOf(r, l, sw, t) <= Cycle
           /\ r.status # "processing" => LeftOf(r, l, sw, t) <= Delay
<1>1. r.idle \in Nat
  BY RowFields, Times
<1>2. t \in Nat /\ sw \in {"idle", "list", "retry"}
  BY Zenon DEF Timely
<1>3. ToReclaim(sw, t) \in 0 .. SweepInterval + SweepLimit
  BY <1>2, Times DEF Timely, ToReclaim
<1>4. ToList(sw, t) \in Nat /\ ToList(sw, t) <= SweepInterval + 2 * SweepLimit
  BY <1>2, <1>3, Times DEF Timely, ToList
<1>5. CASE r.status = "processing"
  BY <1>1, <1>3, <1>5, Times DEF LeftOf
<1>6. CASE r.status # "processing"
  <2>1. l => t <= SweepLimit
    BY Zenon DEF Timely
  <2> QED
    BY <1>1, <1>2, <1>3, <1>4, <1>6, <2>1, Times DEF LeftOf
<1> QED
  BY <1>5, <1>6, Zenon

(* Whatever a fault does to the sweep, it takes one Delay.                 *)
LEMMA LeftAfterFault ==
    ASSUME NEW r \in Rows, NEW l \in BOOLEAN, NEW sw, NEW t, Timely(sw, t, l),
           NEW l2 \in BOOLEAN, NEW sw2, NEW t2, Timely(sw2, t2, l2)
    PROVE  LeftOf(r, l2, sw2, t2) <= LeftOf(r, l, sw, t) + Delay
<1>1. /\ ToReclaim(sw2, t2) \in Nat /\ ToReclaim(sw2, t2) <= Delay
      /\ LeftOf(r, l, sw, t) \in Nat /\ LeftOf(r, l2, sw2, t2) \in Nat
      /\ r.status = "processing" => Delay <= LeftOf(r, l, sw, t)
      /\ r.status # "processing" => LeftOf(r, l2, sw2, t2) <= Delay
  <2>1. ToReclaim(sw2, t2) \in 0 .. SweepInterval + SweepLimit
    BY LeftRange, Zenon
  <2>2. ToReclaim(sw2, t2) \in Nat /\ ToReclaim(sw2, t2) <= Delay
    BY <2>1, Times
  <2> QED
    BY <2>2, LeftRange, Zenon
<1>2. CASE r.status # "processing"
  BY <1>1, <1>2, Times
<1>3. CASE r.status = "processing" /\ r.idle <= StaleClaimAfter
  <2>1. LeftOf(r, l2, sw2, t2) = LeftOf(r, l, sw, t)
    BY <1>3, Zenon DEF LeftOf
  <2> QED
    BY <1>1, <2>1, Times
<1>4. CASE r.status = "processing" /\ ~(r.idle <= StaleClaimAfter)
  <2>1. LeftOf(r, l2, sw2, t2) = Delay + ToReclaim(sw2, t2)
    BY <1>4, Zenon DEF LeftOf
  <2> QED
    BY <1>1, <1>4, <2>1, Times
<1> QED
  BY <1>2, <1>3, <1>4, Zenon

(* A tick counts one, up to the cap.                                       *)
LEMMA OlderByOne ==
    ASSUME NEW n \in 0 .. AgeCap
    PROVE  /\ n < AgeCap => Older(n) = n + 1
           /\ ~(n < AgeCap) => Older(n) = n
<1>1. n \in Nat /\ AgeCap \in Nat /\ n <= AgeCap
  BY Times
<1>2. \E x \in {n + 1, AgeCap} : \A y \in {n + 1, AgeCap} : x =< y
  BY <1>1
<1>3. Older(n) \in {n + 1, AgeCap} /\ \A y \in {n + 1, AgeCap} : Older(n) =< y
  BY <1>2, Zenon DEF Older, Min
<1> QED
  BY <1>1, <1>3

(* An age grows by one at most.                                            *)
LEMMA OlderBound ==
    ASSUME NEW n \in 0 .. AgeCap
    PROVE  n \in Nat /\ Older(n) \in Nat /\ Older(n) <= n + 1
BY OlderByOne, Times

(* A tick brings the next attempt nearer.                                  *)
LEMMA LeftAfterTick ==
    ASSUME NEW r \in Rows, NEW q \in Rows, q.status = r.status, q.idle = Older(r.idle),
           NEW l \in BOOLEAN, NEW sw, NEW t, Timely(sw, t, l), Timely(sw, t + 1, l)
    PROVE  LeftOf(q, l, sw, t + 1) + 1 <= LeftOf(r, l, sw, t)
<1>1. /\ r.idle \in Nat /\ q.idle \in Nat /\ t \in Nat
      /\ r.idle < AgeCap => q.idle = r.idle + 1
      /\ ~(r.idle < AgeCap) => q.idle = r.idle
  <2>1. r.idle \in Nat /\ q.idle \in Nat /\ r.idle <= AgeCap /\ t \in Nat
    BY RowFields, Times DEF Timely
  <2> QED
    BY <2>1, OlderByOne, RowFields, Zenon
<1>2. /\ ToReclaim(sw, t) \in Nat /\ ToReclaim(sw, t + 1) \in Nat
      /\ ToReclaim(sw, t + 1) + 1 = ToReclaim(sw, t)
      /\ ToReclaim(sw, t + 1) <= SweepInterval + SweepLimit
  <2>1. /\ ToReclaim(sw, t) \in 0 .. SweepInterval + SweepLimit
        /\ ToReclaim(sw, t + 1) \in 0 .. SweepInterval + SweepLimit
    BY LeftRange, Zenon
  <2>2. ToReclaim(sw, t + 1) + 1 = ToReclaim(sw, t)
    BY <1>1, Times DEF ToReclaim
  <2> QED
    BY <2>1, <2>2, Times
<1>3. /\ ToList(sw, t) \in Int /\ ToList(sw, t + 1) \in Int
      /\ ToList(sw, t + 1) + 1 = ToList(sw, t)
      /\ ToList(sw, t + 1) <= SweepInterval + 2 * SweepLimit
  BY <1>1, <1>2, Times DEF ToList
<1>4. CASE r.status = "processing"
  BY <1>1, <1>2, <1>4, Times DEF LeftOf
<1>5. CASE r.status # "processing" /\ l
  BY <1>1, <1>5, Times DEF LeftOf
<1>6. CASE r.status # "processing" /\ ~l /\ r.idle <= MaxBackoff
  <2>1. q.idle = r.idle + 1
    BY <1>1, <1>6, Times
  <2>2. LeftOf(r, l, sw, t) = MaxBackoff + 1 - r.idle + SweepInterval + 2 * SweepLimit
    BY <1>6, Zenon DEF LeftOf
  <2>3. LeftOf(q, l, sw, t + 1) = IF q.idle <= MaxBackoff
                                  THEN MaxBackoff + 1 - q.idle + SweepInterval + 2 * SweepLimit
                                  ELSE ToList(sw, t + 1)
    BY <1>6, Zenon DEF LeftOf
  <2> QED
    BY <1>1, <1>3, <1>6, <2>1, <2>2, <2>3, Times
<1>7. CASE r.status # "processing" /\ ~l /\ ~(r.idle <= MaxBackoff)
  <2>1. ~(q.idle <= MaxBackoff)
    BY <1>1, <1>7, Times
  <2>2. LeftOf(r, l, sw, t) = ToList(sw, t) /\ LeftOf(q, l, sw, t + 1) = ToList(sw, t + 1)
    BY <1>7, <2>1, Zenon DEF LeftOf
  <2> QED
    BY <1>1, <1>3, <2>2, Times
<1> QED
  BY <1>4, <1>5, <1>6, <1>7, Zenon

(* The row after a step. *)

(* The numbers of a row.                                                   *)
LEMMA RowNats ==
    ASSUME Inv, NEW e \in Events
    PROVE  /\ row[e] \in Rows /\ row[e].attempts \in Nat /\ row[e].age \in Nat
           /\ faults \in Nat
<1>1. row[e] \in Rows /\ faults \in 0 .. MaxFaults
  BY Zenon DEF Inv, TypeOK
<1>2. row[e].attempts \in Nat /\ row[e].age \in 0 .. AgeCap
  BY <1>1, RowFields, Zenon
<1> QED
  BY <1>1, <1>2, Constants

(* A row that the step leaves alone: it gets nearer to its next attempt,   *)
(* or a fault accounts for the delay.                                      *)
LEMMA SameRow ==
    ASSUME Inv, Inv', SweepInv, SweepInv', NEW e \in Events, TimeInv(e),
           row'[e] = row[e],
           \/ faults' = faults /\ (Trying(e) => Left(e)' <= Left(e))
           \/ faults' = faults + 1
    PROVE  TimeInv(e)'
<1>1. /\ row[e] \in Rows /\ faults \in Nat /\ row[e].attempts \in Nat /\ row[e].age \in Nat
  BY RowNats, Zenon
<1>2. /\ Timely(sweep, sinceSweep, Listed(e)) /\ Timely(sweep, sinceSweep, Listed(e))'
      /\ Listed(e) \in BOOLEAN /\ Listed(e)' \in BOOLEAN
  BY Zenon DEF SweepInv, Listed
<1>3. /\ Left(e) \in Nat /\ Left(e)' \in Nat /\ Left(e)' <= Left(e) + Delay
  <2>1. Left(e)' = LeftOf(row[e], Listed(e)', sweep', sinceSweep')
    BY Zenon DEF Left
  <2> QED
    BY <1>1, <1>2, <2>1, LeftRange, LeftAfterFault, Zenon DEF Left
<1>4. (row[e].status # "absent" => row[e].attempts >= 1)'
  BY DEF TimeInv
<1>5. ASSUME Trying(e)'
      PROVE  row[e].age + Left(e)' <= row[e].attempts * Cycle + faults' * Delay
  <2>1. row[e].age + Left(e) <= row[e].attempts * Cycle + faults * Delay /\ Trying(e)
    BY <1>5, Zenon DEF TimeInv, Trying
  <2>2. /\ row[e].attempts * Cycle \in Nat /\ faults * Delay \in Nat
        /\ (faults + 1) * Delay = faults * Delay + Delay
    BY <1>1, Products, Zenon
  <2> QED
    BY <1>1, <1>3, <2>1, <2>2, Times
<1> QED
  BY <1>4, <1>5, Zenon DEF TimeInv

(* A row that is claimed: an attempt accounts for the delay.               *)
LEMMA ClaimedRow ==
    ASSUME Inv, Inv', SweepInv, SweepInv', NEW e \in Events, TimeInv(e),
           UNCHANGED faults, row'[e] = Claimed(row[e]),
           row[e].status \in {"processing", "failed"}
    PROVE  TimeInv(e)'
<1>1. /\ row[e] \in Rows /\ row'[e] \in Rows /\ faults \in Nat /\ row[e].attempts \in Nat
      /\ row[e].age \in Nat
  BY RowNats, Zenon DEF Inv, TypeOK
<1>2. /\ row'[e].status = "processing" /\ row'[e].attempts = row[e].attempts + 1
      /\ row'[e].payload = row[e].payload /\ row'[e].age = row[e].age
  BY <1>1, ClaimedFields, Zenon
<1>3. /\ Timely(sweep, sinceSweep, Listed(e)) /\ Timely(sweep, sinceSweep, Listed(e))'
      /\ Listed(e) \in BOOLEAN /\ Listed(e)' \in BOOLEAN
  BY Zenon DEF SweepInv, Listed
<1>4. Left(e) \in Nat /\ Left(e)' \in Nat /\ Left(e)' <= Cycle
  <2>1. Left(e)' = LeftOf(row'[e], Listed(e)', sweep', sinceSweep')
    BY Zenon DEF Left
  <2> QED
    BY <1>1, <1>2, <1>3, <2>1, LeftRange, Zenon DEF Left
<1>5. ASSUME Trying(e)'
      PROVE  row'[e].age + Left(e)' <= row'[e].attempts * Cycle + faults' * Delay
  <2>1. Trying(e)
    BY <1>1, <1>2, <1>5, Constants DEF Trying
  <2>2. row[e].age + Left(e) <= row[e].attempts * Cycle + faults * Delay
    BY <2>1, Zenon DEF TimeInv
  <2>3. /\ row[e].attempts * Cycle \in Nat /\ faults * Delay \in Nat
        /\ row'[e].attempts * Cycle = row[e].attempts * Cycle + Cycle
    BY <1>1, <1>2, Products, Zenon
  <2> QED
    BY <1>1, <1>2, <1>4, <2>2, <2>3, Times
<1>6. row'[e].attempts >= 1
  BY <1>1, <1>2
<1> QED
  BY <1>5, <1>6, Zenon DEF TimeInv

(* A row whose attempt fails: its claim accounted for the delay.           *)
LEMMA FailedRow ==
    ASSUME Inv, Inv', SweepInv, SweepInv', NEW e \in Events, TimeInv(e),
           UNCHANGED faults, row[e].status = "processing",
           NEW v \in {"failed", "succeeded", "skipped"}, row'[e] = SettleRow(row[e], v)
    PROVE  TimeInv(e)'
<1>1. /\ row[e] \in Rows /\ row'[e] \in Rows /\ faults \in Nat /\ row[e].attempts \in Nat
      /\ row[e].age \in Nat
  BY RowNats, Zenon DEF Inv, TypeOK
<1>2. /\ row'[e].status = v /\ row'[e].attempts = row[e].attempts
      /\ row'[e].payload = row[e].payload /\ row'[e].age = row[e].age
  BY <1>1, SettledFields
<1>3. /\ Timely(sweep, sinceSweep, Listed(e)) /\ Timely(sweep, sinceSweep, Listed(e))'
      /\ Listed(e) \in BOOLEAN /\ Listed(e)' \in BOOLEAN
  BY Zenon DEF SweepInv, Listed
<1>4. Left(e) \in Nat /\ Left(e)' \in Nat /\ Left(e)' <= Delay /\ Delay <= Left(e)
  <2>1. Left(e)' = LeftOf(row'[e], Listed(e)', sweep', sinceSweep')
    BY Zenon DEF Left
  <2>2. row'[e].status # "processing"
    BY <1>2, Zenon
  <2> QED
    BY <1>1, <1>3, <2>1, <2>2, LeftRange, Zenon DEF Left
<1>5. ASSUME Trying(e)'
      PROVE  row'[e].age + Left(e)' <= row'[e].attempts * Cycle + faults' * Delay
  <2>1. Trying(e)
    BY <1>2, <1>5, Zenon DEF Trying
  <2>2. row[e].age + Left(e) <= row[e].attempts * Cycle + faults * Delay
    BY <2>1, Zenon DEF TimeInv
  <2>3. row[e].attempts * Cycle \in Nat /\ faults * Delay \in Nat
    BY <1>1, Products, Zenon
  <2>4. Delay \in Nat
    BY Times, Zenon
  <2>5. row[e].age + Left(e)' <= row[e].attempts * Cycle + faults * Delay
    BY <1>1, <1>4, <2>2, <2>3, <2>4, LessLeft, Zenon
  <2> QED
    BY <1>2, <2>5, Zenon
<1>6. row'[e].attempts >= 1
  BY <1>2, Zenon DEF TimeInv
<1> QED
  BY <1>5, <1>6, Zenon DEF TimeInv

-----------------------------------------------------------------------------
(* Every action keeps to the time. *)

ClockInv == SweepInv /\ \A e \in Events : TimeInv(e)

(* Steps that leave the sweep alone.                                       *)
LEMMA SweepKept ==
    ASSUME SweepInv, UNCHANGED sweeping
    PROVE  SweepInv'
BY Zenon DEF SweepInv, Timely, Listed, sweeping

(* A row that such a step leaves alone.                                    *)
LEMMA StillRow ==
    ASSUME Inv, Inv', SweepInv, NEW e \in Events, TimeInv(e), UNCHANGED sweeping,
           row'[e] = row[e], Fault \/ UNCHANGED faults
    PROVE  TimeInv(e)'
<1>1. SweepInv'
  BY SweepKept, Zenon
<1>2. Left(e)' = Left(e)
  BY Zenon DEF Left, LeftOf, Listed, ToReclaim, ToList, sweeping
<1>3. Left(e) \in Nat
  <2>1. /\ row[e] \in Rows /\ Listed(e) \in BOOLEAN
        /\ Timely(sweep, sinceSweep, Listed(e))
    BY Zenon DEF Inv, TypeOK, SweepInv, Listed
  <2> QED
    BY <2>1, LeftRange, Zenon DEF Left
<1>4. Left(e)' <= Left(e)
  BY <1>2, <1>3
<1> QED
  BY <1>1, <1>4, SameRow, Zenon DEF Fault

(* At the start the timer is reset and there are no rows.                  *)
LEMMA InitClock == Init => ClockInv
<1> SUFFICES ASSUME Init PROVE ClockInv
  BY Zenon
<1>1. SweepInv
  BY Times DEF Init, SweepInv, Timely, Listed
<1>2. \A e \in Events : TimeInv(e)
  BY Zenon DEF Init, TimeInv, Trying
<1> QED
  BY <1>1, <1>2, Zenon DEF ClockInv

(* TryClaimEvent: the first attempt, or another one.                       *)
LEMMA TryClaimTime ==
    ASSUME Inv, Inv', ClockInv, NEW e \in Events, NEW k \in Kinds, TryClaimEvent(e, k)
    PROVE  ClockInv'
<1>1. /\ row \in [Events -> Rows] /\ row' \in [Events -> Rows] /\ faults \in Nat
      /\ row' = [row EXCEPT ![e] = ClaimRow(row[e], k)]
      /\ Claimable(row[e])
      /\ UNCHANGED sweeping /\ UNCHANGED faults
  <2>1. row \in [Events -> Rows] /\ row' \in [Events -> Rows] /\ faults \in Nat
    BY RowNats, Zenon DEF Inv, TypeOK
  <2>2. /\ row' = [row EXCEPT ![e] = ClaimRow(row[e], k)] /\ Claimable(row[e])
        /\ UNCHANGED sweeping /\ UNCHANGED faults
    BY Zenon DEF TryClaimEvent
  <2> QED
    BY <2>1, <2>2, Zenon
<1>2. SweepInv /\ SweepInv' /\ \A d \in Events : TimeInv(d)
  BY <1>1, SweepKept, Zenon DEF ClockInv
<1>3. ASSUME NEW d \in Events, d # e PROVE TimeInv(d)'
  BY <1>1, <1>2, <1>3, StillRow, Zenon
<1>4. TimeInv(e)'
  <2>1. row'[e] = ClaimRow(row[e], k)
    BY <1>1, Zenon
  <2>2. CASE row[e].status = "absent"
    <3>1. row'[e].age = 0 /\ row'[e].attempts = 1 /\ row'[e].status = "processing"
      <4>1. row'[e] = Received(k)
        BY <2>1, <2>2, Zenon DEF ClaimRow
      <4> QED
        BY <4>1, ReceivedFields, Zenon
    <3>2. Timely(sweep, sinceSweep, Listed(e))' /\ Listed(e)' \in BOOLEAN
      BY <1>2, Zenon DEF SweepInv, Listed
    <3>3. Left(e)' = LeftOf(row'[e], Listed(e)', sweep', sinceSweep')
      BY Zenon DEF Left
    <3>4. row'[e] \in Rows
      BY <1>1, Zenon
    <3>5. Left(e)' \in Nat /\ Left(e)' <= Cycle
      BY <3>1, <3>2, <3>3, <3>4, LeftRange, Zenon
    <3>6. row'[e].attempts * Cycle = Cycle /\ faults' * Delay \in Nat
      BY <1>1, <3>1, Products, Times
    <3>7. row'[e].age + Left(e)' <= row'[e].attempts * Cycle + faults' * Delay
      BY <3>1, <3>5, <3>6, Times
    <3>8. row'[e].attempts >= 1
      BY <3>1
    <3> QED
      BY <3>7, <3>8, Zenon DEF TimeInv
  <2>3. CASE row[e].status # "absent"
    <3>1. row'[e] = Claimed(row[e]) /\ row[e].status \in {"processing", "failed"}
      BY <1>1, <2>1, <2>3, Zenon DEF ClaimRow, Claimable
    <3> QED
      BY <1>1, <1>2, <3>1, ClaimedRow, Zenon
  <2> QED
    BY <2>2, <2>3, Zenon
<1> QED
  BY <1>2, <1>3, <1>4, Zenon DEF ClockInv

(* A worker settles what it holds.                                         *)
LEMMA DispatchTime ==
    ASSUME Inv, Inv', ClockInv, NEW w \in Workers, DispatchAndSettle(w)
    PROVE  ClockInv'
<1>1. PICK e \in Events : e = hand[w].event
  BY Zenon DEF Inv, TypeOK, DispatchAndSettle
<1>2. PICK v \in Verdicts(row[e].kind, hand[w].payload) :
        /\ row' = [row EXCEPT ![e] = SettleRow(row[e], v)]
        /\ considered' = IF v # "failed" /\ hand[w].payload = "full"
                         THEN considered \cup {e} ELSE considered
  BY <1>1, Zenon DEF DispatchAndSettle
<1>3. /\ row \in [Events -> Rows] /\ row' \in [Events -> Rows]
      /\ UNCHANGED sweeping /\ UNCHANGED faults
  BY Zenon DEF Inv, TypeOK, DispatchAndSettle
<1>4. SweepInv /\ SweepInv' /\ \A d \in Events : TimeInv(d)
  BY <1>3, SweepKept, Zenon DEF ClockInv
<1>5. row'[e] = SettleRow(row[e], v) /\ \A d \in Events : d # e => row'[d] = row[d]
  BY <1>2, <1>3, Zenon
<1>6. ASSUME NEW d \in Events PROVE TimeInv(d)'
  <2> v \in {"failed", "succeeded", "skipped"}
    BY Zenon DEF Verdicts
  <2>1. CASE row'[d] = row[d]
    BY <1>3, <1>4, <2>1, StillRow, Zenon
  <2>2. CASE row'[d] # row[d]
    <3>1. d = e /\ row[d].status = "processing"
      BY <1>5, <2>2, Zenon DEF SettleRow
    <3> QED
      BY <1>3, <1>4, <1>5, <3>1, FailedRow, Zenon
  <2> QED
    BY <2>1, <2>2, Zenon
<1> QED
  BY <1>4, <1>6, Zenon DEF ClockInv

(* Faults: no row changes, whatever becomes of the sweep.                  *)
LEMMA FaultTime ==
    ASSUME Inv, Inv', ClockInv, SweepInv', faults' = faults + 1, UNCHANGED row
    PROVE  ClockInv'
BY SameRow, Zenon DEF ClockInv

(* A worker's process dies.                                                *)
LEMMA CrashTime ==
    ASSUME Inv, Inv', ClockInv, NEW w \in Workers, Crash(w)
    PROVE  ClockInv'
<1>1. UNCHANGED row /\ faults' = faults + 1
  BY Zenon DEF Crash, Fault
<1>2. SweepInv'
  <2>1. CASE UNCHANGED sweeping
    BY <2>1, SweepKept, Zenon DEF ClockInv
  <2>2. CASE listed' = [e \in Events |-> "none"] /\ sweep' = "idle" /\ sinceSweep' = 0
    BY <2>2, Times DEF SweepInv, Timely, Listed
  <2> QED
    BY <2>1, <2>2, Zenon DEF Crash
<1> QED
  BY <1>1, <1>2, FaultTime, Zenon

(* A batch with room for every event takes all of them.                    *)
LEMMA FullBatch ==
    ASSUME BoundOutlastsRetries, NEW S \in SUBSET Events, NEW column,
           NEW B \in Batches(S, SweepBatch, column)
    PROVE  B = S
<1>1. IsFiniteSet(Events) /\ SweepBatch \in Nat /\ Cardinality(Events) <= SweepBatch
  BY RetentionAssumption, Zenon DEF BoundOutlastsRetries
<1>2. /\ IsFiniteSet(S) /\ Cardinality(S) \in Nat /\ Cardinality(Events) \in Nat
      /\ Cardinality(S) <= Cardinality(Events)
  BY <1>1, FS_Subset, FS_CardinalityType, Zenon
<1>3. B \in SUBSET S /\ Cardinality(B) = Min({SweepBatch, Cardinality(S)})
  BY Zenon DEF Batches
<1>4. Min({SweepBatch, Cardinality(S)}) = Cardinality(S)
  <2>1. \E x \in {SweepBatch, Cardinality(S)} :
          \A y \in {SweepBatch, Cardinality(S)} : x =< y
    BY <1>1, <1>2
  <2>2. /\ Min({SweepBatch, Cardinality(S)}) \in {SweepBatch, Cardinality(S)}
        /\ \A y \in {SweepBatch, Cardinality(S)} : Min({SweepBatch, Cardinality(S)}) =< y
    BY <2>1, Zenon DEF Min
  <2> QED
    BY <1>1, <1>2, <2>2
<1> QED
  BY <1>2, <1>3, <1>4, FS_Subset, Zenon

(* A failed event is due once the longest backoff has passed.              *)
LEMMA DueInTime ==
    ASSUME NEW r \in Rows, r.attempts \in 1 .. MaxAttempts, r.idle > MaxBackoff
    PROVE  Due(r)
<1>1. /\ r.idle \in Nat /\ MaxBackoff \in Nat /\ BaseBackoff \in Nat /\ MaxAttempts \in Nat
  BY RowFields, Times, RetentionAssumption
<1>2. PICK m \in Nat : m = 2 ^ (r.attempts - 1)
  BY PowerAssumption, Zenon
<1>3. PICK b \in Nat : b = BaseBackoff * m
  BY <1>1, <1>2
<1>4. Backoff(r.attempts) = Min({b, MaxBackoff})
  BY <1>2, <1>3, Zenon DEF Backoff
<1>5. \E x \in {b, MaxBackoff} : \A y \in {b, MaxBackoff} : x =< y
  BY <1>1, <1>3
<1>6. Min({b, MaxBackoff}) \in {b, MaxBackoff}
      /\ \A y \in {b, MaxBackoff} : Min({b, MaxBackoff}) =< y
  BY <1>5, Zenon DEF Min
<1>7. r.idle > Backoff(r.attempts)
  BY <1>1, <1>3, <1>4, <1>6
<1> QED
  BY <1>7, Zenon DEF Due

(* reclaimAbandoned: every abandoned claim fails, and the listing is next. *)
LEMMA ReclaimTime ==
    ASSUME BoundOutlastsRetries, Inv, Inv', ClockInv, ReclaimAbandonedEvents
    PROVE  ClockInv'
<1>1. /\ sweep = "idle" /\ sinceSweep >= SweepInterval
      /\ sweep' = "list" /\ sinceSweep' = 0 /\ UNCHANGED listed
      /\ row \in [Events -> Rows] /\ sinceSweep \in Nat
  BY Constants DEF ReclaimAbandonedEvents, Inv, TypeOK
<1>2. SweepInv /\ \A e \in Events : TimeInv(e)
  BY Zenon DEF ClockInv
<1>3. SweepInv'
  BY <1>1, <1>2, Times DEF SweepInv, Timely, Listed
<1>4. CASE Fault /\ UNCHANGED row
  BY <1>1, <1>3, <1>4, FaultTime, Zenon DEF Fault
<1>5. CASE /\ UNCHANGED faults
           /\ \E B \in Batches(Abandoned, SweepBatch, [e \in Events |-> row[e].idle]) :
                row' = [e \in Events |-> IF e \in B THEN SettleRow(row[e], "failed")
                                         ELSE row[e]]
  <2>1. row' = [e \in Events |-> IF e \in Abandoned THEN SettleRow(row[e], "failed")
                                 ELSE row[e]]
    <3>1. Abandoned \in SUBSET Events
      BY Zenon DEF Abandoned
    <3> QED
      BY <1>5, <3>1, FullBatch, Zenon
  <2>2. ASSUME NEW e \in Events PROVE TimeInv(e)'
    <3>1. CASE e \in Abandoned
      <4>1. row[e].status = "processing" /\ row'[e] = SettleRow(row[e], "failed")
        BY <2>1, <3>1, Zenon DEF Abandoned
      <4> QED
        BY <1>1, <1>2, <1>3, <1>5, <4>1, FailedRow, ZenonT(40)
    <3>2. CASE e \notin Abandoned
      <4>1. row'[e] = row[e] /\ row[e] \in Rows
        BY <1>1, <2>1, <3>2, Zenon
      <4>2. row[e].status = "processing" => row[e].idle <= StaleClaimAfter
        <5>1. row[e].idle \in Nat
          BY <4>1, RowFields, Times
        <5> QED
          BY <3>2, <5>1, Times DEF Abandoned
      <4>3. ~Listed(e) /\ ~Listed(e)' /\ sinceSweep = SweepInterval
        BY <1>1, <1>2, Times DEF SweepInv, Timely, Listed
      <4>4. ToList(sweep, sinceSweep) = SweepLimit /\ ToList(sweep', sinceSweep') = SweepLimit
        BY <1>1, <4>3, Times DEF ToList, ToReclaim
      <4>5. Left(e)' = Left(e)
        BY <4>1, <4>2, <4>3, <4>4, Zenon DEF Left, LeftOf
      <4>6. Left(e) \in Nat
        <5>1. Listed(e) \in BOOLEAN /\ Timely(sweep, sinceSweep, Listed(e))
          BY <1>2, Zenon DEF SweepInv, Listed
        <5> QED
          BY <4>1, <5>1, LeftRange, Zenon DEF Left
      <4>7. Left(e)' <= Left(e)
        BY <4>5, <4>6
      <4> QED
        BY <1>1, <1>2, <1>3, <1>5, <4>1, <4>7, SameRow, ZenonT(40)
    <3> QED
      BY <3>1, <3>2, Zenon
  <2> QED
    BY <1>3, <2>2, Zenon DEF ClockInv
<1> QED
  BY <1>4, <1>5, Zenon DEF ReclaimAbandonedEvents

(* retryFailed lists every failed event that is due.                       *)
LEMMA ListingTime ==
    ASSUME BoundOutlastsRetries, Inv, Inv', ClockInv, ListRetryableEvents
    PROVE  ClockInv'
<1>1. /\ sweep = "list" /\ UNCHANGED row
      /\ row \in [Events -> Rows] /\ sinceSweep \in Nat
  BY Constants DEF ListRetryableEvents, Inv, TypeOK
<1>2. SweepInv /\ \A e \in Events : TimeInv(e)
  BY Zenon DEF ClockInv
<1>3. CASE Fault /\ sweep' = "idle" /\ sinceSweep' = 0 /\ UNCHANGED listed
  <2>1. SweepInv'
    BY <1>1, <1>2, <1>3, Times DEF SweepInv, Timely, Listed
  <2> QED
    BY <1>1, <1>3, <2>1, FaultTime, ZenonT(40) DEF Fault
<1>4. CASE /\ sweep' = "retry" /\ UNCHANGED <<sinceSweep, faults>>
           /\ \E B \in Batches(Retryable, SweepBatch, [e \in Events |-> row[e].idle]) :
                listed' = [e \in Events |-> IF e \in B THEN row[e].payload ELSE "none"]
  <2>1. listed' = [e \in Events |-> IF e \in Retryable THEN row[e].payload ELSE "none"]
    <3>1. Retryable \in SUBSET Events
      BY Zenon DEF Retryable
    <3> QED
      BY <1>4, <3>1, FullBatch
  <2>2. SweepInv'
    BY <1>1, <1>2, <1>4, Zenon DEF SweepInv, Timely, Listed
  <2>3. ASSUME NEW e \in Events, Trying(e) PROVE Left(e)' <= Left(e)
    <3>1. /\ row[e] \in Rows /\ row'[e] = row[e] /\ ~Listed(e)
          /\ sinceSweep <= SweepLimit /\ row[e].idle \in Nat
      <4>1. row[e] \in Rows /\ row'[e] = row[e] /\ ~Listed(e) /\ sinceSweep <= SweepLimit
        BY <1>1, <1>2, Zenon DEF SweepInv, Timely
      <4> QED
        BY <4>1, RowFields, Times
    <3>2. Left(e) \in Nat
      <4>1. Listed(e) \in BOOLEAN /\ Timely(sweep, sinceSweep, Listed(e))
        BY <1>2, Zenon DEF SweepInv, Listed
      <4> QED
        BY <3>1, <4>1, LeftRange, Zenon DEF Left
    <3>3. CASE row[e].status = "processing"
      <4>1. ToReclaim(sweep', sinceSweep') = ToReclaim(sweep, sinceSweep)
        BY <1>1, <1>4, Zenon DEF ToReclaim
      <4>2. Left(e)' = Left(e)
        BY <3>1, <3>3, <4>1, Zenon DEF Left, LeftOf
      <4> QED
        BY <3>2, <4>2
    <3>4. CASE row[e].status = "failed" /\ row[e].idle <= MaxBackoff
      <4>1. Left(e) = MaxBackoff + 1 - row[e].idle + SweepInterval + 2 * SweepLimit
        BY <3>1, <3>4, Zenon DEF Left, LeftOf
      <4>2. Left(e)' \in {SweepLimit - sinceSweep, Left(e)}
        <5>1. Left(e)' = IF Listed(e)' THEN SweepLimit - sinceSweep ELSE Left(e)
          BY <1>4, <3>1, <3>4, <4>1, Zenon DEF Left, LeftOf
        <5> QED
          BY <5>1, Zenon
      <4> QED
        BY <1>1, <3>1, <3>4, <4>1, <4>2, Times
    <3>5. CASE row[e].status = "failed" /\ ~(row[e].idle <= MaxBackoff)
      <4>1. row[e].attempts \in 1 .. MaxAttempts /\ MayRetry(row[e])
        <5>1. row[e].attempts >= 1 /\ row[e].attempts < MaxAttempts /\ row[e].attempts \in Nat
          BY <1>2, <2>3, <3>1, <3>5, RowFields, Zenon DEF TimeInv, Trying
        <5> QED
          BY <3>5, <5>1, Constants DEF MayRetry
      <4>2. Due(row[e])
        BY <3>1, <3>5, <4>1, DueInTime, Times
      <4>3. Listed(e)'
        <5>1. listed'[e] = row[e].payload /\ row[e].payload = "full"
          BY <2>1, <2>3, <4>1, <4>2, Zenon DEF Retryable, Trying
        <5> QED
          BY <5>1, Zenon DEF Listed
      <4>4. Left(e)' = SweepLimit - sinceSweep
        BY <1>4, <3>1, <3>5, <4>3, Zenon DEF Left, LeftOf
      <4>5. Left(e) = SweepLimit - sinceSweep
        BY <1>1, <3>1, <3>5, Zenon DEF Left, LeftOf, ToList
      <4> QED
        BY <3>2, <4>4, <4>5
    <3> QED
      BY <2>3, <3>3, <3>4, <3>5, ZenonT(40) DEF Trying
  <2>4. ASSUME NEW e \in Events PROVE TimeInv(e)'
    BY <1>1, <1>2, <1>4, <2>2, <2>3, SameRow, Zenon
  <2> QED
    BY <2>2, <2>4, Zenon DEF ClockInv
<1> QED
  BY <1>3, <1>4, Zenon DEF ListRetryableEvents

(* retryFailed's loop: another attempt, or a listed event passed over.     *)
LEMMA RetryTime ==
    ASSUME Inv, Inv', ClockInv, NEW e \in Events, ClaimEventForRetry(e)
    PROVE  ClockInv'
<1>1. /\ sweep = "retry" /\ UNCHANGED <<sweep, sinceSweep>>
      /\ row \in [Events -> Rows] /\ row' \in [Events -> Rows]
      /\ listed \in [Events -> Payloads]
      /\ listed' = [listed EXCEPT ![e] = "none"]
  BY Zenon DEF ClaimEventForRetry, Inv, TypeOK
<1>2. SweepInv /\ \A d \in Events : TimeInv(d)
  BY Zenon DEF ClockInv
<1>3. SweepInv'
  BY <1>1, <1>2, Zenon DEF SweepInv, Timely, Listed
<1>4. CASE Fault /\ UNCHANGED row
  BY <1>1, <1>3, <1>4, FaultTime, Zenon DEF Fault
<1>5. ASSUME NEW d \in Events, d # e, row'[d] = row[d], UNCHANGED faults PROVE TimeInv(d)'
  <2>1. Listed(d)' = Listed(d)
    BY <1>1, <1>5, Zenon DEF Listed
  <2>2. Left(d)' = Left(d)
    BY <1>1, <1>5, <2>1, Zenon DEF Left, LeftOf, ToReclaim, ToList
  <2>3. Left(d) \in Nat
    <3>1. row[d] \in Rows /\ Listed(d) \in BOOLEAN /\ Timely(sweep, sinceSweep, Listed(d))
      BY <1>1, <1>2, Zenon DEF SweepInv, Listed
    <3> QED
      BY <3>1, LeftRange, Zenon DEF Left
  <2>4. Left(d)' <= Left(d)
    BY <2>2, <2>3
  <2> QED
    BY <1>1, <1>2, <1>3, <1>5, <2>4, SameRow, Zenon
<1>6. CASE MayRetry(row[e]) /\ row' = [row EXCEPT ![e] = Claimed(row[e])] /\ UNCHANGED faults
  <2>1. row'[e] = Claimed(row[e]) /\ \A d \in Events : d # e => row'[d] = row[d]
    BY <1>1, <1>6, Zenon
  <2>2. row[e].status \in {"processing", "failed"}
    BY <1>6, Zenon DEF MayRetry
  <2>3. TimeInv(e)'
    BY <1>1, <1>2, <1>3, <1>6, <2>1, <2>2, ClaimedRow, Zenon
  <2> QED
    BY <1>3, <1>5, <1>6, <2>1, <2>3, Zenon DEF ClockInv
<1>7. CASE ~MayRetry(row[e]) /\ UNCHANGED <<row, faults>>
  <2>1. ASSUME Trying(e) PROVE Left(e)' <= Left(e)
    <3>1. row[e].status = "processing"
      BY <1>7, <2>1, Zenon DEF MayRetry, Trying
    <3>2. Left(e)' = Left(e)
      BY <1>1, <1>7, <3>1, Zenon DEF Left, LeftOf, ToReclaim
    <3>3. Left(e) \in Nat
      <4>1. row[e] \in Rows /\ Listed(e) \in BOOLEAN /\ Timely(sweep, sinceSweep, Listed(e))
        BY <1>1, <1>2, Zenon DEF SweepInv, Listed
      <4> QED
        BY <4>1, LeftRange, Zenon DEF Left
    <3> QED
      BY <3>2, <3>3
  <2>2. TimeInv(e)'
    BY <1>1, <1>2, <1>3, <1>7, <2>1, SameRow, Zenon
  <2> QED
    BY <1>3, <1>5, <1>7, <2>2, Zenon DEF ClockInv
<1> QED
  BY <1>4, <1>6, <1>7, Zenon DEF ClaimEventForRetry

(* A sweep that ends leaves no failed event behind that was listed.        *)
LEMMA EndSweepTime ==
    ASSUME Inv, Inv', ClockInv, EndSweep
    PROVE  ClockInv'
<1>1. /\ sweep = "retry" /\ sweep' = "idle" /\ sinceSweep' = 0
      /\ UNCHANGED <<row, listed, faults>>
      /\ \A e \in Events : listed[e] = "none"
      /\ row \in [Events -> Rows] /\ sinceSweep \in Nat
  BY Constants DEF EndSweep, Inv, TypeOK
<1>2. SweepInv /\ \A d \in Events : TimeInv(d)
  BY Zenon DEF ClockInv
<1>3. SweepInv'
  BY <1>1, Times DEF SweepInv, Timely, Listed
<1>4. ASSUME NEW e \in Events PROVE TimeInv(e)'
  <2>1. /\ ~Listed(e) /\ ~Listed(e)' /\ sinceSweep <= SweepLimit
        /\ Listed(e) \in BOOLEAN /\ Listed(e)' \in BOOLEAN
        /\ Timely(sweep, sinceSweep, Listed(e)) /\ Timely(sweep, sinceSweep, Listed(e))'
    BY <1>1, <1>2, <1>3, Zenon DEF SweepInv, Timely, Listed
  <2>2. /\ ToReclaim(sweep, sinceSweep) = SweepLimit - sinceSweep + SweepInterval
        /\ ToReclaim(sweep', sinceSweep') = SweepInterval
    BY <1>1, Times DEF ToReclaim
  <2>3. /\ ToList(sweep, sinceSweep) = SweepLimit - sinceSweep + SweepInterval + SweepLimit
        /\ ToList(sweep', sinceSweep') = SweepInterval + SweepLimit
    BY <1>1, <2>2, Zenon DEF ToList
  <2>4. Left(e) \in Nat /\ row[e] \in Rows
    BY <1>1, <2>1, LeftRange, Zenon DEF Left
  <2>5. CASE row[e].status = "processing" /\ ~(row[e].idle <= StaleClaimAfter)
    <3>1. Left(e) = Delay + (SweepLimit - sinceSweep + SweepInterval)
          /\ Left(e)' = Delay + SweepInterval
      BY <1>1, <2>2, <2>5, Zenon DEF Left, LeftOf
    <3>2. Left(e)' <= Left(e)
      BY <1>1, <2>1, <3>1, Times
    <3> QED
      BY <1>1, <1>2, <1>3, <3>2, SameRow, Zenon
  <2>6. CASE row[e].status # "processing" /\ ~(row[e].idle <= MaxBackoff)
    <3>1. Left(e) = SweepLimit - sinceSweep + SweepInterval + SweepLimit
          /\ Left(e)' = SweepInterval + SweepLimit
      BY <1>1, <2>1, <2>3, <2>6, Zenon DEF Left, LeftOf
    <3>2. Left(e)' <= Left(e)
      BY <1>1, <2>1, <3>1, Times
    <3> QED
      BY <1>1, <1>2, <1>3, <3>2, SameRow, Zenon
  <2>7. CASE \/ row[e].status = "processing" /\ row[e].idle <= StaleClaimAfter
             \/ row[e].status # "processing" /\ row[e].idle <= MaxBackoff
    <3>1. Left(e)' = Left(e)
      BY <1>1, <2>1, <2>7, Zenon DEF Left, LeftOf
    <3>2. Left(e)' <= Left(e)
      BY <2>4, <3>1
    <3> QED
      BY <1>1, <1>2, <1>3, <3>2, SameRow, Zenon
  <2> QED
    BY <2>5, <2>6, <2>7, Zenon
<1> QED
  BY <1>3, <1>4, Zenon DEF ClockInv

(* A purge takes the row out of the account.                               *)
LEMMA PurgeTime ==
    ASSUME Inv, Inv', ClockInv, PurgePayloads
    PROVE  ClockInv'
<1>1. /\ row \in [Events -> Rows] /\ UNCHANGED sweeping
      /\ Fault \/ UNCHANGED faults
      /\ \A e \in Events : row'[e] = row[e] \/ row'[e] = Purged(row[e])
  <2>1. row \in [Events -> Rows]
    BY Zenon DEF Inv, TypeOK
  <2>2. UNCHANGED sweeping
    BY Zenon DEF PurgePayloads
  <2>3. Fault \/ UNCHANGED faults
    BY Zenon DEF PurgePayloads
  <2>4. \A e \in Events : row'[e] = row[e] \/ row'[e] = Purged(row[e])
    BY Zenon DEF PurgePayloads
  <2> QED
    BY <2>1, <2>2, <2>3, <2>4, Zenon
<1>2. SweepInv /\ SweepInv' /\ \A d \in Events : TimeInv(d)
  BY <1>1, SweepKept, Zenon DEF ClockInv
<1>3. ASSUME NEW e \in Events, row'[e] = Purged(row[e]) PROVE TimeInv(e)'
  <2>1. /\ row'[e].status = row[e].status /\ row'[e].payload = "skeleton"
        /\ row'[e].attempts = row[e].attempts
    BY <1>1, <1>3, PurgedFields, Zenon
  <2> QED
    BY <1>1, <1>2, <2>1, Zenon DEF TimeInv, Trying
<1>4. ASSUME NEW e \in Events, row'[e] = row[e] PROVE TimeInv(e)'
  BY <1>1, <1>2, <1>4, StillRow, Zenon
<1> QED
  BY <1>1, <1>2, <1>3, <1>4, Zenon DEF ClockInv

(* A tick: a row is one older, and its next attempt one nearer.            *)
LEMMA TickTime ==
    ASSUME Inv, Inv', ClockInv, Tick
    PROVE  ClockInv'
<1>1. /\ UNCHANGED <<listed, sweep, faults>> /\ sinceSweep' = sinceSweep + 1
      /\ \/ sweep = "idle" /\ sinceSweep < SweepInterval
         \/ sweep # "idle" /\ sinceSweep < SweepLimit
  BY Zenon DEF Tick
<1>2. row' = [e \in Events |->
                IF row[e].status = "absent" THEN row[e]
                ELSE [row[e] EXCEPT !.idle = Older(@), !.age = Older(@)]]
  BY Zenon DEF Tick
<1>3. /\ sinceSweep \in Nat /\ faults \in Nat
      /\ row \in [Events -> Rows] /\ row' \in [Events -> Rows]
  BY Constants DEF Inv, TypeOK
<1>4. SweepInv /\ \A d \in Events : TimeInv(d)
  BY Zenon DEF ClockInv
<1>5. SweepInv'
  BY <1>1, <1>4, <1>3, Times DEF SweepInv, Timely, Listed
<1>6. ASSUME NEW e \in Events PROVE TimeInv(e)'
  <2>1. CASE row[e].status = "absent"
    <3>1. row'[e] = row[e]
      BY <1>2, <2>1, Zenon
    <3> QED
      BY <1>1, <2>1, <3>1, Zenon DEF TimeInv, Trying
  <2>2. CASE row[e].status # "absent"
    <3>1. PICK i, a : i = Older(row[e].idle) /\ a = Older(row[e].age)
      BY Zenon
    <3>2. row'[e] = [row[e] EXCEPT !.idle = i, !.age = a]
      BY <1>2, <2>2, <3>1, Zenon
    <3>3. row[e] \in Rows /\ row'[e] \in Rows
      BY <1>3, Zenon
    <3>4. /\ row'[e].status = row[e].status /\ row'[e].payload = row[e].payload
          /\ row'[e].attempts = row[e].attempts /\ row'[e].idle = i /\ row'[e].age = a
      BY <3>2, <3>3, Zenon DEF Rows
    <3>5. /\ row[e].age \in 0 .. AgeCap /\ row[e].attempts \in Nat
      BY <3>3, RowFields, Zenon
    <3>6. row[e].age \in Nat /\ a \in Nat /\ a <= row[e].age + 1
      BY <3>1, <3>5, OlderBound, Zenon
    <3>7. /\ Listed(e)' = Listed(e) /\ Listed(e) \in BOOLEAN
          /\ Timely(sweep, sinceSweep, Listed(e))
          /\ Timely(sweep, sinceSweep + 1, Listed(e))
      <4>1. Listed(e)' = Listed(e) /\ Listed(e) \in BOOLEAN
        BY <1>1, Zenon DEF Listed
      <4>2. Timely(sweep', sinceSweep', Listed(e)')
        BY <1>5, Zenon DEF SweepInv
      <4> QED
        BY <1>1, <1>4, <4>1, <4>2, Zenon DEF SweepInv
    <3>8. Left(e) \in Nat /\ Left(e)' \in Nat /\ Left(e)' + 1 <= Left(e)
      <4>1. Left(e)' = LeftOf(row'[e], Listed(e), sweep, sinceSweep + 1)
        BY <1>1, <3>7, Zenon DEF Left
      <4>2. Left(e) \in Nat /\ Left(e)' \in Nat
        BY <3>3, <3>7, <4>1, LeftRange, Zenon DEF Left
      <4>3. row'[e].idle = Older(row[e].idle)
        BY <3>1, <3>4, Zenon
      <4> QED
        BY <3>3, <3>4, <3>7, <4>1, <4>2, <4>3, LeftAfterTick, ZenonT(40) DEF Left
    <3>9. ASSUME Trying(e)'
          PROVE  row'[e].age + Left(e)' <= row'[e].attempts * Cycle + faults' * Delay
      <4>1. Trying(e)
        BY <1>1, <3>4, <3>9, Zenon DEF Trying
      <4>2. row[e].age + Left(e) <= row[e].attempts * Cycle + faults * Delay
        BY <1>4, <4>1, Zenon DEF TimeInv
      <4>3. row[e].attempts * Cycle \in Nat /\ faults * Delay \in Nat
        BY <1>3, <3>5, Products, Zenon
      <4> QED
        BY <1>1, <1>3, <3>4, <3>6, <3>8, <4>2, <4>3
    <3>10. row[e].attempts >= 1
      BY <1>1, <1>4, <2>2, Zenon DEF TimeInv
    <3> QED
      BY <3>4, <3>9, <3>10, Zenon DEF TimeInv
  <2> QED
    BY <2>1, <2>2, Zenon
<1> QED
  BY <1>5, <1>6, Zenon DEF ClockInv

(* Nothing happens.                                                        *)
LEMMA StutterTime ==
    ASSUME Inv, Inv', ClockInv, UNCHANGED vars
    PROVE  ClockInv'
<1>1. UNCHANGED sweeping /\ UNCHANGED <<row, faults>>
  BY Zenon DEF vars, sweeping
<1> QED
  BY <1>1, SweepKept, StillRow, Zenon DEF ClockInv

(* Every step keeps to the time.                                           *)
LEMMA NextClock ==
    ASSUME BoundOutlastsRetries, Inv, Inv', ClockInv, [Next]_vars
    PROVE  ClockInv'
BY TryClaimTime, DispatchTime, CrashTime, ReclaimTime, ListingTime, RetryTime, EndSweepTime,
   PurgeTime, TickTime, StutterTime, ZenonT(40)
   DEF Next, HandlerStep, SweepStep, Workers

(* A failed event with attempts left is no older than the outer bound.     *)
LEMMA TryingIsYoung ==
    ASSUME BoundOutlastsRetries, Inv, ClockInv, NEW e \in Events, Trying(e)
    PROVE  row[e].age <= UnsettledAfter
<1>1. /\ row[e] \in Rows /\ faults \in 0 .. MaxFaults
      /\ MaxFaults \in Nat /\ MaxAttempts \in Nat /\ UnsettledAfter \in Nat
  BY Constants, Zenon DEF Inv, TypeOK
<1>2. /\ row[e].attempts \in Nat /\ row[e].age \in Nat /\ row[e].attempts < MaxAttempts
  BY <1>1, RowFields, Times DEF Trying
<1>3. Left(e) \in Nat
  <2>1. Listed(e) \in BOOLEAN /\ Timely(sweep, sinceSweep, Listed(e))
    BY Zenon DEF ClockInv, SweepInv, Listed
  <2> QED
    BY <1>1, <2>1, LeftRange, Zenon DEF Left
<1>4. row[e].age + Left(e) <= row[e].attempts * Cycle + faults * Delay
  BY Zenon DEF ClockInv, TimeInv
<1>5. PICK m \in Nat : (MaxAttempts - 1) * Cycle = row[e].attempts * Cycle + m
  <2>1. PICK n \in Nat : MaxAttempts - 1 = row[e].attempts + n
    <3>1. MaxAttempts - 1 - row[e].attempts \in Nat
          /\ MaxAttempts - 1 = row[e].attempts + (MaxAttempts - 1 - row[e].attempts)
      BY <1>1, <1>2
    <3> QED
      BY <3>1, Zenon
  <2>2. n * Cycle \in Nat /\ (row[e].attempts + n) * Cycle = row[e].attempts * Cycle + n * Cycle
    BY <1>2, Times
  <2> QED
    BY <2>1, <2>2, Zenon
<1>6. PICK k \in Nat : MaxFaults * Delay = faults * Delay + k
  <2>1. PICK n \in Nat : MaxFaults = faults + n
    <3>1. MaxFaults - faults \in Nat /\ MaxFaults = faults + (MaxFaults - faults)
      BY <1>1
    <3> QED
      BY <3>1, Zenon
  <2>2. n * Delay \in Nat /\ (faults + n) * Delay = faults * Delay + n * Delay
    BY <1>1, Times
  <2> QED
    BY <2>1, <2>2, Zenon
<1>7. row[e].attempts * Cycle \in Nat /\ faults * Delay \in Nat
  BY <1>1, <1>2, Products
<1>8. UnsettledAfter >= (MaxAttempts - 1) * Cycle + MaxFaults * Delay
  BY Zenon DEF BoundOutlastsRetries
<1> QED
  BY <1>1, <1>2, <1>3, <1>4, <1>5, <1>6, <1>7, <1>8, AllowanceGrows, ZenonT(40)

(* Only a purge takes a payload, and it takes it past the window.          *)
LEMMA OnlyPurgeTakes ==
    ASSUME Inv, Next, NEW e \in Events, row[e].payload = "full", row'[e].payload # "full"
    PROVE  PastWindow(row[e])
<1>1. row \in [Events -> Rows] /\ row[e] \in Rows
  BY Zenon DEF Inv, TypeOK
<1>2. row'[e] # row[e]
  BY Zenon
<1>3. row'[e] # Claimed(row[e])
  BY <1>1, ClaimedIs
<1>4. \A v : row'[e] # SettleRow(row[e], v)
  BY <1>1, SettledIs
<1>5. ASSUME NEW d \in Events, NEW k \in Kinds, TryClaimEvent(d, k) PROVE FALSE
  <2>1. row'[e] = IF e = d THEN ClaimRow(row[e], k) ELSE row[e]
    BY <1>1, <1>5, Zenon DEF TryClaimEvent
  <2>2. row'[e] = Received(k)
    BY <1>2, <1>3, <2>1, Zenon DEF ClaimRow
  <2> QED
    BY <2>2 DEF Received
<1>6. ASSUME NEW w \in Workers, DispatchAndSettle(w) PROVE FALSE
  <2>1. \E v : row' = [row EXCEPT ![hand[w].event] = SettleRow(row[hand[w].event], v)]
    BY <1>6, Zenon DEF DispatchAndSettle
  <2> QED
    BY <1>1, <1>2, <1>4, <2>1, Zenon
<1>7. ASSUME ReclaimAbandonedEvents PROVE FALSE
  BY <1>1, <1>2, <1>4, <1>7, Zenon DEF ReclaimAbandonedEvents
<1>8. ASSUME NEW d \in Events, ClaimEventForRetry(d) PROVE FALSE
  BY <1>1, <1>2, <1>3, <1>8, Zenon DEF ClaimEventForRetry
<1>9. ASSUME Tick PROVE FALSE
  <2>1. PICK i, a : row'[e] = [row[e] EXCEPT !.idle = i, !.age = a]
    BY <1>2, <1>9, Zenon DEF Tick
  <2> QED
    BY <1>1, <2>1, Zenon DEF Rows
<1>10. ASSUME ListRetryableEvents \/ EndSweep \/ \E w \in Workers : Crash(w) PROVE FALSE
  BY <1>2, <1>10, Zenon DEF ListRetryableEvents, EndSweep, Crash
<1>11. ASSUME PurgePayloads PROVE PastWindow(row[e])
  <2>1. row'[e] = row[e] \/ e \in DueNow
    BY <1>11, Zenon DEF PurgePayloads, Batches
  <2> QED
    BY <1>2, <2>1, Zenon DEF DueNow
<1> QED
  BY <1>5, <1>6, <1>7, <1>8, <1>9, <1>10, <1>11, ZenonT(40)
     DEF Next, HandlerStep, SweepStep, Workers

-----------------------------------------------------------------------------
(* The theorems. *)

(* Inv holds in every reachable state.                                     *)
THEOREM Invariance == Spec => []Inv
<1>1. Inv /\ [Next]_vars => Inv'
  BY NextInv, Zenon
<1> QED
  BY <1>1, InitInv, PTL DEF Spec

(* A payload that PurgePayloads has reduced to its skeleton is never       *)
(* stored in full again: no redelivery, retry or settling writes it back.  *)
THEOREM ForGood == Spec => MinimisedForGood
<1>1. Inv /\ [Next]_vars =>
        [\A e \in Events : row[e].payload = "skeleton" => row'[e].payload = "skeleton"]_vars
  BY NextInv, Zenon DEF Forward
<1> QED
  BY <1>1, Invariance, PTL DEF Spec, MinimisedForGood

(* What is left of SettledFromFullPayload without an assumption on timing. *)
SettledUnseenIsOld ==
    \A e \in Events : Settled(e) /\ e \notin considered
        => /\ row[e].status = "skipped" /\ row[e].payload = "skeleton"
           /\ row[e].age > UnsettledAfter

(* An event settled without having been dispatched from its full payload   *)
(* was recorded as skipped, after a purge past the outer bound took the    *)
(* payload.  This needs no assumption on timing.                           *)
THEOREM UnseenIsOld == Spec => [](TypeOK /\ SettledUnseenIsOld)
<1>1. Inv => TypeOK /\ SettledUnseenIsOld
  BY Zenon DEF Inv, RowInv, SettledUnseenIsOld
<1> QED
  BY <1>1, Invariance, PTL

(* If purges wait for the retry budget there is no such event: every       *)
(* settled event was dispatched from its full payload.                     *)
THEOREM WaitingKeepsPayloads ==
    Spec /\ PurgeWaitsForBudget => []SettledFromFullPayload
<1>1. Inv /\ Inv' /\ BudgetInv /\ [Next]_vars /\ [Waits]_vars => BudgetInv'
  BY NextBudget, Zenon
<1>2. Inv /\ BudgetInv => SettledFromFullPayload
  BY Zenon DEF Inv, BudgetInv, Settled, SettledFromFullPayload
<1>3. PurgeWaitsForBudget => [][Waits]_vars
  BY PTL DEF PurgeWaitsForBudget, Waits
<1> QED
  BY <1>1, <1>2, <1>3, InitBudget, Invariance, PTL DEF Spec

(* If a sweep has room for every event, and the outer bound for every      *)
(* attempt and fault, then PurgePayloads takes the payload of a failed     *)
(* event only after the sweeper has spent its attempts, through any crash, *)
(* failed call and reclaim.                                                *)
THEOREM PurgeWaits ==
    ASSUME BoundOutlastsRetries
    PROVE  Spec => PurgeWaitsForBudget
<1>1. Inv /\ Inv' /\ ClockInv /\ [Next]_vars => ClockInv'
  BY NextClock, Zenon
<1>2. Inv /\ ClockInv /\ [Next]_vars => [Waits]_vars
  <2> SUFFICES ASSUME Inv, ClockInv, Next, NEW e \in Events,
                      row[e].status = "failed", row[e].payload = "full",
                      row'[e].payload # "full"
               PROVE  row[e].attempts >= MaxAttempts
    BY Zenon DEF Waits
  <2>1. row[e].age > UnsettledAfter
    BY OnlyPurgeTakes, Zenon DEF PastWindow, Window
  <2>2. row[e].age \in Nat /\ row[e].attempts \in Nat
        /\ UnsettledAfter \in Nat /\ MaxAttempts \in Nat
    <3>1. row[e] \in Rows
      BY Zenon DEF Inv, TypeOK
    <3> QED
      BY <3>1, RowFields, Constants, Times
  <2>3. ~Trying(e)
    BY <2>1, <2>2, TryingIsYoung
  <2> QED
    BY <2>2, <2>3 DEF Trying
<1>3. [][Waits]_vars => PurgeWaitsForBudget
  BY PTL DEF PurgeWaitsForBudget, Waits
<1> QED
  BY <1>1, <1>2, <1>3, InitClock, Invariance, PTL DEF Spec

(* Then every settled event was dispatched from its full payload, through  *)
(* any crash, failed call, reclaim and redelivery: no checkout or invoice  *)
(* is skipped because its payload was gone.                                *)
THEOREM SettledSeen ==
    ASSUME BoundOutlastsRetries
    PROVE  Spec => []SettledFromFullPayload
BY PurgeWaits, WaitingKeepsPayloads, PTL

=============================================================================
