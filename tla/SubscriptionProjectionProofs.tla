-------------------- MODULE SubscriptionProjectionProofs --------------------
(***************************************************************************)
(* Proofs about SubscriptionProjection, for every set of events, every     *)
(* history Stripe can report and any number of workers handling it.        *)
(***************************************************************************)
EXTENDS SubscriptionProjection, Integers, WellFoundedInduction, TLAPS

StreamKinds == SubscriptionKinds \cup {"checkout"}

(* Where a transaction holds the row, on either stream.                    *)
StatusLocked == {"locked", "fallbackLocked"}
Locking == StatusLocked \cup {"invoiceLocked"}

(* A worker is only ever in the handler of its event's type, and handles   *)
(* nothing that has not happened.                                          *)
Control ==
    \A w \in Workers :
        /\ pc[w] # "idle" => cur[w] \in Events /\ cur[w] <= now
        /\ pc[w] \in {"update", "locked", "resolve"}
             => Kind(cur[w]) \in SubscriptionKinds
        /\ pc[w] \in {"link", "fetch"} => Kind(cur[w]) = "checkout"
        /\ pc[w] \in {"insert", "fallback", "fallbackLocked"}
             => Kind(cur[w]) \in StreamKinds
        /\ pc[w] \in {"invoice", "invoiceLocked"} => Kind(cur[w]) \in InvoiceKinds

TypeInv == TypeOK /\ Control

(* The cursor a transaction read is the one still on the row: the row lock *)
(* admits one transaction at a time, and the one write that takes no lock, *)
(* the INSERT, finds no row to lock.                                       *)
LockInv ==
    \A w \in Workers :
        /\ pc[w] \in Locking => lock = w /\ row.exists
        /\ pc[w] \in StatusLocked => seen[w] = row.at
        /\ pc[w] = "invoiceLocked" => seen[w] = row.invoiceAt

(* The status at Stripe after the events of history h up to number m.      *)
StatusAfter(h, m) ==
    LET past == {e \in Events : e <= m /\ h[e].kind \in SubscriptionKinds}
    IN  IF past = {} THEN "incomplete"
        ELSE LET last == CHOOSE e \in past : \A d \in past : d <= e
             IN  IF h[last].kind = "deleted" THEN "canceled" ELSE h[last].status

(* The status s is one that event e can put on the row: what its object    *)
(* says, or, for a checkout, what Stripe said at some moment since.        *)
Reports(e, s) ==
    /\ Kind(e) = "updated" => s = ev[e].status
    /\ Kind(e) = "deleted" => s \in {"canceled", ev[e].status}
    /\ Kind(e) = "checkout" =>
          \E m \in Events \cup {0} : e <= m /\ m <= now /\ s = StatusAfter(ev, m)

(* What the workers are about to write and what the row shows came from    *)
(* the event it is attributed to; the row shows the newest event written.  *)
CarriedInv ==
    \A w \in Workers :
        pc[w] \in {"update", "locked", "insert", "fallback", "fallbackLocked"}
          => Reports(cur[w], sets[w])

RowInv ==
    /\ ~row.exists => row = NoRow /\ written = {}
    /\ written \subseteq Stream
    /\ row.exists =>
          /\ row.id \in written /\ row.at = Created(row.id)
          /\ \A e \in written : Created(e) <= row.at
          /\ Reports(row.id, row.status)

(* What has been answered for an event.                                    *)
AnswerInv ==
    /\ AcknowledgedIsOnRow
    /\ StaleOnlyIfSuperseded
    /\ \A e \in Events : handled[e] # {} => e <= now

Inv == TypeInv /\ LockInv /\ CarriedInv /\ RowInv /\ AnswerInv /\ DunningFollowsInvoices

-----------------------------------------------------------------------------
(* Types and control.                                                      *)

(* An event is a record of Stripe's: its kind, a positive creation time    *)
(* and a status.                                                           *)
LEMMA EventType ==
    ASSUME TypeOK, NEW e \in Events
    PROVE  /\ Kind(e) \in Kinds
           /\ Created(e) \in Nat \ {0}
           /\ ev[e].status \in Statuses
           /\ StatusOf(e) \in Statuses
<1>1. ev \in [Events -> EventRecord]
  BY ProjectionAssumption, Zenon DEF TypeOK
<1>2. ev[e] \in EventRecord
  BY <1>1, Zenon
<1> QED
  BY <1>2, Zenon DEF EventRecord, Kind, Created, StatusOf, Statuses

(* A set of natural numbers below a bound has a greatest element, by the   *)
(* well-foundedness of < on its upper bounds.                              *)
LEMMA GreatestNumber ==
    ASSUME NEW S, S \subseteq Nat, S # {}, NEW b \in Nat, \A n \in S : n <= b
    PROVE  \E n \in S : \A m \in S : m <= n
<1> DEFINE Less == {p \in Nat \X Nat : p[1] < p[2]}
           Bounds == {c \in Nat : \A n \in S : n <= c}
<1>1. IsWellFoundedOn(Less, Nat)
  BY NatLessThanWellFounded, Zenon DEF OpToRel
<1>2. PICK c \in Bounds : \A d \in Bounds : <<d, c>> \notin Less
  <2>1. Bounds \subseteq Nat /\ Bounds # {}
    BY Zenon
  <2> HIDE DEF Less, Bounds
  <2> QED
    BY <1>1, <2>1, WFMin, Zenon
<1>3. \A d \in Bounds : ~(d < c)
  BY <1>2, Zenon
<1>4. c \in S
  <2> SUFFICES ASSUME c \notin S PROVE FALSE
    BY Zenon
  <2>1. PICK n \in S : TRUE
    BY Zenon
  <2>2. c - 1 \in Bounds
    BY <2>1
  <2> QED
    BY <1>3, <2>2
<1> QED
  BY <1>4, Zenon

(* Stripe's own status is one of the statuses.                             *)
LEMMA StripeStatusType == ASSUME TypeOK PROVE StripeStatus \in Statuses
<1> DEFINE past == {e \in Events : e <= now /\ Kind(e) \in SubscriptionKinds}
           last == CHOOSE e \in past : \A d \in past : d <= e
<1>1. CASE past = {}
  BY <1>1, Zenon DEF StripeStatus, Statuses
<1>2. CASE past # {}
  <2>1. past \subseteq Nat /\ now \in Nat
    <3>1. past \subseteq Events
      BY Zenon
    <3> HIDE DEF past
    <3> QED
      BY <3>1, ProjectionAssumption DEF TypeOK
  <2>2. \E e \in past : \A d \in past : d <= e
    BY <1>2, <2>1, GreatestNumber, Zenon
  <2>3. last \in past
    BY <2>2, Zenon
  <2>4. last \in Events
    BY <2>3, Zenon
  <2>5. StripeStatus = IF Kind(last) = "deleted" THEN "canceled" ELSE ev[last].status
    BY <1>2, Zenon DEF StripeStatus
  <2> QED
    BY <2>4, <2>5, EventType, Zenon DEF Statuses
<1> QED
  BY <1>1, <1>2, Zenon

(* The projection starts without a row and with every worker idle.         *)
LEMMA InitType == Init => TypeInv
BY ProjectionAssumption
   DEF Init, TypeInv, TypeOK, Control, NoRow, Rows, Statuses, PCs, Results

(* A dispatch that returns leaves its worker idle, whatever it answers.    *)
LEMMA ReturnType ==
    ASSUME TypeInv, NEW w \in Workers, NEW result, Return(w, result), UNCHANGED <<ev, now>>
    PROVE  /\ pc' \in [Workers -> PCs]
           /\ cur' \in [Workers -> Events \cup {0}]
           /\ seen' \in [Workers -> Nat]
           /\ sets' \in [Workers -> Statuses]
           /\ handled' \in [Events -> SUBSET Results]
           /\ Control'
<1>1. /\ pc' \in [Workers -> PCs]
      /\ cur' \in [Workers -> Events \cup {0}]
      /\ seen' \in [Workers -> Nat]
      /\ sets' \in [Workers -> Statuses]
  BY Zenon DEF Return, Goes, TypeInv, TypeOK, PCs, Statuses
<1>2. handled' \in [Events -> SUBSET Results]
  BY Zenon DEF Return, TypeInv, TypeOK
<1>3. Control'
  BY Zenon DEF Return, Goes, TypeInv, TypeOK, Control, Kind
<1> QED
  BY <1>1, <1>2, <1>3, Zenon

(* Injected faults stay within their bound.                                *)
LEMMA FaultType == ASSUME TypeOK, Fault PROVE faults' \in 0 .. MaxFaults
BY ProjectionAssumption DEF TypeOK, Fault

(* A commit returns, with its reply or without.                            *)
LEMMA CommitReturns ==
    ASSUME TypeOK, NEW w, NEW result, Commit(w, result)
    PROVE  /\ \E answer \in SUBSET {result} : Return(w, answer)
           /\ faults' \in 0 .. MaxFaults
<1>1. CASE Return(w, {result}) /\ UNCHANGED faults
  BY <1>1, Zenon DEF TypeOK
<1>2. CASE Return(w, {}) /\ Fault
  BY <1>2, FaultType, Zenon
<1> QED
  BY <1>1, <1>2, Zenon DEF Commit

(* Every step of a handler keeps the types and the control facts.          *)
LEMMA StepType == TypeInv /\ [Next]_vars => TypeInv'
<1> SUFFICES ASSUME TypeInv, [Next]_vars PROVE TypeInv'
  BY Zenon
<1> USE ProjectionAssumption DEF TypeInv
<1>1. CASE Occur
  <2>1. TypeOK'
    BY <1>1, Zenon DEF Occur, local, TypeOK
  <2>2. /\ now \in Nat /\ Events \subseteq Nat /\ now' = now + 1
        /\ UNCHANGED <<ev, pc, cur>>
    BY <1>1 DEF Occur, local, TypeOK
  <2>3. Control'
    <3>1. \A e \in Events : e <= now => e <= now'
      BY ONLY <2>2
    <3> QED
      BY <2>2, <3>1, Zenon DEF Control, Kind
  <2> QED
    BY <2>1, <2>3, Zenon
<1>2. ASSUME NEW w \in Workers, NEW e \in Events, Dispatch(w, e)
      PROVE  TypeInv'
  <2>1. Kind(e) \in Kinds /\ StatusOf(e) \in Statuses
    BY EventType, Zenon
  <2> HIDE ProjectionAssumption
  <2>2. TypeOK'
    BY <1>2, <2>1, ProjectionAssumption DEF Dispatch, Goes, TypeOK, PCs
  <2>3. Control'
    BY <1>2, <2>1 DEF Dispatch, Goes, TypeOK, Control, Kind, Kinds, InvoiceKinds, SubscriptionKinds
  <2> QED
    BY <2>2, <2>3, Zenon
<1>3. ASSUME NEW w \in Workers, LockForStatus(w)
      PROVE  TypeInv'
  BY <1>3 DEF LockForStatus, Goes, TypeOK, Control, Kind, Rows, PCs, StreamKinds
<1>4. ASSUME NEW w \in Workers, RejectStale(w)
      PROVE  TypeInv'
  BY <1>4, ReturnType, Zenon DEF RejectStale, TypeOK
<1>5. ASSUME NEW w \in Workers, CommitStatus(w)
      PROVE  TypeInv'
  <2>1. cur[w] \in Events /\ Created(cur[w]) \in Nat
    BY <1>5, EventType, Zenon DEF CommitStatus, Control
  <2>2. row' \in Rows /\ written' \subseteq Events
    BY <1>5, <2>1, Zenon DEF CommitStatus, TypeOK, Rows
  <2> QED
    BY <1>5, <2>2, ReturnType, CommitReturns DEF CommitStatus, TypeOK
<1>6. ASSUME NEW w \in Workers, ResolveOwner(w)
      PROVE  TypeInv'
  <2>1. cur[w] \in Events /\ ObjectStatus(cur[w]) \in Statuses
    BY <1>6, EventType, Zenon DEF ResolveOwner, Control, ObjectStatus
  <2>2. CASE cur[w] \in Named \/ linked
    BY <1>6, <2>1, <2>2 DEF ResolveOwner, Goes, TypeOK, Control, Kind, PCs, StreamKinds
  <2>3. CASE ~(cur[w] \in Named \/ linked)
    BY <1>6, <2>3, ReturnType, Zenon DEF ResolveOwner, TypeOK
  <2> QED
    BY <2>2, <2>3, Zenon
<1>7. ASSUME NEW w \in Workers, LinkCustomer(w)
      PROVE  TypeInv'
  <2>1. CASE cur[w] \in Named \/ linked
    <3>1. linked' \in BOOLEAN
      BY <1>7, <2>1, Zenon DEF LinkCustomer, TypeOK
    <3>2. /\ pc' = [pc EXCEPT ![w] = "fetch"]
          /\ UNCHANGED <<ev, now, row, lock, cur, seen, sets, runs, handled, written, faults>>
      BY <1>7, <2>1, Zenon DEF LinkCustomer, local, Goes
    <3>3. TypeOK'
      BY <3>1, <3>2, Zenon DEF TypeOK, PCs
    <3>4. Control'
      BY <1>7, <3>2 DEF LinkCustomer, TypeOK, Control, Kind
    <3> QED
      BY <3>3, <3>4, Zenon
  <2>2. CASE ~(cur[w] \in Named \/ linked)
    BY <1>7, <2>2, ReturnType, Zenon DEF LinkCustomer, TypeOK
  <2> QED
    BY <2>1, <2>2, Zenon
<1>8. ASSUME NEW w \in Workers, FetchSubscription(w)
      PROVE  TypeInv'
  BY <1>8, StripeStatusType, ZenonT(40)
     DEF FetchSubscription, Goes, TypeOK, Control, Kind, PCs, StreamKinds
<1>9. ASSUME NEW w \in Workers, CreateSubscription(w)
      PROVE  TypeInv'
  <2>1. CASE row.exists
    BY <1>9, <2>1 DEF CreateSubscription, local, Goes, TypeOK, Control, Kind, PCs
  <2>2. CASE ~row.exists
    <3>1. cur[w] \in Events /\ Created(cur[w]) \in Nat
      BY <1>9, EventType, Zenon DEF CreateSubscription, Control
    <3>2. row' \in Rows /\ written' \subseteq Events
      <4>1. row' = [exists |-> TRUE, status |-> sets[w], at |-> Created(cur[w]),
                    id |-> cur[w], invoiceAt |-> 0, invoiceId |-> 0, failedAt |-> 0,
                    failures |-> 0]
        BY <1>9, <2>2, ZenonT(40) DEF CreateSubscription, NoRow
      <4> QED
        BY <1>9, <2>2, <3>1, <4>1 DEF CreateSubscription, TypeOK, Rows
    <3> QED
      BY <1>9, <2>2, <3>2, ReturnType, CommitReturns DEF CreateSubscription, TypeOK
  <2> QED
    BY <2>1, <2>2, Zenon
<1>10. ASSUME NEW w \in Workers, LockForInvoice(w)
       PROVE  TypeInv'
  <2>1. CASE row.exists
    BY <1>10, <2>1
       DEF LockForInvoice, InvoiceCursor, Goes, TypeOK, Control, Kind, Rows, PCs
  <2>2. CASE ~row.exists
    BY <1>10, <2>2, ReturnType, Zenon DEF LockForInvoice, TypeOK
  <2> QED
    BY <2>1, <2>2, Zenon
<1>11. ASSUME NEW w \in Workers, RejectStaleInvoice(w)
       PROVE  TypeInv'
  BY <1>11, ReturnType, Zenon DEF RejectStaleInvoice, TypeOK
<1>12. ASSUME NEW w \in Workers, CommitInvoice(w)
       PROVE  TypeInv'
  <2>1. cur[w] \in Events /\ Created(cur[w]) \in Nat
    BY <1>12, EventType, Zenon DEF CommitInvoice, Control
  <2>2. row' \in Rows
    <3>1. Paid(row, cur[w]) \in Rows
      BY <2>1, Zenon DEF Paid, TypeOK, Rows
    <3>2. Declined(row, cur[w]) \in Rows
      <4>1. row \in Rows /\ row.failures + 1 \in Nat
        BY DEF TypeOK, Rows
      <4> QED
        BY <2>1, <4>1, Zenon DEF Declined, Rows
    <3> QED
      BY <1>12, <3>1, <3>2, Zenon DEF CommitInvoice
  <2> QED
    BY <1>12, <2>2, ReturnType, CommitReturns DEF CommitInvoice, TypeOK
<1>13. ASSUME NEW w \in Workers, Fail(w)
       PROVE  TypeInv'
  BY <1>13, ReturnType, FaultType, Zenon DEF Fail, TypeOK
<1>14. CASE UNCHANGED vars
  BY <1>14, Zenon DEF vars, TypeOK, Control, Kind
<1> QED
  BY <1>1, <1>2, <1>3, <1>4, <1>5, <1>6, <1>7, <1>8, <1>9, <1>10, <1>11, <1>12,
     <1>13, <1>14, Zenon DEF Next, Step

-----------------------------------------------------------------------------
(* The row lock.                                                           *)

(* A worker that returns has let go of the row, and the others keep what   *)
(* they hold if the row they locked did not change under them.             *)
LEMMA ReturnLocks ==
    ASSUME TypeInv, LockInv, NEW w \in Workers, NEW result, Return(w, result),
           \A v \in Workers \ {w} :
              pc[v] \in Locking => lock' = lock /\ row' = row
    PROVE  LockInv'
BY Zenon DEF TypeInv, TypeOK, LockInv, Return, Goes, Locking, StatusLocked

(* A transaction that holds the row is alone with it.                      *)
LEMMA LockIsExclusive ==
    ASSUME LockInv, NEW w \in Workers, pc[w] \in Locking, NEW v \in Workers \ {w}
    PROVE  pc[v] \notin Locking
BY Zenon DEF LockInv

(* Every step keeps the cursor a transaction has read current.             *)
LEMMA LockStep == TypeInv /\ LockInv /\ [Next]_vars => LockInv'
<1> SUFFICES ASSUME TypeInv, LockInv, [Next]_vars PROVE LockInv'
  BY Zenon
<1> USE DEF Locking, StatusLocked
<1>0. NoWorker \notin Workers
  BY ProjectionAssumption, Zenon
<1>1. CASE Occur
  BY <1>1, Zenon DEF Occur, local, LockInv
<1>2. ASSUME NEW w \in Workers, NEW e \in Events, Dispatch(w, e)
      PROVE  LockInv'
  <2>1. PICK label \in {"link", "update", "invoice"} : pc' = [pc EXCEPT ![w] = label]
    <3>1. CASE Kind(e) = "checkout"
      BY <1>2, <3>1, Zenon DEF Dispatch, Goes, SubscriptionKinds
    <3>2. CASE Kind(e) # "checkout" /\ Kind(e) \in SubscriptionKinds
      BY <1>2, <3>2, Zenon DEF Dispatch, Goes
    <3>3. CASE Kind(e) # "checkout" /\ Kind(e) \notin SubscriptionKinds
      BY <1>2, <3>3, Zenon DEF Dispatch, Goes
    <3> QED
      BY <3>1, <3>2, <3>3, Zenon
  <2>2. UNCHANGED <<row, lock, seen>>
    BY <1>2, Zenon DEF Dispatch
  <2> QED
    BY <2>1, <2>2, Zenon DEF TypeInv, TypeOK, LockInv
<1>3. ASSUME NEW w \in Workers, LockForStatus(w)
      PROVE  LockInv'
  BY <1>0, <1>3 DEF LockForStatus, LockFree, Goes, TypeInv, TypeOK, LockInv
<1>4. ASSUME NEW w \in Workers, RejectStale(w)
      PROVE  LockInv'
  BY <1>4, ReturnLocks, LockIsExclusive, Zenon DEF RejectStale
<1>5. ASSUME NEW w \in Workers, CommitStatus(w)
      PROVE  LockInv'
  BY <1>5, ReturnLocks, CommitReturns, LockIsExclusive, Zenon DEF CommitStatus, TypeInv
<1>6. ASSUME NEW w \in Workers, ResolveOwner(w)
      PROVE  LockInv'
  <2>1. CASE cur[w] \in Named \/ linked
    BY <1>6, <2>1 DEF ResolveOwner, Goes, TypeInv, TypeOK, LockInv
  <2>2. CASE ~(cur[w] \in Named \/ linked)
    BY <1>6, <2>2, ReturnLocks, Zenon DEF ResolveOwner
  <2> QED
    BY <2>1, <2>2, Zenon
<1>7. ASSUME NEW w \in Workers, LinkCustomer(w)
      PROVE  LockInv'
  <2>1. CASE cur[w] \in Named \/ linked
    BY <1>7, <2>1, ZenonT(40) DEF LinkCustomer, local, Goes, TypeInv, TypeOK, LockInv
  <2>2. CASE ~(cur[w] \in Named \/ linked)
    BY <1>7, <2>2, ReturnLocks, ZenonT(40) DEF LinkCustomer
  <2> QED
    BY <2>1, <2>2, Zenon
<1>8. ASSUME NEW w \in Workers, FetchSubscription(w)
      PROVE  LockInv'
  BY <1>8, Zenon DEF FetchSubscription, Goes, TypeInv, TypeOK, LockInv
<1>9. ASSUME NEW w \in Workers, CreateSubscription(w)
      PROVE  LockInv'
  <2>1. CASE row.exists
    BY <1>9, <2>1, ZenonT(40) DEF CreateSubscription, local, Goes, TypeInv, TypeOK, LockInv
  <2>2. CASE ~row.exists
    <3>1. \A v \in Workers : pc[v] \notin Locking
      BY <2>2, Zenon DEF LockInv
    <3> QED
      BY <1>9, <2>2, <3>1, ReturnLocks, CommitReturns DEF CreateSubscription, TypeInv
  <2> QED
    BY <2>1, <2>2, Zenon
<1>10. ASSUME NEW w \in Workers, LockForInvoice(w)
       PROVE  LockInv'
  <2>1. CASE row.exists
    BY <1>0, <1>10, <2>1
       DEF LockForInvoice, LockFree, InvoiceCursor, Goes, TypeInv, TypeOK, LockInv
  <2>2. CASE ~row.exists
    BY <1>10, <2>2, ReturnLocks, Zenon DEF LockForInvoice
  <2> QED
    BY <2>1, <2>2, Zenon
<1>11. ASSUME NEW w \in Workers, RejectStaleInvoice(w)
       PROVE  LockInv'
  BY <1>11, ReturnLocks, LockIsExclusive, Zenon DEF RejectStaleInvoice
<1>12. ASSUME NEW w \in Workers, CommitInvoice(w)
       PROVE  LockInv'
  BY <1>12, ReturnLocks, CommitReturns, LockIsExclusive, Zenon DEF CommitInvoice, TypeInv
<1>13. ASSUME NEW w \in Workers, Fail(w)
       PROVE  LockInv'
  <2>1. \A v \in Workers \ {w} : pc[v] \in Locking => lock' = lock /\ row' = row
    BY <1>13, Zenon DEF Fail, LockInv
  <2> QED
    BY <1>13, <2>1, ReturnLocks, Zenon DEF Fail
<1>14. CASE UNCHANGED vars
  BY <1>14, Zenon DEF vars, LockInv
<1> QED
  BY <1>1, <1>2, <1>3, <1>4, <1>5, <1>6, <1>7, <1>8, <1>9, <1>10, <1>11, <1>12,
     <1>13, <1>14, Zenon DEF Next, Step

-----------------------------------------------------------------------------
(* What is written, and what the row shows.                                *)

(* A report stays one as time goes by.                                     *)
LEMMA ReportsLast ==
    ASSUME TypeOK, ev' = ev, now' \in {now, now + 1},
           NEW e \in Events, NEW s, Reports(e, s)
    PROVE  Reports(e, s)'
<1>1. now \in Nat /\ Events \subseteq Nat
  BY ProjectionAssumption DEF TypeOK
<1>2. \A m \in Events \cup {0} : m <= now => m <= now'
  BY <1>1
<1> QED
  BY <1>2, Zenon DEF Reports, Kind

(* The state Stripe returns is a report of any event that has happened.    *)
LEMMA FetchReports ==
    ASSUME TypeOK, NEW e \in Events, e <= now, Kind(e) = "checkout"
    PROVE  Reports(e, StripeStatus)
<1>1. StripeStatus = StatusAfter(ev, now)
  BY Zenon DEF StripeStatus, StatusAfter, Kind
<1>2. now \in Events \cup {0} /\ now <= now
  BY ProjectionAssumption DEF TypeOK
<1> QED
  BY <1>1, <1>2, Zenon DEF Reports

(* So is what the event's own object says, as statusUpdateFrom and         *)
(* createFromEvent read it.                                                *)
LEMMA ObjectReports ==
    ASSUME TypeOK, NEW e \in Events, Kind(e) \in SubscriptionKinds
    PROVE  Reports(e, StatusOf(e)) /\ Reports(e, ObjectStatus(e))
BY Zenon DEF Reports, StatusOf, ObjectStatus, SubscriptionKinds

Writing == {"update", "locked", "insert", "fallback", "fallbackLocked"}

(* A step of one worker keeps the others' reports.                         *)
LEMMA CarriedFrame ==
    ASSUME TypeInv, CarriedInv, NEW w \in Workers, ev' = ev, now' = now,
           \A v \in Workers \ {w} :
              pc'[v] = pc[v] /\ cur'[v] = cur[v] /\ sets'[v] = sets[v],
           pc'[w] \in Writing => Reports(cur'[w], sets'[w])
    PROVE  CarriedInv'
<1>1. SUFFICES ASSUME NEW v \in Workers, pc'[v] \in Writing
               PROVE  Reports(cur[v], sets[v])'
  BY Zenon DEF CarriedInv, Writing
<1>2. Reports(cur'[v], sets'[v])
  BY <1>1, Zenon DEF CarriedInv, TypeInv, TypeOK, Writing
<1> QED
  BY <1>2, Zenon DEF Reports, Kind

(* A worker that returns carries nothing.                                  *)
LEMMA ReturnCarries ==
    ASSUME TypeInv, CarriedInv, NEW w \in Workers, NEW result, Return(w, result),
           UNCHANGED <<ev, now>>
    PROVE  CarriedInv'
<1>1. /\ \A v \in Workers \ {w} :
           pc'[v] = pc[v] /\ cur'[v] = cur[v] /\ sets'[v] = sets[v]
      /\ pc'[w] \notin Writing
  BY Zenon DEF Return, Goes, TypeInv, TypeOK, Writing
<1> QED
  BY <1>1, CarriedFrame, Zenon

(* What a worker is about to write is what its event reports.              *)
LEMMA CarriedStep == TypeInv /\ CarriedInv /\ [Next]_vars => CarriedInv'
<1> SUFFICES ASSUME TypeInv, CarriedInv, [Next]_vars PROVE CarriedInv'
  BY Zenon
<1> USE DEF Writing
<1>1. CASE Occur
  <2> SUFFICES ASSUME NEW w \in Workers, pc[w] \in Writing
               PROVE  Reports(cur[w], sets[w])'
    BY <1>1, Zenon DEF CarriedInv, Occur, local
  <2>1. cur[w] \in Events
    BY Zenon DEF TypeInv, Control
  <2>2. Reports(cur[w], sets[w])
    BY Zenon DEF CarriedInv
  <2>3. ev' = ev /\ now' = now + 1 /\ UNCHANGED <<cur, sets>>
    BY <1>1, Zenon DEF Occur, local
  <2>4. \A e \in Events : \A t : Reports(e, t) => Reports(e, t)'
    BY <2>3, ReportsLast, Zenon DEF TypeInv
  <2>5. PICK e \in Events, t \in Statuses : e = cur[w] /\ t = sets[w]
    BY <2>1, Zenon DEF TypeInv, TypeOK
  <2>6. Reports(e, t)'
    BY <2>2, <2>4, <2>5, Zenon
  <2> QED
    BY <2>3, <2>5, <2>6, Zenon DEF Reports, Kind
<1>2. ASSUME NEW w \in Workers, NEW e \in Events, Dispatch(w, e)
      PROVE  CarriedInv'
  <2>1. /\ ev' = ev /\ now' = now
        /\ \A v \in Workers \ {w} :
              pc'[v] = pc[v] /\ cur'[v] = cur[v] /\ sets'[v] = sets[v]
        /\ cur'[w] = e /\ sets'[w] = StatusOf(e)
    BY <1>2, Zenon DEF Dispatch, Goes, TypeInv, TypeOK
  <2>2. CASE Kind(e) \in SubscriptionKinds
    BY <2>1, <2>2, CarriedFrame, ObjectReports, Zenon DEF TypeInv
  <2>3. CASE Kind(e) \notin SubscriptionKinds
    <3>1. pc'[w] \in {"link", "invoice"}
      <4>1. CASE Kind(e) = "checkout"
        BY <1>2, <2>3, <4>1, Zenon DEF Dispatch, Goes, TypeInv, TypeOK
      <4>2. CASE Kind(e) # "checkout"
        BY <1>2, <2>3, <4>2, Zenon DEF Dispatch, Goes, TypeInv, TypeOK
      <4> QED
        BY <4>1, <4>2, Zenon
    <3> QED
      BY <2>1, <3>1, CarriedFrame, Zenon
  <2> QED
    BY <2>2, <2>3, Zenon
<1>3. ASSUME NEW w \in Workers, LockForStatus(w)
      PROVE  CarriedInv'
  <2>1. /\ ev' = ev /\ now' = now /\ UNCHANGED <<cur, sets>>
        /\ \A v \in Workers \ {w} : pc'[v] = pc[v]
        /\ pc'[w] \in Writing => pc[w] \in Writing
    BY <1>3, Zenon DEF LockForStatus, Goes, TypeInv, TypeOK
  <2>2. pc'[w] \in Writing => Reports(cur'[w], sets'[w])
    BY <2>1, Zenon DEF CarriedInv
  <2> QED
    BY <2>1, <2>2, CarriedFrame, Zenon
<1>4. ASSUME NEW w \in Workers, RejectStale(w)
      PROVE  CarriedInv'
  BY <1>4, ReturnCarries, Zenon DEF RejectStale
<1>5. ASSUME NEW w \in Workers, CommitStatus(w)
      PROVE  CarriedInv'
  BY <1>5, ReturnCarries, CommitReturns, Zenon DEF CommitStatus, TypeInv
<1>6. ASSUME NEW w \in Workers, ResolveOwner(w)
      PROVE  CarriedInv'
  <2>1. CASE cur[w] \in Named \/ linked
    <3>1. /\ ev' = ev /\ now' = now /\ UNCHANGED cur
          /\ \A v \in Workers \ {w} : pc'[v] = pc[v] /\ sets'[v] = sets[v]
          /\ sets'[w] = ObjectStatus(cur[w])
      BY <1>6, <2>1, Zenon DEF ResolveOwner, Goes, TypeInv, TypeOK
    <3>2. Reports(cur[w], ObjectStatus(cur[w]))
      BY <1>6, ObjectReports, Zenon DEF ResolveOwner, TypeInv, Control
    <3> QED
      BY <3>1, <3>2, CarriedFrame, Zenon
  <2>2. CASE ~(cur[w] \in Named \/ linked)
    BY <1>6, <2>2, ReturnCarries, Zenon DEF ResolveOwner
  <2> QED
    BY <2>1, <2>2, Zenon
<1>7. ASSUME NEW w \in Workers, LinkCustomer(w)
      PROVE  CarriedInv'
  <2>1. CASE cur[w] \in Named \/ linked
    <3>1. /\ ev' = ev /\ now' = now /\ UNCHANGED <<cur, sets>>
          /\ \A v \in Workers \ {w} : pc'[v] = pc[v]
          /\ pc'[w] \notin Writing
      BY <1>7, <2>1, Zenon DEF LinkCustomer, local, Goes, TypeInv, TypeOK
    <3> QED
      BY <3>1, CarriedFrame, Zenon
  <2>2. CASE ~(cur[w] \in Named \/ linked)
    BY <1>7, <2>2, ReturnCarries, Zenon DEF LinkCustomer
  <2> QED
    BY <2>1, <2>2, Zenon
<1>8. ASSUME NEW w \in Workers, FetchSubscription(w)
      PROVE  CarriedInv'
  <2>1. /\ ev' = ev /\ now' = now /\ UNCHANGED cur
        /\ \A v \in Workers \ {w} : pc'[v] = pc[v] /\ sets'[v] = sets[v]
        /\ sets'[w] = StripeStatus
    BY <1>8, Zenon DEF FetchSubscription, Goes, TypeInv, TypeOK
  <2>2. Reports(cur[w], StripeStatus)
    BY <1>8, FetchReports, Zenon DEF FetchSubscription, TypeInv, Control
  <2> QED
    BY <2>1, <2>2, CarriedFrame, Zenon
<1>9. ASSUME NEW w \in Workers, CreateSubscription(w)
      PROVE  CarriedInv'
  <2>1. CASE row.exists
    <3>1. /\ ev' = ev /\ now' = now /\ UNCHANGED <<cur, sets>>
          /\ \A v \in Workers \ {w} : pc'[v] = pc[v]
      BY <1>9, <2>1, Zenon DEF CreateSubscription, local, Goes, TypeInv, TypeOK
    <3>2. Reports(cur'[w], sets'[w])
      BY <1>9, <3>1, Zenon DEF CreateSubscription, CarriedInv
    <3> QED
      BY <3>1, <3>2, CarriedFrame, Zenon
  <2>2. CASE ~row.exists
    BY <1>9, <2>2, ReturnCarries, CommitReturns, Zenon DEF CreateSubscription, TypeInv
  <2> QED
    BY <2>1, <2>2, Zenon
<1>10. ASSUME NEW w \in Workers, LockForInvoice(w)
       PROVE  CarriedInv'
  <2>1. CASE row.exists
    <3>1. /\ ev' = ev /\ now' = now /\ UNCHANGED <<cur, sets>>
          /\ \A v \in Workers \ {w} : pc'[v] = pc[v]
          /\ pc'[w] \notin Writing
      BY <1>10, <2>1, Zenon DEF LockForInvoice, Goes, TypeInv, TypeOK
    <3> QED
      BY <3>1, CarriedFrame, Zenon
  <2>2. CASE ~row.exists
    BY <1>10, <2>2, ReturnCarries, Zenon DEF LockForInvoice
  <2> QED
    BY <2>1, <2>2, Zenon
<1>11. ASSUME NEW w \in Workers, RejectStaleInvoice(w)
       PROVE  CarriedInv'
  BY <1>11, ReturnCarries, Zenon DEF RejectStaleInvoice
<1>12. ASSUME NEW w \in Workers, CommitInvoice(w)
       PROVE  CarriedInv'
  BY <1>12, ReturnCarries, CommitReturns, Zenon DEF CommitInvoice, TypeInv
<1>13. ASSUME NEW w \in Workers, Fail(w)
       PROVE  CarriedInv'
  BY <1>13, ReturnCarries, Zenon DEF Fail
<1>14. CASE UNCHANGED vars
  BY <1>14, Zenon DEF vars, CarriedInv, Reports, Kind
<1> QED
  BY <1>1, <1>2, <1>3, <1>4, <1>5, <1>6, <1>7, <1>8, <1>9, <1>10, <1>11, <1>12,
     <1>13, <1>14, Zenon DEF Next, Step

(* Steps that touch neither the status nor its cursor.                     *)
LEMMA RowFrame ==
    ASSUME TypeOK, RowInv, ev' = ev, now' \in {now, now + 1}, written' = written,
           \/ row' = row
           \/ /\ row.exists /\ row'.exists = row.exists /\ row'.status = row.status
              /\ row'.at = row.at /\ row'.id = row.id
    PROVE  RowInv'
<1>1. row.exists => row.id \in Events
  BY Zenon DEF RowInv, Stream
<1>2. row.exists => Reports(row.id, row.status)
  BY Zenon DEF RowInv
<1>3. \A e \in Events : \A t : Reports(e, t) => Reports(e, t)'
  BY ReportsLast, Zenon
<1>4. row.exists => Reports(row.id, row.status)'
  <2> HAVE row.exists
  <2>1. row'.id = row.id /\ row'.status = row.status
    BY Zenon
  <2>2. PICK e \in Events, t \in Statuses : e = row.id /\ t = row.status
    BY <1>1, Zenon DEF TypeOK, Rows
  <2>3. Reports(e, t)'
    BY <1>2, <1>3, <2>2, Zenon
  <2> QED
    BY <2>1, <2>2, <2>3, Zenon DEF Reports, Kind
<1> QED
  BY <1>4, Zenon DEF RowInv, Stream, Kind, Created

(* A write of the status stream puts its event on the row: it is not older *)
(* than the one there, and so than any written before.                     *)
LEMMA RowWritten ==
    ASSUME TypeOK, RowInv, NEW e \in Events, NEW s, Kind(e) \in StreamKinds, Reports(e, s),
           row.exists => row.at <= Created(e), UNCHANGED <<ev, now>>,
           written' = written \cup {e}, row'.exists,
           row'.status = s, row'.at = Created(e), row'.id = e
    PROVE  RowInv'
<1>1. Reports(e, s)'
  BY ReportsLast, Zenon
<1>2. Reports(row.id, row.status)'
  BY <1>1, Zenon DEF Reports, Kind
<1>3. written' \subseteq Stream'
  BY Zenon DEF RowInv, Stream, Kind, StreamKinds
<1>4. \A d \in written : Created(d) <= Created(e)
  <2> TAKE d \in written
  <2>1. row.exists /\ Created(d) <= row.at /\ row.at <= Created(e)
    BY Zenon DEF RowInv
  <2>2. Created(d) \in Nat /\ row.at \in Nat /\ Created(e) \in Nat
    BY EventType, Zenon DEF TypeOK, Rows
  <2> QED
    BY <2>1, <2>2
<1>5. \A d \in written' : Created(d)' <= row'.at
  BY <1>4, EventType DEF Created
<1> QED
  BY <1>2, <1>3, <1>5, Zenon DEF RowInv, Created

(* Every step keeps the newest event on the row.                           *)
LEMMA RowStep == TypeInv /\ LockInv /\ CarriedInv /\ RowInv /\ [Next]_vars => RowInv'
<1> SUFFICES ASSUME TypeInv, LockInv, CarriedInv, RowInv, [Next]_vars PROVE RowInv'
  BY Zenon
<1> USE DEF TypeInv
<1>1. CASE Occur
  BY <1>1, RowFrame, Zenon DEF Occur
<1>2. ASSUME NEW w \in Workers, NEW e \in Events, Dispatch(w, e)
      PROVE  RowInv'
  BY <1>2, RowFrame, Zenon DEF Dispatch
<1>3. ASSUME NEW w \in Workers, LockForStatus(w)
      PROVE  RowInv'
  BY <1>3, RowFrame, Zenon DEF LockForStatus
<1>4. ASSUME NEW w \in Workers, RejectStale(w)
      PROVE  RowInv'
  BY <1>4, RowFrame, Zenon DEF RejectStale
<1>5. ASSUME NEW w \in Workers, CommitStatus(w)
      PROVE  RowInv'
  <2>1. /\ cur[w] \in Events /\ Kind(cur[w]) \in StreamKinds
        /\ row.exists /\ seen[w] = row.at
        /\ Reports(cur[w], sets[w])
    BY <1>5, Zenon DEF CommitStatus, Control, LockInv, CarriedInv, Locking, StatusLocked, StreamKinds
  <2>2. row.at <= Created(cur[w])
    BY <1>5, <2>1, EventType DEF CommitStatus, Superseded, TypeOK, Rows
  <2>3. /\ row'.exists /\ row'.status = sets[w]
        /\ row'.at = Created(cur[w]) /\ row'.id = cur[w]
    BY <1>5, <2>1, Zenon DEF CommitStatus, TypeOK, Rows
  <2> QED
    BY <1>5, <2>1, <2>2, <2>3, RowWritten, Zenon DEF CommitStatus
<1>6. ASSUME NEW w \in Workers, ResolveOwner(w)
      PROVE  RowInv'
  BY <1>6, RowFrame, Zenon DEF ResolveOwner
<1>7. ASSUME NEW w \in Workers, LinkCustomer(w)
      PROVE  RowInv'
  BY <1>7, RowFrame, Zenon DEF LinkCustomer
<1>8. ASSUME NEW w \in Workers, FetchSubscription(w)
      PROVE  RowInv'
  BY <1>8, RowFrame, Zenon DEF FetchSubscription
<1>9. ASSUME NEW w \in Workers, CreateSubscription(w)
      PROVE  RowInv'
  <2>1. CASE row.exists
    BY <1>9, <2>1, RowFrame, Zenon DEF CreateSubscription
  <2>2. CASE ~row.exists
    <3>1. /\ cur[w] \in Events /\ Kind(cur[w]) \in StreamKinds
          /\ Reports(cur[w], sets[w])
      BY <1>9, Zenon DEF CreateSubscription, Control, CarriedInv
    <3>2. /\ row'.exists /\ row'.status = sets[w]
          /\ row'.at = Created(cur[w]) /\ row'.id = cur[w]
      BY <1>9, <2>2, Zenon DEF CreateSubscription, NoRow
    <3> QED
      BY <1>9, <2>2, <3>1, <3>2, RowWritten, Zenon DEF CreateSubscription
  <2> QED
    BY <2>1, <2>2, Zenon
<1>10. ASSUME NEW w \in Workers, LockForInvoice(w)
       PROVE  RowInv'
  BY <1>10, RowFrame, Zenon DEF LockForInvoice
<1>11. ASSUME NEW w \in Workers, RejectStaleInvoice(w)
       PROVE  RowInv'
  BY <1>11, RowFrame, Zenon DEF RejectStaleInvoice
<1>12. ASSUME NEW w \in Workers, CommitInvoice(w)
       PROVE  RowInv'
  <2>1. row.exists
    BY <1>12, Zenon DEF CommitInvoice, LockInv, Locking
  <2>2. /\ row'.exists = row.exists /\ row'.status = row.status
        /\ row'.at = row.at /\ row'.id = row.id
    BY <1>12, Zenon DEF CommitInvoice, Paid, Declined, TypeOK, Rows
  <2> QED
    BY <1>12, <2>1, <2>2, RowFrame, Zenon DEF CommitInvoice
<1>13. ASSUME NEW w \in Workers, Fail(w)
       PROVE  RowInv'
  BY <1>13, RowFrame, Zenon DEF Fail
<1>14. CASE UNCHANGED vars
  BY <1>14, RowFrame, Zenon DEF vars
<1> QED
  BY <1>1, <1>2, <1>3, <1>4, <1>5, <1>6, <1>7, <1>8, <1>9, <1>10, <1>11, <1>12,
     <1>13, <1>14, Zenon DEF Next, Step

-----------------------------------------------------------------------------
(* What is answered, and the dunning columns.                              *)

(* The row only moves forward.                                             *)
Advances ==
    /\ ev' = ev /\ now' = now /\ written \subseteq written'
    /\ row.exists => row'.exists /\ row.at <= row'.at

(* An answer is well founded if the row is at least as new as an event     *)
(* that is acknowledged, and newer than one that is stale.                 *)
LEMMA AnswerFrame ==
    ASSUME TypeInv, TypeOK', AnswerInv, Advances, NEW w \in Workers, cur[w] \in Events,
           cur[w] <= now, NEW answer, Return(w, answer),
           answer \cap {"processed", "stale"} # {} /\ Kind(cur[w]) \in StreamKinds
             => row'.exists /\ Created(cur[w]) <= row'.at,
           "stale" \in answer /\ Kind(cur[w]) \in SubscriptionKinds
             => \E d \in written' : Created(d) > Created(cur[w])
    PROVE  AnswerInv'
<1>1. /\ \A e \in Events \ {cur[w]} : handled'[e] = handled[e]
      /\ handled'[cur[w]] = handled[cur[w]] \cup (answer \cap Results)
  BY DEF Return, TypeInv, TypeOK
<1>2. \A e \in Events : Kind(e)' = Kind(e) /\ Created(e)' = Created(e)
  BY Zenon DEF Advances, Kind, Created
<1>3. AcknowledgedIsOnRow'
  <2> SUFFICES ASSUME NEW e \in Events, Kind(e) \in StreamKinds,
                      handled'[e] \cap {"processed", "stale"} # {}
               PROVE  row'.exists /\ Created(e) <= row'.at
    BY <1>2, Zenon DEF AcknowledgedIsOnRow, Stream, StreamKinds
  <2>1. CASE handled[e] \cap {"processed", "stale"} # {}
    <3>1. row.exists /\ Created(e) <= row.at
      BY <2>1, Zenon DEF AnswerInv, AcknowledgedIsOnRow, Stream, StreamKinds
    <3>2. Created(e) \in Nat /\ row.at \in Nat /\ row'.at \in Nat
      BY EventType, Zenon DEF TypeInv, TypeOK, Rows
    <3> QED
      BY <3>1, <3>2 DEF Advances
  <2>2. CASE handled[e] \cap {"processed", "stale"} = {}
    <3>1. e = cur[w] /\ answer \cap {"processed", "stale"} # {}
      BY <1>1, <2>2, Zenon
    <3> QED
      BY <3>1, Zenon
  <2> QED
    BY <2>1, <2>2, Zenon
<1>4. StaleOnlyIfSuperseded'
  <2> SUFFICES ASSUME NEW e \in Events, Kind(e) \in SubscriptionKinds, "stale" \in handled'[e]
               PROVE  \E d \in written' : Created(d)' > Created(e)'
    BY <1>2, Zenon DEF StaleOnlyIfSuperseded
  <2>1. CASE "stale" \in handled[e]
    BY <2>1, Zenon DEF AnswerInv, StaleOnlyIfSuperseded, Advances, Created
  <2>2. CASE "stale" \notin handled[e]
    <3>1. e = cur[w] /\ "stale" \in answer
      BY <1>1, <2>2, Zenon
    <3> QED
      BY <3>1, Zenon DEF Created, Advances
  <2> QED
    BY <2>1, <2>2, Zenon
<1>5. (\A e \in Events : handled[e] # {} => e <= now)'
  BY <1>1, Zenon DEF AnswerInv, Advances
<1> QED
  BY <1>3, <1>4, <1>5, Zenon DEF AnswerInv

(* Steps that answer nothing and leave the row.                            *)
LEMMA SilentFrame ==
    ASSUME TypeOK, AnswerInv, UNCHANGED <<ev, row, handled, written>>, now' \in {now, now + 1}
    PROVE  AnswerInv'
<1>1. \A e \in Events : e <= now => e <= now'
  BY ProjectionAssumption DEF TypeOK
<1> QED
  BY <1>1, Zenon DEF AnswerInv, AcknowledgedIsOnRow, StaleOnlyIfSuperseded, Stream, Kind, Created

(* Every answer is well founded.                                           *)
LEMMA AnswerStep ==
    TypeInv /\ TypeOK' /\ LockInv /\ RowInv /\ AnswerInv /\ [Next]_vars => AnswerInv'
<1> SUFFICES ASSUME TypeInv, TypeOK', LockInv, RowInv, AnswerInv, [Next]_vars
             PROVE  AnswerInv'
  BY Zenon
<1> USE DEF TypeInv, Advances
<1>0. /\ row.at \in Nat /\ row.at <= row.at
      /\ \A w \in Workers : pc[w] # "idle" =>
           /\ cur[w] \in Events /\ cur[w] <= now
           /\ Created(cur[w]) \in Nat /\ Created(cur[w]) <= Created(cur[w])
  BY EventType DEF TypeOK, Rows, Control
<1>1. CASE Occur
  BY <1>1, SilentFrame, Zenon DEF Occur
<1>2. ASSUME NEW w \in Workers, NEW e \in Events, Dispatch(w, e)
      PROVE  AnswerInv'
  BY <1>2, SilentFrame, Zenon DEF Dispatch
<1>3. ASSUME NEW w \in Workers, LockForStatus(w)
      PROVE  AnswerInv'
  BY <1>3, SilentFrame, Zenon DEF LockForStatus
<1>4. ASSUME NEW w \in Workers, RejectStale(w)
      PROVE  AnswerInv'
  <2>1. /\ row.exists /\ Created(cur[w]) < row.at
        /\ row.id \in written /\ row.at = Created(row.id)
    BY <1>4, Zenon DEF RejectStale, Superseded, LockInv, Locking, StatusLocked, RowInv
  <2>2. Created(cur[w]) <= row.at /\ Created(row.id) > Created(cur[w])
    BY <1>0, <1>4, <2>1 DEF RejectStale
  <2> QED
    BY <1>0, <1>4, <2>1, <2>2, AnswerFrame, Zenon DEF RejectStale
<1>5. ASSUME NEW w \in Workers, CommitStatus(w)
      PROVE  AnswerInv'
  <2>1. row.exists /\ row.at <= Created(cur[w])
    BY <1>0, <1>5 DEF CommitStatus, Superseded, LockInv, Locking, StatusLocked
  <2>2. row'.exists /\ row'.at = Created(cur[w])
    BY <1>5, <2>1, Zenon DEF CommitStatus, TypeOK, Rows
  <2>3. PICK answer \in SUBSET {"processed"} : Return(w, answer)
    BY <1>5, CommitReturns, Zenon DEF CommitStatus
  <2>4. Advances
    BY <1>5, <2>1, <2>2, Zenon DEF CommitStatus
  <2> QED
    BY <1>0, <1>5, <2>2, <2>3, <2>4, AnswerFrame, Zenon DEF CommitStatus
<1>6. ASSUME NEW w \in Workers, ResolveOwner(w)
      PROVE  AnswerInv'
  <2>1. CASE cur[w] \in Named \/ linked
    BY <1>6, <2>1, SilentFrame, Zenon DEF ResolveOwner
  <2>2. CASE ~(cur[w] \in Named \/ linked)
    BY <1>0, <1>6, <2>2, AnswerFrame, Zenon DEF ResolveOwner
  <2> QED
    BY <2>1, <2>2, Zenon
<1>7. ASSUME NEW w \in Workers, LinkCustomer(w)
      PROVE  AnswerInv'
  <2>1. CASE cur[w] \in Named \/ linked
    BY <1>7, <2>1, SilentFrame, Zenon DEF LinkCustomer
  <2>2. CASE ~(cur[w] \in Named \/ linked)
    BY <1>0, <1>7, <2>2, AnswerFrame, Zenon DEF LinkCustomer
  <2> QED
    BY <2>1, <2>2, Zenon
<1>8. ASSUME NEW w \in Workers, FetchSubscription(w)
      PROVE  AnswerInv'
  BY <1>8, SilentFrame, Zenon DEF FetchSubscription
<1>9. ASSUME NEW w \in Workers, CreateSubscription(w)
      PROVE  AnswerInv'
  <2>1. CASE row.exists
    BY <1>9, <2>1, SilentFrame, Zenon DEF CreateSubscription
  <2>2. CASE ~row.exists
    <3>1. row'.exists /\ row'.at = Created(cur[w])
      BY <1>9, <2>2, Zenon DEF CreateSubscription, NoRow
    <3>2. PICK answer \in SUBSET {"processed"} : Return(w, answer)
      BY <1>9, <2>2, CommitReturns, Zenon DEF CreateSubscription
    <3>3. Advances
      BY <1>9, <2>2, Zenon DEF CreateSubscription
    <3> QED
      BY <1>0, <1>9, <3>1, <3>2, <3>3, AnswerFrame, Zenon DEF CreateSubscription
  <2> QED
    BY <2>1, <2>2, Zenon
<1>10. ASSUME NEW w \in Workers, LockForInvoice(w)
       PROVE  AnswerInv'
  <2>1. CASE row.exists
    BY <1>10, <2>1, SilentFrame, Zenon DEF LockForInvoice
  <2>2. CASE ~row.exists
    BY <1>0, <1>10, <2>2, AnswerFrame, Zenon DEF LockForInvoice
  <2> QED
    BY <2>1, <2>2, Zenon
<1>11. ASSUME NEW w \in Workers, RejectStaleInvoice(w)
       PROVE  AnswerInv'
  <2>1. Kind(cur[w]) \notin StreamKinds
    BY <1>11, Zenon DEF RejectStaleInvoice, Control, InvoiceKinds, StreamKinds, SubscriptionKinds
  <2> QED
    BY <1>0, <1>11, <2>1, AnswerFrame, Zenon DEF RejectStaleInvoice, StreamKinds
<1>12. ASSUME NEW w \in Workers, CommitInvoice(w)
       PROVE  AnswerInv'
  <2>1. Kind(cur[w]) \notin StreamKinds
    BY <1>12, Zenon DEF CommitInvoice, Control, InvoiceKinds, StreamKinds, SubscriptionKinds
  <2>2. row'.exists = row.exists /\ row'.at = row.at
    BY <1>12, Zenon DEF CommitInvoice, Paid, Declined, TypeOK, Rows
  <2>3. PICK answer \in SUBSET {"processed"} : Return(w, answer)
    BY <1>12, CommitReturns, Zenon DEF CommitInvoice
  <2>4. Advances
    BY <1>0, <1>12, <2>2, Zenon DEF CommitInvoice
  <2> QED
    BY <1>0, <1>12, <2>1, <2>3, <2>4, AnswerFrame, Zenon DEF CommitInvoice, StreamKinds
<1>13. ASSUME NEW w \in Workers, Fail(w)
       PROVE  AnswerInv'
  BY <1>0, <1>13, AnswerFrame, Zenon DEF Fail
<1>14. CASE UNCHANGED vars
  BY <1>14, SilentFrame, Zenon DEF vars
<1> QED
  BY <1>1, <1>2, <1>3, <1>4, <1>5, <1>6, <1>7, <1>8, <1>9, <1>10, <1>11, <1>12,
     <1>13, <1>14, Zenon DEF Next, Step

(* Steps that leave the invoice columns, and acknowledge no invoice unless *)
(* the cursor is past it.                                                  *)
LEMMA DunningFrame ==
    ASSUME DunningFollowsInvoices, ev' = ev,
           /\ row'.invoiceAt = row.invoiceAt /\ row'.invoiceId = row.invoiceId
           /\ row'.failedAt = row.failedAt /\ row'.failures = row.failures,
           \A e \in Events :
              Kind(e) \in InvoiceKinds /\ handled'[e] \cap {"processed", "stale"} # {}
                => \/ handled[e] \cap {"processed", "stale"} # {}
                   \/ Created(e) <= row.invoiceAt
    PROVE  DunningFollowsInvoices'
<1>1. \A e : Kind(e)' = Kind(e) /\ Created(e)' = Created(e)
  BY Zenon DEF Kind, Created
<1>2. \A e \in Events :
         Kind(e) \in InvoiceKinds /\ handled'[e] \cap {"processed", "stale"} # {}
           => Created(e) <= row'.invoiceAt
  BY Zenon DEF DunningFollowsInvoices
<1> QED
  BY <1>1, <1>2, Zenon DEF DunningFollowsInvoices

(* What a return answers, it answers for the worker's event.               *)
LEMMA ReturnAnswers ==
    ASSUME TypeInv, NEW w \in Workers, pc[w] # "idle", NEW answer, Return(w, answer),
           NEW e \in Events, handled'[e] \cap {"processed", "stale"} # {}
    PROVE  \/ handled[e] \cap {"processed", "stale"} # {}
           \/ e = cur[w] /\ answer \cap {"processed", "stale"} # {}
<1>1. /\ e # cur[w] => handled'[e] = handled[e]
      /\ e = cur[w] => handled'[e] = handled[e] \cup (answer \cap Results)
  BY Zenon DEF Return, TypeInv, TypeOK
<1> QED
  BY <1>1, Zenon

(* RecordInvoicePayment is the one statement that moves the dunning flag,  *)
(* its counter and the invoice cursor, and it moves them together, to an   *)
(* event no older than the cursor: the one it read is still the row's.     *)
LEMMA DunningStep ==
    TypeInv /\ LockInv /\ RowInv /\ DunningFollowsInvoices /\ [Next]_vars
      => DunningFollowsInvoices'
<1> SUFFICES ASSUME TypeInv, LockInv, RowInv, DunningFollowsInvoices, [Next]_vars
             PROVE  DunningFollowsInvoices'
  BY Zenon
<1>1. ASSUME UNCHANGED <<ev, row, handled>>
      PROVE  DunningFollowsInvoices'
  BY <1>1, DunningFrame, Zenon
<1>2. ASSUME NEW w \in Workers, pc[w] # "idle", NEW answer, Return(w, answer), ev' = ev,
             \/ Kind(cur[w]) \notin InvoiceKinds
             \/ answer \cap {"processed", "stale"} = {}
             \/ Created(cur[w]) <= row.invoiceAt,
             /\ row'.invoiceAt = row.invoiceAt /\ row'.invoiceId = row.invoiceId
             /\ row'.failedAt = row.failedAt /\ row'.failures = row.failures
      PROVE  DunningFollowsInvoices'
  BY <1>2, ReturnAnswers, DunningFrame, Zenon
<1>3. ASSUME NEW w \in Workers, RejectStale(w)
      PROVE  DunningFollowsInvoices'
  <2>1. Kind(cur[w]) \notin InvoiceKinds
    BY <1>3, Zenon
    DEF RejectStale, TypeInv, Control, InvoiceKinds, StreamKinds, SubscriptionKinds
  <2> QED
    BY <1>2, <1>3, <2>1, Zenon DEF RejectStale
<1>4. ASSUME NEW w \in Workers, CommitStatus(w)
      PROVE  DunningFollowsInvoices'
  <2>1. Kind(cur[w]) \notin InvoiceKinds
    BY <1>4, Zenon
    DEF CommitStatus, TypeInv, Control, InvoiceKinds, StreamKinds, SubscriptionKinds
  <2>2. PICK answer \in SUBSET {"processed"} : Return(w, answer)
    BY <1>4, CommitReturns, Zenon DEF CommitStatus, TypeInv
  <2>3. /\ row'.invoiceAt = row.invoiceAt /\ row'.invoiceId = row.invoiceId
        /\ row'.failedAt = row.failedAt /\ row'.failures = row.failures
    BY <1>4, Zenon DEF CommitStatus, TypeInv, TypeOK, Rows
  <2> QED
    BY <1>2, <1>4, <2>1, <2>2, <2>3, Zenon DEF CommitStatus
<1>5. ASSUME NEW w \in Workers, CreateSubscription(w), ~row.exists
      PROVE  DunningFollowsInvoices'
  <2>1. Kind(cur[w]) \notin InvoiceKinds
    BY <1>5, Zenon
    DEF CreateSubscription, TypeInv, Control, InvoiceKinds, StreamKinds, SubscriptionKinds
  <2>2. PICK answer \in SUBSET {"processed"} : Return(w, answer)
    BY <1>5, CommitReturns, Zenon DEF CreateSubscription, TypeInv
  <2>3. /\ row'.invoiceAt = row.invoiceAt /\ row'.invoiceId = row.invoiceId
        /\ row'.failedAt = row.failedAt /\ row'.failures = row.failures
    BY <1>5, ZenonT(40) DEF CreateSubscription, RowInv, NoRow
  <2> QED
    BY <1>2, <1>5, <2>1, <2>2, <2>3, Zenon DEF CreateSubscription
<1>6. ASSUME NEW w \in Workers, RejectStaleInvoice(w)
      PROVE  DunningFollowsInvoices'
  <2>1. Created(cur[w]) < row.invoiceAt
    BY <1>6, Zenon DEF RejectStaleInvoice, Superseded, LockInv
  <2>2. Created(cur[w]) \in Nat /\ row.invoiceAt \in Nat
    BY <1>6, EventType, Zenon DEF RejectStaleInvoice, TypeInv, TypeOK, Control, Rows
  <2>3. Created(cur[w]) <= row.invoiceAt
    BY <2>1, <2>2
  <2> QED
    BY <1>2, <1>6, <2>3, Zenon DEF RejectStaleInvoice
<1>7. ASSUME NEW w \in Workers, CommitInvoice(w)
      PROVE  DunningFollowsInvoices'
  <2>1. /\ cur[w] \in Events /\ Kind(cur[w]) \in InvoiceKinds
        /\ Created(cur[w]) \in Nat \ {0} /\ row.failures \in Nat /\ ev' = ev
        /\ row.invoiceAt \in Nat /\ \A e \in Events : e # 0 /\ Created(e) \in Nat
    BY <1>7, EventType, ProjectionAssumption, Zenon
    DEF CommitInvoice, TypeInv, TypeOK, Control, Rows
  <2>2. row.invoiceAt <= Created(cur[w])
    <3>1. ~(Created(cur[w]) < row.invoiceAt)
      BY <1>7, Zenon DEF CommitInvoice, Superseded, LockInv
    <3> QED
      BY <2>1, <3>1
  <2>3. PICK answer \in SUBSET {"processed"} : Return(w, answer)
    BY <1>7, CommitReturns, Zenon DEF CommitInvoice, TypeInv
  <2>4. \A e \in Events :
           Kind(e) \in InvoiceKinds /\ handled'[e] \cap {"processed", "stale"} # {}
             => Created(e) <= Created(cur[w])
    <3> SUFFICES ASSUME NEW e \in Events, Kind(e) \in InvoiceKinds,
                        handled'[e] \cap {"processed", "stale"} # {}
                 PROVE  Created(e) <= Created(cur[w])
      BY Zenon
    <3>1. e = cur[w] \/ Created(e) <= row.invoiceAt
      BY <1>7, <2>3, ReturnAnswers, Zenon DEF CommitInvoice, DunningFollowsInvoices
    <3> QED
      BY <2>1, <2>2, <3>1
  <2>5. \A e : Kind(e)' = Kind(e) /\ Created(e)' = Created(e)
    BY <2>1, Zenon DEF Kind, Created
  <2>6. CASE Kind(cur[w]) = "payment_succeeded"
    <3>1. /\ row'.invoiceAt = Created(cur[w]) /\ row'.invoiceId = cur[w]
          /\ row'.failedAt = 0 /\ row'.failures = 0
      BY <1>7, <2>6, Zenon DEF CommitInvoice, Paid, TypeInv, TypeOK, Rows
    <3>2. cur[w] # 0 /\ ~(0 > 0)
      BY <2>1
    <3> QED
      BY <2>4, <2>5, <2>6, <3>1, <3>2, Zenon DEF DunningFollowsInvoices
  <2>7. CASE Kind(cur[w]) = "payment_failed"
    <3>1. /\ row'.invoiceAt = Created(cur[w]) /\ row'.invoiceId = cur[w]
          /\ row'.failedAt = Created(cur[w]) /\ row'.failures = row.failures + 1
      BY <1>7, <2>7, Zenon DEF CommitInvoice, Declined, TypeInv, TypeOK, Rows
    <3>2. cur[w] # 0 /\ row.failures + 1 > 0 /\ Created(cur[w]) # 0
      BY <2>1
    <3> QED
      BY <2>4, <2>5, <2>7, <3>1, <3>2, Zenon DEF DunningFollowsInvoices
  <2> QED
    BY <2>1, <2>6, <2>7, Zenon DEF InvoiceKinds
<1>8. ASSUME NEW w \in Workers, ResolveOwner(w) \/ LinkCustomer(w) \/ LockForInvoice(w) \/ Fail(w)
      PROVE  DunningFollowsInvoices'
  <2>1. ev' = ev /\ row' = row /\ pc[w] # "idle"
    BY <1>8, Zenon DEF ResolveOwner, LinkCustomer, LockForInvoice, Fail
  <2>2. \/ handled' = handled
        \/ Return(w, {"skipped"})
        \/ Return(w, {})
    BY <1>8, Zenon DEF ResolveOwner, LinkCustomer, LockForInvoice, Fail
  <2> QED
    BY <1>1, <1>2, <2>1, <2>2, Zenon
<1>9. ASSUME \/ Occur \/ UNCHANGED vars
             \/ \E w \in Workers :
                   \/ \E e \in Events : Dispatch(w, e)
                   \/ LockForStatus(w) \/ FetchSubscription(w)
                   \/ CreateSubscription(w) /\ row.exists
      PROVE  DunningFollowsInvoices'
  BY <1>1, <1>9, Zenon
  DEF Occur, vars, Dispatch, LockForStatus, FetchSubscription, CreateSubscription
<1> QED
  BY <1>3, <1>4, <1>5, <1>6, <1>7, <1>8, <1>9, Zenon DEF Next, Step

-----------------------------------------------------------------------------
(* Convergence.                                                            *)

(* If the row's event is the last of the stream, the status it reports is  *)
(* the one Stripe ends with.                                               *)
LEMMA LastReportIsFinal ==
    ASSUME TypeOK, NEW last \in Stream, last <= now, NEW s, Reports(last, s),
           \A e \in Stream : e <= last, Distinguishable
    PROVE  s = StripeStatus
<1> DEFINE past(m) == {e \in Events : e <= m /\ Kind(e) \in SubscriptionKinds}
           top(m) == CHOOSE e \in past(m) : \A d \in past(m) : d <= e
<1>1. last \in Events /\ last \in Nat /\ now \in Nat /\ Events \subseteq Nat
  BY ProjectionAssumption DEF Stream, TypeOK
<1>2. CASE Kind(last) = "checkout"
  <2>1. PICK m \in Events \cup {0} : last <= m /\ m <= now /\ s = StatusAfter(ev, m)
    BY <1>2, Zenon DEF Reports
  <2>2. \A e \in Events : Kind(e) \in SubscriptionKinds => (e <= m <=> e <= now)
    <3>1. \A e \in Events : Kind(e) \in SubscriptionKinds => e <= last
      BY Zenon DEF Stream
    <3>2. m \in Nat
      BY <1>1
    <3> QED
      BY <1>1, <2>1, <3>1, <3>2
  <2>3. past(m) = past(now)
    BY <2>2, Zenon
  <2>4. StatusAfter(ev, m) = StatusAfter(ev, now)
    <3> DEFINE end(P) == IF P = {} THEN "incomplete"
                         ELSE LET t == CHOOSE e \in P : \A d \in P : d <= e
                              IN  IF ev[t].kind = "deleted" THEN "canceled" ELSE ev[t].status
    <3>1. StatusAfter(ev, m) = end(past(m)) /\ StatusAfter(ev, now) = end(past(now))
      BY Zenon DEF StatusAfter, Kind
    <3> HIDE DEF end, past
    <3> QED
      BY <2>3, <3>1, Zenon
  <2> QED
    BY <2>1, <2>4, Zenon DEF StatusAfter, StripeStatus, Kind
<1>3. CASE Kind(last) \in SubscriptionKinds
  <2>1. last \in past(now) /\ \A d \in past(now) : d <= last /\ d \in Nat
    BY <1>1, <1>3, Zenon DEF Stream
  <2>2. top(now) = last
    <3>1. \A e \in past(now) : (\A d \in past(now) : d <= e) => e = last
      BY <1>1, <2>1
    <3> HIDE DEF past
    <3> QED
      BY <2>1, <3>1, Zenon
  <2>3. StripeStatus = IF Kind(last) = "deleted" THEN "canceled" ELSE ev[last].status
    BY <2>1, <2>2, Zenon DEF StripeStatus
  <2> QED
    BY <1>3, <2>3, Zenon DEF Reports, SubscriptionKinds, Distinguishable
<1> QED
  BY <1>2, <1>3, Zenon DEF Stream

(* Once every event of the stream is acknowledged the row's cursor is past *)
(* them all, so the event it names is the stream's last.                   *)
LEMMA AcknowledgedConverges ==
    ASSUME Inv PROVE ConvergesToStripe
<1> SUFFICES ASSUME Distinguishable, row.exists,
                    \A e \in Stream : handled[e] \cap {"processed", "stale"} # {}
             PROVE  row.status = StripeStatus
  BY Zenon DEF ConvergesToStripe
<1> USE DEF Inv, TypeInv
<1>1. /\ row.id \in Stream /\ row.id \in Events /\ row.at = Created(row.id)
      /\ Reports(row.id, row.status)
  BY Zenon DEF RowInv, Stream
<1>2. handled[row.id] # {}
  BY <1>1, Zenon
<1>3. row.id <= now
  BY <1>1, <1>2, Zenon DEF AnswerInv
<1>4. ASSUME NEW e \in Stream
      PROVE  e <= row.id
  <2>1. e \in Events /\ Created(e) <= Created(row.id)
    BY <1>1, <1>4, Zenon DEF AnswerInv, AcknowledgedIsOnRow, Stream
  <2>2. /\ e \in Nat /\ row.id \in Nat /\ Created(e) \in Nat /\ Created(row.id) \in Nat
        /\ row.id < e => Created(row.id) <= Created(e)
    BY <1>1, <2>1, EventType, ProjectionAssumption, Zenon DEF TypeOK, Created
  <2>3. e # row.id => Created(e) # Created(row.id)
    BY <1>1, <1>4, Zenon DEF Distinguishable
  <2> QED
    BY <2>1, <2>2, <2>3
<1> QED
  BY <1>1, <1>3, <1>4, LastReportIsFinal, Zenon

-----------------------------------------------------------------------------
(* Theorems.                                                               *)

(* No row, nothing in progress, nothing answered.                          *)
LEMMA InitInv == Init => Inv
<1> SUFFICES ASSUME Init PROVE Inv
  BY Zenon
<1>1. TypeInv
  BY InitType, Zenon
<1>2. LockInv /\ CarriedInv
  BY Zenon DEF Init, LockInv, CarriedInv, Locking, StatusLocked
<1>3. RowInv /\ AnswerInv /\ DunningFollowsInvoices
  BY DEF Init, RowInv, NoRow, AnswerInv, AcknowledgedIsOnRow, Stream,
         StaleOnlyIfSuperseded, DunningFollowsInvoices
<1> QED
  BY <1>1, <1>2, <1>3, Zenon DEF Inv

(* Every step of a handler keeps the whole invariant.                      *)
LEMMA InvStep == Inv /\ [Next]_vars => Inv'
BY StepType, LockStep, CarriedStep, RowStep, AnswerStep, DunningStep, Zenon DEF Inv, TypeInv

(* The invariant of the projection: the handlers are where their code can  *)
(* be, a locked cursor is the row's, and what is written was reported.     *)
THEOREM Invariance == Spec => []Inv
<1>1. Init => Inv
  BY InitInv, Zenon
<1>2. Inv /\ [Next]_vars => Inv'
  BY InvStep, Zenon
<1> QED
  BY <1>1, <1>2, PTL DEF Spec

(* Of two events racing for the row, through the UPDATE under the row lock *)
(* or the INSERT and its fallback, the older never ends up on top.         *)
THEOREM NewestWins == Spec => []NewestEventWins
<1>1. Inv => NewestEventWins
  BY Zenon DEF Inv, TypeInv, RowInv, Reports, NewestEventWins
<1> QED
  BY <1>1, Invariance, PTL

(* Nothing is acknowledged that the row does not reflect, whatever errors, *)
(* lost commit replies and crashes happened in between.                    *)
THEOREM NoAcknowledgedLoss == Spec => []AcknowledgedIsOnRow
<1>1. Inv => AcknowledgedIsOnRow
  BY Zenon DEF Inv, AnswerInv
<1> QED
  BY <1>1, Invariance, PTL

(* ErrStaleEvent is answered only behind a newer event of the same stream. *)
THEOREM StaleIsSuperseded == Spec => []StaleOnlyIfSuperseded
<1>1. Inv => StaleOnlyIfSuperseded
  BY Zenon DEF Inv, AnswerInv
<1> QED
  BY <1>1, Invariance, PTL

(* RecordInvoicePayment keeps flag, counter and invoice cursor together,   *)
(* at the newest invoice event that was acknowledged.                      *)
THEOREM DunningAgrees == Spec => []DunningFollowsInvoices
<1>1. Inv => DunningFollowsInvoices
  BY Zenon DEF Inv
<1> QED
  BY <1>1, Invariance, PTL

(* The projection converges: with every event of the stream acknowledged   *)
(* the row shows Stripe's status, in whatever order they were handled.     *)
THEOREM Convergence == Spec => []ConvergesToStripe
<1>1. Inv => ConvergesToStripe
  BY AcknowledgedConverges, Zenon
<1> QED
  BY <1>1, Invariance, PTL
=============================================================================
