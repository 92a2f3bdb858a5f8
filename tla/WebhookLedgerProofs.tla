------------------------ MODULE WebhookLedgerProofs ------------------------
(***************************************************************************)
(* Proofs about WebhookLedger, for every set of events, handlers and       *)
(* sweepers and every setting of the windows and bounds.                   *)
(***************************************************************************)
EXTENDS WebhookLedger, Integers, TLAPS

(* Where a worker can be, and what it then has in hand: the control facts  *)
(* every other proof rests on.                                             *)
Control ==
    /\ \A h \in Handlers : pc[h] \notin {"listing", "batch"}
    /\ \A s \in Sweepers : pc[s] # "claiming"
    /\ \A w \in Workers :
          /\ pc[w] \in Holding \cup {"claiming"} => cur[w] \in Events
          /\ pc[w] = "applied" => applied[cur[w]] > 0

TypeInv == TypeOK /\ Control

(* A listing of rows of S is a sequence of them (ORDER BY ... LIMIT).      *)
LEMMA ListingType ==
    ASSUME NEW S, S \subseteq Events, NEW b \in OldestFirst(S)
    PROVE  b \in Seq(Events)
<1>1. PICK n \in 0 .. BatchSize : b \in [1 .. n -> S]
  BY Zenon DEF OldestFirst
<1>2. n \in Nat
  BY ConfigAssumption
<1>3. b \in [1 .. n -> Events]
  BY <1>1, Zenon
<1> QED
  BY <1>2, <1>3

(* A listing holds nothing but rows it was asked for.                      *)
LEMMA ListingRange ==
    ASSUME NEW S, NEW b \in OldestFirst(S)
    PROVE  {b[i] : i \in DOMAIN b} \subseteq S
<1>1. PICK n \in 0 .. BatchSize : b \in [1 .. n -> S]
  BY Zenon DEF OldestFirst
<1> QED
  BY <1>1, Zenon

(* The head of a listing is an event, and the rest a listing.              *)
LEMMA HeadOfListing ==
    ASSUME NEW b \in Seq(Events), b # <<>>
    PROVE  Head(b) \in Events /\ Tail(b) \in Seq(Events)
OBVIOUS

(* A sweeper that drops the head of its batch is left with a batch.        *)
LEMMA TailOfListing ==
    ASSUME batch \in [Sweepers -> Seq(Events)], NEW s \in Sweepers,
           batch[s] # <<>>, batch' = [batch EXCEPT ![s] = Tail(@)]
    PROVE  batch' \in [Sweepers -> Seq(Events)]
<1>1. Tail(batch[s]) \in Seq(Events)
  BY HeadOfListing, Zenon
<1> QED
  BY <1>1, Zenon

RowsTyped ==
    /\ status \in [Events -> Statuses]
    /\ attempts \in [Events -> Nat]
    /\ age \in [Events -> 0 .. AgeCap]

(* A write to a row of the table, or none, keeps the table's types.        *)
LEMMA WriteRowType ==
    ASSUME RowsTyped, NEW e \in Events, NEW s \in Statuses, NEW a \in Nat,
           WriteRow(e, s, a) \/ UNCHANGED row
    PROVE  RowsTyped'
<1>1. CASE WriteRow(e, s, a)
  BY <1>1, ModelAssumption DEF WriteRow, RowsTyped
<1>2. CASE UNCHANGED row
  BY <1>2, Zenon DEF row, RowsTyped
<1> QED
  BY <1>1, <1>2, Zenon

(* Injected faults stay within their bound.                                *)
LEMMA FaultType ==
    ASSUME faults \in 0 .. MaxFaults, NEW w, CallFails(w) \/ CallWorks(w) \/ Fault
    PROVE  faults' \in 0 .. MaxFaults
BY ModelAssumption DEF CallFails, CallWorks, Fault

(* The ledger starts empty, with every worker idle.                        *)
LEMMA InitType == Init => TypeInv
BY ConfigAssumption, ModelAssumption
   DEF Init, TypeInv, TypeOK, Control, Workers, Statuses, PCs, Holding

(* An event that is claimed gets a count of attempts.                      *)
LEMMA NextAttemptType ==
    ASSUME TypeOK, NEW e \in Events
    PROVE  NextAttempt(e) \in Nat
<1>1. attempts[e] \in Nat
  BY Zenon DEF TypeOK
<1> QED
  BY <1>1 DEF NextAttempt

(* Once its request is answered, or its sweep is over, a worker is idle.   *)
LEMMA FinishType ==
    ASSUME TypeInv, NEW w \in Workers, Finish(w), UNCHANGED <<deliveries, applied>>,
           acked' \in [Events -> BOOLEAN], RowsTyped', faults' \in 0 .. MaxFaults
    PROVE  TypeInv'
<1>1. 0 \in 0 .. AgeCap /\ 0 \in Nat /\ <<>> \in Seq(Events)
  BY ConfigAssumption, ModelAssumption
<1>2. /\ pc' \in [Workers -> PCs]
      /\ cur' \in [Workers -> Events \cup {NoEvent}]
      /\ token' \in [Workers -> Nat]
      /\ elapsed' \in [Workers -> 0 .. AgeCap]
      /\ live' \in [Workers -> BOOLEAN]
      /\ batch' \in [Sweepers -> Seq(Events)]
  BY <1>1, Zenon DEF Finish, Goes, TypeInv, TypeOK, PCs
<1>3. TypeOK'
  BY <1>2, Zenon DEF TypeInv, TypeOK, RowsTyped
<1>4. Control'
  BY Zenon DEF Finish, Goes, TypeInv, TypeOK, Control, Workers, Holding
<1> QED
  BY <1>3, <1>4, Zenon DEF TypeInv

(* Returning from a dispatch, a handler becomes idle and a sweeper goes    *)
(* back to its batch.                                                      *)
LEMMA ReturnType ==
    ASSUME TypeInv, NEW w \in Workers, pc[w] \in Holding, Return(w),
           UNCHANGED <<deliveries, applied>>, RowsTyped',
           faults' \in 0 .. MaxFaults
    PROVE  TypeInv'
<1>1. acked' \in [Events -> BOOLEAN]
  BY Zenon DEF Return, TypeInv, TypeOK, Control
<1>2. CASE Finish(w)
  BY <1>1, <1>2, FinishType, Zenon
<1>3. CASE w \in Sweepers /\ NextListed(w)
  <2>1. TypeOK'
    BY <1>1, <1>3, ConfigAssumption, ModelAssumption
       DEF NextListed, Goes, TypeInv, TypeOK, RowsTyped, Workers, PCs
  <2>2. Control'
    BY <1>3, ModelAssumption, Zenon
       DEF NextListed, Goes, TypeInv, TypeOK, Control, Workers, Holding
  <2> QED
    BY <2>1, <2>2, Zenon DEF TypeInv
<1> QED
  BY <1>2, <1>3, Zenon DEF Return, Workers

(* A worker that returns holds nothing any more.                           *)
LEMMA ReturnStops ==
    ASSUME pc \in [Workers -> PCs], NEW w \in Workers, Return(w)
    PROVE  pc'[w] \notin Holding
<1>1. CASE Finish(w)
  BY <1>1, Zenon DEF Finish, Goes, Holding
<1>2. CASE NextListed(w)
  BY <1>2, Zenon DEF NextListed, Goes, Holding
<1> QED
  BY <1>1, <1>2, Zenon DEF Return

(* However a dispatch ends, its worker keeps the event, and the count of   *)
(* completed dispatches only grows.                                        *)
LEMMA DispatchType ==
    ASSUME TypeInv, NEW w \in Workers, NEW label \in Holding,
           Dispatched(w, label), faults' \in 0 .. MaxFaults,
           CountApplied(cur[w]) \/ (UNCHANGED applied /\ label # "applied")
    PROVE  TypeInv'
<1>1. PICK e \in Events : e = cur[w]
  BY Zenon DEF TypeInv, Control, Dispatched, Holding
<1> DEFINE Counted(n) == IF n < 2 THEN n + 1 ELSE n
<1>2. /\ applied' \in [Events -> 0 .. 2]
      /\ \A d \in Events : applied[d] > 0 => applied'[d] > 0
      /\ label = "applied" => applied'[e] > 0
  <2>1. applied \in [Events -> 0 .. 2]
    BY Zenon DEF TypeInv, TypeOK
  <2>2. CASE CountApplied(cur[w])
    <3>1. applied' = [applied EXCEPT ![e] = Counted(applied[e])]
      BY <1>1, <2>2, Zenon DEF CountApplied
    <3>2. \A n \in 0 .. 2 : Counted(n) \in 0 .. 2 /\ Counted(n) > 0
      OBVIOUS
    <3> HIDE DEF Counted
    <3> QED
      BY ONLY <1>1, <2>1, <3>1, <3>2, Zenon
  <2>3. CASE UNCHANGED applied /\ label # "applied"
    BY <2>1, <2>3, Zenon
  <2> QED
    BY <2>2, <2>3, Zenon
<1>3. /\ \A d \in Events : applied[d] > 0 => applied'[d] > 0
      /\ label = "applied" => applied'[cur[w]] > 0
  BY <1>1, <1>2, Zenon
<1>4. /\ pc' = [pc EXCEPT ![w] = label]
      /\ UNCHANGED <<row, cur, elapsed, live, token, batch, deliveries, acked>>
  BY Zenon DEF Dispatched, Goes
<1>5. TypeOK'
  <2>1. pc' \in [Workers -> PCs]
    BY <1>4, Zenon DEF TypeInv, TypeOK, PCs
  <2> QED
    BY <1>2, <1>4, <2>1, Zenon DEF TypeInv, TypeOK, row
<1>6. Control'
  BY <1>1, <1>3, <1>4, Zenon DEF TypeInv, TypeOK, Control, Workers, Holding
<1> QED
  BY <1>5, <1>6, Zenon DEF TypeInv

(* Every worker step and every tick keeps the types and the control facts. *)
LEMMA StepType == TypeInv /\ [Next]_vars => TypeInv'
<1> SUFFICES ASSUME TypeInv, [Next]_vars PROVE TypeInv'
  BY Zenon
<1> USE ConfigAssumption, ModelAssumption
    DEF TypeInv, TypeOK, Control, Workers, Statuses, PCs, Holding, row, worker, NextAttempt
<1>1. ASSUME NEW h \in Handlers, NEW e \in Events, HandleWebhook(h, e)
      PROVE  TypeInv'
  <2>1. deliveries' \in [Events -> 0 .. MaxDeliveries]
    BY ONLY TypeOK, <1>1, ModelAssumption DEF HandleWebhook, TypeOK
  <2> QED
    BY <1>1, <2>1, Zenon DEF HandleWebhook, Goes
<1>2. ASSUME NEW h \in Handlers, TryClaimEvent(h)
      PROVE  TypeInv'
  <2>1. PICK e \in Events : e = cur[h]
    BY <1>2, Zenon DEF TryClaimEvent
  <2>2. /\ WriteRow(e, "processing", NextAttempt(e))
        /\ Goes(h, "claimed")
        /\ Takes(h, e, NextAttempt(e))
        /\ UNCHANGED <<live, batch, deliveries, acked, applied, faults>>
    BY ONLY <1>2, <2>1, Zenon DEF TryClaimEvent, CallWorks
  <2>3. NextAttempt(e) \in Nat
    BY ONLY TypeInv, NextAttemptType, Zenon DEF TypeInv
  <2>4. RowsTyped'
    BY <2>2, <2>3, WriteRowType, Zenon DEF RowsTyped
  <2>5. /\ pc' \in [Workers -> PCs]
        /\ cur' \in [Workers -> Events \cup {NoEvent}]
        /\ token' \in [Workers -> Nat]
        /\ elapsed' \in [Workers -> 0 .. AgeCap]
    BY <2>2, <2>3 DEF Goes, Takes
  <2>6. TypeOK'
    BY <2>2, <2>4, <2>5, Zenon DEF RowsTyped
  <2>7. Control'
    BY <2>2, Zenon DEF Goes, Takes
  <2> QED
    BY <2>6, <2>7, Zenon
<1>3. ASSUME NEW h \in Handlers, AnswerDuplicate(h)
      PROVE  TypeInv'
  <2>1. /\ Finish(h) /\ h \in Workers /\ UNCHANGED <<deliveries, applied>>
        /\ acked' \in [Events -> BOOLEAN] /\ RowsTyped' /\ faults' \in 0 .. MaxFaults
    BY <1>3, Zenon DEF AnswerDuplicate, CallWorks, RowsTyped
  <2> QED
    BY <2>1, FinishType, Zenon
<1>4. ASSUME NEW h \in Handlers, ClaimErrs(h)
      PROVE  TypeInv'
  <2>1. faults' \in 0 .. MaxFaults
    BY <1>4, FaultType, Zenon DEF ClaimErrs
  <2>2. RowsTyped'
    <3>1. PICK e \in Events : e = cur[h]
      BY <1>4, Zenon DEF ClaimErrs
    <3>2. UNCHANGED row \/ WriteRow(e, "processing", NextAttempt(e))
      BY ONLY <1>4, <3>1, Zenon DEF ClaimErrs
    <3>3. NextAttempt(e) \in Nat
      BY ONLY TypeInv, NextAttemptType, Zenon DEF TypeInv
    <3> QED
      BY <3>2, <3>3, WriteRowType, Zenon DEF RowsTyped
  <2>3. /\ Finish(h) /\ h \in Workers /\ UNCHANGED <<deliveries, applied>>
        /\ acked' \in [Events -> BOOLEAN]
    BY <1>4, Zenon DEF ClaimErrs
  <2> QED
    BY <2>1, <2>2, <2>3, FinishType, Zenon
<1>5. ASSUME NEW w \in Workers, DispatchApplies(w)
      PROVE  TypeInv'
  <2>1. faults' \in 0 .. MaxFaults
    BY <1>5, FaultType, Zenon DEF DispatchApplies
  <2> QED
    BY <1>5, <2>1, DispatchType, Zenon DEF DispatchApplies
<1>6. ASSUME NEW w \in Workers, DispatchSkips(w)
      PROVE  TypeInv'
  BY <1>6, DispatchType, Zenon DEF DispatchSkips
<1>7. ASSUME NEW w \in Workers, DispatchErrs(w)
      PROVE  TypeInv'
  BY <1>7, DispatchType, Zenon DEF DispatchErrs
<1>8. ASSUME NEW w \in Workers, DispatchErrsLate(w)
      PROVE  TypeInv'
  <2>1. faults' \in 0 .. MaxFaults
    BY <1>8, FaultType, Zenon DEF DispatchErrsLate
  <2> QED
    BY <1>8, <2>1, DispatchType, Zenon DEF DispatchErrsLate
<1>9. ASSUME NEW w \in Workers, Settle(w)
      PROVE  TypeInv'
  <2>1. Verdict(w) \in Statuses /\ cur[w] \in Events
    BY <1>9, Zenon DEF Settle, Settling, Verdict
  <2>2. RowsTyped'
    <3>1. attempts[cur[w]] \in Nat
      BY <2>1, Zenon
    <3>2. WriteRow(cur[w], Verdict(w), attempts[cur[w]]) \/ UNCHANGED row
      BY ONLY <1>9, Zenon DEF Settle
    <3>3. RowsTyped
      BY Zenon DEF RowsTyped
    <3> QED
      BY ONLY <2>1, <3>1, <3>2, <3>3, WriteRowType, Zenon
  <2>3. faults' \in 0 .. MaxFaults
    BY <1>9, FaultType, Zenon DEF Settle
  <2>4. Return(w) /\ UNCHANGED <<deliveries, applied>> /\ pc[w] \in Holding
    BY <1>9, Zenon DEF Settle, Settling
  <2> QED
    BY <2>1, <2>2, <2>3, <2>4, ReturnType, Zenon DEF RowsTyped
<1>10. ASSUME NEW w \in Workers, SettleErrs(w)
       PROVE  TypeInv'
  <2>1. faults' \in 0 .. MaxFaults
    BY <1>10, FaultType, Zenon DEF SettleErrs
  <2>2. RowsTyped'
    BY <1>10, Zenon DEF SettleErrs, RowsTyped
  <2>3. Return(w) /\ UNCHANGED <<deliveries, applied>> /\ pc[w] \in Holding
    BY <1>10, Zenon DEF SettleErrs, Settling
  <2> QED
    BY <2>1, <2>2, <2>3, ReturnType, Zenon
<1>11. ASSUME NEW s \in Sweepers, ReclaimAbandoned(s)
       PROVE  TypeInv'
  BY <1>11 DEF ReclaimAbandoned, CallWorks, Goes
<1>12. ASSUME NEW s \in Sweepers, ReclaimErrs(s)
       PROVE  TypeInv'
  <2>1. faults' \in 0 .. MaxFaults
    BY <1>12, FaultType, Zenon DEF ReclaimErrs
  <2> QED
    BY <1>12, <2>1, Zenon DEF ReclaimErrs, Goes
<1>13. ASSUME NEW s \in Sweepers, ListRetryable(s)
       PROVE  TypeInv'
  <2>1. PICK b \in OldestFirst(Retryable) : batch' = [batch EXCEPT ![s] = b]
    BY <1>13, Zenon DEF ListRetryable
  <2>2. Retryable \subseteq Events
    BY Zenon DEF Retryable
  <2>3. b \in Seq(Events)
    BY <2>1, <2>2, ListingType, Zenon
  <2> QED
    BY <1>13, <2>1, <2>3, Zenon DEF ListRetryable, CallWorks, Goes
<1>14. ASSUME NEW s \in Sweepers, ListErrs(s)
       PROVE  TypeInv'
  <2>1. faults' \in 0 .. MaxFaults
    BY <1>14, FaultType, Zenon DEF ListErrs
  <2>2. /\ Finish(s) /\ s \in Workers /\ UNCHANGED <<deliveries, applied>>
        /\ acked' \in [Events -> BOOLEAN] /\ RowsTyped'
    BY <1>14, Zenon DEF ListErrs, RowsTyped
  <2> QED
    BY <2>1, <2>2, FinishType, Zenon
<1>15. ASSUME NEW s \in Sweepers, ClaimEventForRetry(s)
       PROVE  TypeInv'
  <2>1. PICK e \in Events : e = Head(batch[s])
    BY <1>15, HeadOfListing, Zenon DEF ClaimEventForRetry
  <2>2. batch' \in [Sweepers -> Seq(Events)]
    BY <1>15, TailOfListing, Zenon DEF ClaimEventForRetry
  <2>3. UNCHANGED <<live, deliveries, acked, applied, faults>>
    BY <1>15, Zenon DEF ClaimEventForRetry, CallWorks
  <2>4. CASE MayRetry(e)
    <3>1. /\ WriteRow(e, "processing", NextAttempt(e))
          /\ Goes(s, "claimed")
          /\ Takes(s, e, NextAttempt(e))
      BY ONLY <1>15, <2>1, <2>4, Zenon DEF ClaimEventForRetry
    <3>2. RowsTyped'
      <4>1. NextAttempt(e) \in Nat
        BY ONLY TypeInv, NextAttemptType, Zenon DEF TypeInv
      <4> QED
        BY <3>1, <4>1, WriteRowType, Zenon DEF RowsTyped
    <3>3. /\ pc' \in [Workers -> PCs]
          /\ cur' \in [Workers -> Events \cup {NoEvent}]
          /\ token' \in [Workers -> Nat]
          /\ elapsed' \in [Workers -> 0 .. AgeCap]
      BY <3>1 DEF Goes, Takes
    <3>4. TypeOK'
      BY <2>2, <2>3, <3>2, <3>3, Zenon DEF RowsTyped
    <3>5. Control'
      BY <2>3, <3>1, Zenon DEF Goes, Takes
    <3> QED
      BY <3>4, <3>5, Zenon
  <2>5. CASE ~MayRetry(e)
    <3>1. UNCHANGED <<row, pc, cur, token, elapsed>>
      BY ONLY <1>15, <2>1, <2>5, Zenon DEF ClaimEventForRetry
    <3> QED
      BY <2>2, <2>3, <3>1, Zenon
  <2> QED
    BY <2>4, <2>5, Zenon
<1>16. ASSUME NEW s \in Sweepers, RetryClaimErrs(s)
       PROVE  TypeInv'
  <2>1. PICK e \in Events : e = Head(batch[s])
    BY <1>16, HeadOfListing, Zenon DEF RetryClaimErrs
  <2>2. batch' \in [Sweepers -> Seq(Events)]
    BY <1>16, TailOfListing, Zenon DEF RetryClaimErrs
  <2>3. UNCHANGED row \/ WriteRow(e, "processing", NextAttempt(e))
    BY ONLY <1>16, <2>1, Zenon DEF RetryClaimErrs
  <2>4. RowsTyped'
    <3>1. NextAttempt(e) \in Nat
      BY ONLY TypeInv, NextAttemptType, Zenon DEF TypeInv
    <3> QED
      BY <2>3, <3>1, WriteRowType, Zenon DEF RowsTyped
  <2>5. faults' \in 0 .. MaxFaults
    BY <1>16, FaultType, Zenon DEF RetryClaimErrs
  <2>6. UNCHANGED <<pc, cur, elapsed, live, token, deliveries, acked, applied>>
    BY <1>16, Zenon DEF RetryClaimErrs
  <2> QED
    BY <2>2, <2>4, <2>5, <2>6, Zenon DEF RowsTyped
<1>17. ASSUME NEW s \in Sweepers, EndSweep(s)
       PROVE  TypeInv'
  <2>1. /\ Finish(s) /\ s \in Workers /\ UNCHANGED <<deliveries, applied>>
        /\ acked' \in [Events -> BOOLEAN] /\ RowsTyped' /\ faults' \in 0 .. MaxFaults
    BY <1>17, Zenon DEF EndSweep, RowsTyped
  <2> QED
    BY <2>1, FinishType, Zenon
<1>18. ASSUME NEW w \in Workers, CancelContext(w)
       PROVE  TypeInv'
  BY <1>18 DEF CancelContext, Fault
<1>19. ASSUME NEW w \in Workers, Crash(w)
       PROVE  TypeInv'
  <2>1. faults' \in 0 .. MaxFaults
    BY <1>19, FaultType, Zenon DEF Crash
  <2>2. /\ Finish(w) /\ UNCHANGED <<deliveries, applied>>
        /\ acked' \in [Events -> BOOLEAN] /\ RowsTyped'
    BY <1>19, Zenon DEF Crash, RowsTyped
  <2> QED
    BY <2>1, <2>2, FinishType, Zenon
<1>20. CASE Tick
  BY <1>20 DEF Tick, Older
<1>21. CASE UNCHANGED vars
  BY <1>21, Zenon DEF vars
<1> QED
  BY <1>1, <1>2, <1>3, <1>4, <1>5, <1>6, <1>7, <1>8, <1>9, <1>10, <1>11,
     <1>12, <1>13, <1>14, <1>15, <1>16, <1>17, <1>18, <1>19, <1>20, <1>21, ZenonT(40)
     DEF Next, HandlerStep, WorkStep, SweepStep

(* The rows, the workers and the counters keep their types, under every    *)
(* interleaving, fault and clock.                                          *)
THEOREM TypeCorrect == Spec => []TypeOK
<1>1. Spec => []TypeInv
  BY InitType, StepType, PTL DEF Spec
<1> QED
  BY <1>1, PTL DEF TypeInv

-----------------------------------------------------------------------------
(* What one step may do to one row.                                        *)

RowKept(e) == status'[e] = status[e] /\ attempts'[e] = attempts[e]

ClaimedByHandler(e) ==
    /\ Claimable(e)
    /\ \E h \in Handlers : pc[h] = "claiming" /\ cur[h] = e /\ pc'[h] # "claiming"
    /\ status'[e] = "processing" /\ attempts'[e] = attempts[e] + 1

ClaimedBySweeper(e) ==
    /\ MayRetry(e)
    /\ status'[e] = "processing" /\ attempts'[e] = attempts[e] + 1

SettledBy(w, e) ==
    /\ Settling(w) /\ live[w] /\ cur[w] = e /\ pc'[w] \notin Holding
    /\ status[e] = "processing" /\ status'[e] = Verdict(w)
    /\ attempts'[e] = attempts[e]

Reclaimed(e) ==
    /\ e \in Abandoned
    /\ status'[e] = "failed" /\ attempts'[e] = attempts[e]

RowStep(e) ==
    \/ RowKept(e)
    \/ ClaimedByHandler(e)
    \/ ClaimedBySweeper(e)
    \/ \E w \in Workers : SettledBy(w, e)
    \/ Reclaimed(e)

(* Every step leaves a row alone, claims it, settles it or reclaims it.    *)
LEMMA RowSteps ==
    ASSUME TypeInv, [Next]_vars, NEW e \in Events
    PROVE  RowStep(e)
<1> USE DEF TypeInv, TypeOK, Control, Workers, RowStep, RowKept, row, NextAttempt
<1>1. ASSUME NEW h \in Handlers, TryClaimEvent(h)
      PROVE  RowStep(e)
  BY <1>1, Zenon DEF TryClaimEvent, WriteRow, Goes, ClaimedByHandler, Holding
<1>2. ASSUME NEW h \in Handlers, ClaimErrs(h)
      PROVE  RowStep(e)
  <2>1. CASE UNCHANGED row
    BY <2>1, Zenon
  <2>2. CASE Claimable(cur[h]) /\ WriteRow(cur[h], "processing", NextAttempt(cur[h]))
    BY <1>2, <2>2, Zenon DEF ClaimErrs, WriteRow, Finish, Goes, ClaimedByHandler, Holding
  <2> QED
    BY <1>2, <2>1, <2>2, Zenon DEF ClaimErrs
<1>3. ASSUME NEW w \in Workers, Settle(w)
      PROVE  RowStep(e)
  <2>1. cur[w] \in Events /\ live[w] /\ Settling(w)
    BY <1>3, Zenon DEF Settle, Settling, Holding, CallWorks
  <2>4. pc'[w] \notin Holding
    BY <1>3, ReturnStops, Zenon DEF Settle
  <2>2. CASE StillClaimed(cur[w]) /\ WriteRow(cur[w], Verdict(w), attempts[cur[w]])
    BY <2>1, <2>2, <2>4, Zenon DEF StillClaimed, WriteRow, SettledBy
  <2>3. CASE UNCHANGED row
    BY <2>3, Zenon
  <2> QED
    BY <1>3, <2>2, <2>3, Zenon DEF Settle
<1>4. ASSUME NEW s \in Sweepers, ReclaimAbandoned(s)
      PROVE  RowStep(e)
  <2>1. PICK b \in OldestFirst(Abandoned) :
          status' = [d \in Events |-> IF d \in {b[i] : i \in DOMAIN b}
                                       THEN "failed" ELSE status[d]]
    BY <1>4, Zenon DEF ReclaimAbandoned
  <2>2. {b[i] : i \in DOMAIN b} \subseteq Abandoned
    BY <2>1, ListingRange, Zenon
  <2>3. UNCHANGED attempts
    BY <1>4, Zenon DEF ReclaimAbandoned
  <2> QED
    BY <2>1, <2>2, <2>3, Zenon DEF Reclaimed
<1>5. ASSUME NEW s \in Sweepers, ClaimEventForRetry(s)
      PROVE  RowStep(e)
  <2>1. PICK d \in Events : d = Head(batch[s])
    BY <1>5, HeadOfListing, Zenon DEF ClaimEventForRetry
  <2>2. \/ MayRetry(d) /\ WriteRow(d, "processing", NextAttempt(d))
        \/ UNCHANGED row
    BY ONLY <1>5, <2>1, Zenon DEF ClaimEventForRetry
  <2> QED
    BY <2>2 DEF WriteRow, ClaimedBySweeper
<1>6. ASSUME NEW s \in Sweepers, RetryClaimErrs(s)
      PROVE  RowStep(e)
  <2>1. PICK d \in Events : d = Head(batch[s])
    BY <1>6, HeadOfListing, Zenon DEF RetryClaimErrs
  <2>2. \/ MayRetry(d) /\ WriteRow(d, "processing", NextAttempt(d))
        \/ UNCHANGED row
    BY ONLY <1>6, <2>1, Zenon DEF RetryClaimErrs
  <2> QED
    BY <2>2 DEF WriteRow, ClaimedBySweeper
<1>7. ASSUME UNCHANGED <<status, attempts>>
      PROVE  RowStep(e)
  BY <1>7, Zenon
<1> QED
  BY <1>1, <1>2, <1>3, <1>4, <1>5, <1>6, <1>7, Zenon
     DEF Next, HandlerStep, WorkStep, SweepStep, HandleWebhook, AnswerDuplicate,
         Dispatched, DispatchApplies, DispatchSkips, DispatchErrs,
         DispatchErrsLate, SettleErrs, ReclaimErrs, ListRetryable, ListErrs,
         EndSweep, CancelContext, Crash, Tick, vars

-----------------------------------------------------------------------------
(* Safety, whatever the windows: even when a claim is taken from a worker  *)
(* that is still at work.                                                  *)

(* A settled row does not change.                                          *)
LEMMA SettledStays ==
    ASSUME TypeInv, [Next]_vars, NEW e \in Events, status[e] \in Settled
    PROVE  status'[e] = status[e] /\ attempts'[e] = attempts[e]
BY RowSteps, Zenon
   DEF RowStep, RowKept, ClaimedByHandler, ClaimedBySweeper, SettledBy,
       Reclaimed, Settled, Claimable, MayRetry, Abandoned

(* succeeded and skipped are terminal: the WHERE of each statement that    *)
(* claims, settles or reclaims excludes them.                              *)
THEOREM SettledRowsAreFinal == Spec => SettledIsFinal
<1>1. TypeInv /\ [Next]_vars =>
        [\A e \in Events : status[e] \in Settled =>
            status'[e] = status[e] /\ attempts'[e] = attempts[e]]_vars
  BY SettledStays, Zenon
<1> QED
  BY <1>1, InitType, StepType, PTL DEF Spec, SettledIsFinal

(* Completed dispatches are never uncounted.                               *)
LEMMA AppliedGrows ==
    ASSUME TypeInv, [Next]_vars, NEW e \in Events, applied[e] > 0
    PROVE  applied'[e] > 0
<1>1. CASE UNCHANGED applied
  BY <1>1, Zenon
<1>2. ASSUME NEW w \in Workers, CountApplied(cur[w])
      PROVE  applied'[e] > 0
  BY <1>2, applied[e] \in 0 .. 2 DEF CountApplied, TypeInv, TypeOK, Control
<1> QED
  BY <1>1, <1>2, Zenon
     DEF Next, HandlerStep, WorkStep, SweepStep, HandleWebhook, TryClaimEvent,
         AnswerDuplicate, ClaimErrs, Dispatched, DispatchApplies, DispatchSkips,
         DispatchErrs, DispatchErrsLate, Settle, SettleErrs, ReclaimAbandoned,
         ReclaimErrs, ListRetryable, ListErrs, ClaimEventForRetry,
         RetryClaimErrs, EndSweep, CancelContext, Crash, Tick, vars

(* A row that says succeeded tells the truth: only a worker whose dispatch *)
(* completed writes it (Control), and completed dispatches stay counted.   *)
THEOREM SucceededRowsWereApplied == Spec => []SucceededWasApplied
<1>1. Init => SucceededWasApplied
  BY Zenon DEF Init, SucceededWasApplied
<1>2. TypeInv /\ SucceededWasApplied /\ [Next]_vars => SucceededWasApplied'
  <2> SUFFICES ASSUME TypeInv, SucceededWasApplied, [Next]_vars,
                      NEW e \in Events, status'[e] = "succeeded"
               PROVE  applied'[e] > 0
    BY Zenon DEF SucceededWasApplied
  <2>1. status[e] = "succeeded" \/ \E w \in Workers : SettledBy(w, e)
    BY RowSteps, Zenon DEF RowStep, RowKept, ClaimedByHandler, ClaimedBySweeper, Reclaimed
  <2>2. ASSUME NEW w \in Workers, SettledBy(w, e)
        PROVE  applied[e] > 0
    <3>1. Settling(w) /\ Verdict(w) = "succeeded" /\ cur[w] = e
      BY <2>2, Zenon DEF SettledBy
    <3>2. pc[w] = "applied"
      BY <3>1, Zenon DEF Settling, Verdict
    <3> QED
      BY <3>1, <3>2, Zenon DEF TypeInv, Control
  <2> QED
    BY <2>1, <2>2, AppliedGrows, Zenon DEF SucceededWasApplied
<1> QED
  BY <1>1, <1>2, InitType, StepType, PTL DEF Spec

(* The sweepers keep to the retry budget: the guard is in the UPDATE that  *)
(* claims, so the age of a listing does not matter.                        *)
THEOREM BudgetIsKept == Spec => SweepersKeepBudget
<1>1. ASSUME TypeInv, [Next]_vars, NEW e \in Events,
             attempts'[e] > attempts[e], ~(attempts'[e] <= MaxAttempts)
      PROVE  \E h \in Handlers : pc[h] = "claiming" /\ cur[h] = e
                                 /\ pc'[h] # "claiming"
  <2>1. attempts[e] \in Nat /\ MaxAttempts \in Nat
    BY <1>1, ConfigAssumption, Zenon DEF TypeInv, TypeOK
  <2>2. CASE ClaimedBySweeper(e)
    BY <1>1, <2>1, <2>2, SMTT(30) DEF ClaimedBySweeper, MayRetry
  <2>3. CASE ClaimedByHandler(e)
    BY <2>3, Zenon DEF ClaimedByHandler
  <2>4. CASE attempts'[e] = attempts[e]
    BY <1>1, <2>1, <2>4, SMTT(30)
  <2> QED
    BY <1>1, <2>2, <2>3, <2>4, RowSteps, Zenon DEF RowStep, RowKept, SettledBy, Reclaimed
<1>2. TypeInv /\ [Next]_vars =>
        [\A e \in Events : attempts'[e] > attempts[e] =>
          \/ attempts'[e] <= MaxAttempts
          \/ \E h \in Handlers : pc[h] = "claiming" /\ cur[h] = e
                                 /\ pc'[h] # "claiming"]_vars
  BY <1>1, Zenon
<1> QED
  BY <1>2, InitType, StepType, PTL DEF Spec, SweepersKeepBudget

-----------------------------------------------------------------------------
(* Claims.                                                                 *)

StillHolds(w) ==
    /\ pc[w] \in Holding
    /\ cur'[w] = cur[w] /\ token'[w] = token[w]
    /\ live'[w] => live[w]
    /\ Tick \/ elapsed'[w] = elapsed[w]

NewlyClaims(w) ==
    /\ cur'[w] \in Events
    /\ token'[w] = attempts[cur'[w]] + 1
    /\ attempts'[cur'[w]] = token'[w]
    /\ status'[cur'[w]] = "processing" /\ age'[cur'[w]] = 0
    /\ elapsed'[w] = IF w \in Sweepers THEN 0 ELSE elapsed[w]
    /\ \A v \in Workers \ {w} : UNCHANGED <<pc[v], cur[v], token[v]>>

(* Whoever holds a claim after a step held it before, or is the one worker *)
(* that took it in this step.                                              *)
LEMMA HolderSteps ==
    ASSUME TypeInv, [Next]_vars, NEW w \in Workers, pc'[w] \in Holding
    PROVE  StillHolds(w) \/ NewlyClaims(w)
<1> USE DEF TypeInv, TypeOK, Control, Workers
<1>1. ASSUME NEW h \in Handlers, NEW e \in Events, HandleWebhook(h, e)
      PROVE  StillHolds(w)
  BY <1>1, Zenon DEF HandleWebhook, Goes, StillHolds, Holding
<1>2. ASSUME NEW h \in Handlers, TryClaimEvent(h)
      PROVE  StillHolds(w) \/ NewlyClaims(w)
  <2>1. h = w => NewlyClaims(w)
    BY <1>2, Zenon DEF TryClaimEvent, WriteRow, Goes, Takes, NewlyClaims, NextAttempt
  <2>2. h # w => StillHolds(w)
    BY <1>2, Zenon DEF TryClaimEvent, Goes, Takes, StillHolds
  <2> QED
    BY <2>1, <2>2, Zenon
<1>3. ASSUME NEW v \in Workers, Finish(v)
      PROVE  StillHolds(w)
  BY <1>3, Zenon DEF Finish, Goes, StillHolds, Holding
<1>4. ASSUME NEW v \in Workers, NextListed(v)
      PROVE  StillHolds(w)
  BY <1>4, Zenon DEF NextListed, Goes, StillHolds, Holding
<1>5. ASSUME NEW v \in Workers, NEW label, Dispatched(v, label)
      PROVE  StillHolds(w)
  BY <1>5, Zenon DEF Dispatched, Goes, StillHolds, Holding
<1>6. ASSUME NEW s \in Sweepers, Goes(s, "listing") \/ Goes(s, "batch"),
             UNCHANGED <<cur, token, live, elapsed>>
      PROVE  StillHolds(w)
  BY <1>6, Zenon DEF Goes, StillHolds, Holding
<1>7. ASSUME NEW s \in Sweepers, ClaimEventForRetry(s)
      PROVE  StillHolds(w) \/ NewlyClaims(w)
  <2>1. PICK e \in Events : e = Head(batch[s])
    BY <1>7, HeadOfListing, Zenon DEF ClaimEventForRetry
  <2>2. \/ /\ WriteRow(e, "processing", NextAttempt(e))
           /\ Goes(s, "claimed")
           /\ Takes(s, e, NextAttempt(e))
        \/ UNCHANGED <<pc, cur, token, elapsed>>
    BY ONLY <1>7, <2>1, Zenon DEF ClaimEventForRetry
  <2>5. UNCHANGED live
    BY <1>7, Zenon DEF ClaimEventForRetry
  <2>3. CASE UNCHANGED <<pc, cur, token, elapsed>>
    BY <2>3, <2>5, Zenon DEF StillHolds
  <2>4. CASE /\ WriteRow(e, "processing", NextAttempt(e))
             /\ Goes(s, "claimed")
             /\ Takes(s, e, NextAttempt(e))
    <3>1. s = w => NewlyClaims(w)
      BY <2>4, Zenon DEF WriteRow, Goes, Takes, NewlyClaims, NextAttempt
    <3>2. s # w => StillHolds(w)
      BY <2>4, <2>5, Zenon DEF Goes, Takes, StillHolds
    <3> QED
      BY <3>1, <3>2, Zenon
  <2> QED
    BY <2>2, <2>3, <2>4, Zenon
<1>8. CASE UNCHANGED <<pc, cur, token, elapsed, live>>
  BY <1>8, Zenon DEF StillHolds
<1>9. ASSUME NEW v \in Workers, WorkStep(v)
      PROVE  StillHolds(w)
  BY <1>9, <1>3, <1>4, <1>5, Zenon
     DEF WorkStep, DispatchApplies, DispatchSkips, DispatchErrs,
         DispatchErrsLate, Settle, SettleErrs, Return
<1>10. ASSUME NEW h \in Handlers, HandlerStep(h)
       PROVE  StillHolds(w) \/ NewlyClaims(w)
  BY <1>10, <1>2, <1>3, Zenon DEF HandlerStep, AnswerDuplicate, ClaimErrs
<1>11. ASSUME NEW s \in Sweepers, SweepStep(s)
       PROVE  StillHolds(w) \/ NewlyClaims(w)
  BY <1>11, <1>3, <1>6, <1>7, <1>8, Zenon
     DEF SweepStep, ReclaimAbandoned, ReclaimErrs, ListRetryable, ListErrs,
         RetryClaimErrs, EndSweep
<1>12. ASSUME NEW v \in Workers, CancelContext(v)
       PROVE  StillHolds(w)
  BY <1>12, Zenon DEF CancelContext, StillHolds
<1>13. CASE Tick
  <2>1. UNCHANGED <<pc, cur, token>> /\ live'[w] = (live[w] /\ ~DeadlinePasses(w))
    BY <1>13, Zenon DEF Tick
  <2> QED
    BY <1>13, <2>1, Zenon DEF StillHolds
<1> QED
  BY <1>1, <1>3, <1>8, <1>9, <1>10, <1>11, <1>12, <1>13, Zenon
     DEF Next, Crash, vars, worker

(* The attempt a worker claimed is never ahead of the row.                 *)
TokensAreSpent ==
    \A w \in Workers : pc[w] \in Holding => token[w] <= attempts[cur[w]]

ClaimInv == TypeInv /\ TokensAreSpent /\ ClaimsAreCounted

(* No step lowers the count of a row's attempts.                           *)
LEMMA AttemptsGrow ==
    ASSUME TypeInv, [Next]_vars, NEW e \in Events
    PROVE  attempts'[e] \in Nat /\ attempts[e] <= attempts'[e]
<1>1. attempts[e] \in Nat
  BY Zenon DEF TypeInv, TypeOK
<1>2. attempts'[e] = attempts[e] \/ attempts'[e] = attempts[e] + 1
  BY RowSteps, Zenon DEF RowStep, RowKept, ClaimedByHandler, ClaimedBySweeper,
                  SettledBy, Reclaimed
<1> QED
  BY <1>1, <1>2

(* Claims stay counted, because only a claim raises attempts and it takes  *)
(* the number it wrote.                                                    *)
LEMMA ClaimStep == ClaimInv /\ [Next]_vars => ClaimInv'
<1> SUFFICES ASSUME ClaimInv, [Next]_vars PROVE ClaimInv'
  BY Zenon
<1>1. TypeInv'
  BY StepType, Zenon DEF ClaimInv
<1>2. ASSUME NEW w \in Workers, pc'[w] \in Holding
      PROVE  token'[w] <= attempts'[cur'[w]]
  <2>1. CASE StillHolds(w)
    <3>1. cur[w] \in Events /\ token[w] \in Nat /\ attempts[cur[w]] \in Nat
      BY <2>1, Zenon DEF StillHolds, ClaimInv, TypeInv, TypeOK, Control
    <3>2. /\ attempts'[cur[w]] \in Nat
          /\ attempts[cur[w]] <= attempts'[cur[w]]
      BY <3>1, AttemptsGrow, Zenon DEF ClaimInv
    <3>3. token[w] <= attempts[cur[w]]
      BY <2>1, Zenon DEF StillHolds, ClaimInv, TokensAreSpent
    <3> QED
      BY <2>1, <3>1, <3>2, <3>3, SMTT(30) DEF StillHolds
  <2>2. CASE NewlyClaims(w)
    BY <1>1, <2>2 DEF NewlyClaims, TypeInv, TypeOK
  <2> QED
    BY <1>2, <2>1, <2>2, HolderSteps, Zenon DEF ClaimInv
<1>3. ASSUME NEW v \in Workers, NEW w \in Workers, v # w,
             pc'[v] \in Holding, pc'[w] \in Holding, cur'[v] = cur'[w],
             NewlyClaims(w)
      PROVE  token'[v] # token'[w]
  <2>1. pc[v] \in Holding /\ cur'[v] = cur[v] /\ token'[v] = token[v]
    BY <1>3, Zenon DEF NewlyClaims
  <2>2. token[v] <= attempts[cur'[w]] /\ token'[w] = attempts[cur'[w]] + 1
    BY <1>3, <2>1, Zenon DEF NewlyClaims, ClaimInv, TokensAreSpent
  <2>3. token[v] \in Nat /\ attempts[cur'[w]] \in Nat
    BY <1>3, Zenon DEF NewlyClaims, ClaimInv, TypeInv, TypeOK
  <2> QED
    BY <2>1, <2>2, <2>3
<1>4. ASSUME NEW v \in Workers, NEW w \in Workers, v # w,
             pc'[v] \in Holding, pc'[w] \in Holding, cur'[v] = cur'[w],
             StillHolds(v), StillHolds(w)
      PROVE  token'[v] # token'[w]
  BY <1>4, Zenon DEF StillHolds, ClaimInv, ClaimsAreCounted
<1>5. ClaimsAreCounted'
  BY <1>3, <1>4, HolderSteps, Zenon DEF ClaimInv, ClaimsAreCounted
<1> QED
  BY <1>1, <1>2, <1>5, Zenon DEF ClaimInv, TokensAreSpent

(* Two workers never share a claim: each successful claim, by a delivery   *)
(* or a retry, was counted in attempts by the statement that made it.      *)
THEOREM EveryClaimIsCounted == Spec => []ClaimsAreCounted
<1>1. Init => ClaimInv
  BY InitType, Zenon DEF Init, ClaimInv, TokensAreSpent, ClaimsAreCounted, Holding, Workers
<1> QED
  BY <1>1, ClaimStep, PTL DEF Spec, ClaimInv

-----------------------------------------------------------------------------
(***************************************************************************)
(* What the ledger gives when its windows really exceed the work done      *)
(* under a claim (ClaimsOutliveWork): a worker with a live context is the  *)
(* only one on its event, and the ledger implements WebhookInbox.          *)
(***************************************************************************)

(* A live claim is younger than the worker that holds it, and the worker   *)
(* is younger than the windows after which a claim may be taken from it.   *)
Timely ==
    /\ \A h \in Handlers :
          /\ pc[h] = "idle" => elapsed[h] = 0
          /\ live[h] => elapsed[h] < WebhookTimeout
    /\ \A s \in Sweepers : pc[s] \in Holding => elapsed[s] <= ReplayLimit
    /\ \A w \in Workers :
          pc[w] \in Holding /\ live[w] => age[cur[w]] <= elapsed[w]

ExclusionInv == ClaimInv /\ Timely /\ LiveHolderOwnsClaim

(* A row grows older by a tick or is written; nothing else moves its age.  *)
LEMMA AgeSteps ==
    ASSUME TypeInv, [Next]_vars, ~Tick, NEW e \in Events
    PROVE  age'[e] = age[e] \/ age'[e] = 0
<1> USE DEF TypeInv, TypeOK, Control, Workers
<1>1. ASSUME NEW d \in Events, NEW s, NEW a, WriteRow(d, s, a)
      PROVE  age'[e] = age[e] \/ age'[e] = 0
  BY <1>1, Zenon DEF WriteRow
<1>2. ASSUME NEW s \in Sweepers, ReclaimAbandoned(s)
      PROVE  age'[e] = age[e] \/ age'[e] = 0
  BY <1>2, Zenon DEF ReclaimAbandoned
<1>3. CASE UNCHANGED age
  BY <1>3, Zenon
<1>4. ASSUME NEW s \in Sweepers, ClaimEventForRetry(s) \/ RetryClaimErrs(s)
      PROVE  age'[e] = age[e] \/ age'[e] = 0
  <2>1. PICK d \in Events : d = Head(batch[s])
    BY <1>4, HeadOfListing, Zenon DEF ClaimEventForRetry, RetryClaimErrs
  <2>2. WriteRow(d, "processing", NextAttempt(d)) \/ UNCHANGED row
    BY ONLY <1>4, <2>1, Zenon DEF ClaimEventForRetry, RetryClaimErrs
  <2> QED
    BY <1>1, <1>3, <2>2, Zenon DEF row
<1>5. ASSUME NEW h \in Handlers, HandlerStep(h)
      PROVE  age'[e] = age[e] \/ age'[e] = 0
  BY <1>1, <1>3, <1>5, Zenon
     DEF HandlerStep, TryClaimEvent, AnswerDuplicate, ClaimErrs, row
<1>6. ASSUME NEW w \in Workers, WorkStep(w)
      PROVE  age'[e] = age[e] \/ age'[e] = 0
  <2>1. cur[w] \in Events \/ UNCHANGED row
    BY <1>6, Zenon DEF WorkStep, DispatchApplies, DispatchSkips, DispatchErrs,
                DispatchErrsLate, Dispatched, Settle, SettleErrs, Settling, Holding
  <2> QED
    BY <1>1, <1>3, <1>6, <2>1, Zenon
       DEF WorkStep, DispatchApplies, DispatchSkips, DispatchErrs,
           DispatchErrsLate, Dispatched, Settle, SettleErrs, row
<1> QED
  BY <1>2, <1>3, <1>4, <1>5, <1>6, Zenon
     DEF Next, SweepStep, HandleWebhook, ReclaimErrs, ListRetryable, ListErrs,
         EndSweep, CancelContext, Crash, vars, row

(* What a tick does to a clock, below the cap and at it.                   *)
LEMMA OlderIs ==
    ASSUME NEW m \in 0 .. AgeCap, NEW n \in 0 .. AgeCap, m <= n
    PROVE  Older(m) <= Older(n) /\ Older(n) <= n + 1 /\ Older(m) \in 0 .. AgeCap
BY ModelAssumption DEF Older

ClockKept(h) ==
    /\ elapsed'[h] = elapsed[h]
    /\ pc'[h] = "idle" => pc[h] = "idle"
    /\ live'[h] => live[h]

ClockReset(h) == elapsed'[h] = 0

(* Between ticks a handler's clock stands still, or the request is over.   *)
LEMMA ClockSteps ==
    ASSUME TypeInv, [Next]_vars, ~Tick, NEW h \in Handlers
    PROVE  ClockKept(h) \/ ClockReset(h)
<1> USE ModelAssumption DEF TypeInv, TypeOK, Control, Workers
<1>1. ASSUME NEW w \in Workers, Finish(w)
      PROVE  ClockKept(h) \/ ClockReset(h)
  BY <1>1, Zenon DEF Finish, Goes, ClockKept, ClockReset
<1>2. ASSUME NEW w \in Workers, NEW label, label # "idle", Goes(w, label),
             UNCHANGED <<elapsed, live>>
      PROVE  ClockKept(h)
  BY <1>2, Zenon DEF Goes, ClockKept
<1>3. ASSUME NEW s \in Sweepers, Return(s)
      PROVE  ClockKept(h) \/ ClockReset(h)
  BY <1>3, Zenon DEF Return, NextListed, Goes, ClockKept
<1>4. ASSUME NEW s \in Sweepers, ClaimEventForRetry(s)
      PROVE  ClockKept(h)
  <2>1. UNCHANGED live
    BY <1>4, Zenon DEF ClaimEventForRetry
  <2>2. \/ UNCHANGED <<pc, cur, token, elapsed>>
        \/ \E e : Goes(s, "claimed") /\ Takes(s, e, NextAttempt(e))
    BY ONLY <1>4, Zenon DEF ClaimEventForRetry
  <2> QED
    BY <2>1, <2>2 DEF Goes, Takes, ClockKept
<1>5. CASE UNCHANGED <<pc, elapsed>> /\ (live'[h] => live[h])
  BY <1>5, Zenon DEF ClockKept
<1>6. ASSUME NEW g \in Handlers, HandlerStep(g)
      PROVE  ClockKept(h) \/ ClockReset(h)
  <2>1. CASE TryClaimEvent(g)
    BY <2>1, Zenon DEF TryClaimEvent, Goes, Takes, ClockKept
  <2> QED
    BY <1>1, <1>6, <2>1, Zenon DEF HandlerStep, AnswerDuplicate, ClaimErrs
<1>7. ASSUME NEW w \in Workers, WorkStep(w)
      PROVE  ClockKept(h) \/ ClockReset(h)
  <2>1. CASE Return(w)
    BY <1>1, <1>3, <2>1, Zenon DEF Return
  <2> QED
    BY <1>2, <1>7, <2>1, Zenon
       DEF WorkStep, DispatchApplies, DispatchSkips, DispatchErrs,
           DispatchErrsLate, Dispatched, Settle, SettleErrs
<1>8. ASSUME NEW s \in Sweepers, SweepStep(s)
      PROVE  ClockKept(h) \/ ClockReset(h)
  BY <1>1, <1>2, <1>4, <1>5, <1>8, Zenon
     DEF SweepStep, ReclaimAbandoned, ReclaimErrs, ListRetryable, ListErrs,
         RetryClaimErrs, EndSweep
<1>9. ASSUME NEW w \in Workers, CancelContext(w)
      PROVE  ClockKept(h)
  BY <1>9, Zenon DEF CancelContext, ClockKept
<1> QED
  BY <1>1, <1>2, <1>5, <1>6, <1>7, <1>8, <1>9, Zenon
     DEF Next, HandleWebhook, Crash, vars, worker

(* A handler's clock: it starts with the request, and the deadline of the  *)
(* Timeout middleware ends the context before the clock reaches it.        *)
LEMMA HandlerClock ==
    ASSUME TypeInv, Timely, [Next]_vars, NEW h \in Handlers
    PROVE  /\ pc'[h] = "idle" => elapsed'[h] = 0
           /\ live'[h] => elapsed'[h] < WebhookTimeout
<1> USE ConfigAssumption, ModelAssumption DEF TypeInv, TypeOK, Control, Timely, Workers
<1>1. CASE Tick
  <2>1. /\ pc'[h] = pc[h]
        /\ elapsed'[h] = IF pc[h] = "idle" THEN 0 ELSE Older(elapsed[h])
        /\ live'[h] = (live[h] /\ ~DeadlinePasses(h))
    BY <1>1, Zenon DEF Tick
  <2>2. live[h] \in BOOLEAN /\ elapsed[h] \in 0 .. AgeCap
    BY Zenon
  <2>3. elapsed[h] \in Nat /\ WebhookTimeout \in Nat \ {0}
    BY ONLY <2>2, ConfigAssumption, ModelAssumption
  <2>4. Older(elapsed[h]) <= elapsed[h] + 1 /\ Older(elapsed[h]) \in Nat
    BY ONLY <2>2, OlderIs, ModelAssumption
  <2>5. live'[h] => pc[h] = "idle" \/ elapsed[h] + 1 < WebhookTimeout
    <3>1. live'[h] => ~DeadlinePasses(h)
      BY ONLY <2>1, Zenon
    <3>2. ~DeadlinePasses(h) => pc[h] = "idle" \/ ~(elapsed[h] + 1 >= WebhookTimeout)
      BY ONLY h \in Handlers, Zenon DEF DeadlinePasses
    <3>3. ~(elapsed[h] + 1 >= WebhookTimeout) => elapsed[h] + 1 < WebhookTimeout
      BY ONLY <2>3
    <3> QED
      BY ONLY <3>1, <3>2, <3>3, Zenon
  <2>6. CASE pc[h] = "idle"
    <3>1. elapsed'[h] = 0
      BY ONLY <2>1, <2>6, Zenon
    <3> QED
      BY ONLY <2>3, <3>1
  <2>7. CASE pc[h] # "idle"
    <3>1. pc'[h] # "idle" /\ elapsed'[h] = Older(elapsed[h])
      BY ONLY <2>1, <2>7, Zenon
    <3>2. elapsed[h] + 1 < WebhookTimeout => Older(elapsed[h]) < WebhookTimeout
      BY ONLY <2>3, <2>4
    <3> QED
      BY ONLY <2>5, <2>7, <3>1, <3>2, Zenon
  <2> QED
    BY ONLY <2>6, <2>7, Zenon
<1>2. CASE ClockReset(h)
  BY <1>2 DEF ClockReset
<1>3. CASE ClockKept(h)
  BY <1>3, Zenon DEF ClockKept
<1> QED
  BY <1>1, <1>2, <1>3, ClockSteps, Zenon

(* A claim whose holder is live is too young to be taken away.             *)
LEMMA LiveClaimsAreFresh ==
    ASSUME ClaimsOutliveWork, TypeInv, Timely, NEW w \in Workers,
           pc[w] \in Holding, live[w]
    PROVE  age[cur[w]] <= RepoStaleAfter /\ age[cur[w]] <= StaleClaimAfter
<1>1. /\ age[cur[w]] \in Nat /\ elapsed[w] \in Nat /\ age[cur[w]] <= elapsed[w]
      /\ {RepoStaleAfter, StaleClaimAfter, ReplayLimit, WebhookTimeout} \subseteq Nat
  BY ConfigAssumption, ModelAssumption DEF TypeInv, TypeOK, Control, Timely, Workers
<1>2. elapsed[w] < WebhookTimeout \/ elapsed[w] <= ReplayLimit
  BY Zenon DEF Timely, Workers
<1> QED
  BY <1>1, <1>2, ConfigAssumption DEF ClaimsOutliveWork

(* The clocks of claims and holders keep step.                             *)
LEMMA TimelyStep ==
    ASSUME ClaimsOutliveWork, ExclusionInv, [Next]_vars
    PROVE  Timely'
<1> USE DEF ExclusionInv, ClaimInv
<1>1. ASSUME NEW s \in Sweepers, pc'[s] \in Holding
      PROVE  elapsed'[s] <= ReplayLimit
  <2>1. CASE NewlyClaims(s)
    BY <2>1, ModelAssumption DEF NewlyClaims
  <2>2. CASE StillHolds(s) /\ ~Tick
    BY <2>2, Zenon DEF StillHolds, Timely
  <2>3. CASE Tick
    <3>1. pc[s] \in Holding
      BY <1>1, <2>3, Zenon DEF Tick
    <3>2. elapsed[s] < ReplayLimit /\ elapsed[s] \in 0 .. AgeCap
      BY <2>3, <3>1, Zenon DEF Tick, TypeInv, TypeOK, Workers
    <3>3. elapsed'[s] = Older(elapsed[s])
      BY <2>3, <3>1, Zenon DEF Tick, Workers, Holding
    <3>4. Older(elapsed[s]) <= elapsed[s] + 1 /\ Older(elapsed[s]) \in 0 .. AgeCap
      BY <3>2, OlderIs
    <3> QED
      BY <3>2, <3>3, <3>4, ModelAssumption
  <2> QED
    BY <1>1, <2>1, <2>2, <2>3, HolderSteps, Zenon DEF Workers
<1>2. ASSUME NEW w \in Workers, pc'[w] \in Holding, live'[w]
      PROVE  age'[cur'[w]] <= elapsed'[w]
  <2>1. elapsed'[w] \in Nat
    BY StepType DEF TypeInv, TypeOK
  <2>2. CASE NewlyClaims(w)
    BY <2>1, <2>2 DEF NewlyClaims
  <2>3. CASE StillHolds(w)
    <3>1. /\ pc[w] \in Holding /\ live[w] /\ cur'[w] = cur[w] /\ cur[w] \in Events
          /\ age[cur[w]] <= elapsed[w]
          /\ age[cur[w]] \in 0 .. AgeCap /\ elapsed[w] \in 0 .. AgeCap
      BY <1>2, <2>3, Zenon DEF StillHolds, Timely, TypeInv, TypeOK, Control
    <3>2. CASE Tick
      <4>1. age'[cur[w]] = Older(age[cur[w]]) \/ age'[cur[w]] = 0
        BY <3>1, <3>2, Zenon DEF Tick
      <4>2. elapsed'[w] = Older(elapsed[w])
        BY <3>1, <3>2, Zenon DEF Tick, Holding
      <4>3. Older(age[cur[w]]) <= Older(elapsed[w])
        BY <3>1, OlderIs, Zenon
      <4> QED
        BY <2>1, <3>1, <4>1, <4>2, <4>3
    <3>3. CASE ~Tick
      <4>1. elapsed'[w] = elapsed[w]
        BY <2>3, <3>3, Zenon DEF StillHolds
      <4>2. age'[cur[w]] = age[cur[w]] \/ age'[cur[w]] = 0
        BY <3>1, <3>3, AgeSteps, Zenon
      <4> QED
        BY <2>1, <3>1, <4>1, <4>2
    <3> QED
      BY <3>2, <3>3, Zenon
  <2> QED
    BY <1>2, <2>2, <2>3, HolderSteps, Zenon
<1> QED
  BY <1>1, <1>2, HandlerClock, Zenon DEF Timely

(* No step of another worker touches the row of a live holder: it is too   *)
(* young to reclaim or to claim again, and to settle it the other would    *)
(* have to hold the same claim.                                            *)
LEMMA OwnershipStep ==
    ASSUME ClaimsOutliveWork, ExclusionInv, [Next]_vars
    PROVE  LiveHolderOwnsClaim'
<1> USE DEF ExclusionInv, ClaimInv
<1> SUFFICES ASSUME NEW w \in Workers, pc'[w] \in Holding, live'[w]
             PROVE  status'[cur'[w]] = "processing" /\ attempts'[cur'[w]] = token'[w]
  BY Zenon DEF LiveHolderOwnsClaim
<1>1. CASE NewlyClaims(w)
  BY <1>1, Zenon DEF NewlyClaims
<1>2. CASE StillHolds(w)
  <2>1. /\ pc[w] \in Holding /\ live[w] /\ cur'[w] = cur[w] /\ token'[w] = token[w]
        /\ cur[w] \in Events
        /\ status[cur[w]] = "processing" /\ attempts[cur[w]] = token[w]
    BY <1>2, Zenon DEF StillHolds, LiveHolderOwnsClaim, TypeInv, TypeOK, Control
  <2>2. age[cur[w]] <= RepoStaleAfter /\ age[cur[w]] <= StaleClaimAfter
    BY <2>1, LiveClaimsAreFresh, Zenon
  <2>3. /\ age[cur[w]] \in Nat /\ RepoStaleAfter \in Nat /\ StaleClaimAfter \in Nat
    BY <2>1, ConfigAssumption, ModelAssumption DEF TypeInv, TypeOK
  <2>4. ~ClaimedByHandler(cur[w]) /\ ~ClaimedBySweeper(cur[w]) /\ ~Reclaimed(cur[w])
    BY <2>1, <2>2, <2>3
       DEF ClaimedByHandler, ClaimedBySweeper, Reclaimed, Claimable, MayRetry, Abandoned
  <2>5. ASSUME NEW v \in Workers, SettledBy(v, cur[w])
        PROVE  FALSE
    <3>1. pc[v] \in Holding /\ live[v] /\ cur[v] = cur[w] /\ v # w
      BY <2>5, Zenon DEF SettledBy, Settling, Holding
    <3>2. token[v] = token[w]
      BY <2>1, <3>1, Zenon DEF LiveHolderOwnsClaim
    <3> QED
      BY <2>1, <3>1, <3>2, Zenon DEF ClaimsAreCounted
  <2> QED
    BY <2>1, <2>4, <2>5, RowSteps, Zenon DEF RowStep, RowKept
<1> QED
  BY <1>1, <1>2, HolderSteps, Zenon

(* The inductive invariant of the exclusion argument holds at the start.   *)
LEMMA ExclusionInit == Init => ExclusionInv
BY InitType, ConfigAssumption
   DEF Init, ExclusionInv, ClaimInv, TokensAreSpent, ClaimsAreCounted, Timely,
       LiveHolderOwnsClaim, Holding, Workers

(* Every step preserves it.                                                *)
LEMMA ExclusionStep ==
    ASSUME ClaimsOutliveWork
    PROVE  ExclusionInv /\ [Next]_vars => ExclusionInv'
BY ClaimStep, TimelyStep, OwnershipStep, Zenon DEF ExclusionInv

(* Under windows that outlast the work, a worker whose context is alive    *)
(* still owns its event: two of them never work on the same one, and no    *)
(* outcome is recorded under another's claim.                              *)
THEOREM LiveHoldersOwnTheirClaims ==
    ASSUME ClaimsOutliveWork
    PROVE  Spec => []LiveHolderOwnsClaim
<1>1. ExclusionInv /\ [Next]_vars => ExclusionInv'
  BY ExclusionStep, Zenon
<1> QED
  BY <1>1, ExclusionInit, PTL DEF Spec, ExclusionInv

(* What ends a claim: the verdict of the worker that took it, or a reclaim *)
(* when no worker that is alive is on the event.                           *)
EndsProperly(e) ==
    \/ \E w \in Workers : SettledBy(w, e) /\ token[w] = attempts[e]
    \/ /\ Reclaimed(e)
       /\ \A w \in Workers : pc[w] \in Holding /\ cur[w] = e => ~live[w]

ClaimsEndProperly ==
    [][\A e \in Events : status[e] = "processing" /\ status'[e] # "processing"
          => EndsProperly(e)]_vars

(* Under the same windows "it can only settle an event it still holds", as *)
(* the comment above MarkEventProcessed says, although the UPDATE tests    *)
(* the status and not the claim; and ReclaimAbandonedEvents takes no event *)
(* from a worker that could still settle it.                               *)
THEOREM OnlyHoldersSettle ==
    ASSUME ClaimsOutliveWork
    PROVE  Spec => ClaimsEndProperly
<1>1. ASSUME ExclusionInv, [Next]_vars, NEW e \in Events,
             status[e] = "processing", status'[e] # "processing"
      PROVE  EndsProperly(e)
  <2>1. TypeInv /\ Timely /\ LiveHolderOwnsClaim
    BY <1>1, Zenon DEF ExclusionInv, ClaimInv
  <2>2. (\E w \in Workers : SettledBy(w, e)) \/ Reclaimed(e)
    BY <1>1, <2>1, RowSteps, Zenon
       DEF RowStep, RowKept, ClaimedByHandler, ClaimedBySweeper
  <2>3. ASSUME NEW w \in Workers, SettledBy(w, e)
        PROVE  token[w] = attempts[e]
    <3>1. pc[w] \in Holding /\ live[w] /\ cur[w] = e
      BY <2>3, Zenon DEF SettledBy, Settling, Holding
    <3> QED
      BY <2>1, <3>1, Zenon DEF LiveHolderOwnsClaim
  <2>4. ASSUME Reclaimed(e), NEW w \in Workers, pc[w] \in Holding, cur[w] = e, live[w]
        PROVE  FALSE
    <3>1. age[e] <= StaleClaimAfter
      BY <2>1, <2>4, LiveClaimsAreFresh, Zenon
    <3>2. age[e] \in Nat /\ age[e] > StaleClaimAfter
      BY <2>1, <2>4 DEF Reclaimed, Abandoned, TypeInv, TypeOK
    <3> QED
      BY <3>1, <3>2, ConfigAssumption
  <2> QED
    BY <2>2, <2>3, <2>4, Zenon DEF EndsProperly
<1>2. ExclusionInv /\ [Next]_vars =>
        [\A e \in Events : status[e] = "processing" /\ status'[e] # "processing"
            => EndsProperly(e)]_vars
  BY <1>1, Zenon
<1>3. ExclusionInv /\ [Next]_vars => ExclusionInv'
  BY ExclusionStep, Zenon
<1> QED
  BY <1>2, <1>3, ExclusionInit, PTL DEF Spec, ClaimsEndProperly

-----------------------------------------------------------------------------
(* The ledger implements WebhookInbox.                                     *)

Open == {"processing", "failed"}

InboxStep == Inbox!Next \/ UNCHANGED Inbox!vars

FatesKept ==
    \A e \in Events : \/ status'[e] = status[e]
                      \/ status[e] \in Open /\ status'[e] \in Open

(* Moving rows between processing and failed is invisible.                 *)
LEMMA OpenRowsStutter ==
    ASSUME UNCHANGED applied, FatesKept
    PROVE  InboxStep
<1>1. \A e \in Events : Fate(e)' = Fate(e)
  BY Zenon DEF Fate, Open, FatesKept
<1>2. [e \in Events |-> Fate(e)]' = [e \in Events |-> Fate(e)]
  BY <1>1, Zenon
<1>3. UNCHANGED {e \in Events : applied[e] > 0}
  BY Zenon
<1> QED
  BY <1>2, <1>3, Zenon DEF InboxStep, Inbox!vars

(* A write to one row that the inbox allows.                               *)
Allowed(e, s) ==
    \/ status[e] = "absent" /\ s = "processing"
    \/ status[e] \in Open /\ s \in Open
    \/ status[e] = "processing" /\ s = "succeeded" /\ applied[e] > 0
    \/ status[e] = "processing" /\ s = "skipped"

(* Such a write is a Receive, a Close, or invisible.                       *)
LEMMA WritesAreInboxSteps ==
    ASSUME TypeInv, UNCHANGED applied, NEW e \in Events, NEW s, NEW a,
           WriteRow(e, s, a), Allowed(e, s)
    PROVE  InboxStep
<1> DEFINE fate == [d \in Events |-> Fate(d)]
           done == {d \in Events : applied[d] > 0}
<1>1. status \in [Events -> Statuses] /\ status' = [status EXCEPT ![e] = s]
  BY Zenon DEF TypeInv, TypeOK, WriteRow
<1>2. UNCHANGED done
  BY Zenon
<1>3. ASSUME NEW f, Fate(e)' = f
      PROVE  fate' = [fate EXCEPT ![e] = f]
  <2>1. \A d \in Events : d # e => status'[d] = status[d]
    BY <1>1, Zenon
  <2>2. \A d \in Events : d # e => Fate(d)' = Fate(d)
    BY <2>1, Zenon DEF Fate
  <2> QED
    BY <1>3, <2>2, Zenon
<1>4. CASE status[e] = "absent" /\ s = "processing"
  <2>1. Fate(e) = "unseen" /\ Fate(e)' = "open"
    BY <1>1, <1>4, Zenon DEF Fate
  <2>2. Inbox!Receive(e)
    BY <1>2, <1>3, <2>1, Zenon DEF Inbox!Receive
  <2> QED
    BY <2>2, Zenon DEF InboxStep, Inbox!Next
<1>5. CASE status[e] \in Open /\ s \in Open
  <2>1. FatesKept
    BY <1>1, <1>5, Zenon DEF FatesKept
  <2> QED
    BY <2>1, OpenRowsStutter, Zenon
<1>6. CASE status[e] = "processing" /\ s = "succeeded" /\ applied[e] > 0
  <2>1. Fate(e) = "open" /\ Fate(e)' = "applied" /\ e \in done
    BY <1>1, <1>6, Zenon DEF Fate
  <2>2. Inbox!Close(e)
    BY <1>2, <1>3, <2>1, Zenon DEF Inbox!Close
  <2> QED
    BY <2>2, Zenon DEF InboxStep, Inbox!Next
<1>7. CASE status[e] = "processing" /\ s = "skipped"
  <2>1. Fate(e) = "open" /\ Fate(e)' = "ignored"
    BY <1>1, <1>7, Zenon DEF Fate
  <2>2. Inbox!Close(e)
    BY <1>2, <1>3, <2>1, Zenon DEF Inbox!Close
  <2> QED
    BY <2>2, Zenon DEF InboxStep, Inbox!Next
<1> QED
  BY <1>4, <1>5, <1>6, <1>7, Zenon DEF Allowed

(* A completed dispatch by a live holder finds its row still open.         *)
LEMMA DispatchIsApply ==
    ASSUME TypeInv, LiveHolderOwnsClaim, NEW w \in Workers, pc[w] = "claimed",
           live[w], CountApplied(cur[w]), UNCHANGED row
    PROVE  InboxStep
<1> DEFINE done == {d \in Events : applied[d] > 0}
<1>1. PICK e \in Events : e = cur[w] /\ status[e] = "processing"
  BY Zenon DEF TypeInv, Control, LiveHolderOwnsClaim, Holding
<1>2. /\ applied \in [Events -> 0 .. 2]
      /\ applied' = [applied EXCEPT ![e] = IF @ < 2 THEN @ + 1 ELSE @]
  BY <1>1, Zenon DEF TypeInv, TypeOK, CountApplied
<1>3. applied[e] \in 0 .. 2
  BY <1>1, <1>2, Zenon
<1>4. applied'[e] > 0 /\ \A d \in Events : d # e => applied'[d] = applied[d]
  BY <1>1, <1>2, <1>3
<1>5. done' = done \cup {e}
  BY <1>1, <1>4, Zenon
<1>6. UNCHANGED status
  BY Zenon DEF row
<1>7. UNCHANGED [d \in Events |-> Fate(d)]
  BY <1>6 DEF Fate
<1>8. Fate(e) = "open"
  BY <1>1, Zenon DEF Fate
<1>9. Inbox!Apply(e)
  BY <1>1, <1>5, <1>7, <1>8, Zenon DEF Inbox!Apply
<1> QED
  BY <1>1, <1>9, Zenon DEF InboxStep, Inbox!Next

(* Every step of the ledger is a step of the inbox, or none.               *)
LEMMA StepsAreInboxSteps ==
    ASSUME ExclusionInv, [Next]_vars
    PROVE  InboxStep
<1> USE DEF ExclusionInv, ClaimInv
<1>1. CASE UNCHANGED <<status, applied>>
  <2>1. FatesKept
    BY <1>1, Zenon DEF FatesKept
  <2> QED
    BY <1>1, <2>1, OpenRowsStutter, Zenon
<1>2. ASSUME NEW h \in Handlers, HandlerStep(h)
      PROVE  InboxStep
  <2>1. CASE /\ pc[h] = "claiming" /\ Claimable(cur[h]) /\ UNCHANGED applied
             /\ WriteRow(cur[h], "processing", NextAttempt(cur[h]))
    <3>1. cur[h] \in Events /\ Allowed(cur[h], "processing")
      BY <2>1, Zenon DEF TypeInv, Control, Workers, Claimable, Allowed, Open
    <3> QED
      BY <2>1, <3>1, WritesAreInboxSteps, Zenon
  <2> QED
    BY <1>1, <1>2, <2>1, Zenon
       DEF HandlerStep, TryClaimEvent, AnswerDuplicate, ClaimErrs, row
<1>3. ASSUME NEW w \in Workers, Settle(w)
      PROVE  InboxStep
  <2>1. cur[w] \in Events /\ Settling(w) /\ UNCHANGED applied
    <3>1. Settling(w) /\ UNCHANGED applied
      BY ONLY <1>3, Zenon DEF Settle
    <3>2. pc[w] \in Holding
      BY ONLY <3>1, Zenon DEF Settling, Holding
    <3> QED
      BY <3>1, <3>2, Zenon DEF TypeInv, Control
  <2>2. CASE StillClaimed(cur[w]) /\ WriteRow(cur[w], Verdict(w), attempts[cur[w]])
    <3>1. \/ pc[w] = "applied" /\ Verdict(w) = "succeeded" /\ applied[cur[w]] > 0
          \/ Verdict(w) = "skipped"
          \/ Verdict(w) = "failed"
      BY <2>1, Zenon DEF Settling, Verdict, TypeInv, Control
    <3>2. Allowed(cur[w], Verdict(w))
      BY <2>2, <3>1, Zenon DEF StillClaimed, Allowed, Open
    <3> QED
      BY <2>1, <2>2, <3>2, WritesAreInboxSteps, Zenon
  <2> QED
    BY <1>1, <1>3, <2>1, <2>2, Zenon DEF Settle, row
<1>4. ASSUME NEW w \in Workers, WorkStep(w)
      PROVE  InboxStep
  <2>1. CASE DispatchApplies(w) \/ DispatchErrsLate(w)
    BY <2>1, DispatchIsApply, Zenon DEF DispatchApplies, DispatchErrsLate, Dispatched, CallWorks
  <2> QED
    BY <1>1, <1>3, <1>4, <2>1, Zenon
       DEF WorkStep, DispatchSkips, DispatchErrs, Dispatched, SettleErrs, row
<1>5. ASSUME NEW s \in Sweepers, ReclaimAbandoned(s)
      PROVE  InboxStep
  <2>1. UNCHANGED applied
    BY <1>5, Zenon DEF ReclaimAbandoned
  <2>2. PICK b \in OldestFirst(Abandoned) :
          status' = [d \in Events |-> IF d \in {b[i] : i \in DOMAIN b}
                                       THEN "failed" ELSE status[d]]
    BY <1>5, Zenon DEF ReclaimAbandoned
  <2>3. \A d \in {b[i] : i \in DOMAIN b} : status[d] = "processing"
    BY <2>2, ListingRange, Zenon DEF Abandoned
  <2>4. FatesKept
    BY <2>2, <2>3, Zenon DEF Open, FatesKept
  <2> QED
    BY <2>1, <2>4, OpenRowsStutter, Zenon
<1>6. ASSUME NEW s \in Sweepers, ClaimEventForRetry(s) \/ RetryClaimErrs(s)
      PROVE  InboxStep
  <2>1. PICK e \in Events : e = Head(batch[s])
    BY <1>6, HeadOfListing, Zenon
       DEF ClaimEventForRetry, RetryClaimErrs, TypeInv, TypeOK
  <2>2. \/ MayRetry(e) /\ WriteRow(e, "processing", NextAttempt(e))
        \/ UNCHANGED row
    BY ONLY <1>6, <2>1, Zenon DEF ClaimEventForRetry, RetryClaimErrs
  <2>3. UNCHANGED applied
    BY <1>6, Zenon DEF ClaimEventForRetry, RetryClaimErrs
  <2>4. MayRetry(e) => Allowed(e, "processing")
    BY Zenon DEF MayRetry, Allowed, Open
  <2> QED
    BY <1>1, <2>2, <2>3, <2>4, WritesAreInboxSteps, Zenon DEF row
<1>7. ASSUME NEW s \in Sweepers, SweepStep(s)
      PROVE  InboxStep
  BY <1>1, <1>5, <1>6, <1>7, Zenon
     DEF SweepStep, ReclaimErrs, ListRetryable, ListErrs, EndSweep, row
<1>8. ASSUME NEW h \in Handlers, NEW e \in Events, HandleWebhook(h, e)
      PROVE  InboxStep
  BY ONLY <1>1, <1>8, Zenon DEF HandleWebhook, row
<1>9. ASSUME NEW w \in Workers, CancelContext(w) \/ Crash(w)
      PROVE  InboxStep
  BY ONLY <1>1, <1>9, Zenon DEF CancelContext, Crash, row
<1>10. ASSUME Tick \/ UNCHANGED vars
       PROVE  InboxStep
  BY ONLY <1>1, <1>10, Zenon DEF Tick, vars, row
<1> QED
  BY ONLY <1>2, <1>4, <1>7, <1>8, <1>9, <1>10, [Next]_vars, Zenon DEF Next

(* Under windows that outlast the work, the ledger implements its abstract *)
(* specification: received once, applied only while open, closed at most   *)
(* once, and closed as applied only if it was.                             *)
THEOREM LedgerImplementsInbox ==
    ASSUME ClaimsOutliveWork
    PROVE  Spec => ImplementsInbox
<1>1. Init => ExclusionInv /\ Inbox!Init
  <2>1. Init => ExclusionInv
    BY ExclusionInit, Zenon
  <2>2. Init => Inbox!Init
    <3> SUFFICES ASSUME Init PROVE Inbox!Init
      BY Zenon
    <3>1. \A e \in Events : status[e] = "absent" /\ applied[e] = 0
      BY Zenon DEF Init
    <3>2. \A e \in Events : Fate(e) = "unseen"
      BY <3>1, Zenon DEF Fate
    <3>3. {e \in Events : applied[e] > 0} = {}
      BY <3>1, SMT
    <3>4. [e \in Events |-> Fate(e)] = [e \in Events |-> "unseen"]
      BY <3>2, Zenon
    <3> QED
      BY <3>3, <3>4, Zenon DEF Inbox!Init
  <2> QED
    BY <2>1, <2>2, Zenon
<1>2. ExclusionInv /\ [Next]_vars => ExclusionInv'
  BY ExclusionStep, Zenon
<1>3. ExclusionInv /\ [Next]_vars => [Inbox!Next]_(Inbox!vars)
  BY StepsAreInboxSteps, Zenon DEF InboxStep
<1> QED
  BY <1>1, <1>2, <1>3, PTL DEF Spec, ImplementsInbox, Inbox!Spec
=============================================================================
