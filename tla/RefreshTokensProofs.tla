------------------------ MODULE RefreshTokensProofs ------------------------
(***************************************************************************)
(* Proofs about RefreshTokens, for any number of tokens, users and request *)
(* goroutines and any lifetime and grace period.                           *)
(***************************************************************************)
EXTENDS RefreshTokens, FiniteSetTheorems, TLAPS

(* Where a request holds a token its client presented.                     *)
Presenting == {"locking", "rotating", "reuse", "reusing"}

(* A row is numbered below the counter and so is its family; columns are   *)
(* set on inserted rows only; a row that is gone was pruned, Grace after   *)
(* its expiry; a locked row is in the table.                               *)
TableInv ==
    /\ \A t \in Ids : family[t] # 0 => t <= minted /\ family[t] <= minted
    /\ \A t \in Ids : t \in present \cup used \cup revoked => family[t] # 0
    /\ \A t \in Ids : family[t] # 0 /\ t \notin present => expires[t] + Grace < now
    /\ \A t \in Ids : lock[t] # NoWorker => t \in present

OneLive ==
    \A s, t \in Ids : Live(s) /\ Live(t) /\ family[s] = family[t] => s = t

(* A successor minted for a request is no row yet.                         *)
SuccessorInv(w) ==
    /\ succ[w] # 0 => succ[w] <= minted /\ family[succ[w]] = 0
    /\ pc[w] \in Presenting =>
          succ[w] # 0 /\ arg[w] # 0 /\ family[arg[w]] # 0

(* The verdict reached under the row lock stands until the commit.         *)
RotationInv(w) ==
    pc[w] = "rotating" =>
        /\ arg[w] \in present /\ arg[w] \notin used /\ arg[w] \notin revoked
        /\ lock[arg[w]] = w

(* Every row a revocation is to end is gone, revoked, still to be visited  *)
(* or locked by it.                                                        *)
RevocationInv(w) ==
    /\ pc[w] = "reuse" =>
          /\ arg[w] \in present /\ lock[arg[w]] = w
          /\ \A x \in doomed[w] : family[x] = family[arg[w]]
    /\ pc[w] \in Revoking =>
          \A x \in doomed[w] : x \notin present \/ x \in revoked
                                 \/ x \in targets[w] \/ lock[x] = w
    /\ \A x \in doomed[w] : family[x] # 0

(* A request holds no lock before it has the presented row's, nor once it  *)
(* is answered.                                                            *)
HolderInv(w) ==
    pc[w] \in {"idle", "locking"} => \A x \in Ids : lock[x] # w

WorkerInv(w) ==
    SuccessorInv(w) /\ RotationInv(w) /\ RevocationInv(w) /\ HolderInv(w)

(* No two requests were given the same successor.                          *)
Distinct ==
    \A v, w \in Workers : succ[v] = succ[w] /\ succ[v] # 0 => v = w

Inv ==
    /\ TypeOK /\ TableInv /\ OneLive /\ Distinct
    /\ \A w \in Workers : WorkerInv(w)

-----------------------------------------------------------------------------
(* Types.                                                                  *)

(* Ids and families are numbers, and so are the times.                     *)
LEMMA Numbers ==
    ASSUME TypeOK
    PROVE  /\ \A x \in Ids \cup {0} : x \in Nat
           /\ \A t \in Ids : t \in Nat /\ family[t] \in Nat /\ expires[t] + Grace \in Nat
<1>1. \A x \in Ids \cup {0} : x \in Nat
  BY TokenAssumption
<1>2. \A t \in Ids : family[t] \in Ids \cup {0} /\ expires[t] \in Nat
  BY Zenon DEF TypeOK
<1>3. \A n \in Nat : n + Grace \in Nat
  BY TokenAssumption
<1> QED
  BY <1>1, <1>2, <1>3, Zenon

(* The request is answered and its locks are released.                     *)
LEMMA AnswerType ==
    ASSUME TypeOK, NEW w \in Workers, Answer(w)
    PROVE  /\ pc' \in [Workers -> PCs]
           /\ arg' \in [Workers -> Ids \cup {0}]
           /\ succ' \in [Workers -> Ids \cup {0}]
           /\ targets' \in [Workers -> SUBSET Ids]
           /\ doomed' \in [Workers -> SUBSET Ids]
<1>1. "idle" \in PCs
  BY Zenon DEF PCs
<1> QED
  BY <1>1, Zenon DEF TypeOK, Answer, Goes

(* Releasing leaves a lock table.                                          *)
LEMMA ReleaseType ==
    ASSUME TypeOK, NEW w \in Workers, Release(w)
    PROVE  lock' \in [Ids -> Workers \cup {NoWorker}]
BY Zenon DEF TypeOK, Release

(* Taking a lock leaves a lock table.                                      *)
LEMMA LockType ==
    ASSUME TypeOK, NEW w \in Workers, NEW t \in Ids, Lock(w, t)
    PROVE  lock' \in [Ids -> Workers \cup {NoWorker}]
BY Zenon DEF TypeOK, Lock

(* An INSERT keeps the columns' types.                                     *)
LEMMA InsertType ==
    ASSUME TypeOK, NEW t \in Ids, NEW f \in Ids \cup {0}, NEW u \in Users, Insert(t, f, u)
    PROVE  /\ present' \subseteq Ids
           /\ family' \in [Ids -> Ids \cup {0}]
           /\ owner' \in [Ids -> Users]
           /\ expires' \in [Ids -> Nat]
<1>1. now + TTL \in Nat
  BY TokenAssumption DEF TypeOK
<1> QED
  BY <1>1, Zenon DEF TypeOK, Insert

(* Every statement keeps the types of the table and of the requests.       *)
LEMMA StepType ==
    Inv /\ [Next]_vars => TypeOK'
<1> SUFFICES ASSUME Inv, [Next]_vars PROVE TypeOK'
  BY Zenon
<1> USE DEF Inv
<1>1. ASSUME NEW u \in Users, CreateRefreshToken(u)
      PROVE  TypeOK'
  <2>1. minted' \in Nat
    BY <1>1, TokenAssumption, Zenon DEF CreateRefreshToken
  <2>2. Insert(minted + 1, minted + 1, u) /\ minted + 1 \in Ids
    BY <1>1, Zenon DEF CreateRefreshToken
  <2> QED
    BY <1>1, <2>1, <2>2, InsertType, Zenon DEF CreateRefreshToken, TypeOK, worker
<1>2. ASSUME NEW w \in Workers, NEW t \in Ids, Refresh(w, t)
      PROVE  TypeOK'
  <2>1. minted' \in Nat /\ requests' \in Nat /\ "locking" \in PCs
    BY <1>2 DEF Refresh, Request, TypeOK, PCs
  <2> QED
    BY <1>2, <2>1, Zenon DEF Refresh, Goes, TypeOK, table
<1>3. ASSUME NEW w \in Workers, NEW S \in SUBSET Ids, StartRevoking(w, S)
      PROVE  TypeOK'
  <2>1. requests' \in Nat /\ "revoking" \in PCs /\ Unrevoked(S) \in SUBSET Ids
    BY <1>3 DEF StartRevoking, Request, TypeOK, PCs, Revoking, Unrevoked
  <2> QED
    BY <1>3, <2>1, Zenon DEF StartRevoking, Goes, TypeOK, table
<1>4. ASSUME NEW w \in Workers, NEW t \in Ids, RevokeFamilyByToken(w, t)
      PROVE  TypeOK'
  <2>1. FamilyOf(t) \in SUBSET Ids
    BY Zenon DEF FamilyOf, TypeOK
  <2> QED
    BY <1>3, <1>4, <2>1, Zenon DEF RevokeFamilyByToken
<1>5. ASSUME NEW w \in Workers, NEW u \in Users, RevokeAllForUser(w, u)
      PROVE  TypeOK'
  <2>1. {x \in present : owner[x] = u} \in SUBSET Ids
    BY Zenon DEF TypeOK
  <2> QED
    BY <1>3, <1>5, <2>1, Zenon DEF RevokeAllForUser
<1>6. ASSUME NEW w \in Workers, RejectPresented(w)
      PROVE  TypeOK'
  BY <1>6, AnswerType, ReleaseType, Zenon DEF RejectPresented, TypeOK, table
<1>7. ASSUME NEW w \in Workers, LockPresented(w)
      PROVE  TypeOK'
  <2>1. arg[w] \in Ids /\ Examined(arg[w]) \in PCs
    BY <1>7, Zenon DEF LockPresented, TypeOK, Examined, PCs
  <2>2. {x \in present : family[x] = family[arg[w]]} \in SUBSET Ids
    BY Zenon DEF TypeOK
  <2> QED
    BY <1>7, <2>1, <2>2, LockType, Zenon DEF LockPresented, Goes, TypeOK, table
<1>8. ASSUME NEW w \in Workers, CommitRotation(w)
      PROVE  TypeOK'
  <2>1. arg[w] \in Ids /\ succ[w] \in Ids /\ family[arg[w]] \in Ids \cup {0}
        /\ owner[arg[w]] \in Users
    BY <1>8, Zenon DEF CommitRotation, TypeOK, WorkerInv, SuccessorInv, Presenting
  <2>2. faults' \in Nat
    BY <1>8 DEF CommitRotation, Fault, TypeOK
  <2>3. used' \subseteq Ids
    BY <1>8, <2>1, Zenon DEF CommitRotation, TypeOK
  <2> QED
    BY <1>8, <2>1, <2>2, <2>3, AnswerType, ReleaseType, InsertType, Zenon
    DEF CommitRotation, TypeOK
<1>9. ASSUME NEW w \in Workers, RevokeReused(w)
      PROVE  TypeOK'
  <2>1. "reusing" \in PCs /\ Unrevoked(FamilyOf(arg[w])) \in SUBSET Ids
    BY Zenon DEF PCs, Revoking, Unrevoked, FamilyOf, TypeOK
  <2> QED
    BY <1>9, <2>1, Zenon DEF RevokeReused, Goes, TypeOK, table
<1>10. ASSUME NEW w \in Workers, RevokeRow(w)
       PROVE  TypeOK'
  <2>1. PICK x \in targets[w] :
           /\ targets' = [targets EXCEPT ![w] = @ \ {x}]
           /\ IF x \in Unrevoked({x}) THEN Lock(w, x) ELSE UNCHANGED lock
    BY <1>10, Zenon DEF RevokeRow
  <2>2. x \in Ids /\ targets' \in [Workers -> SUBSET Ids]
    BY <2>1, Zenon DEF TypeOK
  <2>3. lock' \in [Ids -> Workers \cup {NoWorker}]
    BY <2>1, <2>2, LockType, Zenon DEF TypeOK
  <2> QED
    BY <1>10, <2>2, <2>3, Zenon DEF RevokeRow, TypeOK, table
<1>11. ASSUME NEW w \in Workers, CommitRevocation(w)
       PROVE  TypeOK'
  <2>1. faults' \in Nat /\ revoked' \subseteq Ids
    BY <1>11 DEF CommitRevocation, Fault, TypeOK, Locked
  <2> QED
    BY <1>11, <2>1, AnswerType, ReleaseType, Zenon DEF CommitRevocation, TypeOK
<1>12. ASSUME NEW w \in Workers, Abort(w), faults' \in Nat
       PROVE  TypeOK'
  BY <1>12, AnswerType, ReleaseType, Zenon DEF Abort, TypeOK, table
<1>13. ASSUME NEW w \in Workers, Fail(w) \/ DeadlockVictim(w)
       PROVE  TypeOK'
  <2>1. faults' \in Nat
    BY <1>13 DEF Fail, DeadlockVictim, Fault, TypeOK
  <2> QED
    BY <1>12, <1>13, <2>1, Zenon DEF Fail, DeadlockVictim
<1>14. CASE DeleteExpiredRefreshTokens
  BY <1>14, Zenon DEF DeleteExpiredRefreshTokens, TypeOK, worker
<1>15. CASE Tick
  <2>1. now' \in Nat
    BY <1>15 DEF Tick, TypeOK
  <2> QED
    BY <1>15, <2>1, Zenon DEF Tick, TypeOK, table, worker
<1>16. CASE UNCHANGED vars
  BY <1>16, Zenon DEF TypeOK, vars, table, worker
<1> QED
  BY <1>1, <1>2, <1>4, <1>5, <1>6, <1>7, <1>8, <1>9, <1>10, <1>11, <1>13, <1>14,
     <1>15, <1>16, ZenonT(40) DEF Next, Step

-----------------------------------------------------------------------------
(* What a step of request w (of none, if w is NoWorker) leaves alone.      *)

(* The other requests, their locks included.                               *)
Others(w) ==
    \A v \in Workers \ {w} :
        /\ pc'[v] = pc[v] /\ arg'[v] = arg[v] /\ succ'[v] = succ[v]
        /\ targets'[v] = targets[v] /\ doomed'[v] = doomed[v]
        /\ \A x \in Ids : lock'[x] = v <=> lock[x] = v

(* Rows that exist: their identity and expiry are fixed, a pruned row does *)
(* not return, a locked row is not pruned, and only the holder of a row's  *)
(* lock sets its columns.                                                  *)
RowsKept(w) ==
    /\ minted <= minted' /\ now <= now'
    /\ \A x \in Ids :
          /\ family[x] # 0 =>
                /\ family'[x] = family[x] /\ expires'[x] = expires[x]
                /\ x \in present' => x \in present
          /\ family[x] = 0 /\ family'[x] # 0 =>
                minted < x \/ (w \in Workers /\ x = succ[w])
          /\ x \in present /\ lock[x] # NoWorker => x \in present'
          /\ x \in used => x \in used'
          /\ x \in revoked => x \in revoked'
          /\ x \in used' /\ x \notin used => lock[x] = w /\ w # NoWorker
          /\ x \in revoked' /\ x \notin revoked => lock[x] = w /\ w # NoWorker

(* So a step of one request keeps what every other one relies on.          *)
LEMMA OthersKeep ==
    ASSUME Inv, TypeOK', NEW w \in Workers \cup {NoWorker}, Others(w), RowsKept(w),
           NEW v \in Workers \ {w}
    PROVE  WorkerInv(v)'
<1>1. TypeOK /\ TableInv /\ WorkerInv(v) /\ v # NoWorker /\ Ids \subseteq Nat \ {0}
  BY TokenAssumption, Zenon DEF Inv
<1>2. /\ pc'[v] = pc[v] /\ arg'[v] = arg[v] /\ succ'[v] = succ[v]
      /\ targets'[v] = targets[v] /\ doomed'[v] = doomed[v]
      /\ \A x \in Ids : lock'[x] = v <=> lock[x] = v
  BY Zenon DEF Others
<1>3. arg[v] \in Ids \cup {0} /\ succ[v] \in Ids \cup {0} /\ doomed[v] \subseteq Ids
  BY <1>1 DEF TypeOK
<1>7. minted \in Nat /\ minted' \in Nat /\ succ[v] \in Nat
  <2>1. minted \in Nat /\ minted' \in Nat
    BY <1>1, Zenon DEF TypeOK
  <2> QED
    BY <1>1, <1>3, <2>1, Numbers, Zenon
<1>4. SuccessorInv(v)'
  <2>1. succ[v] # 0 => succ[v] <= minted'
    <3>1. minted <= minted' /\ (succ[v] # 0 => succ[v] <= minted)
      BY <1>1, Zenon DEF WorkerInv, SuccessorInv, RowsKept
    <3> QED
      BY <1>7, <3>1
  <2>2. succ[v] # 0 => family'[succ[v]] = 0
    <3> SUFFICES ASSUME succ[v] # 0, family'[succ[v]] # 0 PROVE FALSE
      BY Zenon
    <3>1. succ[v] \in Ids /\ family[succ[v]] = 0 /\ succ[v] <= minted
      BY <1>1, <1>3, Zenon DEF WorkerInv, SuccessorInv
    <3>2. minted < succ[v] \/ (w \in Workers /\ succ[v] = succ[w])
      BY <3>1, Zenon DEF RowsKept
    <3>3. ~(minted < succ[v])
      BY <1>7, <3>1
    <3> QED
      BY <3>2, <3>3, Zenon DEF Inv, Distinct
  <2>3. pc[v] \in Presenting => family'[arg[v]] # 0
    BY <1>1, <1>3, Zenon DEF WorkerInv, SuccessorInv, RowsKept
  <2> QED
    BY <1>1, <1>2, <2>1, <2>2, <2>3, Zenon DEF WorkerInv, SuccessorInv
<1>5. RotationInv(v)'
  <2> SUFFICES ASSUME pc[v] = "rotating"
               PROVE  /\ arg[v] \in present' /\ arg[v] \notin used' /\ arg[v] \notin revoked'
                      /\ lock'[arg[v]] = v
    BY <1>2, Zenon DEF RotationInv
  <2>1. /\ arg[v] \in present /\ arg[v] \notin used /\ arg[v] \notin revoked
        /\ lock[arg[v]] = v /\ arg[v] \in Ids
    BY <1>1, Zenon DEF WorkerInv, RotationInv, TypeOK
  <2> QED
    BY <1>1, <1>2, <2>1, Zenon DEF RowsKept
<1>6. RevocationInv(v)'
  <2>1. \A x \in doomed[v] : x \in Ids /\ family[x] # 0 /\ family'[x] = family[x]
                              /\ (x \in present' => x \in present)
                              /\ (x \in revoked => x \in revoked')
    BY <1>1, <1>3, Zenon DEF WorkerInv, RevocationInv, RowsKept
  <2>2. pc[v] = "reuse" =>
           /\ arg[v] \in present' /\ lock'[arg[v]] = v
           /\ \A x \in doomed[v] : family'[x] = family'[arg[v]]
    <3> SUFFICES ASSUME pc[v] = "reuse"
                 PROVE  /\ arg[v] \in present' /\ lock'[arg[v]] = v
                        /\ family'[arg[v]] = family[arg[v]]
      BY <1>1, <2>1, Zenon DEF WorkerInv, RevocationInv
    <3>1. arg[v] \in present /\ lock[arg[v]] = v /\ arg[v] \in Ids /\ family[arg[v]] # 0
      BY <1>1, Zenon DEF WorkerInv, RevocationInv, TableInv, TypeOK
    <3> QED
      BY <1>1, <1>2, <3>1, Zenon DEF RowsKept
  <2>3. pc[v] \in Revoking =>
           \A x \in doomed[v] : x \notin present' \/ x \in revoked'
                                 \/ x \in targets[v] \/ lock'[x] = v
    BY <1>1, <1>2, <2>1, Zenon DEF WorkerInv, RevocationInv
  <2> QED
    BY <1>2, <2>1, <2>2, <2>3, Zenon DEF RevocationInv
<1>8. HolderInv(v)'
  BY <1>1, <1>2, Zenon DEF WorkerInv, HolderInv
<1> QED
  BY <1>4, <1>5, <1>6, <1>8, Zenon DEF WorkerInv

(* And no live token appears in a family, unless it is inserted.           *)
LEMMA OneLiveKept ==
    ASSUME Inv, TypeOK', NEW w, RowsKept(w), present' \subseteq present
    PROVE  OneLive'
<1>1. ASSUME NEW t \in Ids, Live(t)'
      PROVE  Live(t) /\ family'[t] = family[t]
  BY <1>1, Zenon DEF Live, RowsKept, Inv, TableInv
<1> QED
  BY <1>1, Zenon DEF Inv, OneLive

(* Answering leaves every other request alone.                             *)
LEMMA AnswerOthers ==
    ASSUME TypeOK, NEW w \in Workers, Answer(w), Release(w)
    PROVE  /\ Others(w)
           /\ \A x \in Ids : lock'[x] # NoWorker => lock'[x] = lock[x]
           /\ \A x \in Ids : lock'[x] # w
           /\ pc'[w] = "idle" /\ succ'[w] = 0 /\ doomed'[w] = {}
BY TokenAssumption DEF Others, Answer, Goes, Release, TypeOK

(* An answered request promises nothing.                                   *)
LEMMA IdleKeeps ==
    ASSUME NEW w \in Workers, pc'[w] = "idle", succ'[w] = 0, doomed'[w] = {},
           \A x \in Ids : lock'[x] # w
    PROVE  WorkerInv(w)'
BY Zenon DEF WorkerInv, SuccessorInv, RotationInv, RevocationInv, HolderInv, Presenting, Revoking

(* No successor is shared while requests are only dropped.                 *)
LEMMA DistinctKept ==
    ASSUME Distinct, NEW w, \A v \in Workers \ {w} : succ'[v] = succ[v],
           w \in Workers => succ'[w] \in {0, succ[w]}
    PROVE  Distinct'
BY Zenon DEF Distinct

(* So answering a request keeps what all of them rely on.                  *)
LEMMA AnswerKeeps ==
    ASSUME Inv, NEW w \in Workers, Answer(w), Release(w)
    PROVE  /\ Others(w) /\ WorkerInv(w)' /\ Distinct'
           /\ \A x \in Ids : lock'[x] # NoWorker => lock'[x] = lock[x]
<1>1. /\ Others(w)
      /\ \A x \in Ids : lock'[x] # NoWorker => lock'[x] = lock[x]
      /\ \A x \in Ids : lock'[x] # w
      /\ pc'[w] = "idle" /\ succ'[w] = 0 /\ doomed'[w] = {}
  BY AnswerOthers, Zenon DEF Inv
<1>2. WorkerInv(w)'
  BY <1>1, IdleKeeps, Zenon
<1>3. Distinct'
  BY <1>1, DistinctKept, Zenon DEF Others, Inv
<1> QED
  BY <1>1, <1>2, <1>3, Zenon

-----------------------------------------------------------------------------
(* The steps of the requests.                                              *)

(* A step keeps the invariant if it keeps its own request's promises.      *)
LEMMA StepKeeps ==
    ASSUME Inv, TypeOK', NEW w \in Workers \cup {NoWorker}, Others(w), RowsKept(w),
           w \in Workers => WorkerInv(w)', TableInv', OneLive', Distinct'
    PROVE  Inv'
<1>1. \A v \in Workers \ {w} : WorkerInv(v)'
  BY OthersKeep, Zenon
<1> QED
  BY <1>1, Zenon DEF Inv

(* Steps that write no row.                                                *)
LEMMA TableFrame ==
    ASSUME Inv, TypeOK', UNCHANGED table, minted <= minted', now <= now', NEW w,
           \A x \in Ids : lock'[x] # NoWorker => lock'[x] = lock[x] \/ x \in present
    PROVE  RowsKept(w) /\ TableInv' /\ OneLive'
<1> USE DEF Inv
<1>1. RowsKept(w)
  BY Zenon DEF RowsKept, table
<1>2. TableInv'
  <2>1. \A n \in Nat : n <= minted => n <= minted'
    BY DEF TypeOK
  <2>2. \A n \in Nat : n < now => n < now'
    BY DEF TypeOK
  <2>3. \A t \in Ids : t \in Nat /\ family[t] \in Nat /\ expires[t] + Grace \in Nat
    BY Numbers, Zenon
  <2>4. \A t \in Ids : family[t] # 0 => t <= minted' /\ family[t] <= minted'
    BY <2>1, <2>3, Zenon DEF TableInv
  <2>5. \A t \in Ids : family[t] # 0 /\ t \notin present => expires[t] + Grace < now'
    BY <2>2, <2>3, Zenon DEF TableInv
  <2> QED
    BY <2>4, <2>5, Zenon DEF TableInv, table
<1>3. OneLive'
  BY <1>1, OneLiveKept, Zenon DEF table
<1> QED
  BY <1>1, <1>2, <1>3, Zenon

(* A request that is answered without a write.                             *)
LEMMA AnswerStep ==
    ASSUME Inv, TypeOK', NEW w \in Workers, Answer(w), Release(w),
           UNCHANGED <<minted, table, now>>
    PROVE  Inv'
<1>1. /\ Others(w) /\ WorkerInv(w)' /\ Distinct'
      /\ \A x \in Ids : lock'[x] # NoWorker => lock'[x] = lock[x]
  BY AnswerKeeps, Zenon
<1>2. minted <= minted' /\ now <= now'
  BY DEF Inv, TypeOK
<1>3. RowsKept(w) /\ TableInv' /\ OneLive'
  BY <1>1, <1>2, TableFrame, Zenon
<1> QED
  BY <1>1, <1>3, StepKeeps, Zenon

(* Refresh mints a number nobody has.                                      *)
LEMMA RefreshStep ==
    ASSUME Inv, TypeOK', NEW w \in Workers, NEW t \in Ids, Refresh(w, t)
    PROVE  Inv'
<1> USE DEF Inv
<1>1. /\ pc'[w] = "locking" /\ arg'[w] = t /\ succ'[w] = minted + 1
      /\ doomed'[w] = doomed[w] /\ lock' = lock /\ Others(w)
  BY ZenonT(40) DEF Refresh, Goes, Others, TypeOK
<1>2. minted \in Nat /\ minted' = minted + 1 /\ minted + 1 \in Ids /\ now \in Nat
  BY Zenon DEF Refresh, TypeOK
<1>3. RowsKept(w) /\ TableInv' /\ OneLive'
  <2>1. minted <= minted' /\ now <= now'
    BY <1>2 DEF Refresh
  <2> QED
    BY <1>1, <2>1, TableFrame, Zenon DEF Refresh
<1>4. family[minted + 1] = 0
  <2>1. ~(minted + 1 <= minted)
    BY <1>2
  <2> QED
    BY <1>2, <2>1, Zenon DEF TableInv
<1>5. WorkerInv(w)'
  <2>1. WorkerInv(w) /\ family' = family /\ minted + 1 # 0 /\ t # 0
    BY <1>2, TokenAssumption, Zenon DEF Refresh, table
  <2>2. SuccessorInv(w)'
    BY <1>1, <1>2, <1>4, <2>1 DEF SuccessorInv, Refresh
  <2>3. HolderInv(w)'
    BY <1>1, <2>1, Zenon DEF WorkerInv, HolderInv, Refresh, Request
  <2> QED
    BY <1>1, <2>1, <2>2, <2>3, Zenon DEF WorkerInv, RotationInv, RevocationInv, Revoking
<1>6. Distinct'
  <2>1. \A v \in Workers : succ[v] # minted + 1
    <3>1. \A v \in Workers : succ[v] # 0 => succ[v] <= minted
      BY Zenon DEF WorkerInv, SuccessorInv
    <3>2. ~(minted + 1 <= minted) /\ minted + 1 # 0
      BY <1>2
    <3> QED
      BY <3>1, <3>2, Zenon
  <2> QED
    BY <1>1, <2>1 DEF Distinct, Others
<1> QED
  BY <1>1, <1>3, <1>5, <1>6, StepKeeps, Zenon

(* A revocation sets out with every unrevoked row it is to end.            *)
LEMMA StartStep ==
    ASSUME Inv, TypeOK', NEW w \in Workers, NEW S \in SUBSET present, StartRevoking(w, S)
    PROVE  Inv'
<1> USE DEF Inv
<1>1. /\ pc'[w] = "revoking" /\ targets'[w] = Unrevoked(S) /\ doomed'[w] = S
      /\ succ' = succ /\ lock' = lock /\ Others(w)
  BY DEF StartRevoking, Goes, Others, TypeOK
<1>2. minted <= minted' /\ now <= now' /\ UNCHANGED table /\ minted' = minted
  BY DEF StartRevoking, TypeOK
<1>3. RowsKept(w) /\ TableInv' /\ OneLive'
  BY <1>1, <1>2, TableFrame, Zenon
<1>4. WorkerInv(w)'
  <2>1. \A x \in S : x \in Ids /\ family[x] # 0
    BY Zenon DEF TableInv, TypeOK
  <2>2. RevocationInv(w)'
    BY <1>1, <1>2, <2>1, Zenon DEF RevocationInv, Unrevoked, table
  <2>3. SuccessorInv(w)'
    BY <1>1, <1>2, Zenon DEF WorkerInv, SuccessorInv, Presenting, table
  <2> QED
    BY <1>1, <2>2, <2>3, Zenon DEF WorkerInv, RotationInv, HolderInv
<1> QED
  BY <1>1, <1>3, <1>4, StepKeeps, Zenon DEF Distinct

(* The row is locked, and examined once locked.                            *)
LEMMA LockStep ==
    ASSUME Inv, TypeOK', NEW w \in Workers, LockPresented(w)
    PROVE  Inv'
<1> DEFINE t == arg[w]
<1> USE DEF Inv
<1>1. t \in present /\ t \in Ids /\ lock[t] = NoWorker /\ family[t] # 0
  BY Zenon DEF LockPresented, TypeOK, TableInv
<1>2. /\ pc'[w] = Examined(t) /\ arg'[w] = t /\ succ' = succ /\ targets' = targets
      /\ lock'[t] = w /\ \A x \in Ids \ {t} : lock'[x] = lock[x]
      /\ UNCHANGED table /\ minted' = minted /\ now' = now
  BY <1>1, Zenon DEF LockPresented, Goes, Lock, TypeOK
<1>3. doomed'[w] = IF Examined(t) = "reuse"
                     THEN {x \in present : family[x] = family[t]} ELSE {}
  BY Zenon DEF LockPresented, TypeOK
<1>4. Others(w)
  BY <1>1, <1>2, TokenAssumption DEF LockPresented, Goes, Others, TypeOK
<1>5. RowsKept(w) /\ TableInv' /\ OneLive'
  <2>1. minted <= minted' /\ now <= now'
    BY <1>2 DEF TypeOK
  <2> QED
    BY <1>1, <1>2, <2>1, TableFrame, Zenon
<1>6. WorkerInv(w)'
  <2>1. Examined(t) \in {"reuse", "rotating"}
    BY Zenon DEF LockPresented, Examined
  <2>2. Examined(t) = "rotating" => t \notin used /\ t \notin revoked
    BY Zenon DEF Examined
  <2>3. SuccessorInv(w)'
    BY <1>1, <1>2, Zenon DEF LockPresented, WorkerInv, SuccessorInv, Presenting, table
  <2>4. RotationInv(w)'
    BY <1>1, <1>2, <2>2, Zenon DEF RotationInv, table
  <2>5. RevocationInv(w)'
    BY <1>1, <1>2, <1>3, <2>1, ZenonT(40) DEF RevocationInv, Revoking, table
  <2>6. HolderInv(w)'
    BY <1>2, <2>1, Zenon DEF HolderInv
  <2> QED
    BY <2>3, <2>4, <2>5, <2>6, Zenon DEF WorkerInv
<1>7. Distinct'
  BY <1>2, Zenon DEF Distinct
<1> QED
  BY <1>4, <1>5, <1>6, <1>7, StepKeeps, Zenon

(* The UPDATE of a reuse finds what of the family is still unrevoked.      *)
LEMMA ReuseStep ==
    ASSUME Inv, TypeOK', NEW w \in Workers, RevokeReused(w)
    PROVE  Inv'
<1> USE DEF Inv
<1>1. /\ pc'[w] = "reusing" /\ targets'[w] = Unrevoked(FamilyOf(arg[w]))
      /\ UNCHANGED <<arg, succ, doomed, lock, table, minted, now>> /\ Others(w)
  BY ZenonT(40) DEF RevokeReused, Goes, Others, TypeOK
<1>2. RowsKept(w) /\ TableInv' /\ OneLive'
  <2>1. minted <= minted' /\ now <= now'
    BY <1>1 DEF TypeOK
  <2> QED
    BY <1>1, <2>1, TableFrame, Zenon
<1>3. WorkerInv(w)'
  <2>1. /\ WorkerInv(w) /\ pc[w] = "reuse" /\ arg[w] \in present
        /\ \A x \in doomed[w] : family[x] = family[arg[w]] /\ family[x] # 0
    BY Zenon DEF RevokeReused, WorkerInv, RevocationInv
  <2>2. SuccessorInv(w)' /\ RotationInv(w)'
    BY <1>1, <2>1, Zenon DEF WorkerInv, SuccessorInv, RotationInv, Presenting, table
  <2>3. RevocationInv(w)'
    BY <1>1, <2>1, Zenon DEF RevocationInv, Unrevoked, FamilyOf, table
  <2> QED
    BY <1>1, <2>2, <2>3, Zenon DEF WorkerInv, HolderInv
<1> QED
  BY <1>1, <1>2, <1>3, StepKeeps, Zenon DEF Distinct

(* A visited row is locked, or needs no revocation any more.               *)
LEMMA RevokeRowStep ==
    ASSUME Inv, TypeOK', NEW w \in Workers, RevokeRow(w)
    PROVE  Inv'
<1> USE DEF Inv
<1>1. PICK x \in targets[w] :
         /\ targets' = [targets EXCEPT ![w] = @ \ {x}]
         /\ IF x \in Unrevoked({x}) THEN Lock(w, x) ELSE UNCHANGED lock
  BY Zenon DEF RevokeRow
<1>2. x \in Ids /\ targets'[w] = targets[w] \ {x}
  BY <1>1, Zenon DEF TypeOK
<1>3. UNCHANGED <<pc, arg, succ, doomed, table, minted, now>>
  BY Zenon DEF RevokeRow
<1>4. /\ \A y \in Ids \ {x} : lock'[y] = lock[y]
      /\ lock'[x] # lock[x] => x \in present /\ lock'[x] = w /\ lock[x] = NoWorker
      /\ x \in present /\ x \notin revoked => lock'[x] = w
  BY <1>1, <1>2 DEF Unrevoked, Lock, TypeOK
<1>5. Others(w)
  BY <1>1, <1>2, <1>3, <1>4, TokenAssumption DEF Others, TypeOK
<1>6. RowsKept(w) /\ TableInv' /\ OneLive'
  <2>1. minted <= minted' /\ now <= now'
    BY <1>3 DEF TypeOK
  <2> QED
    BY <1>3, <1>4, <2>1, TableFrame, Zenon
<1>7. WorkerInv(w)'
  <2>1. WorkerInv(w) /\ pc[w] \in Revoking /\ w # NoWorker /\ doomed[w] \subseteq Ids
    BY TokenAssumption, ZenonT(40) DEF RevokeRow, TypeOK
  <2>2. SuccessorInv(w)' /\ RotationInv(w)'
    BY <1>3, <2>1, Zenon DEF WorkerInv, SuccessorInv, RotationInv, Revoking, table
  <2>3. RevocationInv(w)'
    <3>1. \A y \in doomed[w] : lock[y] = w => lock'[y] = w
      BY <1>4, <2>1, Zenon
    <3> QED
      BY <1>2, <1>3, <1>4, <2>1, <3>1, ZenonT(40) DEF WorkerInv, RevocationInv, Revoking, table
  <2>4. HolderInv(w)'
    BY <1>3, <2>1, Zenon DEF HolderInv, Revoking
  <2> QED
    BY <2>2, <2>3, <2>4, Zenon DEF WorkerInv
<1> QED
  BY <1>3, <1>5, <1>6, <1>7, StepKeeps, Zenon DEF Distinct

(* The winner's token is used and its successor inserted, in one commit.   *)
LEMMA RotationStep ==
    ASSUME Inv, TypeOK', NEW w \in Workers, CommitRotation(w)
    PROVE  Inv'
<1> DEFINE t == arg[w]
           n == succ[w]
<1> USE DEF Inv
<1>1. /\ Others(w) /\ WorkerInv(w)' /\ Distinct'
      /\ \A x \in Ids : lock'[x] # NoWorker => lock'[x] = lock[x]
  BY AnswerKeeps, Zenon DEF CommitRotation
<1>2. /\ Live(t) /\ t \in Ids /\ lock[t] = w /\ w # NoWorker /\ family[t] # 0
      /\ n \in Ids /\ n # 0 /\ n <= minted /\ family[n] = 0
  BY TokenAssumption
  DEF CommitRotation, WorkerInv, SuccessorInv, RotationInv, Presenting, TypeOK, Live
<1>3. n # t /\ n \notin present /\ n \notin used /\ n \notin revoked /\ lock[n] = NoWorker
  BY <1>2, Zenon DEF TableInv
<1>4. /\ present' = present \cup {n} /\ used' = used \cup {t} /\ revoked' = revoked
      /\ family'[n] = family[t] /\ minted' = minted /\ now' = now
      /\ \A x \in Ids \ {n} : family'[x] = family[x] /\ expires'[x] = expires[x]
  BY <1>2 DEF CommitRotation, Insert, TypeOK
<1>5. RowsKept(w)
  <2>1. minted <= minted' /\ now <= now'
    BY <1>4 DEF TypeOK
  <2> QED
    BY <1>2, <1>3, <1>4, <2>1, ZenonT(40) DEF RowsKept
<1>6. TableInv'
  <2>1. \A x \in Ids : family'[x] # 0 => x <= minted' /\ family'[x] <= minted'
    BY <1>2, <1>4, Zenon DEF TableInv
  <2>2. \A x \in Ids : x \in present' \cup used' \cup revoked' => family'[x] # 0
    <3>1. family'[n] # 0
      BY <1>2, <1>4, Zenon
    <3>2. \A x \in Ids \ {n} : x \in present' \cup used' \cup revoked' => family[x] # 0
      BY <1>2, <1>4, Zenon DEF TableInv
    <3> QED
      BY ONLY <1>4, <3>1, <3>2, Zenon
  <2>3. \A x \in Ids : family'[x] # 0 /\ x \notin present' => expires'[x] + Grace < now'
    BY <1>4, ZenonT(40) DEF TableInv
  <2>4. \A x \in Ids : lock'[x] # NoWorker => x \in present'
    BY <1>1, <1>4, Zenon DEF TableInv
  <2> QED
    BY <2>1, <2>2, <2>3, <2>4, Zenon DEF TableInv
<1>7. OneLive'
  <2>1. \A x \in Ids : Live(x)' => x = n \/ (Live(x) /\ x # t /\ family'[x] = family[x])
    BY <1>4, Zenon DEF Live
  <2>2. \A x \in Ids : Live(x) /\ x # t => family[x] # family[t]
    BY <1>2, Zenon DEF OneLive
  <2> QED
    BY <1>4, <2>1, <2>2, ZenonT(40) DEF OneLive
<1> QED
  BY <1>1, <1>5, <1>6, <1>7, StepKeeps, Zenon

(* A revocation writes the rows it has locked, and no other.               *)
LEMMA RevocationStep ==
    ASSUME Inv, TypeOK', NEW w \in Workers, CommitRevocation(w)
    PROVE  Inv'
<1> USE DEF Inv
<1>1. /\ Others(w) /\ WorkerInv(w)' /\ Distinct'
      /\ \A x \in Ids : lock'[x] # NoWorker => lock'[x] = lock[x]
  BY AnswerKeeps, Zenon DEF CommitRevocation
<1>2. /\ revoked' = revoked \cup Locked(w) /\ w # NoWorker
      /\ UNCHANGED <<minted, present, family, owner, expires, used, now>>
  BY TokenAssumption, Zenon DEF CommitRevocation
<1>3. RowsKept(w)
  <2>1. minted <= minted' /\ now <= now'
    BY <1>2 DEF TypeOK
  <2> QED
    BY <1>2, <2>1, Zenon DEF RowsKept, Locked
<1>4. TableInv'
  <2>1. \A x \in Locked(w) : x \in Ids /\ family[x] # 0
    BY <1>2, Zenon DEF Locked, TableInv
  <2> QED
    BY <1>1, <1>2, <2>1, Zenon DEF TableInv
<1> QED
  BY <1>1, <1>2, <1>3, <1>4, OneLiveKept, StepKeeps, Zenon

(* A login starts a family of its own.                                     *)
LEMMA CreateStep ==
    ASSUME Inv, TypeOK', NEW u \in Users, CreateRefreshToken(u)
    PROVE  Inv'
<1> DEFINE n == minted + 1
<1> USE DEF Inv
<1>1. /\ n \in Ids /\ n \in Nat /\ minted \in Nat /\ now \in Nat /\ ~(n <= minted)
      /\ minted < n /\ n # 0 /\ minted <= n /\ now <= now
  BY DEF CreateRefreshToken, TypeOK
<1>2. /\ present' = present \cup {n} /\ minted' = n /\ family'[n] = n
      /\ \A x \in Ids \ {n} : family'[x] = family[x] /\ expires'[x] = expires[x]
      /\ UNCHANGED <<used, revoked, lock, pc, arg, succ, targets, doomed, now>>
  BY <1>1 DEF CreateRefreshToken, Insert, TypeOK, worker
<1>3. family[n] = 0 /\ \A x \in Ids : family[x] # n
  BY <1>1, Zenon DEF TableInv
<1>4. Others(NoWorker)
  BY <1>2, Zenon DEF Others
<1>5. RowsKept(NoWorker)
  <2>1. minted <= minted' /\ now <= now'
    BY <1>1, <1>2, Zenon
  <2> QED
    BY <1>1, <1>2, <1>3, <2>1, Zenon DEF RowsKept
<1>6. TableInv'
  <2>1. \A x \in Ids : family'[x] # 0 => x <= n /\ family'[x] <= n
    <3>1. \A m \in Nat : m <= minted => m <= n
      BY <1>1
    <3>2. \A x \in Ids \ {n} : family[x] # 0 => x <= n /\ family[x] <= n
      BY <3>1, Numbers, Zenon DEF TableInv
    <3>3. n <= n
      BY <1>1
    <3> HIDE DEF n
    <3> QED
      BY <1>2, <3>2, <3>3, Zenon
  <2>2. \A x \in Ids : x \in present' \cup used' \cup revoked' => family'[x] # 0
    BY <1>1, <1>2, Zenon DEF TableInv
  <2>3. \A x \in Ids : family'[x] # 0 /\ x \notin present' => expires'[x] + Grace < now'
    BY <1>2, Zenon DEF TableInv
  <2>4. \A x \in Ids : lock'[x] # NoWorker => x \in present'
    BY <1>2, Zenon DEF TableInv
  <2> QED
    BY <1>2, <2>1, <2>2, <2>3, <2>4, Zenon DEF TableInv
<1>7. OneLive'
  <2>1. \A x \in Ids : Live(x)' => x = n \/ (Live(x) /\ family'[x] = family[x])
    BY <1>2, Zenon DEF Live
  <2> QED
    BY <1>2, <1>3, <2>1, Zenon DEF OneLive
<1>8. Distinct'
  BY <1>2, Zenon DEF Distinct
<1> QED
  BY <1>4, <1>5, <1>6, <1>7, <1>8, TokenAssumption, StepKeeps, ZenonT(40)

(* Only unlocked rows, Grace past their expiry, are pruned.                *)
LEMMA PruneStep ==
    ASSUME Inv, TypeOK', DeleteExpiredRefreshTokens
    PROVE  Inv'
<1> USE DEF Inv
<1>1. PICK S \in SUBSET Prunable : present' = present \ S
  BY Zenon DEF DeleteExpiredRefreshTokens
<1>2. /\ \A x \in S : expires[x] + Grace < now /\ lock[x] = NoWorker
      /\ UNCHANGED <<minted, family, expires, used, revoked, lock, pc, arg, succ,
                     targets, doomed, now>>
  BY Zenon DEF DeleteExpiredRefreshTokens, Prunable, worker
<1>3. Others(NoWorker) /\ Distinct'
  BY <1>2, Zenon DEF Others, Distinct
<1>4. RowsKept(NoWorker)
  <2>1. minted <= minted' /\ now <= now'
    BY <1>2 DEF TypeOK
  <2> QED
    BY <1>1, <1>2, <2>1, Zenon DEF RowsKept
<1>5. TableInv'
  BY <1>1, <1>2, Zenon DEF TableInv
<1> QED
  BY <1>1, <1>3, <1>4, <1>5, OneLiveKept, TokenAssumption, StepKeeps, Zenon

(* Time passes.                                                            *)
LEMMA QuietStep ==
    ASSUME Inv, TypeOK', now <= now', UNCHANGED <<minted, table, lock, worker>>
    PROVE  Inv'
<1>1. Others(NoWorker) /\ Distinct'
  BY Zenon DEF Others, Distinct, worker, Inv
<1>2. minted <= minted'
  BY DEF Inv, TypeOK
<1>3. RowsKept(NoWorker) /\ TableInv' /\ OneLive'
  BY <1>2, TableFrame, Zenon
<1> QED
  BY <1>1, <1>3, TokenAssumption, StepKeeps, Zenon

-----------------------------------------------------------------------------
(* Theorems.                                                               *)

(* An empty table and idle requests.                                       *)
LEMMA InitInv == Init => Inv
<1> SUFFICES ASSUME Init PROVE Inv
  BY Zenon
<1>1. TypeOK
  BY Zenon DEF Init, TypeOK, PCs
<1>2. TableInv /\ OneLive /\ Distinct
  BY Zenon DEF Init, TableInv, OneLive, Live, Distinct
<1>3. \A w \in Workers : WorkerInv(w)
  BY TokenAssumption, Zenon
  DEF Init, WorkerInv, SuccessorInv, RotationInv, RevocationInv, HolderInv, Presenting,
      Revoking
<1> QED
  BY <1>1, <1>2, <1>3, Zenon DEF Inv

(* Every step of every request, and of the retention worker, keeps it.     *)
LEMMA InvStep == Inv /\ [Next]_vars => Inv'
<1> SUFFICES ASSUME Inv, [Next]_vars PROVE Inv'
  BY Zenon
<1>0. TypeOK'
  BY StepType, Zenon
<1>1. ASSUME NEW u \in Users, CreateRefreshToken(u)
      PROVE  Inv'
  BY <1>0, <1>1, CreateStep, Zenon
<1>2. ASSUME NEW w \in Workers, NEW t \in Ids, Refresh(w, t)
      PROVE  Inv'
  BY <1>0, <1>2, RefreshStep, Zenon
<1>3. ASSUME NEW w \in Workers, NEW t \in Ids, RevokeFamilyByToken(w, t)
      PROVE  Inv'
  <2>1. FamilyOf(t) \in SUBSET present
    BY Zenon DEF FamilyOf
  <2> QED
    BY <1>0, <1>3, <2>1, StartStep, Zenon DEF RevokeFamilyByToken
<1>4. ASSUME NEW w \in Workers, NEW u \in Users, RevokeAllForUser(w, u)
      PROVE  Inv'
  BY <1>0, <1>4, StartStep, Zenon DEF RevokeAllForUser
<1>5. ASSUME NEW w \in Workers, Fail(w) \/ DeadlockVictim(w) \/ RejectPresented(w)
      PROVE  Inv'
  BY <1>0, <1>5, AnswerStep, Zenon DEF Fail, DeadlockVictim, RejectPresented, Abort
<1>6. ASSUME NEW w \in Workers, Step(w)
      PROVE  Inv'
  BY <1>0, <1>5, <1>6, LockStep, RotationStep, ReuseStep, RevokeRowStep, RevocationStep, Zenon
  DEF Step
<1>7. CASE DeleteExpiredRefreshTokens
  BY <1>0, <1>7, PruneStep, Zenon
<1>8. CASE Tick \/ UNCHANGED vars
  <2>1. now <= now'
    BY <1>8 DEF Tick, vars, Inv, TypeOK
  <2> QED
    BY <1>0, <1>8, <2>1, QuietStep, Zenon DEF Tick, vars
<1> QED
  BY <1>1, <1>2, <1>3, <1>4, <1>5, <1>6, <1>7, <1>8, Zenon DEF Next

(* The invariant of the refresh tokens.                                    *)
THEOREM Invariance == Spec => []Inv
<1>1. Init => Inv
  BY InitInv, Zenon
<1>2. Inv /\ [Next]_vars => Inv'
  BY InvStep, Zenon
<1> QED
  BY <1>1, <1>2, PTL DEF Spec

(* ConsumeRefreshToken elects one winner: no number of concurrent requests *)
(* leaves two live tokens in a family.                                     *)
THEOREM OneWinner == Spec => []OneLiveTokenPerFamily
<1>1. Inv => OneLiveTokenPerFamily
  BY Zenon DEF Inv, OneLive, OneLiveTokenPerFamily
<1> QED
  BY <1>1, Invariance, PTL

(* markUsed only ever marks a row that is there and not revoked: what the  *)
(* transaction saw under FOR UPDATE still holds when it commits.           *)
THEOREM ValidExchange == Spec => ExchangesAreValid
<1>1. Inv /\ [Next]_vars
        => [\A t \in used' \ used : t \in present /\ t \notin revoked]_vars
  <2> SUFFICES ASSUME Inv, Next, NEW t \in used' \ used
               PROVE  t \in present /\ t \notin revoked
    BY Zenon DEF vars
  <2>1. PICK w \in Workers : CommitRotation(w)
    BY Zenon DEF Next, Step, CreateRefreshToken, Refresh, RevokeFamilyByToken, RevokeAllForUser,
           StartRevoking, RejectPresented, LockPresented, RevokeReused, RevokeRow,
           CommitRevocation, DeadlockVictim, Fail, Abort, DeleteExpiredRefreshTokens,
           Tick, table
  <2> QED
    BY <2>1, Zenon DEF CommitRotation, Inv, WorkerInv, RotationInv
<1> QED
  BY <1>1, Invariance, PTL DEF Spec, ExchangesAreValid

(* A used token is refused as unknown only when its row has been pruned,   *)
(* Grace after its expiry; until then it is reported as a reuse.           *)
THEOREM ReuseDetected == Spec => ReuseIsDetected
<1>1. Inv => [\A w \in Workers :
                RejectPresented(w) /\ arg[w] \in used
                  => expires[arg[w]] + Grace < now]_vars
  <2> SUFFICES ASSUME Inv, NEW w \in Workers, RejectPresented(w), arg[w] \in used
               PROVE  expires[arg[w]] + Grace < now
    BY Zenon
  <2>1. arg[w] \in Ids /\ arg[w] \notin present /\ family[arg[w]] # 0
    BY Zenon DEF RejectPresented, Examined, Inv, TypeOK, TableInv
  <2> QED
    BY <2>1, Zenon DEF Inv, TableInv
<1> QED
  BY <1>1, Invariance, PTL DEF ReuseIsDetected

(* A revocation that answers has ended every row it set out to end, rows   *)
(* that others rotated, revoked or pruned meanwhile included.              *)
THEOREM CompleteRevocation == Spec => RevocationIsComplete
<1> DEFINE Complete(w) ==
        pc[w] \in Revoking /\ targets[w] = {} /\ pc'[w] = "idle" /\ faults' = faults
          => doomed[w] \cap present' \subseteq revoked'
<1>1. Inv /\ [Next]_vars => [\A w \in Workers : Complete(w)]_vars
  <2> SUFFICES ASSUME Inv, Next, NEW w \in Workers, pc[w] \in Revoking, targets[w] = {},
                      pc'[w] = "idle", faults' = faults
               PROVE  doomed[w] \cap present' \subseteq revoked'
    BY Zenon DEF vars
  <2>1. faults \in Nat /\ faults + 1 # faults /\ pc[w] # "idle" /\ pc \in [Workers -> PCs]
    BY DEF Inv, TypeOK, Revoking
  <2>2. ~Fail(w)
    BY <2>1, Zenon DEF Fail, Fault
  <2>3. ~DeadlockVictim(w)
    <3> SUFFICES ASSUME DeadlockVictim(w) PROVE FALSE
      BY Zenon
    <3>1. PICK u : WaitsFor(w, u)
      BY Zenon DEF DeadlockVictim, Deadlocked
    <3>2. Wanted(w) = {}
      BY Zenon DEF Wanted, Unrevoked, Revoking
    <3> QED
      BY <3>1, <3>2, Zenon DEF WaitsFor
  <2>4. ~RejectPresented(w) /\ ~CommitRotation(w)
    BY Zenon DEF RejectPresented, CommitRotation, Revoking
  <2>5. CommitRevocation(w)
    <3>1. \A v \in Workers \ {w} : ~Answer(v)
      BY <2>1, Zenon DEF Answer, Goes
    <3>2. ~UNCHANGED pc
      BY <2>1, Zenon
    <3>3. \A v \in Workers, label \in {"locking", "revoking", "reusing"} : ~Goes(v, label)
      BY <2>1, Zenon DEF Goes
    <3>4. \A v \in Workers : ~LockPresented(v)
      <4> SUFFICES ASSUME NEW v \in Workers, LockPresented(v) PROVE FALSE
        BY Zenon
      <4>1. Examined(arg[v]) # "idle"
        BY Zenon DEF Examined
      <4> QED
        BY <2>1, <4>1, Zenon DEF LockPresented, Goes
    <3> QED
      BY <2>2, <2>3, <2>4, <3>1, <3>2, <3>3, <3>4, ZenonT(40)
      DEF Next, Step, CreateRefreshToken, Refresh, RevokeFamilyByToken, RevokeAllForUser,
          StartRevoking, RejectPresented, CommitRotation, RevokeReused, RevokeRow,
          CommitRevocation, DeadlockVictim, Fail, Abort, DeleteExpiredRefreshTokens,
          Tick, worker
  <2> QED
    BY <2>5, Zenon DEF CommitRevocation, Inv, WorkerInv, RevocationInv, Locked, TypeOK
<1> QED
  BY <1>1, Invariance, PTL DEF Spec, RevocationIsComplete

(* Whoever holds a lock that a request waits for is not answered either.   *)
LEMMA HoldersAreUnanswered ==
    ASSUME Inv, NEW v \in Workers, NEW u \in Workers, WaitsFor(v, u)
    PROVE  pc[u] # "idle"
<1>1. Wanted(v) \subseteq Ids
  BY Zenon DEF Wanted, Unrevoked, Inv, TypeOK
<1> QED
  BY <1>1, Zenon DEF WaitsFor, Inv, WorkerInv, HolderInv

(* A request that cannot go on waits for a holder of a lock.               *)
LEMMA StuckWaits ==
    ASSUME Inv, NEW v \in Workers, pc[v] # "idle", ~CanGoOn(v)
    PROVE  \E u \in Workers : WaitsFor(v, u)
<1>1. \A u \in Workers, x \in Ids : lock[x] = u => pc[u] # "locking"
  BY Zenon DEF Inv, WorkerInv, HolderInv
<1>2. pc[v] \in PCs /\ \A x \in Ids : lock[x] \in Workers \cup {NoWorker}
  BY Zenon DEF Inv, TypeOK
<1>3. pc[v] = "locking" \/ pc[v] \in Revoking
  BY <1>2, Zenon DEF CanGoOn, PCs
<1>4. CASE pc[v] = "locking"
  <2>1. arg[v] \in present /\ arg[v] \in Ids /\ lock[arg[v]] # NoWorker
    BY <1>4, Zenon DEF CanGoOn, Inv, TypeOK
  <2>2. arg[v] \in Wanted(v)
    BY <1>4, <2>1, Zenon DEF Wanted
  <2> QED
    BY <1>1, <1>2, <1>4, <2>1, <2>2, Zenon DEF WaitsFor
<1>5. CASE pc[v] \in Revoking
  <2>1. PICK x \in targets[v] : x \in Unrevoked({x}) /\ lock[x] \notin {NoWorker, v}
    BY <1>5, Zenon DEF CanGoOn
  <2>2. x \in Ids /\ x \in Wanted(v)
    BY <1>5, <2>1, Zenon DEF Wanted, Unrevoked, Revoking, Inv, TypeOK
  <2> QED
    BY <1>2, <2>1, <2>2, Zenon DEF WaitsFor
<1> QED
  BY <1>3, <1>4, <1>5, Zenon

(* A set of requests that nobody waits out of: who is waited for from      *)
(* within it is in it.                                                     *)
Closed(S) == \A v \in S, u \in Workers : WaitsFor(v, u) => u \in S

(* Where each of finitely many requests waits for another of them, one is  *)
(* in a circle: any in a smallest closed set of them.                      *)
LEMMA CircleExists ==
    ASSUME NEW S \in SUBSET Workers, S # {}, Closed(S),
           \A v \in S : \E u \in Workers : WaitsFor(v, u)
    PROVE  \E w \in S : Deadlocked(w)
<1> DEFINE Family == {T \in SUBSET S : T # {} /\ Closed(T)}
<1>1. IsFiniteSet(S)
  BY FS_Subset, TokenAssumption, Zenon
<1>2. Family \subseteq FiniteSubsetsOf(S) /\ Family # {}
  BY <1>1, FS_Subset, Zenon DEF FiniteSubsetsOf
<1>3. PICK T \in Family : \A U \in Family : ~(<<U, T>> \in StrictSubsetOrdering(S))
  <2> HIDE DEF Family
  <2> QED
    BY <1>2, FS_StrictSubsetOrderingWellFounded, WFMin, Zenon
<1>4. PICK w \in T : w \in S
  BY <1>3, Zenon
<1>5. ASSUME NEW R \in SUBSET Workers,
             \A v \in R \cup {w}, u \in Workers : WaitsFor(v, u) => u \in R,
             w \notin R
      PROVE  FALSE
  <2>1. PICK u \in Workers : WaitsFor(w, u)
    BY <1>4, Zenon
  <2>2. u \in T \cap R
    BY <1>3, <1>4, <1>5, <2>1, Zenon DEF Closed
  <2>3. T \cap R \in Family
    BY <1>3, <1>5, <2>2, Zenon DEF Closed
  <2> QED
    BY <1>3, <1>4, <1>5, <2>3, Zenon DEF StrictSubsetOrdering
<1> QED
  BY <1>4, <1>5, Zenon DEF Deadlocked

(* Refreshes and revocations never all wait: if none of the unanswered     *)
(* requests could go on, they would wait for each other, some of them in a *)
(* circle, and PostgreSQL aborts one of those.                             *)
THEOREM NoStandstill == Spec => []SomebodyCanGoOn
<1>1. Inv => SomebodyCanGoOn
  <2> SUFFICES ASSUME Inv, NEW w \in Workers, pc[w] # "idle",
                      \A v \in Workers : ~CanGoOn(v)
               PROVE  FALSE
    BY Zenon DEF SomebodyCanGoOn
  <2> DEFINE S == {v \in Workers : pc[v] # "idle"}
  <2>1. S \in SUBSET Workers /\ S # {}
    BY Zenon
  <2>2. Closed(S)
    BY HoldersAreUnanswered, Zenon DEF Closed
  <2>3. \A v \in S : \E u \in Workers : WaitsFor(v, u)
    BY StuckWaits, Zenon
  <2>4. \E v \in S : Deadlocked(v)
    <3> HIDE DEF S
    <3> QED
      BY <2>1, <2>2, <2>3, CircleExists, Zenon
  <2> QED
    BY <2>4, Zenon DEF CanGoOn
<1> QED
  BY <1>1, Invariance, PTL
============================================================================
