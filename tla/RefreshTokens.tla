--------------------------- MODULE RefreshTokens ---------------------------
(***************************************************************************)
(* The refresh_tokens table and the requests that rotate, revoke and prune *)
(* it: AuthService.Refresh, Logout and RevokeAllSessions over              *)
(* RefreshTokenRepo, and the retention worker's deletes.                   *)
(*                                                                         *)
(* Transactions run at READ COMMITTED.  A row lock is waited for and the   *)
(* row then read as last committed; an UPDATE finds its rows as they were  *)
(* when the statement began, locks them one by one in no particular order  *)
(* and looks at each again once it has it.  Writes show at the commit.     *)
(***************************************************************************)
EXTENDS Naturals, FiniteSets

CONSTANTS
    Ids,         \* tokens that can be minted, numbered in order
    Users,
    Workers,     \* request goroutines
    NoWorker,    \* holder of a lock nobody holds
    TTL,         \* REFRESH_TOKEN_TTL, in ticks
    Grace,       \* REFRESH_TOKEN_GRACE, in ticks
    BatchSize,   \* PAYLOAD_RETENTION_BATCH_SIZE
    MaxTime,     \* bound on the clock
    MaxRequests, \* bound on refreshes, logouts and revocations
    MaxFaults    \* bound: failed calls and lost commit replies

ASSUME TokenAssumption ==
    /\ Ids \subseteq Nat \ {0}
    /\ IsFiniteSet(Workers) /\ NoWorker \notin Workers
    /\ TTL \in Nat \ {0} /\ Grace \in Nat /\ BatchSize \in Nat \ {0}
    /\ MaxTime \in Nat /\ MaxRequests \in Nat /\ MaxFaults \in Nat

VARIABLES
    minted,    \* tokens minted so far: 1 .. minted
    present,   \* ids whose row is in the table
    family,    \* family_id, the id of the login's token; 0 before the INSERT
    owner,     \* user_id of each row ever inserted
    expires,   \* expires_at
    used,      \* ids with used_at set
    revoked,   \* ids with revoked_at set
    lock,      \* who holds the lock on each row
    pc,        \* where each worker is
    arg,       \* the token its client presented
    succ,      \* the successor Refresh minted for it
    targets,   \* rows its UPDATE has found and not yet come to
    doomed,    \* history: rows its revocation is to end
    now, requests, faults

table  == <<present, family, owner, expires, used, revoked>>
worker == <<pc, arg, succ, targets, doomed>>
vars   == <<minted, table, lock, worker, now, requests, faults>>

Revoking == {"reusing", "revoking"}
PCs == {"idle", "locking", "rotating", "reuse"} \cup Revoking

(* Rows carry the columns of migration 00006, and a request is where its   *)
(* transaction can be.                                                     *)
TypeOK ==
    /\ minted \in Nat
    /\ present \subseteq Ids /\ used \subseteq Ids /\ revoked \subseteq Ids
    /\ family \in [Ids -> Ids \cup {0}]
    /\ owner \in [Ids -> Users]
    /\ expires \in [Ids -> Nat]
    /\ lock \in [Ids -> Workers \cup {NoWorker}]
    /\ pc \in [Workers -> PCs]
    /\ arg \in [Workers -> Ids \cup {0}]
    /\ succ \in [Workers -> Ids \cup {0}]
    /\ targets \in [Workers -> SUBSET Ids]
    /\ doomed \in [Workers -> SUBSET Ids]
    /\ now \in Nat /\ requests \in Nat /\ faults \in Nat

Init ==
    /\ minted = 0
    /\ present = {} /\ used = {} /\ revoked = {}
    /\ family = [t \in Ids |-> 0]
    /\ owner \in {[t \in Ids |-> u] : u \in Users}
    /\ expires = [t \in Ids |-> 0]
    /\ lock = [t \in Ids |-> NoWorker]
    /\ pc = [w \in Workers |-> "idle"]
    /\ arg = [w \in Workers |-> 0]
    /\ succ = [w \in Workers |-> 0]
    /\ targets = [w \in Workers |-> {}]
    /\ doomed = [w \in Workers |-> {}]
    /\ now = 0 /\ requests = 0 /\ faults = 0

-----------------------------------------------------------------------------
Goes(w, label) == pc' = [pc EXCEPT ![w] = label]

(* The transaction ends, by COMMIT or by the deferred Rollback.            *)
KeepsLocks(w) == UNCHANGED lock

Release(w) == lock' = [t \in Ids |-> IF lock[t] = w THEN NoWorker ELSE lock[t]]

(* The request is answered.                                                *)
Answer(w) ==
    /\ Goes(w, "idle")
    /\ arg' = [arg EXCEPT ![w] = 0]
    /\ succ' = [succ EXCEPT ![w] = 0]
    /\ targets' = [targets EXCEPT ![w] = {}]
    /\ doomed' = [doomed EXCEPT ![w] = {}]

Fault == faults < MaxFaults /\ faults' = faults + 1

Insert(t, f, u) ==
    /\ present' = present \cup {t}
    /\ family' = [family EXCEPT ![t] = f]
    /\ owner' = [owner EXCEPT ![t] = u]
    /\ expires' = [expires EXCEPT ![t] = now + TTL]

(* AuthService.issue, for Login and Register: a family of its own.         *)
CreateRefreshToken(u) ==
    /\ minted + 1 \in Ids
    /\ minted' = minted + 1
    /\ Insert(minted + 1, minted + 1, u)
    /\ UNCHANGED <<used, revoked, lock, worker, now, requests, faults>>

Request(w) ==
    /\ pc[w] = "idle"
    /\ requests < MaxRequests
    /\ requests' = requests + 1

-----------------------------------------------------------------------------
(* Refresh and ConsumeRefreshToken.                                        *)

(* The successor is minted before the transaction begins.                  *)
Refresh(w, t) ==
    /\ Request(w)
    /\ family[t] # 0
    /\ minted + 1 \in Ids
    /\ minted' = minted + 1
    /\ Goes(w, "locking")
    /\ arg' = [arg EXCEPT ![w] = t]
    /\ succ' = [succ EXCEPT ![w] = minted + 1]
    /\ UNCHANGED <<table, lock, targets, doomed, now, faults>>

LocksNothing(w, t) == UNCHANGED lock

(* FOR UPDATE.                                                             *)
Lock(w, t) ==
    /\ lock[t] \in {NoWorker, w}
    /\ lock' = [lock EXCEPT ![t] = w]

Expired(t) == now > expires[t]

(* What the row says once it is locked, in the order the code asks.        *)
DeadFirst(t) ==
    IF t \in revoked \/ Expired(t) THEN "dead"
    ELSE IF t \in used THEN "reuse" ELSE "rotating"

IgnoresRevocation(t) ==
    IF t \in used THEN "reuse"
    ELSE IF Expired(t) THEN "dead" ELSE "rotating"

Examined(t) ==
    IF t \in used THEN "reuse"
    ELSE IF t \in revoked \/ Expired(t) THEN "dead" ELSE "rotating"

(* ErrNotFound: no such row, or one that is revoked or expired.            *)
RejectPresented(w) ==
    /\ pc[w] = "locking"
    /\ \/ arg[w] \notin present
       \/ lock[arg[w]] = NoWorker /\ Examined(arg[w]) = "dead"
    /\ Answer(w)
    /\ Release(w)
    /\ UNCHANGED <<minted, table, now, requests, faults>>

LockPresented(w) ==
    LET t == arg[w] IN
    /\ pc[w] = "locking"
    /\ t \in present
    /\ lock[t] = NoWorker
    /\ Examined(t) # "dead"
    /\ Lock(w, t)
    /\ Goes(w, Examined(t))
    /\ doomed' = [doomed EXCEPT ![w] = IF Examined(t) = "reuse"
                    THEN {x \in present : family[x] = family[t]} ELSE {}]
    /\ UNCHANGED <<minted, table, arg, succ, targets, now, requests, faults>>

(* markUsed, the INSERT of the successor and the commit; its reply may be  *)
(* lost, or loading the user fail: the client then has no successor.       *)
CommitRotation(w) ==
    LET t == arg[w] IN
    /\ pc[w] = "rotating"
    /\ used' = used \cup {t}
    /\ Insert(succ[w], family[t], owner[t])
    /\ Answer(w)
    /\ Release(w)
    /\ UNCHANGED faults \/ Fault
    /\ UNCHANGED <<minted, revoked, now, requests>>

-----------------------------------------------------------------------------
(* Revocation: the UPDATE of a reuse, of RevokeFamilyByToken and of        *)
(* RevokeAllForUser.                                                       *)

Unrevoked(S) == (S \cap present) \ revoked

FamilyOf(t) == {x \in present : t \in present /\ family[x] = family[t]}

RevokeReused(w) ==
    /\ pc[w] = "reuse"
    /\ Goes(w, "reusing")
    /\ targets' = [targets EXCEPT ![w] = Unrevoked(FamilyOf(arg[w]))]
    /\ UNCHANGED <<minted, table, lock, arg, succ, doomed, now, requests, faults>>

StartRevoking(w, S) ==
    /\ Request(w)
    /\ Goes(w, "revoking")
    /\ targets' = [targets EXCEPT ![w] = Unrevoked(S)]
    /\ doomed' = [doomed EXCEPT ![w] = S]
    /\ UNCHANGED <<minted, table, lock, arg, succ, now, faults>>

RevokeFamilyByToken(w, t) == family[t] # 0 /\ StartRevoking(w, FamilyOf(t))

RevokeAllForUser(w, u) == StartRevoking(w, {x \in present : owner[x] = u})

(* The UPDATE comes to one of its rows and takes its lock, or passes over  *)
(* it because somebody revoked or deleted it meanwhile.                    *)
RevokeRow(w) ==
    /\ pc[w] \in Revoking
    /\ \E x \in targets[w] :
          /\ targets' = [targets EXCEPT ![w] = @ \ {x}]
          /\ IF x \in Unrevoked({x}) THEN Lock(w, x) ELSE UNCHANGED lock
    /\ UNCHANGED <<minted, table, pc, arg, succ, doomed, now, requests, faults>>

(* The rows a revocation has locked are the ones it revokes.               *)
RevokesPresented(w) == {arg[w]} \cap present

Locked(w) == {x \in Ids : lock[x] = w}

CommitRevocation(w) ==
    /\ pc[w] \in Revoking
    /\ targets[w] = {}
    /\ revoked' = revoked \cup Locked(w)
    /\ Answer(w)
    /\ Release(w)
    /\ UNCHANGED faults \/ Fault
    /\ UNCHANGED <<minted, present, family, owner, expires, used, now, requests>>

-----------------------------------------------------------------------------
(* Errors.  PostgreSQL aborts one of the transactions that wait for each   *)
(* other in a circle.                                                      *)

Abort(w) ==
    /\ Answer(w)
    /\ Release(w)
    /\ UNCHANGED <<minted, table, now, requests>>

Fail(w) == pc[w] # "idle" /\ Fault /\ Abort(w)

Wanted(w) ==
    IF pc[w] = "locking" THEN {arg[w]} \cap present
    ELSE IF pc[w] \in Revoking THEN Unrevoked(targets[w]) ELSE {}

WaitsFor(v, w) == v # w /\ \E x \in Wanted(v) : lock[x] = w

(* The circle through w: whatever is reached from w by waiting, w is among *)
(* it.                                                                     *)
Deadlocked(w) ==
    \A S \in SUBSET Workers :
        (\A v \in S \cup {w}, u \in Workers : WaitsFor(v, u) => u \in S) => w \in S

DeadlockVictim(w) ==
    /\ Deadlocked(w)
    /\ Abort(w)
    /\ UNCHANGED faults

-----------------------------------------------------------------------------
(* DeleteExpiredRefreshTokens, over rows nobody has locked.                *)

Prunable == {x \in present : expires[x] + Grace < now /\ lock[x] = NoWorker}

DeleteExpiredRefreshTokens ==
    /\ Prunable # {}
    /\ \E S \in SUBSET Prunable :
          /\ Cardinality(S) <= BatchSize
          /\ S = Prunable \/ Cardinality(S) = BatchSize
          /\ \A x \in S, y \in Prunable \ S : expires[x] <= expires[y]
          /\ present' = present \ S
    /\ UNCHANGED <<minted, family, owner, expires, used, revoked, lock, worker,
                   now, requests, faults>>

Tick ==
    /\ now < MaxTime
    /\ now' = now + 1
    /\ UNCHANGED <<minted, table, lock, worker, requests, faults>>

-----------------------------------------------------------------------------
Step(w) ==
    \/ RejectPresented(w) \/ LockPresented(w) \/ CommitRotation(w)
    \/ RevokeReused(w) \/ RevokeRow(w) \/ CommitRevocation(w)
    \/ DeadlockVictim(w)

Next ==
    \/ \E u \in Users : CreateRefreshToken(u)
    \/ \E w \in Workers, t \in Ids : Refresh(w, t) \/ RevokeFamilyByToken(w, t)
    \/ \E w \in Workers, u \in Users : RevokeAllForUser(w, u)
    \/ \E w \in Workers : Step(w) \/ Fail(w)
    \/ DeleteExpiredRefreshTokens
    \/ Tick

Spec == Init /\ [][Next]_vars

-----------------------------------------------------------------------------
(* Properties.                                                             *)

Live(t) == t \in present /\ t \notin used /\ t \notin revoked

(* A login has one live token at a time, however many requests present     *)
(* its tokens at once: ConsumeRefreshToken elects one winner.  (With the   *)
(* types.)                                                                 *)
OneLiveTokenPerFamily ==
    TypeOK /\ \A s, t \in Ids :
        Live(s) /\ Live(t) /\ family[s] = family[t] => s = t

(* A token is exchanged only while it is neither used nor revoked, also    *)
(* when the revocation commits between the check and the exchange.         *)
ExchangesAreValid ==
    [][\A t \in used' \ used : t \in present /\ t \notin revoked]_vars

(* A token that was exchanged and comes back ends its family, and is not   *)
(* merely refused, until Grace after its expiry: the rejection of a used   *)
(* token means its row has been pruned, and late enough.                   *)
ReuseIsDetected ==
    [][\A w \in Workers :
          RejectPresented(w) /\ arg[w] \in used
            => expires[arg[w]] + Grace < now]_vars

(* Every row a revocation set out to end is revoked or gone when it is     *)
(* answered: a logout is not undone by a successor that existed when it    *)
(* began, and a reuse ends the family as it was when it was noticed.       *)
RevocationIsComplete ==
    [][\A w \in Workers :
          pc[w] \in Revoking /\ targets[w] = {} /\ pc'[w] = "idle"
          /\ faults' = faults
            => doomed[w] \cap present' \subseteq revoked']_vars

(* No lock it needs next keeps the request waiting, or the database will   *)
(* take it for a victim.                                                   *)
CanGoOn(w) ==
    \/ pc[w] = "locking" /\ (arg[w] \in present => lock[arg[w]] = NoWorker)
    \/ pc[w] \in {"rotating", "reuse"}
    \/ /\ pc[w] \in Revoking
       /\ \/ targets[w] = {}
          \/ \E x \in targets[w] : x \in Unrevoked({x}) => lock[x] \in {NoWorker, w}
    \/ Deadlocked(w)

SomebodyCanGoOn ==
    (\E w \in Workers : pc[w] # "idle") => \E w \in Workers : CanGoOn(w)

(* While a request is unanswered some request can go on: revocations that  *)
(* wait for each other's rows are taken apart by the database, and no path *)
(* of ConsumeRefreshToken leaves a lock behind.  (With the guards of the   *)
(* steps: a request has a step exactly when it can go on.)                 *)
NobodyIsStuck ==
    /\ SomebodyCanGoOn
    /\ \A w \in Workers : CanGoOn(w) <=> ENABLED Step(w)
=============================================================================
