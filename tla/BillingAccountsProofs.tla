----------------------- MODULE BillingAccountsProofs -----------------------
(***************************************************************************)
(* Proofs about BillingAccounts, for any users, customers, checkout        *)
(* sessions and concurrent requests, and any number of failures.           *)
(***************************************************************************)
EXTENDS BillingAccounts, FiniteSetTheorems, TLAPS

Labels == {"rehash", "checkout", "portal", "link", "record", "create"}

(* A worker with an event of a session.                                    *)
Handlers == {"link", "record", "create"}

Requests == [at : Labels, id : Users, copy : UserRows, session : Sessions \cup {None}]

SessionRows == [state : {"none", "open", "complete"}, reference : Users \cup {None},
                byEmail : BOOLEAN, customer : Customers \cup {None}]

(* Customer c was created by a checkout of u.                              *)
Owns(u, c) == c \in Customers /\ owner[c] = u

(* A session that is open pays as the customer it was opened with or makes *)
(* one; a completed one has its customer, made for whom it refers to; an   *)
(* event comes from a completed session.                                   *)
SessionInv(s) ==
    LET z == session[s] IN
    /\ z.state = "none" => z.reference = None /\ ~z.byEmail
    /\ z.state = "open" =>
          /\ z.reference \in Users
          /\ z.byEmail <=> z.customer = None
          /\ ~z.byEmail => Owns(z.reference, z.customer)
    /\ z.state = "complete" =>
          /\ z.customer \in Customers
          /\ z.reference # None => Owns(z.reference, z.customer)
    /\ event[s] # "none" => z.state = "complete"

(* Session s made customer c.                                              *)
Made(s, c) ==
    /\ session[s].state = "complete" /\ session[s].byEmail
    /\ session[s].reference = owner[c] /\ session[s].customer = c

StripeInv ==
    /\ \A s \in Sessions : SessionInv(s)
    /\ \A c \in Customers : owner[c] # None => \E s \in Sessions : Made(s, c)

(* A link is to a customer of one's own.                                   *)
LinkInv == \A u \in Users : user[u].customer # None => Owns(u, user[u].customer)

(* A worker at this label finds the user linked: it has linked them, or it *)
(* found them by the customer.                                             *)
FindsLinked(r) ==
    \/ r.at = "record"
    \/ r.at = "create" /\ session[r.session].reference = None

(* So is the link on a copy, and an event is handled for the payer.  A     *)
(* copy that has a link agrees with the row unless the row's was lost.     *)
WorkerInv(w) ==
    LET r == worker[w] IN
    r.at \in Labels =>
        /\ r.copy.customer # None => Owns(r.id, r.copy.customer)
        /\ r.at = "portal" => r.copy.customer # None
        /\ IF r.at \in Handlers
             THEN /\ r.session \in Sessions /\ session[r.session].state = "complete"
                  /\ Owns(r.id, session[r.session].customer)
             ELSE r.session = None
        /\ r.copy.customer # None /\ r.id \notin lost
             => user[r.id].customer = r.copy.customer
        /\ FindsLinked(r) => r.id \in lost \/ user[r.id].customer # None

(* A stored subscription is the payer's, who has a link unless it was lost *)
(* or the checkout is yet to be handled; a checkout that was handled left  *)
(* a subscription.                                                         *)
SubInv ==
    \A s \in Sessions :
        /\ sub[s] # None =>
             session[s].state = "complete" /\ Owns(sub[s], session[s].customer)
        /\ sub[s] # None /\ (event[s] = "settled" \/ session[s].reference = None)
             => sub[s] \in lost \/ user[sub[s]].customer # None
        /\ event[s] = "settled" /\ session[s].reference # None => sub[s] # None

Inv ==
    /\ TypeOK /\ StripeInv /\ LinkInv /\ SubInv
    /\ \A w \in Workers : WorkerInv(w)

-----------------------------------------------------------------------------
(* Types.                                                                  *)

(* A worker with a label holds a request's copy; the others are idle.      *)
LEMMA RequestType ==
    ASSUME TypeOK, NEW w \in Workers
    PROVE  /\ worker[w] \in Requests \cup {Idle}
           /\ worker[w].at \in Labels =>
                 /\ worker[w] \in Requests /\ worker[w] # Idle
                 /\ worker[w].id \in Users /\ worker[w].copy \in UserRows
                 /\ worker[w].session \in Sessions \cup {None}
           /\ worker[w].at \notin Labels => worker[w] = Idle
           /\ worker[w] # Idle => worker[w].at \in Labels
<1>1. worker[w] \in Requests \cup {Idle}
  BY Zenon DEF TypeOK, Requests, Labels
<1>2. Idle.at \notin Labels
  BY Zenon DEF Idle, Labels
<1>3. \A r \in Requests : /\ r.at \in Labels /\ r.id \in Users /\ r.copy \in UserRows
                          /\ r.session \in Sessions \cup {None}
  BY Zenon DEF Requests
<1> QED
  BY <1>1, <1>2, <1>3, Zenon

(* The users table after an UPDATE.                                        *)
LEMMA UpdateType ==
    ASSUME TypeOK, NEW u \in Users, NEW r \in UserRows, UpdateUser(u, r)
    PROVE  user' \in [Users -> UserRows] /\ lost' \subseteq Users
BY Zenon DEF TypeOK, UpdateUser

(* A fault is counted.                                                     *)
LEMMA FaultType ==
    ASSUME TypeOK, Fault
    PROVE  faults' \in 0 .. MaxFaults
BY AccountsAssumption DEF TypeOK, Fault

(* A worker goes on with the copy it read.                                 *)
LEMMA ReadType ==
    ASSUME TypeOK, NEW w \in Workers, NEW u \in Users, NEW label \in Labels,
           NEW s \in Sessions \cup {None}, Reads(w, u, label, s)
    PROVE  worker' \in [Workers -> Requests \cup {Idle}]
<1>1. [at |-> label, id |-> u, copy |-> user[u], session |-> s] \in Requests
  BY Zenon DEF TypeOK, Requests
<1> QED
  BY <1>1, Zenon DEF TypeOK, Reads, Requests, Labels

(* A worker returns.                                                       *)
LEMMA ReturnType ==
    ASSUME TypeOK, NEW w \in Workers, Returns(w)
    PROVE  worker' \in [Workers -> Requests \cup {Idle}]
BY Zenon DEF TypeOK, Returns, Requests, Labels

(* Every statement and every call keeps the types.                         *)
LEMMA StepType == Inv /\ [Next]_vars => TypeOK'
<1> SUFFICES ASSUME Inv, [Next]_vars PROVE TypeOK'
  BY Zenon
<1>0. /\ TypeOK
      /\ \A r \in UserRows, c \in Customers \cup {None} :
            [r EXCEPT !.customer = c] \in UserRows /\ [r EXCEPT !.digest = "current"] \in UserRows
  BY Zenon DEF Inv, UserRows
<1>1. ASSUME NEW u \in Users, Register(u)
      PROVE  TypeOK'
  <2>1. [user[u] EXCEPT !.known = TRUE] \in UserRows
    BY <1>0, ZenonT(40) DEF TypeOK, UserRows
  <2>2. user' \in [Users -> UserRows]
    BY <1>0, <1>1, <2>1, ZenonT(40) DEF Register, TypeOK
  <2> QED
    BY <1>0, <1>1, <2>2, Zenon DEF Register, TypeOK, stripe
<1>2. ASSUME NEW w \in Workers, NEW u \in Users,
             Login(w, u) \/ OpenCheckout(w, u) \/ OpenPortal(w, u)
      PROVE  TypeOK'
  <2>1. worker' \in [Workers -> Requests \cup {Idle}]
    BY <1>0, <1>2, ReadType, Zenon DEF Login, OpenCheckout, OpenPortal, Labels
  <2> QED
    BY <1>0, <1>2, <2>1, Zenon DEF Login, OpenCheckout, OpenPortal, TypeOK, stripe, Requests, Labels
<1>0a. \A s \in Sessions : ResolvesTo(s) \subseteq Users
  BY <1>0, Zenon DEF ResolvesTo, TypeOK
<1>3. ASSUME NEW w \in Workers, NEW s \in Sessions, TakeEvent(w, s)
      PROVE  TypeOK'
  <2>1. event' \in [Sessions -> {"none", "pending", "held", "settled"}]
    BY <1>0, <1>3, ZenonT(40) DEF TakeEvent, TypeOK
  <2>2. ResolvesTo(s) \subseteq Users
    BY <1>0a, Zenon
  <2>3. worker' \in [Workers -> Requests \cup {Idle}]
    <3>1. CASE worker' = worker
      BY <1>0, <3>1, Zenon DEF TypeOK, Requests, Labels
    <3>2. CASE \E u \in ResolvesTo(s) : Reads(w, u, "link", s)
      BY <1>0, <2>2, <3>2, ReadType, Zenon DEF Labels
    <3> QED
      BY <1>3, <3>1, <3>2, Zenon DEF TakeEvent
  <2> QED
    BY <1>0, <1>3, <2>1, <2>3, Zenon DEF TakeEvent, TypeOK, stripe, Requests, Labels
<1>3a. ASSUME NEW w \in Workers, NEW s \in Sessions, TakeSubscriptionEvent(w, s)
       PROVE  TypeOK'
  <2>1. worker' \in [Workers -> Requests \cup {Idle}]
    BY <1>0, <1>0a, <1>3a, ReadType, Zenon DEF TakeSubscriptionEvent, Labels
  <2> QED
    BY <1>0, <1>3a, <2>1, Zenon DEF TakeSubscriptionEvent, TypeOK, stripe, Requests, Labels
<1>4. ASSUME NEW w \in Workers, Returns(w)
      PROVE  worker' \in [Workers -> Requests \cup {Idle}]
  BY <1>0, <1>4, ReturnType, Zenon
<1>5. ASSUME NEW w \in Workers, SaveRehash(w)
      PROVE  TypeOK'
  <2>1. worker[w].id \in Users /\ [worker[w].copy EXCEPT !.digest = "current"] \in UserRows
    <3>1. worker[w].at \in Labels
      BY <1>5, Zenon DEF SaveRehash, Labels
    <3>2. worker[w].id \in Users /\ worker[w].copy \in UserRows
      BY <1>0, <3>1, RequestType, Zenon
    <3> QED
      BY <1>0, <3>2, Zenon
  <2>2. /\ user' \in [Users -> UserRows] /\ lost' \subseteq Users
        /\ faults' \in 0 .. MaxFaults
    <3>1. CASE Fault /\ UNCHANGED <<user, lost>>
      BY <1>0, <3>1, FaultType, Zenon DEF TypeOK
    <3>2. CASE UpdateUser(worker[w].id, [worker[w].copy EXCEPT !.digest = "current"])
               /\ UNCHANGED faults
      BY <1>0, <2>1, <3>2, UpdateType, Zenon DEF TypeOK
    <3> QED
      BY <1>5, <3>1, <3>2, Zenon DEF SaveRehash
  <2> QED
    BY <1>0, <1>4, <1>5, <2>2, Zenon DEF SaveRehash, TypeOK, stripe, Requests, Labels
<1>6. ASSUME NEW w \in Workers, CreateCheckoutSession(w)
      PROVE  TypeOK'
  <2>1. SessionFor(worker[w].id, worker[w].copy) \in SessionRows
    <3>1. worker[w].at \in Labels
      BY <1>6, Zenon DEF CreateCheckoutSession, Labels
    <3>2. worker[w].id \in Users /\ worker[w].copy \in UserRows
      BY <1>0, <3>1, RequestType, Zenon
    <3> QED
      BY <3>2, Zenon DEF SessionFor, SessionRows, UserRows
  <2>2. session' \in [Sessions -> SessionRows] /\ faults' \in 0 .. MaxFaults
    <3>1. CASE Fault /\ UNCHANGED session
      BY <1>0, <3>1, FaultType, Zenon DEF TypeOK, SessionRows
    <3>2. CASE UNCHANGED <<session, faults>>
      BY <1>0, <3>2, Zenon DEF TypeOK, SessionRows
    <3>3. ASSUME NEW s \in Unused,
                 session' = [session EXCEPT ![s] = SessionFor(worker[w].id, worker[w].copy)]
          PROVE  session' \in [Sessions -> SessionRows]
      BY <1>0, <2>1, <3>3, Zenon DEF TypeOK, SessionRows
    <3> QED
      BY <1>0, <1>6, <3>1, <3>2, <3>3, Zenon DEF CreateCheckoutSession, TypeOK
  <2> QED
    BY <1>0, <1>4, <1>6, <2>2, Zenon
    DEF CreateCheckoutSession, TypeOK, SessionRows, Requests, Labels
<1>7. ASSUME NEW w \in Workers, CreatePortalSession(w)
      PROVE  TypeOK'
  BY <1>0, <1>4, <1>7, Zenon DEF CreatePortalSession, TypeOK, stripe, Requests, Labels
<1>8. ASSUME NEW w \in Workers, NEW label \in Labels, worker[w].at \in Labels, Goes(w, label)
      PROVE  worker' \in [Workers -> Requests \cup {Idle}] /\ event' = event
  <2>1. [worker[w] EXCEPT !.at = label] \in Requests
    <3>1. worker[w] \in Requests
      BY <1>0, <1>8, RequestType, Zenon
    <3> QED
      BY <3>1, Zenon DEF Requests
  <2> QED
    BY <1>0, <1>8, <2>1, Zenon DEF Goes, TypeOK, Requests, Labels
<1>9. ASSUME NEW w \in Workers, Retries(w)
      PROVE  /\ worker' \in [Workers -> Requests \cup {Idle}]
             /\ event' \in [Sessions -> {"none", "pending", "held", "settled"}]
  BY <1>0, <1>4, <1>9, Zenon DEF Retries, TypeOK
<1>10. ASSUME NEW w \in Workers, linkCustomer(w)
       PROVE  TypeOK'
  <2> DEFINE r == [worker[w].copy EXCEPT !.customer = session[worker[w].session].customer]
  <2>1. worker[w].at \in Labels /\ "record" \in Labels
    BY <1>10, Zenon DEF linkCustomer, Labels
  <2>2. worker[w].id \in Users /\ worker[w].copy \in UserRows
    BY <1>0, <2>1, RequestType, Zenon
  <2>3. session[worker[w].session].customer \in Customers
    <3>1. worker[w].session \in Sessions /\ session[worker[w].session].state = "complete"
      BY <1>10, <2>1, Zenon DEF Inv, WorkerInv, linkCustomer, Handlers
    <3> QED
      BY <3>1, Zenon DEF Inv, StripeInv, SessionInv
  <2>4. r \in UserRows
    BY <1>0, <2>2, <2>3, Zenon
  <2>5. CASE UNCHANGED <<user, lost, faults>> /\ Goes(w, "record")
    BY <1>0, <1>8, <1>10, <2>1, <2>5, Zenon
    DEF linkCustomer, TypeOK, stripe, Requests, Labels
  <2>6. CASE UpdateUser(worker[w].id, r) /\ Goes(w, "record") /\ UNCHANGED faults
    <3>1. user' \in [Users -> UserRows] /\ lost' \subseteq Users
      BY <1>0, <2>2, <2>4, <2>6, UpdateType, Zenon
    <3> QED
      BY <1>0, <1>8, <1>10, <2>1, <2>6, <3>1, Zenon
      DEF linkCustomer, TypeOK, stripe, Requests, Labels
  <2>7. CASE LinkFails(w) /\ UNCHANGED <<user, lost>>
    BY <1>0, <1>9, <1>10, <2>7, FaultType, Zenon
    DEF linkCustomer, LinkFails, TypeOK, stripe, Requests, Labels
  <2> QED
    BY <1>10, <2>5, <2>6, <2>7, Zenon DEF linkCustomer
<1>10a. ASSUME NEW w \in Workers, worker[w].at \in Labels,
               Stores(worker[w].session, worker[w].id)
        PROVE  sub' \in [Sessions -> Users \cup {None}]
  <2>1. worker[w].id \in Users
    BY <1>0, <1>10a, RequestType, Zenon
  <2> QED
    BY <1>0, <1>10a, <2>1, Zenon DEF Stores, TypeOK
<1>11. ASSUME NEW w \in Workers, RecordSubscription(w)
       PROVE  TypeOK'
  <2>1. worker[w].at \in Labels
    BY <1>11, Zenon DEF RecordSubscription, Labels
  <2>2. CASE Fault /\ Retries(w) /\ UNCHANGED sub
    BY <1>0, <1>9, <1>11, <2>2, FaultType, Zenon
    DEF RecordSubscription, TypeOK, stripe, Requests, Labels
  <2>3. CASE /\ Stores(worker[w].session, worker[w].id)
             /\ event' = [event EXCEPT ![worker[w].session] = "settled"]
             /\ Returns(w) /\ UNCHANGED faults
    BY <1>0, <1>4, <1>10a, <1>11, <2>1, <2>3, Zenon
    DEF RecordSubscription, TypeOK, stripe, Requests, Labels
  <2> QED
    BY <1>11, <2>2, <2>3, Zenon DEF RecordSubscription
<1>11a. ASSUME NEW w \in Workers, createFromEvent(w)
        PROVE  TypeOK'
  <2>1. worker[w].at \in Labels
    BY <1>11a, Zenon DEF createFromEvent, Labels
  <2>2. sub' \in [Sessions -> Users \cup {None}] /\ faults' \in 0 .. MaxFaults
    BY <1>0, <1>10a, <1>11a, <2>1, FaultType, Zenon DEF createFromEvent, TypeOK
  <2> QED
    BY <1>0, <1>4, <1>11a, <2>2, Zenon
    DEF createFromEvent, TypeOK, stripe, Requests, Labels
<1>12. ASSUME NEW w \in Workers, Crash(w)
       PROVE  TypeOK'
  <2>1. /\ worker' \in [Workers -> Requests \cup {Idle}]
        /\ event' \in [Sessions -> {"none", "pending", "held", "settled"}]
    BY <1>0, <1>4, <1>9, <1>12, Zenon DEF Crash, TypeOK
  <2> QED
    BY <1>0, <1>12, <2>1, FaultType, Zenon DEF Crash, TypeOK, stripe, Requests, Labels
<1>13. ASSUME NEW s \in Sessions, NEW c \in Customers,
              session' = [session EXCEPT ![s].state = "complete", ![s].customer = c]
       PROVE  session' \in [Sessions -> SessionRows]
  <2>1. session[s] \in SessionRows
    BY <1>0, Zenon DEF TypeOK, SessionRows
  <2>2. [session[s] EXCEPT !.state = "complete", !.customer = c] \in SessionRows
    BY <2>1, Zenon DEF SessionRows
  <2> QED
    BY <1>0, <1>13, <2>2, Zenon DEF TypeOK, SessionRows
<1>14. ASSUME NEW s \in Sessions, CompleteSession(s)
       PROVE  TypeOK'
  <2>1. owner' \in [Customers -> Users \cup {None}]
    <3>1. session[s].reference \in Users \cup {None}
      BY <1>0, Zenon DEF TypeOK
    <3> QED
      BY <1>0, <1>14, <3>1 DEF CompleteSession, TypeOK
  <2>2. session' \in [Sessions -> SessionRows]
    BY <1>13, <1>14, Zenon DEF CompleteSession
  <2> QED
    BY <1>0, <1>14, <2>1, <2>2, Zenon DEF CompleteSession, TypeOK, SessionRows
<1>15. ASSUME NEW s \in Sessions, NEW c \in Customers, CompleteOutside(s, c)
       PROVE  TypeOK'
  <2>1. session' \in [Sessions -> SessionRows]
    BY <1>13, <1>15, Zenon DEF CompleteOutside
  <2> QED
    BY <1>0, <1>15, <2>1, Zenon DEF CompleteOutside, TypeOK, SessionRows
<1>16. CASE UNCHANGED vars
  BY <1>0, <1>16, Zenon DEF vars, TypeOK
<1> QED
  BY <1>1, <1>2, <1>3, <1>3a, <1>5, <1>6, <1>7, <1>10, <1>11, <1>11a, <1>12,
     <1>14, <1>15, <1>16, Zenon
  DEF Next, WorkStep

-----------------------------------------------------------------------------
(* What a step leaves alone.                                               *)

(* Stripe never moves a customer, nor changes a completed session.         *)
StripeKept ==
    /\ \A c \in Customers : owner[c] # None => owner'[c] = owner[c]
    /\ \A s \in Sessions : session[s].state = "complete" => session'[s] = session[s]

(* A link that goes is a lost one.                                         *)
LinksKept ==
    /\ lost \subseteq lost'
    /\ \A u \in Users : user[u].customer # None /\ u \notin lost'
          => user'[u].customer = user[u].customer

(* No event is new.                                                        *)
EventsKept ==
    \A s \in Sessions : event'[s] # "none" => event[s] # "none" \/ session[s].state = "complete"

(* No checkout of a user is settled.                                       *)
SettledKept ==
    \A s \in Sessions : event'[s] = "settled"
        => \/ event[s] = "settled"
           \/ session[s].state = "complete" /\ session[s].reference = None

(* A worker that does not move keeps its promises.                         *)
LEMMA WorkerFrame ==
    ASSUME TypeOK, StripeKept, LinksKept, NEW w \in Workers, WorkerInv(w),
           worker'[w] = worker[w]
    PROVE  WorkerInv(w)'
<1> DEFINE r == worker[w]
<1> SUFFICES ASSUME r.at \in Labels
             PROVE  /\ r.copy.customer # None => Owns(r.id, r.copy.customer)'
                    /\ r.at = "portal" => r.copy.customer # None
                    /\ IF r.at \in Handlers
                         THEN /\ r.session \in Sessions
                              /\ session'[r.session].state = "complete"
                              /\ Owns(r.id, session[r.session].customer)'
                         ELSE r.session = None
                    /\ r.copy.customer # None /\ r.id \notin lost'
                         => user'[r.id].customer = r.copy.customer
                    /\ FindsLinked(r)' => r.id \in lost' \/ user'[r.id].customer # None
  BY Zenon DEF WorkerInv, FindsLinked, Owns
<1>1. r.id \in Users /\ r.id # None
  BY RequestType, AccountsAssumption, Zenon
<1>2. r.copy.customer # None => Owns(r.id, r.copy.customer)'
  BY <1>1, Zenon DEF WorkerInv, StripeKept, Owns
<1>3. r.at = "portal" => r.copy.customer # None
  BY Zenon DEF WorkerInv
<1>4. r.at \in Handlers =>
         /\ r.session \in Sessions /\ session'[r.session].state = "complete"
         /\ Owns(r.id, session[r.session].customer)'
  BY <1>1 DEF WorkerInv, StripeKept, Owns
<1>5. r.at \notin Handlers => r.session = None
  BY Zenon DEF WorkerInv
<1>6. r.copy.customer # None /\ r.id \notin lost'
        => user'[r.id].customer = r.copy.customer
  BY <1>1, Zenon DEF WorkerInv, LinksKept
<1>7. ASSUME FindsLinked(r)'
      PROVE  r.id \in lost' \/ user'[r.id].customer # None
  <2>1. FindsLinked(r)
    BY <1>7, Zenon DEF FindsLinked, WorkerInv, StripeKept, Handlers
  <2>2. r.id \in lost \/ user[r.id].customer # None
    BY <2>1, Zenon DEF WorkerInv
  <2> QED
    BY <1>1, <2>2, Zenon DEF LinksKept
<1> QED
  BY <1>2, <1>3, <1>4, <1>5, <1>6, <1>7, Zenon

(* A worker that returned promises nothing.                                *)
LEMMA IdleKeeps ==
    ASSUME NEW w \in Workers, worker'[w] = Idle
    PROVE  WorkerInv(w)'
BY DEF WorkerInv, Idle, Labels

(* Stored subscriptions stay the payer's.                                  *)
LEMMA SubFrame ==
    ASSUME TypeOK, StripeInv, SubInv, StripeKept, LinksKept, SettledKept, sub' = sub
    PROVE  SubInv'
<1>1. \A s \in Sessions : sub[s] # None => sub[s] \in Users
  BY Zenon DEF TypeOK
<1>2. \A s \in Sessions : sub[s] # None =>
         session'[s].state = "complete" /\ Owns(sub[s], session[s].customer)'
  BY DEF SubInv, StripeKept, Owns
<1>3. ASSUME NEW s \in Sessions, sub[s] # None,
             event'[s] = "settled" \/ session'[s].reference = None
      PROVE  sub[s] \in lost' \/ user'[sub[s]].customer # None
  <2>1. session'[s] = session[s]
    BY <1>3, Zenon DEF SubInv, StripeKept
  <2>2. event[s] = "settled" \/ session[s].reference = None
    BY <1>3, <2>1, Zenon DEF SettledKept
  <2> QED
    BY <1>1, <1>3, <2>2, Zenon DEF SubInv, LinksKept
<1>4. ASSUME NEW s \in Sessions, event'[s] = "settled", session'[s].reference # None
      PROVE  sub[s] # None
  <2>1. session[s].state = "complete"
    BY <1>4, Zenon DEF SettledKept, StripeInv, SessionInv
  <2>2. event[s] = "settled" /\ session[s].reference # None
    BY <1>4, <2>1, Zenon DEF SettledKept, StripeKept
  <2> QED
    BY <2>2, Zenon DEF SubInv
<1> QED
  BY <1>2, <1>3, <1>4, Zenon DEF SubInv, Owns

(* Links stay the owner's.                                                 *)
LEMMA LinkFrame ==
    ASSUME LinkInv, StripeKept, \A u \in Users : user'[u].customer = user[u].customer
    PROVE  LinkInv'
<1>1. \A u \in Users : u # None
  BY AccountsAssumption, Zenon
<1>2. \A u \in Users : user[u].customer # None => Owns(u, user[u].customer)'
  BY <1>1 DEF LinkInv, StripeKept, Owns
<1> QED
  BY <1>2, Zenon DEF LinkInv, Owns

(* Stripe itself is idle, and no event is new.                             *)
LEMMA StripeFrame ==
    ASSUME StripeInv, UNCHANGED stripe, EventsKept
    PROVE  StripeInv' /\ StripeKept
BY Zenon DEF EventsKept, StripeInv, SessionInv, Made, StripeKept, Owns, stripe

(* A session that changes is a new one, or is paid.                        *)
LEMMA SessionFrame ==
    ASSUME TypeOK, StripeInv, StripeKept, NEW s \in Sessions,
           session'[s] = session[s], event'[s] = event[s]
    PROVE  SessionInv(s)'
<1>1. session[s].reference \in Users \cup {None} /\ None \notin Users
  BY AccountsAssumption, Zenon DEF TypeOK
<1>2. SessionInv(s)
  BY Zenon DEF StripeInv
<1>3. \A u \in Users : \A c : Owns(u, c) => c \in Customers /\ owner'[c] = u
  BY <1>1, Zenon DEF StripeKept, Owns
<1> QED
  BY <1>1, <1>2, <1>3 DEF SessionInv, Owns

(* A customer stays the work of the session that made it.                  *)
LEMMA MadeFrame ==
    ASSUME StripeInv, StripeKept, NEW c \in Customers, owner[c] # None
    PROVE  \E s \in Sessions : Made(s, c)'
BY DEF StripeInv, StripeKept, Made

(* No event moves.                                                         *)
LEMMA QuietEvents ==
    ASSUME event' = event
    PROVE  EventsKept /\ SettledKept
BY Zenon DEF EventsKept, SettledKept

(* The users table is left alone.                                          *)
LEMMA QuietLinks ==
    ASSUME UNCHANGED <<user, lost>>
    PROVE  LinksKept
BY Zenon DEF LinksKept

(* A step of worker w keeps the invariant if w's own promises hold.        *)
LEMMA StepKeeps ==
    ASSUME Inv, TypeOK', StripeInv', LinkInv', SubInv', StripeKept, LinksKept,
           NEW w, \A v \in Workers \ {w} : worker'[v] = worker[v],
           w \in Workers => WorkerInv(w)'
    PROVE  Inv'
<1>1. \A v \in Workers \ {w} : WorkerInv(v)'
  BY WorkerFrame, Zenon DEF Inv
<1> QED
  BY <1>1, Zenon DEF Inv

(* Steps that write no row of ours and do not reach Stripe.                *)
LEMMA QuietStep ==
    ASSUME Inv, TypeOK', UNCHANGED <<user, lost, sub, stripe>>, EventsKept, SettledKept,
           NEW w \in Workers, \A v \in Workers \ {w} : worker'[v] = worker[v],
           WorkerInv(w)'
    PROVE  Inv'
<1>1. StripeInv' /\ StripeKept /\ LinksKept
  BY StripeFrame, QuietLinks, Zenon DEF Inv
<1>2. LinkInv' /\ SubInv'
  BY <1>1, LinkFrame, SubFrame, Zenon DEF Inv
<1> QED
  BY <1>1, <1>2, StepKeeps, Zenon

-----------------------------------------------------------------------------
(* The steps.                                                              *)

(* A worker that has just read a row knows it as it is.                    *)
LEMMA ReadKeeps ==
    ASSUME Inv, TypeOK', UNCHANGED <<user, lost, stripe>>, NEW w \in Workers, NEW u \in Users,
           NEW label \in {"rehash", "checkout", "portal", "link", "create"},
           NEW s \in Sessions \cup {None}, Reads(w, u, label, s),
           label = "portal" => user[u].customer # None,
           label = "create" /\ session[s].reference = None => user[u].customer # None,
           IF label \in Handlers THEN /\ s \in Sessions /\ session[s].state = "complete"
                                      /\ Owns(u, session[s].customer)
                                 ELSE s = None
    PROVE  WorkerInv(w)' /\ \A v \in Workers \ {w} : worker'[v] = worker[v]
<1>1. /\ worker'[w] = [at |-> label, id |-> u, copy |-> user[u], session |-> s]
      /\ \A v \in Workers \ {w} : worker'[v] = worker[v]
  BY Zenon DEF Reads, Inv, TypeOK
<1>2. user[u].customer # None => Owns(u, user[u].customer)
  BY Zenon DEF Inv, LinkInv
<1> QED
  BY <1>1, <1>2 DEF WorkerInv, FindsLinked, Owns, stripe

(* Login, OpenCheckout and OpenPortal.                                     *)
LEMMA OpenStep ==
    ASSUME Inv, TypeOK', NEW w \in Workers, NEW u \in Users,
           Login(w, u) \/ OpenCheckout(w, u) \/ OpenPortal(w, u)
    PROVE  Inv'
<1>1. PICK label \in {"rehash", "checkout", "portal"} :
         Reads(w, u, label, None) /\ (label = "portal" => user[u].customer # None)
  BY Zenon DEF Login, OpenCheckout, OpenPortal, HasPortal
<1>2. UNCHANGED <<user, lost, sub, stripe, event>>
  BY Zenon DEF Login, OpenCheckout, OpenPortal
<1>3. WorkerInv(w)' /\ \A v \in Workers \ {w} : worker'[v] = worker[v]
  BY <1>1, <1>2, ReadKeeps DEF Handlers
<1> QED
  BY <1>2, <1>3, QuietEvents, QuietStep, Zenon

(* The event's user, by reference or by the customer, is the payer.        *)
LEMMA ResolvedOwns ==
    ASSUME Inv, NEW s \in Sessions, session[s].state = "complete", NEW u \in ResolvesTo(s)
    PROVE  /\ u \in Users /\ Owns(u, session[s].customer)
           /\ session[s].reference = None => user[u].customer # None
<1>1. CASE session[s].reference # None
  BY <1>1, Zenon DEF ResolvesTo, Inv, StripeInv, SessionInv, TypeOK
<1>2. CASE session[s].reference = None
  <2>1. u \in Users /\ user[u].customer = session[s].customer
    BY <1>2, Zenon DEF ResolvesTo
  <2>2. session[s].customer # None
    BY AccountsAssumption, Zenon DEF Inv, StripeInv, SessionInv
  <2> QED
    BY <2>1, <2>2, Zenon DEF Inv, LinkInv
<1> QED
  BY <1>1, <1>2, Zenon

(* A checkout event of a user is taken; one of nobody's is settled.        *)
LEMMA TakeStep ==
    ASSUME Inv, TypeOK', NEW w \in Workers, NEW s \in Sessions, TakeEvent(w, s)
    PROVE  Inv'
<1>1. session[s].state = "complete" /\ event[s] # "none"
  BY Zenon DEF TakeEvent, Inv, StripeInv, SessionInv
<1>2. UNCHANGED <<user, lost, sub, stripe>>
  BY Zenon DEF TakeEvent
<1>3. EventsKept
  BY <1>1, Zenon DEF EventsKept, TakeEvent, Inv, TypeOK
<1>4. CASE \E u \in ResolvesTo(s) : Reads(w, u, "link", s) /\ event' = [event EXCEPT ![s] = "held"]
  <2>1. WorkerInv(w)' /\ \A v \in Workers \ {w} : worker'[v] = worker[v]
    BY <1>1, <1>2, <1>4, ResolvedOwns, ReadKeeps, Zenon DEF Handlers
  <2>2. SettledKept
    BY <1>4, Zenon DEF SettledKept, Inv, TypeOK
  <2> QED
    BY <1>2, <1>3, <2>1, <2>2, QuietStep, Zenon
<1>5. CASE /\ worker[w] = Idle /\ ResolvesTo(s) = {} /\ UNCHANGED worker
           /\ event' = [event EXCEPT ![s] = "settled"]
  <2>1. session[s].reference = None
    BY <1>5, Zenon DEF ResolvesTo
  <2>2. SettledKept
    BY <1>1, <1>5, <2>1, Zenon DEF SettledKept, Inv, TypeOK
  <2> QED
    BY <1>2, <1>3, <1>5, <2>2, IdleKeeps, QuietStep, Zenon
<1> QED
  BY <1>4, <1>5, Zenon DEF TakeEvent

(* So is a subscription event that finds no row.                           *)
LEMMA TakeSubscriptionStep ==
    ASSUME Inv, TypeOK', NEW w \in Workers, NEW s \in Sessions, TakeSubscriptionEvent(w, s)
    PROVE  Inv'
<1>1. /\ UNCHANGED <<user, lost, sub, stripe>> /\ event' = event
      /\ session[s].state = "complete"
  BY Zenon DEF TakeSubscriptionEvent
<1>2. WorkerInv(w)' /\ \A v \in Workers \ {w} : worker'[v] = worker[v]
  BY <1>1, ResolvedOwns, ReadKeeps, Zenon DEF TakeSubscriptionEvent, Handlers
<1> QED
  BY <1>1, <1>2, QuietEvents, QuietStep, Zenon

(* A row that is not linked becomes known.                                 *)
LEMMA RegisterStep ==
    ASSUME Inv, TypeOK', NEW u \in Users, Register(u)
    PROVE  Inv'
<1>1. \A v \in Users : user'[v].customer = user[v].customer
  BY DEF Register, Inv, TypeOK, UserRows
<1>2. UNCHANGED <<lost, sub, stripe, event, worker>>
  BY Zenon DEF Register
<1>3. LinksKept
  BY <1>1, <1>2, Zenon DEF LinksKept
<1>4. StripeInv' /\ StripeKept
  BY <1>2, QuietEvents, StripeFrame, Zenon DEF Inv
<1>5. LinkInv' /\ SubInv'
  BY <1>1, <1>2, <1>3, <1>4, LinkFrame, QuietEvents, SubFrame, Zenon DEF Inv
<1> QED
  BY <1>2, <1>3, <1>4, <1>5, AccountsAssumption, StepKeeps, Zenon

(* UpdateUser of a row linked to one's own customer, or to none, meets no  *)
(* conflict; if it replaces a link, that link is lost.                     *)
LEMMA UpdateKeeps ==
    ASSUME Inv, TypeOK', UNCHANGED stripe, NEW u \in Users, NEW r \in UserRows,
           UpdateUser(u, r), r.customer # None => Owns(u, r.customer)
    PROVE  /\ user'[u] = r /\ \A v \in Users \ {u} : user'[v] = user[v]
           /\ LinksKept /\ LinkInv'
<1>1. ~Conflicts(u, r)
  <2> SUFFICES ASSUME r.customer # None, NEW v \in Users \ {u},
                      user[v].customer = r.customer
               PROVE  FALSE
    BY Zenon DEF Conflicts
  <2> QED
    BY Zenon DEF Inv, LinkInv, Owns
<1>2. user'[u] = r /\ \A v \in Users \ {u} : user'[v] = user[v]
  BY <1>1, Zenon DEF UpdateUser, Inv, TypeOK
<1>3. LinksKept
  BY <1>2, Zenon DEF LinksKept, UpdateUser
<1>4. LinkInv'
  BY <1>2, Zenon DEF Inv, LinkInv, Owns, stripe
<1> QED
  BY <1>2, <1>3, <1>4, Zenon

(* A login saves the digest with the link its copy has.                    *)
LEMMA RehashStep ==
    ASSUME Inv, TypeOK', NEW w \in Workers, SaveRehash(w)
    PROVE  Inv'
<1> DEFINE r == [worker[w].copy EXCEPT !.digest = "current"]
<1>1. /\ worker'[w] = Idle /\ \A v \in Workers \ {w} : worker'[v] = worker[v]
      /\ UNCHANGED <<sub, stripe, event>>
  BY Zenon DEF SaveRehash, Returns, Inv, TypeOK
<1>2. StripeInv' /\ StripeKept
  BY <1>1, QuietEvents, StripeFrame, Zenon DEF Inv
<1>3. LinksKept /\ LinkInv'
  <2>1. CASE UNCHANGED <<user, lost>>
    BY <1>2, <2>1, QuietLinks, LinkFrame, Zenon DEF Inv
  <2>2. CASE UpdateUser(worker[w].id, r)
    <3>1. worker[w].at \in Labels
      BY Zenon DEF SaveRehash, Labels
    <3>2. /\ worker[w].id \in Users /\ worker[w].copy \in UserRows
          /\ worker[w].copy.customer # None => Owns(worker[w].id, worker[w].copy.customer)
      BY <3>1, RequestType, Zenon DEF Inv, WorkerInv
    <3>3. r \in UserRows /\ r.customer = worker[w].copy.customer
      BY <3>2, Zenon DEF UserRows
    <3> HIDE DEF r
    <3> QED
      BY <1>1, <2>2, <3>2, <3>3, UpdateKeeps, Zenon
  <2> QED
    BY <2>1, <2>2, Zenon DEF SaveRehash
<1>4. SubInv'
  BY <1>1, <1>2, <1>3, QuietEvents, SubFrame, Zenon DEF Inv
<1> QED
  BY <1>1, <1>2, <1>3, <1>4, IdleKeeps, StepKeeps, Zenon

(* A checkout opens with the link of the copy, which is the caller's own.  *)
LEMMA CheckoutStep ==
    ASSUME Inv, TypeOK', NEW w \in Workers, CreateCheckoutSession(w)
    PROVE  Inv'
<1>1. /\ worker'[w] = Idle /\ \A v \in Workers \ {w} : worker'[v] = worker[v]
      /\ UNCHANGED <<user, sub, owner, event, lost>>
  BY Zenon DEF CreateCheckoutSession, Returns, Inv, TypeOK
<1>2. CASE session' = session
  BY <1>1, <1>2, IdleKeeps, QuietEvents, QuietStep, Zenon DEF stripe
<1>3. ASSUME NEW s \in Unused,
             session' = [session EXCEPT ![s] = SessionFor(worker[w].id, worker[w].copy)]
      PROVE  Inv'
  <2>1. worker[w].at \in Labels
    BY Zenon DEF CreateCheckoutSession, Labels
  <2>2. /\ worker[w].id \in Users /\ worker[w].copy \in UserRows
        /\ worker[w].copy.customer # None => Owns(worker[w].id, worker[w].copy.customer)
    BY <2>1, RequestType, Zenon DEF Inv, WorkerInv
  <2>3. /\ s \in Sessions /\ session[s].state = "none"
        /\ session'[s].state = "open" /\ session'[s].reference = worker[w].id
        /\ session'[s].byEmail = (worker[w].copy.customer = None)
        /\ session'[s].customer = worker[w].copy.customer
        /\ \A z \in Sessions \ {s} : session'[z] = session[z]
    BY <1>3, Zenon DEF Unused, SessionFor, Inv, TypeOK
  <2>4. StripeKept /\ LinksKept
    BY <1>1, <2>3, QuietLinks, Zenon DEF StripeKept
  <2>5. StripeInv'
    <3>1. event[s] = "none" /\ event' = event
      BY <1>1, <2>3, Zenon DEF Inv, StripeInv, SessionInv
    <3>2. SessionInv(s)'
      BY <1>1, <2>2, <2>3, <3>1, Zenon DEF SessionInv, Owns
    <3>3. \A z \in Sessions \ {s} : SessionInv(z)'
      BY <2>3, <2>4, <3>1, SessionFrame, Zenon DEF Inv
    <3>4. \A c \in Customers : owner'[c] # None => \E z \in Sessions : Made(z, c)'
      BY <1>1, <2>4, MadeFrame, Zenon DEF Inv
    <3> QED
      BY <3>2, <3>3, <3>4, Zenon DEF StripeInv
  <2>6. LinkInv' /\ SubInv'
    BY <1>1, <2>4, LinkFrame, QuietEvents, SubFrame, Zenon DEF Inv
  <2> QED
    BY <1>1, <2>4, <2>5, <2>6, IdleKeeps, StepKeeps, Zenon
<1> QED
  BY <1>2, <1>3, Zenon DEF CreateCheckoutSession

(* Payment: the session's customer is the one it was opened with, or a new *)
(* one made for its reference.                                             *)
LEMMA CompleteStep ==
    ASSUME Inv, TypeOK', NEW s \in Sessions, CompleteSession(s)
    PROVE  Inv'
<1>1. PICK c \in Customers :
         /\ \/ ~session[s].byEmail /\ c = session[s].customer /\ UNCHANGED owner
            \/ /\ session[s].byEmail /\ owner[c] = None
               /\ owner' = [owner EXCEPT ![c] = session[s].reference]
         /\ session' = [session EXCEPT ![s].state = "complete", ![s].customer = c]
  BY Zenon DEF CompleteSession
<1>2. session[s].state = "open" /\ session[s].reference \in Users
  BY Zenon DEF CompleteSession, Inv, StripeInv, SessionInv
<1>3. UNCHANGED <<user, sub, worker, lost>> /\ event' = [event EXCEPT ![s] = "pending"]
  BY Zenon DEF CompleteSession
<1>4. /\ session'[s].state = "complete" /\ session'[s].customer = c
      /\ session'[s].reference = session[s].reference
      /\ session'[s].byEmail = session[s].byEmail
      /\ \A z \in Sessions \ {s} : session'[z] = session[z]
  BY <1>1 DEF Inv, TypeOK
<1>5. /\ owner'[c] = session[s].reference
      /\ \A d \in Customers \ {c} : owner'[d] = owner[d]
      /\ owner[c] # None => owner'[c] = owner[c]
  BY <1>1, <1>2 DEF Inv, TypeOK, StripeInv, SessionInv, Owns
<1>6. StripeKept /\ LinksKept
  BY <1>2, <1>3, <1>4, <1>5, QuietLinks, Zenon DEF StripeKept
<1>7. StripeInv'
  <2>1. SessionInv(s)'
    BY <1>2, <1>4, <1>5, Zenon DEF SessionInv, Owns
  <2>2. \A z \in Sessions \ {s} : SessionInv(z)'
    <3>1. \A z \in Sessions \ {s} : event'[z] = event[z]
      BY <1>3, Zenon DEF Inv, TypeOK
    <3> QED
      BY <1>4, <1>6, <3>1, SessionFrame, Zenon DEF Inv
  <2>3. ASSUME NEW d \in Customers, owner'[d] # None
        PROVE  \E z \in Sessions : Made(z, d)'
    <3>1. CASE owner[d] # None
      BY <1>6, <3>1, MadeFrame, Zenon DEF Inv
    <3>2. CASE owner[d] = None
      <4>1. d = c /\ session[s].byEmail
        BY <1>1, <1>5, <2>3, <3>2, Zenon
      <4>2. Made(s, d)'
        BY <1>4, <1>5, <4>1, Zenon DEF Made
      <4> QED
        BY <4>2, Zenon
    <3> QED
      BY <3>1, <3>2, Zenon
  <2> QED
    BY <2>1, <2>2, <2>3, Zenon DEF StripeInv
<1>8. LinkInv' /\ SubInv'
  <2>1. SettledKept
    BY <1>3, Zenon DEF SettledKept, Inv, TypeOK
  <2> QED
    BY <1>3, <1>6, <2>1, LinkFrame, SubFrame, Zenon DEF Inv
<1> QED
  BY <1>3, <1>6, <1>7, <1>8, AccountsAssumption, StepKeeps, Zenon

(* A session of the dashboard refers to nobody.                            *)
LEMMA OutsideStep ==
    ASSUME Inv, TypeOK', NEW s \in Sessions, NEW c \in Customers, CompleteOutside(s, c)
    PROVE  Inv'
<1>1. /\ session[s].state = "none" /\ session[s].reference = None /\ ~session[s].byEmail
      /\ UNCHANGED <<user, sub, owner, worker, lost>>
      /\ event' = [event EXCEPT ![s] = "pending"]
  BY Zenon DEF CompleteOutside, Unused, Inv, StripeInv, SessionInv
<1>2. /\ session'[s].state = "complete" /\ session'[s].customer = c
      /\ session'[s].reference = None
      /\ \A z \in Sessions \ {s} : session'[z] = session[z]
  BY <1>1 DEF CompleteOutside, Inv, TypeOK
<1>3. StripeKept /\ LinksKept
  BY <1>1, <1>2, QuietLinks, Zenon DEF StripeKept
<1>4. StripeInv'
  <2>1. SessionInv(s)'
    BY <1>2, Zenon DEF SessionInv
  <2>2. \A z \in Sessions \ {s} : SessionInv(z)'
    <3>1. \A z \in Sessions \ {s} : event'[z] = event[z]
      BY <1>1, Zenon DEF Inv, TypeOK
    <3> QED
      BY <1>2, <1>3, <3>1, SessionFrame, Zenon DEF Inv
  <2>3. \A d \in Customers : owner'[d] # None => \E z \in Sessions : Made(z, d)'
    BY <1>1, <1>3, MadeFrame, Zenon DEF Inv
  <2> QED
    BY <2>1, <2>2, <2>3, Zenon DEF StripeInv
<1>5. LinkInv' /\ SubInv'
  <2>1. SettledKept
    BY <1>1, Zenon DEF SettledKept, Inv, TypeOK
  <2> QED
    BY <1>1, <1>3, <2>1, LinkFrame, SubFrame, Zenon DEF Inv
<1> QED
  BY <1>1, <1>3, <1>4, <1>5, AccountsAssumption, StepKeeps, Zenon

(* The copy has a link and so has the row, unless lost; or the link is     *)
(* made, and no other user can have the customer.                          *)
LEMMA LinkStep ==
    ASSUME Inv, TypeOK', NEW w \in Workers, linkCustomer(w)
    PROVE  Inv'
<1> DEFINE q == worker[w]
           c == session[q.session].customer
           r == [q.copy EXCEPT !.customer = c]
<1>1. q.at = "link" /\ q.at \in Labels
  BY Zenon DEF linkCustomer, Labels
<1>2. q.id \in Users /\ q.copy \in UserRows /\ q \in Requests /\ q # Idle
  BY <1>1, RequestType, Zenon DEF Inv
<1>3. /\ q.session \in Sessions /\ session[q.session].state = "complete"
      /\ Owns(q.id, c) /\ c \in Customers /\ c # None
      /\ q.copy.customer # None => Owns(q.id, q.copy.customer)
      /\ q.copy.customer # None /\ q.id \notin lost => user[q.id].customer = q.copy.customer
  BY <1>1, AccountsAssumption, Zenon DEF Inv, WorkerInv, Owns, Handlers
<1>4. UNCHANGED <<sub, stripe>>
  BY Zenon DEF linkCustomer
<1>5. ASSUME Goes(w, "record")
      PROVE  /\ event' = event /\ \A v \in Workers \ {w} : worker'[v] = worker[v]
             /\ worker'[w].at = "record" /\ worker'[w].id = q.id
             /\ worker'[w].copy = q.copy /\ worker'[w].session = q.session
  BY <1>2, <1>5, Zenon DEF Goes, Inv, TypeOK, Requests
<1>6. CASE ~Links(w) /\ Goes(w, "record") /\ UNCHANGED <<user, lost, faults>>
  <2>1. WorkerInv(w)'
    BY <1>3, <1>4, <1>5, <1>6, Zenon DEF WorkerInv, FindsLinked, Owns, Links, stripe, Handlers
  <2> QED
    BY <1>4, <1>5, <1>6, <2>1, QuietEvents, QuietStep, Zenon
<1>7. CASE Links(w) /\ UpdateUser(q.id, r) /\ Goes(w, "record")
  <2>1. r \in UserRows /\ r.customer = c
    BY <1>2, <1>3, Zenon DEF UserRows
  <2>2. user'[q.id].customer = c /\ LinksKept /\ LinkInv'
    <3> HIDE DEF r, c, q
    <3> QED
      BY <1>2, <1>3, <1>4, <1>7, <2>1, UpdateKeeps, Zenon
  <2>3. StripeInv' /\ StripeKept
    BY <1>4, <1>5, <1>7, QuietEvents, StripeFrame, Zenon DEF Inv
  <2>4. SubInv'
    BY <1>4, <1>5, <1>7, <2>2, <2>3, QuietEvents, SubFrame, Zenon DEF Inv
  <2>5. WorkerInv(w)'
    BY <1>3, <1>4, <1>5, <1>7, <2>2, Zenon DEF WorkerInv, FindsLinked, Owns, Links, stripe, Handlers
  <2> QED
    BY <1>5, <1>7, <2>2, <2>3, <2>4, <2>5, StepKeeps, ZenonT(40)
<1>8. CASE LinkFails(w) /\ UNCHANGED <<user, lost>>
  <2>1. /\ worker'[w] = Idle /\ \A v \in Workers \ {w} : worker'[v] = worker[v]
        /\ event' = [event EXCEPT ![q.session] = "pending"]
    BY <1>8, Zenon DEF LinkFails, Retries, Returns, Inv, TypeOK
  <2>2. EventsKept /\ SettledKept
    BY <1>3, <2>1, Zenon DEF EventsKept, SettledKept, Inv, TypeOK
  <2> QED
    BY <1>4, <1>8, <2>1, <2>2, IdleKeeps, QuietStep, Zenon
<1> QED
  BY <1>6, <1>7, <1>8, Zenon DEF linkCustomer

(* A subscription is stored under the user the event was taken for, or is  *)
(* there already, under the same user: a customer has one owner.           *)
LEMMA StoreKeeps ==
    ASSUME Inv, UNCHANGED <<user, stripe, lost>>, NEW w \in Workers,
           Stores(worker[w].session, worker[w].id),
           \A s \in Sessions \ {worker[w].session} : event'[s] = event[s],
           \/ worker[w].at = "record"
           \/ worker[w].at = "create" /\ event' = event
    PROVE  SubInv'
<1> DEFINE q == worker[w]
           z == worker[w].session
<1>1. q.at \in Labels /\ q.at \in Handlers
  BY Zenon DEF Labels, Handlers
<1>2. /\ q.id \in Users /\ q.id # None /\ z \in Sessions
      /\ session[z].state = "complete" /\ Owns(q.id, session[z].customer)
  BY <1>1, RequestType, AccountsAssumption, Zenon DEF Inv, WorkerInv
<1>3. sub[z] # None => sub[z] = q.id
  BY <1>2, Zenon DEF Inv, SubInv, Owns
<1>4. sub'[z] = q.id /\ \A s \in Sessions \ {z} : sub'[s] = sub[s]
  BY <1>2, <1>3, Zenon DEF Stores, Inv, TypeOK
<1>5. event'[z] = "settled" \/ session[z].reference = None
        => q.id \in lost \/ user[q.id].customer # None
  <2>1. CASE q.at = "record"
    BY <1>1, <2>1, Zenon DEF Inv, WorkerInv, FindsLinked
  <2>2. CASE q.at = "create" /\ session[z].reference = None
    BY <1>1, <2>2, Zenon DEF Inv, WorkerInv, FindsLinked
  <2>3. CASE event[z] = "settled" /\ session[z].reference # None
    BY <1>2, <1>3, <2>3, Zenon DEF Inv, SubInv
  <2> QED
    BY <2>1, <2>2, <2>3, Zenon
<1>6. session' = session /\ owner' = owner /\ user' = user /\ lost' = lost
  BY Zenon DEF stripe
<1>7. /\ session'[z].state = "complete" /\ session'[z].customer \in Customers
      /\ owner'[session'[z].customer] = sub'[z]
      /\ event'[z] = "settled" \/ session'[z].reference = None
           => sub'[z] \in lost' \/ user'[sub'[z]].customer # None
      /\ sub'[z] # None
  BY <1>2, <1>4, <1>5, <1>6, Zenon DEF Owns
<1>8. ASSUME NEW s \in Sessions \ {z}
      PROVE  /\ sub'[s] = sub[s] /\ event'[s] = event[s] /\ session'[s] = session[s]
             /\ Owns(sub[s], session[s].customer)' = Owns(sub[s], session[s].customer)
  BY <1>4, <1>6, <1>8, Zenon DEF Owns
<1> HIDE DEF z, q
<1> SUFFICES ASSUME NEW s \in Sessions
             PROVE  /\ sub'[s] # None =>
                         session'[s].state = "complete" /\ Owns(sub[s], session[s].customer)'
                    /\ sub'[s] # None /\ (event'[s] = "settled" \/ session'[s].reference = None)
                         => sub'[s] \in lost' \/ user'[sub'[s]].customer # None
                    /\ event'[s] = "settled" /\ session'[s].reference # None => sub'[s] # None
  BY Zenon DEF SubInv, Owns
<1>9. CASE s = z
  BY <1>7, <1>9, Zenon DEF Owns
<1>10. CASE s # z
  BY <1>6, <1>8, <1>10, Zenon DEF Inv, SubInv
<1> QED
  BY <1>9, <1>10, Zenon

(* The checkout's handler has linked the user by then.                     *)
LEMMA RecordStep ==
    ASSUME Inv, TypeOK', NEW w \in Workers, RecordSubscription(w)
    PROVE  Inv'
<1> DEFINE z == worker[w].session
<1>1. worker[w].at = "record" /\ worker[w].at \in Labels /\ worker[w].at \in Handlers
  BY Zenon DEF RecordSubscription, Labels, Handlers
<1>2. z \in Sessions /\ session[z].state = "complete"
  BY <1>1, Zenon DEF Inv, WorkerInv
<1>3. /\ worker'[w] = Idle /\ \A v \in Workers \ {w} : worker'[v] = worker[v]
      /\ UNCHANGED <<user, stripe, lost>>
  BY ZenonT(40) DEF RecordSubscription, Retries, Returns, Inv, TypeOK
<1>4. \A s \in Sessions \ {z} : event'[s] = event[s]
  BY <1>2, Zenon DEF RecordSubscription, Retries, Inv, TypeOK
<1>5. EventsKept
  BY <1>2, <1>4, Zenon DEF EventsKept
<1>6. StripeInv' /\ StripeKept /\ LinksKept
  BY <1>3, <1>5, StripeFrame, QuietLinks, Zenon DEF Inv
<1>7. LinkInv'
  BY <1>3, <1>6, LinkFrame, Zenon DEF Inv
<1>8. SubInv'
  <2>1. CASE Retries(w) /\ sub' = sub
    <3>1. SettledKept
      BY <1>2, <1>4, <2>1, Zenon DEF SettledKept, Retries, Inv, TypeOK
    <3> QED
      BY <1>6, <2>1, <3>1, SubFrame, Zenon DEF Inv
  <2>2. CASE Stores(z, worker[w].id)
    BY <1>1, <1>3, <1>4, <2>2, StoreKeeps, Zenon
  <2> QED
    BY <2>1, <2>2, Zenon DEF RecordSubscription
<1> QED
  BY <1>3, <1>6, <1>7, <1>8, IdleKeeps, StepKeeps, Zenon

(* A subscription event stores it and links nobody.                        *)
LEMMA CreateStep ==
    ASSUME Inv, TypeOK', NEW w \in Workers, createFromEvent(w)
    PROVE  Inv'
<1>1. /\ worker'[w] = Idle /\ \A v \in Workers \ {w} : worker'[v] = worker[v]
      /\ UNCHANGED <<user, stripe, lost>> /\ event' = event /\ worker[w].at = "create"
  BY Zenon DEF createFromEvent, Returns, Inv, TypeOK
<1>2. StripeInv' /\ StripeKept /\ LinksKept /\ SettledKept
  BY <1>1, QuietEvents, StripeFrame, QuietLinks, Zenon DEF Inv
<1>3. LinkInv'
  BY <1>1, <1>2, LinkFrame, Zenon DEF Inv
<1>4. SubInv'
  BY <1>1, <1>2, SubFrame, StoreKeeps, Zenon DEF createFromEvent, Inv
<1> QED
  BY <1>1, <1>2, <1>3, <1>4, IdleKeeps, StepKeeps, Zenon

(* A worker that dies leaves its event to be taken again.                  *)
LEMMA CrashStep ==
    ASSUME Inv, TypeOK', NEW w \in Workers, Crash(w) \/ CreatePortalSession(w)
    PROVE  Inv'
<1>1. /\ worker'[w] = Idle /\ \A v \in Workers \ {w} : worker'[v] = worker[v]
      /\ UNCHANGED <<user, sub, stripe, lost>>
  BY Zenon DEF Crash, CreatePortalSession, Retries, Returns, Inv, TypeOK
<1>2. EventsKept /\ SettledKept
  <2>1. CASE event' = event
    BY <2>1, QuietEvents, Zenon
  <2>2. CASE HoldsCheckout(w) /\ Retries(w)
    <3>1. worker[w].at \in Labels /\ worker[w].at \in Handlers
      BY <2>2, Zenon DEF HoldsCheckout, Labels, Handlers
    <3>2. worker[w].session \in Sessions /\ session[worker[w].session].state = "complete"
      BY <3>1, Zenon DEF Inv, WorkerInv
    <3> QED
      BY <2>2, <3>2, Zenon DEF EventsKept, SettledKept, Retries, Inv, TypeOK
  <2> QED
    BY <2>1, <2>2, Zenon DEF Crash, CreatePortalSession
<1> QED
  BY <1>1, <1>2, IdleKeeps, QuietStep, Zenon

-----------------------------------------------------------------------------
(* Theorems.                                                               *)

(* Nobody is linked and Stripe knows nobody.                               *)
LEMMA InitInv == Init => Inv
<1> SUFFICES ASSUME Init PROVE Inv
  BY Zenon
<1>1. TypeOK
  <2>1. Unregistered \in UserRows /\ Outdated \in UserRows
    BY Zenon DEF Unregistered, Outdated, UserRows
  <2>2. user \in [Users -> UserRows]
    BY <2>1, Zenon DEF Init
  <2> QED
    BY <2>2, AccountsAssumption DEF Init, TypeOK
<1>2. \A u \in Users : user[u].customer = None
  BY DEF Init, Unregistered, Outdated
<1>3. StripeInv
  BY Zenon DEF Init, StripeInv, SessionInv
<1>4. LinkInv /\ SubInv
  BY <1>2, Zenon DEF Init, LinkInv, SubInv
<1>5. \A w \in Workers : WorkerInv(w)
  BY Zenon DEF Init, WorkerInv, Idle, Labels
<1> QED
  BY <1>1, <1>3, <1>4, <1>5, Zenon DEF Inv

(* Every request, every event and every step of Stripe's keeps it.         *)
LEMMA InvStep == Inv /\ [Next]_vars => Inv'
<1> SUFFICES ASSUME Inv, [Next]_vars PROVE Inv'
  BY Zenon
<1>1. TypeOK'
  BY StepType, Zenon
<1>2. CASE UNCHANGED vars
  <2>1. StripeInv'
    BY <1>2 DEF vars, Inv, StripeInv, SessionInv, Made, Owns
  <2>2. LinkInv' /\ SubInv'
    BY <1>2, Zenon DEF vars, Inv, LinkInv, SubInv, Owns
  <2>3. \A w \in Workers : WorkerInv(w)'
    BY <1>2, ZenonT(40) DEF vars, Inv, WorkerInv, FindsLinked, Owns
  <2> QED
    BY <1>1, <2>1, <2>2, <2>3, Zenon DEF Inv
<1>3. CASE Next
  BY <1>1, <1>3, RegisterStep, OpenStep, TakeStep, TakeSubscriptionStep, RehashStep,
     CheckoutStep, LinkStep, RecordStep, CreateStep, CrashStep, CompleteStep,
     OutsideStep, Zenon DEF Next, WorkStep
<1> QED
  BY <1>2, <1>3, Zenon

(* The invariant of the accounts.                                          *)
THEOREM Invariance == Spec => []Inv
<1>1. Init => Inv
  BY InitInv, Zenon
<1>2. Inv /\ [Next]_vars => Inv'
  BY InvStep, Zenon
<1> QED
  BY <1>1, <1>2, PTL DEF Spec

(* CreatePortalSession opens the portal on a customer of the caller's own. *)
THEOREM OwnPortal == Spec => []PortalOpensOwnAccount
<1>1. Inv => PortalOpensOwnAccount
  BY Zenon DEF Inv, WorkerInv, Labels, Owns, PortalOpensOwnAccount
<1> QED
  BY <1>1, Invariance, PTL

(* A stored subscription is under the user whose checkout made the paying  *)
(* customer, however checkouts, logins and webhook retries interleave.     *)
THEOREM PayerOwns == Spec => []SubscriptionBelongsToPayer
<1>1. Inv => SubscriptionBelongsToPayer
  BY Zenon DEF Inv, SubInv, Owns, SubscriptionBelongsToPayer
<1> QED
  BY <1>1, Invariance, PTL

(* A set with at most one element has no two.                              *)
LEMMA AtMostOne ==
    ASSUME NEW S, IsFiniteSet(S), Cardinality(S) <= 1, NEW x \in S, NEW y \in S
    PROVE  x = y
<1> SUFFICES ASSUME x # y PROVE FALSE
  BY Zenon
<1>1. IsFiniteSet({x}) /\ Cardinality({x}) = 1
  BY FS_Singleton, Zenon
<1>2. IsFiniteSet({x} \cup {y}) /\ Cardinality({x} \cup {y}) = 2
  <2>1. Cardinality({x} \cup {y}) = IF y \in {x} THEN Cardinality({x}) ELSE Cardinality({x}) + 1
    BY <1>1, FS_AddElement, Zenon
  <2>2. IsFiniteSet({x} \cup {y})
    BY <1>1, FS_AddElement, Zenon
  <2> QED
    BY <1>1, <2>1, <2>2
<1>3. {x} \cup {y} \subseteq S
  BY Zenon
<1>4. Cardinality({x} \cup {y}) <= Cardinality(S) /\ Cardinality(S) \in Nat
  BY <1>3, FS_Subset, FS_CardinalityType, Zenon
<1> QED
  BY <1>2, <1>4

(* The customer that pays and the customer that is linked differ only when *)
(* two checkouts of the user went out without one, the link was lost, or   *)
(* the event of the checkout that pays is not settled yet.                 *)
THEOREM SplitByRaceOnly == Spec => []IdentitySplitsByRaceOnly
<1>1. Inv => IdentitySplitsByRaceOnly
  <2> SUFFICES ASSUME Inv, NEW s \in Sessions, sub[s] # None, event[s] = "settled",
                      sub[s] \notin lost, Cardinality(EmailSessions(sub[s])) <= 1
               PROVE  user[sub[s]].customer = session[s].customer
    BY Zenon DEF IdentitySplitsByRaceOnly
  <2> DEFINE u == sub[s]
  <2>1. /\ u \in Users /\ u # None /\ Owns(u, session[s].customer)
        /\ Owns(u, user[u].customer)
    BY Zenon DEF Inv, TypeOK, SubInv, LinkInv
  <2>2. \A c : Owns(u, c) => \E z \in EmailSessions(u) : session[z].customer = c
    BY <2>1 DEF Inv, StripeInv, Made, Owns, EmailSessions
  <2>3. IsFiniteSet(EmailSessions(u))
    BY AccountsAssumption, FS_Subset, Zenon DEF EmailSessions
  <2>4. PICK y \in EmailSessions(u), z \in EmailSessions(u) :
           session[y].customer = session[s].customer /\ session[z].customer = user[u].customer
    BY <2>1, <2>2
  <2>5. y = z
    BY <2>3, AtMostOne, Zenon
  <2> QED
    BY <2>4, <2>5, Zenon
<1> QED
  BY <1>1, Invariance, PTL

(* A checkout event that is acknowledged has stored its subscription,      *)
(* under the user who opened the session.                                  *)
THEOREM SettledRecorded == Spec => []SettledCheckoutIsRecorded
<1>1. Inv => SettledCheckoutIsRecorded
  <2> SUFFICES ASSUME Inv, NEW s \in Sessions, event[s] = "settled",
                      session[s].reference # None
               PROVE  sub[s] = session[s].reference
    BY Zenon DEF SettledCheckoutIsRecorded
  <2>1. session[s].state = "complete" /\ Owns(session[s].reference, session[s].customer)
    BY Zenon DEF Inv, StripeInv, SessionInv
  <2>2. Owns(sub[s], session[s].customer)
    BY Zenon DEF Inv, SubInv
  <2> QED
    BY <2>1, <2>2, Zenon DEF Owns
<1> QED
  BY <1>1, Invariance, PTL

(* Only a caller whose copy predates the link takes it off the row: a      *)
(* login's rehash or a second checkout's linkCustomer.                     *)
THEOREM StaleCopyOnly == Spec => LinkFallsToStaleCopyOnly
<1> DEFINE Falls(u) ==
        user[u].customer # None /\ user'[u].customer # user[u].customer
          => \E w \in Workers : /\ worker'[w] # worker[w] /\ worker[w].id = u
                                /\ worker[w].copy.customer # user[u].customer
<1>1. Inv /\ [Next]_vars => [\A u \in Users : Falls(u)]_vars
  <2> SUFFICES ASSUME Inv, Next, NEW u \in Users, user[u].customer # None,
                      user'[u].customer # user[u].customer
               PROVE  \E w \in Workers : /\ worker'[w] # worker[w] /\ worker[w].id = u
                                         /\ worker[w].copy.customer # user[u].customer
    BY Zenon DEF vars
  <2>1. ASSUME NEW v \in Users, NEW r, UpdateUser(v, r)
        PROVE  v = u /\ user'[u] = r
    BY <2>1, Zenon DEF UpdateUser, Inv, TypeOK
  <2>2. ASSUME NEW v \in Users, Register(v)
        PROVE  FALSE
    BY <2>2 DEF Register, Inv, TypeOK, UserRows
  <2>3. ASSUME NEW w \in Workers, SaveRehash(w)
        PROVE  /\ worker'[w] # worker[w] /\ worker[w].id = u
               /\ worker[w].copy.customer # user[u].customer
    <3>1. worker[w].id \in Users /\ worker[w].copy \in UserRows /\ worker[w] # Idle
      BY <2>3, RequestType, Zenon DEF SaveRehash, Labels, Inv
    <3>2. UpdateUser(worker[w].id, [worker[w].copy EXCEPT !.digest = "current"])
      BY <2>3, Zenon DEF SaveRehash
    <3>3. worker[w].id = u /\ user'[u] = [worker[w].copy EXCEPT !.digest = "current"]
      BY <2>1, <3>1, <3>2, Zenon
    <3>4. user'[u].customer = worker[w].copy.customer
      BY <3>1, <3>3, Zenon DEF UserRows
    <3>5. worker'[w] = Idle
      BY <2>3, Zenon DEF SaveRehash, Returns, Inv, TypeOK
    <3> QED
      BY <3>1, <3>3, <3>4, <3>5, Zenon
  <2>4. ASSUME NEW w \in Workers, linkCustomer(w)
        PROVE  /\ worker'[w] # worker[w] /\ worker[w].id = u
               /\ worker[w].copy.customer # user[u].customer
    <3>1. worker[w].id \in Users /\ worker[w] \in Requests
      BY <2>4, RequestType, Zenon DEF linkCustomer, Labels, Inv
    <3>2. /\ UpdateUser(worker[w].id, [worker[w].copy EXCEPT
                                          !.customer = session[worker[w].session].customer])
          /\ Links(w) /\ Goes(w, "record")
      BY <2>4, Zenon DEF linkCustomer
    <3>3. worker[w].id = u
      BY <2>1, <3>1, <3>2, Zenon
    <3>4. worker[w].at = "link" /\ worker'[w].at = "record"
      BY <2>4, <3>1, <3>2, Zenon DEF linkCustomer, Goes, Inv, TypeOK, Requests
    <3> QED
      BY <3>2, <3>3, <3>4, Zenon DEF Links
  <2> QED
    BY <2>2, <2>3, <2>4, Zenon
    DEF Next, WorkStep, Login, OpenCheckout, OpenPortal, TakeEvent, TakeSubscriptionEvent,
        CreateCheckoutSession, CreatePortalSession, RecordSubscription, createFromEvent, Crash,
        CompleteSession, CompleteOutside
<1> QED
  BY <1>1, Invariance, PTL DEF Spec, LinkFallsToStaleCopyOnly
=============================================================================
