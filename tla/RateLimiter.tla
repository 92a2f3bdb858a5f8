----------------------------- MODULE RateLimiter -----------------------------
(***************************************************************************)
(* The limiter of the credential endpoints: RateLimiter in                 *)
(* internal/handler/middleware/ratelimit.go, with the token buckets of     *)
(* golang.org/x/time/rate it is built on.  A request reads the clock,      *)
(* finds its bucket under the lock of the map, and only then, outside that *)
(* lock, reserves a token and, when it would have to wait, gives it back.  *)
(*                                                                         *)
(* A token is Period units and a bucket gains a unit per tick, so that     *)
(* levels and waiting times are whole numbers.  Beside its limiter every   *)
(* bucket carries an account of the rate: due, what it should hold when    *)
(* only the requests it let through count.                                 *)
(***************************************************************************)
EXTENDS Integers, Sequences, FiniteSetsExt

CONSTANTS Slots,          \* requests that can be in the limiter at once
          Clients,        \* addresses of clients
          Proxies,        \* the addresses of the trusted proxies, in order
          Headers,        \* what a caller may put in X-Forwarded-For itself
          Burst,          \* tokens of a full bucket
          Period,         \* ticks for one token: the rate is 1/Period
          TTL,            \* how long an idle bucket is kept
          MaxEntries,     \* buckets of the map
          MaxDelay,       \* bound: how long a request spends in the limiter
          MaxRequests,    \* bound: requests of a behaviour
          MaxClock        \* bound: the last instant

ASSUME LimiterAssumption ==
  /\ {Burst, Period, MaxEntries} \subseteq Nat \ {0}
  /\ MaxDelay \in Nat
  /\ TTL \in Nat
  /\ IsFiniteSet(Slots)

Address == [v6 : BOOLEAN, net : STRING, host : Nat]

\* What is left of a part with nothing but white space in it.
Blank == [v6 |-> FALSE, net |-> "", host |-> 0]

\* The peers of a proxy and of the service have addresses; a header may have
\* any parts.
ASSUME ChainAssumption ==
  /\ Clients \subseteq Address \ {Blank}
  /\ Proxies \in Seq(Address \ {Blank})
  /\ Headers \subseteq Seq(Address)

VARIABLES clock,   \* the time
          buckets, \* the map: the bucket of a key
          heap,    \* the buckets in use, by reference
          slot,    \* the requests in the limiter
          served   \* how many requests have arrived

vars == <<clock, buckets, heap, slot, served>>

Full == Burst * Period

-----------------------------------------------------------------------------
(***************************************************************************)
(* The key of a request.                                                   *)
(***************************************************************************)

\* An IPv6 address stands for its /64, any other one for itself.
normaliseIP(a) == IF a.v6 THEN [a EXCEPT !.host = 0] ELSE a

\* The hops named by the first entries of the header: blank ones are discarded.
Hops(parts) ==
  LET hops[i \in 0 .. Len(parts)] ==
        IF i = 0 THEN <<>>
        ELSE IF parts[i] = Blank THEN hops[i - 1] ELSE Append(hops[i - 1], parts[i])
  IN  hops

\* The leftmost entry is taken for the client.
LeftmostHop(parts, direct, trusted) == Head(Append(Hops(parts)[Len(parts)], direct))

\* The last hop is the peer; the client is so many hops before it as there are
\* trusted proxies.
clientAddr(parts, direct, trusted) ==
  LET hops == Append(Hops(parts)[Len(parts)], direct)
      idx == Len(hops) - trusted
  IN  IF trusted = 0 \/ idx < 1 THEN direct ELSE hops[idx]

\* The chain of trusted proxies: each appends its peer to the header, and the
\* last of them is the peer of the service.
Path(client) == <<client>> \o Proxies

Key(prefix, client) ==
  LET n == Len(Proxies)
  IN  normaliseIP(clientAddr(prefix \o SubSeq(Path(client), 1, n),
                             Path(client)[n + 1], n))

-----------------------------------------------------------------------------
(***************************************************************************)
(* rate.Limiter.                                                           *)
(***************************************************************************)

\* advance: the level at time t; an earlier t adds nothing.
Advance(b, t) == Min({Full, b.tokens + (IF t > b.last THEN t - b.last ELSE 0)})

NewBucket ==
  [tokens |-> Full, last |-> 0, lastEvent |-> 0, lastSeen |-> 0,
   due |-> Full, dueAt |-> 0, setBack |-> FALSE, overlapped |-> FALSE]

\* The account of the rate at time t, which never runs backwards.
Due(b, t) == Min({Full, b.due + (IF t > b.dueAt THEN t - b.dueAt ELSE 0)})

\* ReserveN(t, 1): the token is taken even if it is owed, and the time of the
\* bucket becomes t even if it was later.
Reserved(b, t) ==
  LET left == Advance(b, t) - Period
  IN  [b EXCEPT !.tokens = left, !.last = t,
                !.lastEvent = IF left < 0 THEN t - left ELSE t,
                !.setBack = @ \/ t < b.last]

\* CancelAt(t): what was reserved after it is not given back.
Cancelled(b, act, t) ==
  LET restore == Period - (b.lastEvent - act)
  IN  IF act < t \/ restore <= 0 THEN b
      ELSE [b EXCEPT !.tokens = Min({Full, Advance(b, t) + restore}),
                     !.last = t,
                     !.lastEvent = IF act = @ /\ act - Period >= t
                                   THEN act - Period ELSE @,
                     !.setBack = @ \/ t < b.last]

-----------------------------------------------------------------------------

Idle == [at |-> "idle"]

Init == /\ clock = 0
        /\ buckets = <<>>
        /\ heap = <<>>
        /\ slot = [s \in Slots |-> Idle]
        /\ served = 0

InFlight == {s \in Slots : slot[s].at # "idle"}

\* Buckets that no key and no request refers to any more are collected.
Collect(h, m, sl) ==
  LET holding == {s \in Slots : sl[s].at \in {"reserve", "cancel"}}
  IN  Restrict(h, Range(m) \cup {sl[s].ref : s \in holding})

\* Middleware: the key of the request, and the time, before any lock.
Arrive(s) ==
  \E client \in Clients, prefix \in Headers :
    /\ slot[s] = Idle /\ served < MaxRequests
    /\ slot' = [slot EXCEPT ![s] = [at |-> "lookup", client |-> client, now |-> clock,
                                    key |-> Key(prefix, client)]]
    /\ served' = served + 1
    /\ UNCHANGED <<clock, buckets, heap>>

\* The map may grow by one more.
OverCapacity == Cardinality(DOMAIN buckets) > MaxEntries

AtCapacity == Cardinality(DOMAIN buckets) >= MaxEntries

\* A map or a heap with an entry more, or another one under that name.
Put(m, k, v) == [x \in DOMAIN m \cup {k} |-> IF x = k THEN v ELSE m[x]]

\* The part of allow under the lock: find or make the bucket, note the time.
Lookup(s) ==
  /\ slot[s].at = "lookup"
  /\ LET k == slot[s].key
         known == k \in DOMAIN buckets
         ref == IF known THEN buckets[k]
                ELSE Min((1 .. Cardinality(DOMAIN heap) + 1) \ DOMAIN heap)
         b == IF known THEN heap[ref] ELSE NewBucket
     IN  /\ buckets' = IF known THEN buckets
                       ELSE Put(IF AtCapacity THEN <<>> ELSE buckets, k, ref)
         /\ slot' = [slot EXCEPT ![s] = [at |-> "reserve", client |-> @.client,
                                         now |-> @.now, key |-> k, ref |-> ref]]
         /\ heap' = Collect(Put(heap, ref, [b EXCEPT !.lastSeen = slot[s].now]),
                            buckets', slot')
  /\ UNCHANGED <<clock, served>>

\* A reservation of bucket ref that has not been given back yet.
Outstanding(ref) == \E s \in Slots : slot[s].at = "cancel" /\ slot[s].ref = ref

\* A short delay does not count.
DelayedMuch(b, t) == b.lastEvent > t + 1

\* DelayFrom: the reservation is for later.
Delayed(b, t) == b.lastEvent > t

\* ReserveN: no delay lets the request through, a delay has to be cancelled.
Reserve(s) ==
  /\ slot[s].at = "reserve"
  /\ LET t == slot[s].now
         ref == slot[s].ref
         b == Reserved(heap[ref], t)
         denied == Delayed(b, t)
     IN  /\ slot' = [slot EXCEPT ![s] =
                       IF denied THEN [at |-> "cancel", client |-> @.client, now |-> t,
                                       key |-> @.key, ref |-> ref, act |-> b.lastEvent]
                       ELSE Idle]
         /\ heap' = Collect(
              [heap EXCEPT ![ref] =
                 [b EXCEPT !.due = IF denied THEN @ ELSE Due(heap[ref], t) - Period,
                           !.dueAt = IF denied THEN @ ELSE Max({@, t}),
                           !.overlapped = @ \/ Outstanding(ref)]],
              buckets, slot')
  /\ UNCHANGED <<clock, buckets, served>>

\* The reservation of a denied request is kept.
Keep(b, act, t) == b

GiveBack(b, act, t) == Cancelled(b, act, t)

\* CancelAt, and the answer 429 with the delay.
Cancel(s) ==
  /\ slot[s].at = "cancel"
  /\ slot' = [slot EXCEPT ![s] = Idle]
  /\ heap' = Collect([heap EXCEPT ![slot[s].ref] =
                        GiveBack(@, slot[s].act, slot[s].now)], buckets, slot')
  /\ UNCHANGED <<clock, buckets, served>>

\* Half of the time to live.
ExpiresEarly(b) == clock - b.lastSeen > TTL \div 2

Expired(b) == clock - b.lastSeen > TTL

\* prune, called by the janitor every minute until Close.
Prune ==
  /\ \E k \in DOMAIN buckets : Expired(heap[buckets[k]])
  /\ buckets' = Restrict(buckets, {k \in DOMAIN buckets : ~Expired(heap[buckets[k]])})
  /\ heap' = Collect(heap, buckets', slot)
  /\ UNCHANGED <<clock, slot, served>>

\* Time passes; no request spends more than MaxDelay in the limiter.
Tick ==
  /\ clock < MaxClock
  /\ \A s \in InFlight : clock - slot[s].now < MaxDelay
  /\ clock' = clock + 1
  /\ UNCHANGED <<buckets, heap, slot, served>>

Next == \/ \E s \in Slots : Arrive(s) \/ Lookup(s) \/ Reserve(s) \/ Cancel(s)
        \/ Prune
        \/ Tick

Spec == Init /\ [][Next]_vars

-----------------------------------------------------------------------------

\* The map stays within MaxEntries and refers to buckets that exist, as do the
\* requests that hold one.
TypeOK ==
  /\ Cardinality(DOMAIN buckets) <= MaxEntries
  /\ Range(buckets) \subseteq DOMAIN heap
  /\ \A s \in Slots : slot[s].at \in {"reserve", "cancel"} => slot[s].ref \in DOMAIN heap
  /\ \A r \in DOMAIN heap : heap[r].tokens <= Full /\ heap[r].due <= Full

\* A request is counted against the address that reached the first trusted
\* proxy, or its /64, whatever the caller wrote in the header itself.
CallerDoesNotChooseKey ==
  \A s \in InFlight : slot[s].key = normaliseIP(slot[s].client)

\* A bucket never lets through more than its burst and its rate, however its
\* requests interleave, unless a request that read the clock earlier reserves
\* or cancels later and so sets the bucket's time back.
BucketKeepsRate == \A r \in DOMAIN heap : heap[r].setBack \/ heap[r].due >= 0

\* An idle bucket is kept for longer than a refill takes, also by requests that
\* are slow to get through the limiter.  By default it is kept for 15 minutes
\* and full after 25 seconds; no validation compares the two.
TTLOutlastsRefill == TTL >= Full + MaxDelay /\ TTL >= 2 * MaxDelay

\* Pruning forgets nothing: a bucket that is pruned would be full by now, if
\* its time was never set back, and no request still in the limiter holds it.
\* This needs TTLOutlastsRefill.
PruneForgetsNothing ==
  [][\A k \in DOMAIN buckets :
       Prune /\ k \notin DOMAIN buckets' =>
         LET ref == buckets[k]
         IN  /\ heap[ref].setBack \/ Due(heap[ref], clock) = Full
             /\ \A s \in Slots : slot[s].at \in {"reserve", "cancel"} =>
                  slot[s].ref # ref]_vars

\* A denied request costs nothing: with no reservation left to give back, the
\* bucket holds what it holds when only the requests let through count.  It
\* may hold less only if two reservations of denied requests overlapped.
LoneDenialsAreFree ==
  \A r \in DOMAIN heap :
    ~Outstanding(r) /\ ~heap[r].overlapped =>
      Advance(heap[r], clock) >= Due(heap[r], clock)

=============================================================================
