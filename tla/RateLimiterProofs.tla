-------------------------- MODULE RateLimiterProofs --------------------------
(***************************************************************************)
(* Proofs about the limiter, for any number of requests at once, any burst *)
(* and rate, and any clock: the map keeps to its size, a bucket lets       *)
(* through no more than its rate, a denied request that met no other costs *)
(* nothing, pruning forgets nothing if the TTL outlasts a refill, and no   *)
(* X-Forwarded-For header chooses the bucket of its request.               *)
(*                                                                         *)
(* The inductive invariant Inv has three parts.  TypeInv adds to TypeOK    *)
(* what times are known of each other: a request is in the limiter for at  *)
(* most MaxDelay, so a bucket was seen at most MaxDelay before the         *)
(* requests that hold it.  RateInv says why giving tokens back is safe     *)
(* while a bucket's time runs forward: the reservations that can still be  *)
(* given back are for times one Period apart up to lastEvent, each at a    *)
(* time at which the account would have a token.  FreeInv says what a      *)
(* reservation that met no other will find when it is given back.          *)
(***************************************************************************)
EXTENDS RateLimiter, FiniteSetTheorems, TLAPS

-----------------------------------------------------------------------------
(* Induction over a number, and the key of a request. *)

(* A nonempty set of natural numbers has a least element.                  *)
LEMMA LeastNumber ==
  ASSUME NEW S, S \subseteq Nat, S # {}
  PROVE  Min(S) \in S /\ \A n \in S : ~(n < Min(S))
<1> DEFINE Less == {p \in Nat \X Nat : p[1] < p[2]}
<1>1. IsWellFoundedOn(Less, Nat)
  BY NatLessThanWellFounded, Zenon DEF OpToRel
<1>2. PICK m \in S : \A n \in S : <<n, m>> \notin Less
  <2> HIDE DEF Less
  <2> QED
    BY <1>1, WFMin, Zenon
<1>3. \A n \in S : ~(n < m) /\ n \in Nat /\ m \in Nat
  <2> SUFFICES ASSUME NEW n \in S PROVE ~(n < m) /\ n \in Nat /\ m \in Nat
    BY Zenon
  <2>1. <<n, m>> \in Nat \X Nat /\ n \in Nat /\ m \in Nat
    BY Zenon
  <2> QED
    BY <1>2, <2>1, Zenon
<1>4. \A n \in S : m =< n
  BY <1>3
<1>5. Min(S) \in S /\ \A n \in S : Min(S) =< n
  BY <1>4, Zenon DEF Min
<1> DEFINE least == Min(S)
<1>6. least \in Nat /\ S \subseteq Nat /\ \A n \in S : least =< n
  BY <1>5, Zenon
<1> HIDE DEF least
<1>7. \A n \in S : ~(n < least)
  BY <1>6
<1> QED
  BY <1>5, <1>7, Zenon DEF least

(* The header a proxy sends on ends with what the proxies wrote.           *)
LEMMA Concatenation ==
  ASSUME NEW S, NEW a \in Seq(S), NEW b \in Seq(S)
  PROVE  /\ a \o b \in Seq(S) /\ Len(a \o b) = Len(a) + Len(b)
         /\ \A j \in 1 .. Len(b) : (a \o b)[Len(a) + j] = b[j]
<1>1. a \o b \in Seq(S) /\ Len(a \o b) = Len(a) + Len(b)
  OBVIOUS
<1>2. \A j \in 1 .. Len(b) : (a \o b)[Len(a) + j] = b[j]
  <2> SUFFICES ASSUME NEW j \in 1 .. Len(b) PROVE (a \o b)[Len(a) + j] = b[j]
    BY Zenon
  <2>1. Len(a) + j \in 1 .. Len(a) + Len(b) /\ ~(Len(a) + j <= Len(a))
    OBVIOUS
  <2> QED
    BY <2>1
<1> QED
  BY <1>1, <1>2, Zenon

(* The hops after i parts, from those after i - 1.                         *)
HopsAt(parts, h, i) ==
  IF i = 0 THEN <<>>
  ELSE IF parts[i] = Blank THEN h[i - 1] ELSE Append(h[i - 1], parts[i])

(* There is such a function, for every number of parts.                    *)
LEMMA HopsExist ==
  ASSUME NEW parts
  PROVE  \A n \in Nat : \E h : h = [i \in 0 .. n |-> HopsAt(parts, h, i)]
<1> DEFINE Good(n) == \E h : h = [i \in 0 .. n |-> HopsAt(parts, h, i)]
           Bad == {n \in Nat : ~Good(n)}
<1> SUFFICES ASSUME Bad # {} PROVE FALSE
  BY Zenon
<1>1. PICK n \in Bad : \A m \in Bad : ~(m < n)
  <2>1. Bad \subseteq Nat
    BY Zenon
  <2> HIDE DEF Bad
  <2> QED
    BY <2>1, LeastNumber, Zenon
<1>2. n \in Nat /\ ~Good(n)
  BY Zenon
<1>3. CASE n = 0
  <2> DEFINE h == [i \in 0 .. n |-> <<>>]
  <2>1. h = [i \in 0 .. n |-> HopsAt(parts, h, i)]
    BY <1>3 DEF HopsAt
  <2> QED
    BY <1>2, <2>1, Zenon
<1>4. CASE n # 0
  <2>1. n - 1 \in Nat /\ n - 1 < n
    BY <1>2, <1>4
  <2>2. Good(n - 1)
    BY <1>1, <2>1, Zenon
  <2>3. PICK g : g = [i \in 0 .. n - 1 |-> HopsAt(parts, g, i)]
    BY <2>2, Zenon
  <2> DEFINE h == [i \in 0 .. n |-> IF i = n THEN HopsAt(parts, g, n) ELSE g[i]]
  <2>4. \A i \in 0 .. n : h[i] = HopsAt(parts, h, i)
    <3> SUFFICES ASSUME NEW i \in 0 .. n PROVE h[i] = HopsAt(parts, h, i)
      BY Zenon
    <3>1. i # 0 => i - 1 \in 0 .. n /\ i - 1 # n
      BY <1>2
    <3>2. i # 0 => h[i - 1] = g[i - 1]
      BY <3>1, Zenon
    <3>3. HopsAt(parts, h, i) = HopsAt(parts, g, i)
      <4> HIDE DEF h
      <4> QED
        BY <3>2, Zenon DEF HopsAt
    <3>4. i # n => i \in 0 .. n - 1
      BY <1>2
    <3>5. i # n => g[i] = HopsAt(parts, g, i)
      BY <2>3, <3>4, Zenon
    <3> HIDE DEF h
    <3>6. h[i] = IF i = n THEN HopsAt(parts, g, n) ELSE g[i]
      BY Zenon DEF h
    <3> QED
      BY <3>3, <3>5, <3>6, Zenon
  <2>5. h = [i \in 0 .. n |-> HopsAt(parts, h, i)]
    <3>1. h = [i \in 0 .. n |-> h[i]]
      BY Zenon
    <3> HIDE DEF h
    <3> QED
      BY <2>4, <3>1, Zenon
  <2> QED
    BY <1>2, <2>5, Zenon
<1> QED
  BY <1>3, <1>4, Zenon

(* So the loop over the parts computes what its body says.                 *)
LEMMA HopsDefined ==
  ASSUME NEW parts, Len(parts) \in Nat
  PROVE  \A i \in 0 .. Len(parts) : Hops(parts)[i] = HopsAt(parts, Hops(parts), i)
<1>1. PICK h : h = [i \in 0 .. Len(parts) |-> HopsAt(parts, h, i)]
  BY HopsExist, Zenon
<1>2. Hops(parts) = [i \in 0 .. Len(parts) |-> HopsAt(parts, Hops(parts), i)]
  BY <1>1, Zenon DEF Hops, HopsAt
<1> QED
  BY <1>2, Zenon

(* They are sequences of addresses.                                        *)
LEMMA HopsType ==
  ASSUME NEW parts \in Seq(Address)
  PROVE  \A i \in 0 .. Len(parts) : Hops(parts)[i] \in Seq(Address)
<1> DEFINE H == Hops(parts)
           Bad == {i \in 0 .. Len(parts) : H[i] \notin Seq(Address)}
<1>0. Len(parts) \in Nat
  OBVIOUS
<1> SUFFICES ASSUME Bad # {} PROVE FALSE
  BY Zenon
<1>1. PICK i \in Bad : \A m \in Bad : ~(m < i)
  <2>1. Bad \subseteq Nat
    BY <1>0
  <2> HIDE DEF Bad
  <2> QED
    BY <2>1, LeastNumber, Zenon
<1>2. i \in 0 .. Len(parts) /\ H[i] \notin Seq(Address) /\ H[i] = HopsAt(parts, H, i)
  BY <1>0, HopsDefined, Zenon
<1>3. i # 0
  BY <1>2 DEF HopsAt
<1>4. i - 1 \in 0 .. Len(parts) /\ i - 1 < i /\ parts[i] \in Address
  BY <1>0, <1>2, <1>3
<1>5. H[i - 1] \in Seq(Address)
  BY <1>1, <1>4, Zenon
<1> HIDE DEF H
<1> QED
  BY <1>2, <1>3, <1>4, <1>5 DEF HopsAt

(* Parts at the end of the header that are not blank are the last hops,    *)
(* whatever stands before them.                                            *)
LEMMA LastHops ==
  ASSUME NEW parts \in Seq(Address), NEW p \in Nat, NEW n \in Nat, Len(parts) = p + n,
         \A j \in 1 .. n : parts[p + j] # Blank
  PROVE  \A j \in 0 .. n :
           /\ Len(Hops(parts)[p + j]) = Len(Hops(parts)[p]) + j
           /\ \A k \in 1 .. j :
                Hops(parts)[p + j][Len(Hops(parts)[p]) + k] = parts[p + k]
<1> DEFINE H == Hops(parts)
           Ends(j) == /\ Len(H[p + j]) = Len(H[p]) + j
                      /\ \A k \in 1 .. j : H[p + j][Len(H[p]) + k] = parts[p + k]
           Bad == {j \in 0 .. n : ~Ends(j)}
<1> SUFFICES ASSUME Bad # {} PROVE FALSE
  BY Zenon
<1>1. PICK j \in Bad : \A m \in Bad : ~(m < j)
  <2>1. Bad \subseteq Nat
    OBVIOUS
  <2> HIDE DEF Bad
  <2> QED
    BY <2>1, LeastNumber, Zenon
<1>2. j \in 0 .. n /\ ~Ends(j)
  BY Zenon
<1>3. \A i \in 0 .. p + n : H[i] \in Seq(Address) /\ H[i] = HopsAt(parts, H, i)
  <2>1. \A i \in 0 .. Len(parts) : H[i] \in Seq(Address)
    BY HopsType, Zenon
  <2>2. \A i \in 0 .. Len(parts) : H[i] = HopsAt(parts, H, i)
    <3>1. Len(parts) \in Nat
      OBVIOUS
    <3> QED
      BY <3>1, HopsDefined, Zenon
  <2> HIDE DEF H
  <2> QED
    BY <2>1, <2>2, Zenon
<1> HIDE DEF H
<1>4. Len(H[p]) \in Nat
  BY <1>3
<1>5. j # 0
  <2>1. p + 0 = p /\ Len(H[p]) + 0 = Len(H[p]) /\ 1 .. 0 = {}
    BY <1>4
  <2>2. Ends(0)
    BY <2>1, Zenon
  <2> QED
    BY <1>2, <2>2, Zenon
<1>6. /\ j - 1 \in 0 .. n /\ j - 1 < j /\ j \in 1 .. n /\ p + j \in 0 .. p + n
      /\ p + j # 0 /\ p + (j - 1) = (p + j) - 1 /\ p + j \in 1 .. p + n
      /\ (p + j) - 1 \in 0 .. p + n
  BY <1>2, <1>5
<1>7. Ends(j - 1)
  BY <1>1, <1>6, Zenon
<1> DEFINE before == H[(p + j) - 1]
<1>8. /\ before \in Seq(Address) /\ parts[p + j] \in Address
      /\ Len(before) = Len(H[p]) + (j - 1)
      /\ \A k \in 1 .. j - 1 : before[Len(H[p]) + k] = parts[p + k]
  BY <1>3, <1>6, <1>7
<1>9. H[p + j] = Append(before, parts[p + j])
  <2>1. parts[p + j] # Blank /\ H[p + j] = HopsAt(parts, H, p + j)
    BY <1>3, <1>6, Zenon
  <2> QED
    BY <1>6, <2>1, Zenon DEF HopsAt
<1> HIDE DEF before, Ends, Bad
<1>10. Len(H[p + j]) = Len(before) + 1 /\ Len(before) + 1 = Len(H[p]) + j
  <2>1. Len(Append(before, parts[p + j])) = Len(before) + 1
    BY <1>8
  <2>2. Len(H[p]) + (j - 1) + 1 = Len(H[p]) + j
    BY <1>4, <1>6
  <2> QED
    BY <1>8, <1>9, <2>1, <2>2, Zenon
<1>11. ASSUME NEW k \in 1 .. j
       PROVE  H[p + j][Len(H[p]) + k] = parts[p + k]
  <2>1. CASE k = j
    <3>1. Len(H[p]) + k = Len(before) + 1
      BY <1>10, <2>1, Zenon
    <3>2. Append(before, parts[p + j])[Len(before) + 1] = parts[p + j]
      BY <1>8
    <3> QED
      BY <1>9, <2>1, <3>1, <3>2, Zenon
  <2>2. CASE k # j
    <3>1. k \in 1 .. j - 1 /\ Len(H[p]) + k \in 1 .. Len(H[p]) + (j - 1)
      BY <1>4, <1>6, <2>2
    <3>2. Len(H[p]) + k \in 1 .. Len(before) /\ before[Len(H[p]) + k] = parts[p + k]
      BY <1>8, <3>1, Zenon
    <3>3. \A i \in 1 .. Len(before) : Append(before, parts[p + j])[i] = before[i]
      BY <1>8
    <3> QED
      BY <1>9, <3>2, <3>3, Zenon
  <2> QED
    BY <2>1, <2>2, Zenon
<1> QED
  BY <1>2, <1>10, <1>11, Zenon DEF Ends

(* ClientKeyFunc counts the trusted proxies back to the address that       *)
(* reached the first of them.                                              *)
LEMMA KeyIsClient ==
  ASSUME NEW client \in Clients, NEW prefix \in Headers
  PROVE  Key(prefix, client) = normaliseIP(client)
<1> DEFINE n == Len(Proxies)
           p == Len(prefix)
           tail == SubSeq(Path(client), 1, n)
           parts == prefix \o tail
           direct == Path(client)[n + 1]
<1> SUFFICES clientAddr(parts, direct, n) = client
  BY Zenon DEF Key
<1>1. /\ client \in Address /\ client # Blank /\ n \in Nat /\ p \in Nat
      /\ prefix \in Seq(Address) /\ Proxies \in Seq(Address)
      /\ \A j \in 1 .. n : Proxies[j] # Blank
  BY ChainAssumption
<1>2. /\ Path(client) \in Seq(Address) /\ Len(Path(client)) = n + 1
      /\ Path(client)[1] = client
      /\ \A j \in 1 .. n : Path(client)[j + 1] = Proxies[j]
  BY <1>1 DEF Path
<1>3. \A j \in 1 .. n + 1 : Path(client)[j] # Blank
  <2> SUFFICES ASSUME NEW j \in 1 .. n + 1 PROVE Path(client)[j] # Blank
    BY Zenon
  <2>1. CASE j = 1
    BY <1>1, <1>2, <2>1, Zenon
  <2>2. CASE j # 1
    <3>1. j - 1 \in 1 .. n /\ (j - 1) + 1 = j
      BY <1>1, <2>2
    <3> QED
      BY <1>1, <1>2, <3>1, ZenonT(40)
  <2> QED
    BY <2>1, <2>2, Zenon
<1>4. tail \in Seq(Address) /\ Len(tail) = n /\ \A j \in 1 .. n : tail[j] = Path(client)[j]
  BY <1>1, <1>2
<1>5. direct \in Address
  BY <1>1, <1>2
<1> HIDE DEF tail, direct
<1>6. /\ parts \in Seq(Address) /\ Len(parts) = p + n
      /\ \A j \in 1 .. n : parts[p + j] = tail[j]
  <2>1. prefix \in Seq(Address) /\ tail \in Seq(Address) /\ Len(tail) = n
    BY <1>1, <1>4, Zenon
  <2>2. /\ parts \in Seq(Address) /\ Len(parts) = p + Len(tail)
        /\ \A j \in 1 .. Len(tail) : parts[p + j] = tail[j]
    BY ONLY <2>1, Concatenation, Zenon
  <2> QED
    BY ONLY <2>1, <2>2, Zenon
<1>7. \A j \in 1 .. n : parts[p + j] # Blank
  <2>1. \A j \in 1 .. n : j \in 1 .. n + 1
    BY <1>1
  <2> QED
    BY <1>3, <1>4, <1>6, <2>1, Zenon
<1> HIDE DEF parts, p
<1>8. CASE n = 0
  <2>1. direct = client
    BY <1>2, <1>8 DEF direct
  <2> QED
    BY <1>8, <2>1, Zenon DEF clientAddr
<1>9. CASE n # 0
  <2> DEFINE m == Len(Hops(parts)[p])
             last == Hops(parts)[Len(parts)]
             hops == Append(last, direct)
  <2>1. p \in 0 .. Len(parts) /\ Len(parts) \in 0 .. Len(parts) /\ n \in 0 .. n /\ 1 \in 1 .. n
    BY <1>1, <1>6, <1>9
  <2>2. last \in Seq(Address) /\ m \in Nat
    BY <1>6, <2>1, HopsType
  <2>3. Len(last) = m + n /\ last[m + 1] = parts[p + 1]
    <3>1. \A j \in 0 .. n :
            /\ Len(Hops(parts)[p + j]) = m + j
            /\ \A k \in 1 .. j : Hops(parts)[p + j][m + k] = parts[p + k]
      <4>1. p \in Nat
        BY <1>1, Zenon DEF p
      <4> QED
        BY <1>1, <1>6, <1>7, <4>1, LastHops, ZenonT(40)
    <3>2. Len(Hops(parts)[p + n]) = m + n /\ Hops(parts)[p + n][m + 1] = parts[p + 1]
      BY <2>1, <3>1, Zenon
    <3> QED
      BY <1>6, <3>2, Zenon
  <2> HIDE DEF m, last
  <2>4. Len(hops) - n = m + 1 /\ ~(m + 1 < 1) /\ hops[m + 1] = last[m + 1]
    <3>1. Len(hops) = Len(last) + 1 /\ \A i \in 1 .. Len(last) : hops[i] = last[i]
      BY <1>5, <2>2
    <3>2. m + 1 \in 1 .. m + n /\ ((m + n) + 1) - n = m + 1 /\ ~(m + 1 < 1)
      BY <1>1, <1>9, <2>2
    <3>3. Len(hops) - n = m + 1
      BY <2>3, <3>1, <3>2, Zenon
    <3>4. hops[m + 1] = last[m + 1]
      BY <2>3, <3>1, <3>2, Zenon
    <3> QED
      BY <3>2, <3>3, <3>4, Zenon
  <2>5. parts[p + 1] = client
    BY <1>2, <1>4, <1>6, <2>1, Zenon
  <2>6. hops[Len(hops) - n] = client /\ ~(Len(hops) - n < 1)
    BY <2>3, <2>4, <2>5, Zenon
  <2> QED
    BY <1>9, <2>6, Zenon DEF clientAddr, last
<1> QED
  BY <1>8, <1>9, Zenon

-----------------------------------------------------------------------------
(* The inductive invariant. *)

Bucket == [tokens : Int, last : Nat, lastEvent : Int, lastSeen : Nat,
           due : Int, dueAt : Nat, setBack : BOOLEAN, overlapped : BOOLEAN]

Holds(s) == slot[s].at \in {"reserve", "cancel"}

Cancels(s, r) == slot[s].at = "cancel" /\ slot[s].ref = r

(* A bucket within its bounds; its account was charged last at most        *)
(* MaxDelay after it was last seen.                                        *)
Sound(b) ==
  /\ b \in Bucket
  /\ b.tokens <= Full /\ b.due <= Full
  /\ b.dueAt <= b.lastSeen + MaxDelay
  /\ b.dueAt <= clock

(* A request read the clock at most MaxDelay ago, its bucket was seen at   *)
(* most MaxDelay before that, and a reservation to give back is for later. *)
SlotInv(s) ==
  /\ slot[s].at \in {"idle", "lookup", "reserve", "cancel"}
  /\ slot[s].at # "idle" =>
       /\ slot[s].now \in Nat
       /\ slot[s].now <= clock /\ clock <= slot[s].now + MaxDelay
  /\ Holds(s) => /\ slot[s].ref \in DOMAIN heap
                 /\ slot[s].now <= heap[slot[s].ref].lastSeen + MaxDelay
  /\ slot[s].at = "cancel" => slot[s].act \in Int /\ slot[s].act > slot[s].now

TypeInv ==
  /\ clock \in Nat
  /\ IsFiniteSet(DOMAIN buckets) /\ Cardinality(DOMAIN buckets) <= MaxEntries
  /\ IsFiniteSet(DOMAIN heap)
  /\ \A k \in DOMAIN buckets : buckets[k] \in DOMAIN heap
  /\ slot = [s \in Slots |-> slot[s]]
  /\ \A s \in Slots : SlotInv(s)
  /\ \A r \in DOMAIN heap : Sound(heap[r])

(* What a bucket holds is covered by its account, which is not overdrawn;  *)
(* once it holds nothing, lastEvent is when it will be out of debt.        *)
Covered(b) ==
  /\ b.due >= 0 /\ b.dueAt <= b.last
  /\ b.tokens <= b.due + (b.last - b.dueAt)
  /\ b.tokens <= 0 => b.lastEvent = b.last - b.tokens

(* A reservation for a time still to come: the bucket is in debt until     *)
(* then, it lies whole periods before lastEvent, and by then the account   *)
(* has the token.                                                          *)
Owed(b, act) ==
  /\ b.tokens <= b.last - act
  /\ \E k \in 0 .. b.lastEvent - act : b.lastEvent = act + k * Period
  /\ b.due + (act - b.dueAt) >= Period

RateAt(r) ==
  ~heap[r].setBack =>
    /\ Covered(heap[r])
    /\ \A s \in Slots :
         Cancels(s, r) /\ slot[s].act >= heap[r].last => Owed(heap[r], slot[s].act)
    /\ \A s1, s2 \in Slots :
         /\ Cancels(s1, r) /\ Cancels(s2, r)
         /\ slot[s1].act = slot[s2].act /\ slot[s1].act >= heap[r].last
         => s1 = s2

RateInv == \A r \in DOMAIN heap : RateAt(r)

(* The one reservation of a bucket that met no other: nothing has changed  *)
(* since it was made.                                                      *)
Lone(b, v) ==
  /\ b.last = v.now /\ b.lastEvent = v.act
  /\ Due(b, b.last) <= b.tokens + Period /\ b.tokens + Period <= Full

FreeAt(r) ==
  ~heap[r].overlapped =>
    /\ ~Outstanding(r) => heap[r].tokens >= Due(heap[r], heap[r].last)
    /\ \A s \in Slots : Cancels(s, r) => Lone(heap[r], slot[s])
    /\ \A s1, s2 \in Slots : Cancels(s1, r) /\ Cancels(s2, r) => s1 = s2

FreeInv == \A r \in DOMAIN heap : FreeAt(r)

Inv == TypeInv /\ RateInv /\ FreeInv

-----------------------------------------------------------------------------
(* Operators of the model. *)

(* What the assumption says of the constants.                              *)
LEMMA Constants ==
  /\ Period \in Nat /\ Period >= 1
  /\ Full \in Nat /\ Full >= Period
  /\ MaxEntries \in Nat /\ MaxEntries >= 1
  /\ MaxDelay \in Nat /\ TTL \in Nat
<1>1. /\ Burst \in Nat /\ Burst >= 1 /\ Period \in Nat /\ Period >= 1
      /\ MaxEntries \in Nat /\ MaxEntries >= 1 /\ MaxDelay \in Nat /\ TTL \in Nat
  BY LimiterAssumption
<1>2. Burst * Period \in Nat /\ Burst * Period >= Period
  <2>1. Burst * Period = (Burst - 1) * Period + Period
    BY <1>1
  <2>2. (Burst - 1) * Period \in Nat
    BY <1>1
  <2> QED
    BY <1>1, <2>1, <2>2
<1> QED
  BY <1>1, <1>2, LimiterAssumption, Zenon DEF Full

(* The smaller of two numbers.                                             *)
LEMMA MinOfTwo ==
  ASSUME NEW m \in Int, NEW n \in Int
  PROVE  Min({m, n}) = IF m <= n THEN m ELSE n
<1>1. \E x \in {m, n} : \A y \in {m, n} : x =< y
  OBVIOUS
<1>2. Min({m, n}) \in {m, n} /\ \A y \in {m, n} : Min({m, n}) =< y
  BY <1>1, Zenon DEF Min
<1> QED
  BY <1>2

(* The larger of two numbers.                                              *)
LEMMA MaxOfTwo ==
  ASSUME NEW m \in Int, NEW n \in Int
  PROVE  Max({m, n}) = IF m >= n THEN m ELSE n
<1>1. \E x \in {m, n} : \A y \in {m, n} : x >= y
  OBVIOUS
<1>2. Max({m, n}) \in {m, n} /\ \A y \in {m, n} : Max({m, n}) >= y
  BY <1>1, Zenon DEF Max
<1> QED
  BY <1>2

(* The fields of a bucket.                                                 *)
LEMMA BucketFields ==
  ASSUME NEW b \in Bucket
  PROVE  /\ b.tokens \in Int /\ b.last \in Nat /\ b.lastEvent \in Int
         /\ b.lastSeen \in Nat /\ b.due \in Int /\ b.dueAt \in Nat
         /\ b.setBack \in BOOLEAN /\ b.overlapped \in BOOLEAN
BY Zenon DEF Bucket

(* The level of a bucket at a time, and what its account says of it.       *)
LEMMA AdvanceIs ==
  ASSUME NEW b \in Bucket, NEW t \in Nat
  PROVE  LET x == b.tokens + (IF t > b.last THEN t - b.last ELSE 0)
         IN  /\ x \in Int /\ Advance(b, t) \in Int
             /\ Advance(b, t) = IF Full <= x THEN Full ELSE x
<1> DEFINE x == b.tokens + (IF t > b.last THEN t - b.last ELSE 0)
<1>1. x \in Int
  BY BucketFields
<1>2. Advance(b, t) = Min({Full, x})
  BY Zenon DEF Advance
<1> HIDE DEF x
<1>3. Advance(b, t) \in Int /\ Advance(b, t) = IF Full <= x THEN Full ELSE x
  BY <1>1, <1>2, MinOfTwo, Constants
<1> QED
  BY <1>1, <1>3, Zenon DEF x

(* The account of admitted requests refills in the same way.               *)
LEMMA DueIs ==
  ASSUME NEW b \in Bucket, NEW t \in Nat
  PROVE  LET x == b.due + (IF t > b.dueAt THEN t - b.dueAt ELSE 0)
         IN  /\ x \in Int /\ Due(b, t) \in Int
             /\ Due(b, t) = IF Full <= x THEN Full ELSE x
<1> DEFINE x == b.due + (IF t > b.dueAt THEN t - b.dueAt ELSE 0)
<1>1. x \in Int
  BY BucketFields
<1>2. Due(b, t) = Min({Full, x})
  BY Zenon DEF Due
<1> HIDE DEF x
<1>3. Due(b, t) \in Int /\ Due(b, t) = IF Full <= x THEN Full ELSE x
  BY <1>1, <1>2, MinOfTwo, Constants
<1> QED
  BY <1>1, <1>3, Zenon DEF x

(* What Reserve makes of a bucket; o tells whether a reservation is still  *)
(* to be given back.                                                       *)
Charged(b, t, o) ==
  LET c == Reserved(b, t)
      denied == Delayed(c, t)
  IN  [c EXCEPT !.due = IF denied THEN @ ELSE Due(b, t) - Period,
                !.dueAt = IF denied THEN @ ELSE Max({@, t}),
                !.overlapped = @ \/ o]

(* The bucket after a reservation, field by field.                         *)
LEMMA ReservedIs ==
  ASSUME NEW b \in Bucket, NEW t \in Nat
  PROVE  LET left == Advance(b, t) - Period
         IN  Reserved(b, t) =
               [tokens |-> left, last |-> t,
                lastEvent |-> IF left < 0 THEN t - left ELSE t,
                lastSeen |-> b.lastSeen, due |-> b.due, dueAt |-> b.dueAt,
                setBack |-> (b.setBack \/ t < b.last), overlapped |-> b.overlapped]
<1> DEFINE left == Advance(b, t) - Period
           event == IF left < 0 THEN t - left ELSE t
           back == b.setBack \/ t < b.last
<1>1. Reserved(b, t) = [b EXCEPT !.tokens = left, !.last = t, !.lastEvent = event,
                                 !.setBack = back]
  BY Zenon DEF Reserved
<1> HIDE DEF left, event, back
<1>2. Reserved(b, t) =
        [tokens |-> left, last |-> t, lastEvent |-> event, lastSeen |-> b.lastSeen,
         due |-> b.due, dueAt |-> b.dueAt, setBack |-> back, overlapped |-> b.overlapped]
  BY <1>1, Zenon DEF Bucket
<1> QED
  BY <1>2, Zenon DEF left, event, back

(* A request that has to wait: its time lies ahead, its account is not     *)
(* charged.                                                                *)
LEMMA DeniedIs ==
  ASSUME NEW b \in Bucket, NEW t \in Nat, NEW o \in BOOLEAN, Advance(b, t) < Period
  PROVE  LET left == Advance(b, t) - Period
         IN  /\ Delayed(Reserved(b, t), t)
             /\ Reserved(b, t).lastEvent = t - left
             /\ Charged(b, t, o) =
                  [tokens |-> left, last |-> t, lastEvent |-> t - left,
                   lastSeen |-> b.lastSeen, due |-> b.due, dueAt |-> b.dueAt,
                   setBack |-> (b.setBack \/ t < b.last),
                   overlapped |-> (b.overlapped \/ o)]
<1> DEFINE left == Advance(b, t) - Period
           back == b.setBack \/ t < b.last
           event == IF left < 0 THEN t - left ELSE t
           c == Reserved(b, t)
<1>1. left \in Int /\ left < 0 /\ t - left > t
  BY AdvanceIs, Constants
<1>2. c = [tokens |-> left, last |-> t, lastEvent |-> event,
           lastSeen |-> b.lastSeen, due |-> b.due, dueAt |-> b.dueAt,
           setBack |-> back, overlapped |-> b.overlapped]
  BY ReservedIs, Zenon
<1>3. event = t - left
  BY <1>1, Zenon
<1> HIDE DEF left, back, event
<1>4. c.lastEvent = t - left
  BY <1>2, <1>3
<1>5. Delayed(c, t)
  BY <1>1, <1>4, Zenon DEF Delayed
<1>6. Charged(b, t, o) = [c EXCEPT !.due = c.due, !.dueAt = c.dueAt,
                                   !.overlapped = c.overlapped \/ o]
  BY <1>5, Zenon DEF Charged
<1>7. Charged(b, t, o) =
        [tokens |-> left, last |-> t, lastEvent |-> t - left,
         lastSeen |-> b.lastSeen, due |-> b.due, dueAt |-> b.dueAt,
         setBack |-> back, overlapped |-> (b.overlapped \/ o)]
  <2> HIDE DEF c
  <2> QED
    BY <1>2, <1>3, <1>6, Zenon
<1> QED
  BY <1>4, <1>5, <1>7, Zenon DEF left, back

(* A request that is let through, and charged to the account.              *)
LEMMA PassedIs ==
  ASSUME NEW b \in Bucket, NEW t \in Nat, NEW o \in BOOLEAN, ~(Advance(b, t) < Period)
  PROVE  /\ ~Delayed(Reserved(b, t), t)
         /\ Charged(b, t, o) =
              [tokens |-> Advance(b, t) - Period, last |-> t, lastEvent |-> t,
               lastSeen |-> b.lastSeen, due |-> Due(b, t) - Period,
               dueAt |-> IF b.dueAt >= t THEN b.dueAt ELSE t,
               setBack |-> (b.setBack \/ t < b.last),
               overlapped |-> (b.overlapped \/ o)]
<1> DEFINE left == Advance(b, t) - Period
           back == b.setBack \/ t < b.last
           event == IF left < 0 THEN t - left ELSE t
           late == IF b.dueAt >= t THEN b.dueAt ELSE t
           c == Reserved(b, t)
<1>1. left \in Int /\ ~(left < 0) /\ ~(t > t)
  BY AdvanceIs, Constants
<1>2. c = [tokens |-> left, last |-> t, lastEvent |-> event,
           lastSeen |-> b.lastSeen, due |-> b.due, dueAt |-> b.dueAt,
           setBack |-> back, overlapped |-> b.overlapped]
  BY ReservedIs, Zenon
<1>3. event = t
  BY <1>1, Zenon
<1>4. Max({b.dueAt, t}) = late
  BY MaxOfTwo, BucketFields
<1> HIDE DEF left, back, event, late
<1>5. c.lastEvent = t /\ c.dueAt = b.dueAt
  BY <1>2, <1>3
<1>6. ~Delayed(c, t)
  BY <1>1, <1>5, Zenon DEF Delayed
<1>7. Charged(b, t, o) = [c EXCEPT !.due = Due(b, t) - Period, !.dueAt = late,
                                   !.overlapped = c.overlapped \/ o]
  BY <1>4, <1>5, <1>6, Zenon DEF Charged
<1>8. Charged(b, t, o) =
        [tokens |-> left, last |-> t, lastEvent |-> t,
         lastSeen |-> b.lastSeen, due |-> Due(b, t) - Period, dueAt |-> late,
         setBack |-> back, overlapped |-> (b.overlapped \/ o)]
  <2> HIDE DEF c
  <2> QED
    BY <1>2, <1>3, <1>7, Zenon
<1> QED
  BY <1>6, <1>8, Zenon DEF left, back, late

(* A cancellation that gives something back, field by field.               *)
LEMMA CancelledIs ==
  ASSUME NEW b \in Bucket, NEW act \in Int, NEW t \in Nat,
         act >= t, Period - (b.lastEvent - act) > 0
  PROVE  Cancelled(b, act, t) =
           [tokens |-> Min({Full, Advance(b, t) + (Period - (b.lastEvent - act))}),
            last |-> t,
            lastEvent |-> IF act = b.lastEvent /\ act - Period >= t
                          THEN act - Period ELSE b.lastEvent,
            lastSeen |-> b.lastSeen, due |-> b.due, dueAt |-> b.dueAt,
            setBack |-> (b.setBack \/ t < b.last), overlapped |-> b.overlapped]
<1> DEFINE restore == Period - (b.lastEvent - act)
           back == b.setBack \/ t < b.last
           event == IF act = b.lastEvent /\ act - Period >= t
                    THEN act - Period ELSE b.lastEvent
           level == Min({Full, Advance(b, t) + restore})
<1>1. ~(act < t \/ restore <= 0)
  BY BucketFields, Constants
<1>2. Cancelled(b, act, t) =
        IF act < t \/ restore <= 0 THEN b
        ELSE [b EXCEPT !.tokens = level, !.last = t, !.lastEvent = event, !.setBack = back]
  BY Zenon DEF Cancelled
<1> HIDE DEF restore, back, event, level
<1>3. Cancelled(b, act, t) =
        [tokens |-> level, last |-> t, lastEvent |-> event, lastSeen |-> b.lastSeen,
         due |-> b.due, dueAt |-> b.dueAt, setBack |-> back, overlapped |-> b.overlapped]
  BY <1>1, <1>2, Zenon DEF Bucket
<1> QED
  BY <1>3, Zenon DEF level, event, back, restore

(* Any other cancellation leaves the bucket as it is.                      *)
LEMMA NotCancelled ==
  ASSUME NEW b \in Bucket, NEW act \in Int, NEW t \in Nat,
         ~(act >= t /\ Period - (b.lastEvent - act) > 0)
  PROVE  Cancelled(b, act, t) = b
<1>1. act < t \/ Period - (b.lastEvent - act) <= 0
  BY BucketFields, Constants
<1> QED
  BY <1>1, Zenon DEF Cancelled

-----------------------------------------------------------------------------
(* What the operators do to a bucket whose time runs forward. *)

(* Multiples of the period.                                                *)
LEMMA Multiples ==
  ASSUME NEW k \in Nat
  PROVE  /\ k * Period \in Nat /\ k <= k * Period
         /\ (k + 1) * Period = k * Period + Period
         /\ k = 0 => k * Period = 0
         /\ k >= 1 => /\ (k - 1) * Period = k * Period - Period
                      /\ k - 1 <= k * Period - Period
                      /\ k * Period >= Period
<1>1. Period \in Nat /\ Period >= 1
  BY Constants, Zenon
<1>2. \A n \in Nat : n * Period \in Nat /\ n <= n * Period
  BY <1>1
<1>3. (k + 1) * Period = k * Period + Period
  BY <1>1
<1>4. ASSUME k >= 1
      PROVE  (k - 1) * Period = k * Period - Period /\ k - 1 \in Nat
  BY <1>1, <1>4
<1>5. ASSUME k >= 1
      PROVE  k - 1 <= k * Period - Period /\ k * Period >= Period
  <2>1. (k - 1) * Period \in Nat /\ k - 1 <= (k - 1) * Period
    BY <1>2, <1>4, <1>5, Zenon
  <2>2. k * Period \in Nat
    BY <1>2, Zenon
  <2> QED
    BY <1>1, <1>4, <1>5, <2>1, <2>2
<1>6. k = 0 => k * Period = 0
  BY <1>1
<1> QED
  BY <1>2, <1>3, <1>4, <1>5, <1>6, Zenon

(* What a covered bucket holds is within its account at any later time.    *)
LEMMA CoveredLater ==
  ASSUME NEW b \in Bucket, Covered(b), NEW t \in Nat, t >= b.last
  PROVE  /\ Advance(b, t) <= Due(b, t)
         /\ Due(b, t) <= b.due + (t - b.dueAt)
         /\ Advance(b, t) <= b.tokens + (t - b.last)
<1>1. /\ b.tokens \in Int /\ b.last \in Nat /\ b.due \in Int /\ b.dueAt \in Nat
      /\ Full \in Nat /\ Advance(b, t) \in Int /\ Due(b, t) \in Int
  BY BucketFields, Constants, AdvanceIs, DueIs, Zenon
<1>2. /\ b.dueAt <= b.last /\ b.tokens <= b.due + (b.last - b.dueAt)
  BY Zenon DEF Covered
<1>3. LET x == b.tokens + (t - b.last)
      IN  Advance(b, t) = IF Full <= x THEN Full ELSE x
  BY <1>1, AdvanceIs
<1>4. LET x == b.due + (t - b.dueAt)
      IN  Due(b, t) = IF Full <= x THEN Full ELSE x
  BY <1>1, <1>2, DueIs
<1> QED
  BY <1>1, <1>2, <1>3, <1>4

(* A reservation owed at a time still to come keeps the bucket in debt     *)
(* until then.                                                             *)
LEMMA OwedLater ==
  ASSUME NEW b \in Bucket, Covered(b), NEW t \in Nat, t >= b.last,
         NEW a \in Int, a >= t, Owed(b, a)
  PROVE  /\ Advance(b, t) = b.tokens + (t - b.last)
         /\ Advance(b, t) <= t - a
         /\ b.lastEvent = t - Advance(b, t)
         /\ b.lastEvent >= a
<1>1. /\ b.tokens \in Int /\ b.last \in Nat /\ b.lastEvent \in Int
      /\ Full \in Nat /\ Full >= 1 /\ Advance(b, t) \in Int
  BY BucketFields, Constants, AdvanceIs
<1>2. b.tokens <= b.last - a
  BY Zenon DEF Owed
<1>3. b.lastEvent = b.last - b.tokens
  BY <1>1, <1>2 DEF Covered
<1>4. LET x == b.tokens + (t - b.last)
      IN  Advance(b, t) = IF Full <= x THEN Full ELSE x
  BY <1>1, AdvanceIs
<1> QED
  BY <1>1, <1>2, <1>3, <1>4

(* A denied request leaves a covered bucket covered and owes its own       *)
(* token, later than any other one that is owed.                           *)
LEMMA DeniedCovered ==
  ASSUME NEW b \in Bucket, Covered(b), NEW t \in Nat, t >= b.last,
         NEW o \in BOOLEAN, Advance(b, t) < Period
  PROVE  LET n == Charged(b, t, o)
         IN  /\ Covered(n) /\ Owed(n, n.lastEvent)
             /\ \A a \in Int : a >= t /\ Owed(b, a) => Owed(n, a) /\ a < n.lastEvent
<1> DEFINE n == Charged(b, t, o)
<1>1. /\ b.tokens \in Int /\ b.last \in Nat /\ b.due \in Int /\ b.dueAt \in Nat
      /\ b.lastEvent \in Int /\ Advance(b, t) \in Int /\ Period \in Nat /\ Period >= 1
  BY BucketFields, Constants, AdvanceIs, Zenon
<1>2. /\ n.tokens = Advance(b, t) - Period /\ n.last = t
      /\ n.lastEvent = t - (Advance(b, t) - Period)
      /\ n.due = b.due /\ n.dueAt = b.dueAt
  BY DeniedIs
<1> HIDE DEF n
<1>3. /\ b.due >= 0 /\ b.dueAt <= b.last
      /\ Advance(b, t) <= b.due + (t - b.dueAt)
  <2>1. Due(b, t) \in Int
    BY DueIs, Zenon
  <2> QED
    BY <1>1, <2>1, CoveredLater DEF Covered
<1>4. Covered(n)
  BY <1>1, <1>2, <1>3 DEF Covered
<1>5. Owed(n, n.lastEvent)
  <2>1. n.lastEvent \in Int /\ n.lastEvent = n.lastEvent + 0 * Period
    BY <1>1, <1>2
  <2>2. 0 \in 0 .. n.lastEvent - n.lastEvent
    BY <2>1
  <2>3. n.tokens <= n.last - n.lastEvent
    BY <1>1, <1>2
  <2>4. n.due + (n.lastEvent - n.dueAt) >= Period
    BY <1>1, <1>2, <1>3
  <2> QED
    BY <2>1, <2>2, <2>3, <2>4, Zenon DEF Owed
<1>6. ASSUME NEW a \in Int, a >= t, Owed(b, a)
      PROVE  Owed(n, a) /\ a < n.lastEvent
  <2>1. /\ Advance(b, t) <= t - a
        /\ b.lastEvent = t - Advance(b, t)
        /\ b.lastEvent >= a
    BY <1>6, OwedLater, Zenon
  <2>2. PICK k \in 0 .. b.lastEvent - a : b.lastEvent = a + k * Period
    BY <1>6, Zenon DEF Owed
  <2>3. k \in Nat /\ k * Period \in Nat /\ (k + 1) * Period = k * Period + Period
    BY <1>1, <2>2, Multiples
  <2>4. n.lastEvent = a + (k + 1) * Period /\ k + 1 \in 0 .. n.lastEvent - a
    BY <1>1, <1>2, <2>1, <2>2, <2>3
  <2>5. n.tokens <= n.last - a /\ a < n.lastEvent
    BY <1>1, <1>2, <2>1
  <2>6. n.due + (a - n.dueAt) >= Period
    BY <1>2, <1>6, Zenon DEF Owed
  <2> QED
    BY <2>4, <2>5, <2>6, Zenon DEF Owed
<1> QED
  BY <1>4, <1>5, <1>6, Zenon DEF n

(* A request that is let through leaves a covered bucket covered, and does *)
(* not meet a reservation that is owed for later.                          *)
LEMMA PassedCovered ==
  ASSUME NEW b \in Bucket, Covered(b), NEW t \in Nat, t >= b.last,
         NEW o \in BOOLEAN, ~(Advance(b, t) < Period)
  PROVE  /\ Covered(Charged(b, t, o))
         /\ \A a \in Int : Owed(b, a) => a < t
<1> DEFINE n == Charged(b, t, o)
<1>1. /\ b.last \in Nat /\ b.dueAt \in Nat /\ b.dueAt <= b.last
      /\ Advance(b, t) \in Int /\ Due(b, t) \in Int /\ Period \in Nat /\ Period >= 1
  BY BucketFields, Constants, AdvanceIs, DueIs, Zenon DEF Covered
<1>2. /\ n.tokens = Advance(b, t) - Period /\ n.last = t /\ n.lastEvent = t
      /\ n.due = Due(b, t) - Period
      /\ n.dueAt = IF b.dueAt >= t THEN b.dueAt ELSE t
  BY PassedIs
<1> HIDE DEF n
<1>3. n.dueAt = t
  BY <1>1, <1>2
<1>4. Advance(b, t) <= Due(b, t)
  BY CoveredLater, Zenon
<1>5. Covered(n)
  BY <1>1, <1>2, <1>3, <1>4 DEF Covered
<1>6. ASSUME NEW a \in Int, Owed(b, a), ~(a < t)
      PROVE  FALSE
  <2>1. Advance(b, t) <= t - a
    BY <1>6, OwedLater
  <2> QED
    BY <1>1, <1>6, <2>1
<1> QED
  BY <1>5, <1>6, Zenon DEF n

(* A token that is given back leaves a covered bucket covered, and leaves  *)
(* owed what else is owed.                                                 *)
LEMMA CancelledCovered ==
  ASSUME NEW b \in Bucket, Covered(b), NEW t \in Nat, t >= b.last,
         NEW act \in Int, act >= t, Owed(b, act), Period - (b.lastEvent - act) > 0
  PROVE  LET n == Cancelled(b, act, t)
         IN  /\ Covered(n)
             /\ \A a \in Int : a >= t /\ Owed(b, a) /\ a # act => Owed(n, a)
<1> DEFINE n == Cancelled(b, act, t)
<1>1. /\ b.tokens \in Int /\ b.last \in Nat /\ b.due \in Int /\ b.dueAt \in Nat
      /\ b.lastEvent \in Int /\ Advance(b, t) \in Int
      /\ Period \in Nat /\ Period >= 1 /\ Full \in Nat /\ Full >= Period
  BY BucketFields, Constants, AdvanceIs, Zenon
<1>2. b.lastEvent = act
  <2>1. PICK k \in 0 .. b.lastEvent - act : b.lastEvent = act + k * Period
    BY Zenon DEF Owed
  <2>2. k \in Nat /\ k * Period \in Nat /\ (k >= 1 => k * Period >= Period)
        /\ (k = 0 => k * Period = 0)
    BY <1>1, <2>1, Multiples
  <2> QED
    BY <1>1, <2>1, <2>2
<1>3. b.lastEvent = t - Advance(b, t) /\ Advance(b, t) <= t - act
  BY OwedLater, Zenon
<1>4. Min({Full, Advance(b, t) + (Period - (b.lastEvent - act))}) = t - act + Period
  <2>1. Advance(b, t) + (Period - (b.lastEvent - act)) = t - act + Period
    BY <1>1, <1>2, <1>3
  <2>2. t - act + Period \in Int /\ t - act + Period <= Full
    BY <1>1
  <2> QED
    BY <1>1, <2>1, <2>2, MinOfTwo
<1>5. /\ n.tokens = t - act + Period /\ n.last = t
      /\ n.lastEvent = IF act - Period >= t THEN act - Period ELSE act
      /\ n.due = b.due /\ n.dueAt = b.dueAt
  <2> DEFINE level == Min({Full, Advance(b, t) + (Period - (b.lastEvent - act))})
             event == IF act = b.lastEvent /\ act - Period >= t
                      THEN act - Period ELSE b.lastEvent
             back == b.setBack \/ t < b.last
  <2>1. n = [tokens |-> level, last |-> t, lastEvent |-> event,
             lastSeen |-> b.lastSeen, due |-> b.due, dueAt |-> b.dueAt,
             setBack |-> back, overlapped |-> b.overlapped]
    BY CancelledIs, Zenon
  <2>2. level = t - act + Period /\ event = IF act - Period >= t THEN act - Period ELSE act
    BY <1>2, <1>4, Zenon
  <2> HIDE DEF n, level, event, back
  <2> QED
    BY <2>1, <2>2, Zenon
<1> HIDE DEF n
<1>6. Covered(n)
  <2>1. b.due >= 0 /\ b.dueAt <= b.last /\ b.due + (act - b.dueAt) >= Period
    BY Zenon DEF Covered, Owed
  <2> QED
    BY <1>1, <1>5, <2>1 DEF Covered
<1>7. ASSUME NEW a \in Int, a >= t, Owed(b, a), a # act
      PROVE  Owed(n, a)
  <2>1. PICK k \in 0 .. b.lastEvent - a : b.lastEvent = a + k * Period
    BY <1>7, Zenon DEF Owed
  <2>2. /\ k \in Nat /\ k * Period \in Nat
        /\ k = 0 => k * Period = 0
        /\ k >= 1 => /\ (k - 1) * Period = k * Period - Period
                     /\ k - 1 <= k * Period - Period
                     /\ k * Period >= Period
    BY <1>1, <2>1, Multiples
  <2>3. k >= 1
    BY <1>1, <1>2, <1>7, <2>1, <2>2
  <2>4. n.lastEvent = act - Period
    BY <1>1, <1>2, <1>5, <1>7, <2>1, <2>2, <2>3
  <2>5. n.lastEvent = a + (k - 1) * Period /\ k - 1 \in 0 .. n.lastEvent - a
    <3>1. n.lastEvent = a + (k * Period - Period)
      <4> DEFINE m == k * Period
      <4>1. m \in Int /\ Period \in Int /\ act = a + m /\ n.lastEvent = act - Period
        <5>1. m \in Nat
          BY <2>2, Zenon
        <5>2. act = a + m
          BY <1>2, <2>1, Zenon
        <5> QED
          BY <1>1, <2>4, <5>1, <5>2
      <4> HIDE DEF m
      <4>2. n.lastEvent = a + (m - Period)
        BY <4>1
      <4> QED
        BY <4>2, Zenon DEF m
    <3>2. (k - 1) * Period = k * Period - Period /\ k - 1 <= k * Period - Period
      BY <2>2, <2>3, Zenon
    <3>3. n.lastEvent = a + (k - 1) * Period
      BY <3>1, <3>2, Zenon
    <3>4. k - 1 <= n.lastEvent - a
      BY <1>1, <2>2, <3>1, <3>2
    <3> QED
      BY <1>1, <2>2, <2>3, <2>4, <3>3, <3>4
  <2>6. n.tokens <= n.last - a
    BY <1>1, <1>2, <1>5, <1>7, <2>1, <2>2, <2>3
  <2>7. n.due + (a - n.dueAt) >= Period
    BY <1>5, <1>7, Zenon DEF Owed
  <2> QED
    BY <2>5, <2>6, <2>7, Zenon DEF Owed
<1> QED
  BY <1>6, <1>7, Zenon DEF n

(* A bucket that holds what its account says at its own time holds it at   *)
(* any time.                                                               *)
LEMMA FreeLater ==
  ASSUME NEW b \in Bucket, b.tokens >= Due(b, b.last), NEW t \in Nat
  PROVE  Advance(b, t) >= Due(b, t)
<1>1. /\ b.tokens \in Int /\ b.last \in Nat /\ b.due \in Int /\ b.dueAt \in Nat
      /\ Full \in Nat
  BY BucketFields, Constants, Zenon
<1>2. LET x == b.tokens + (IF t > b.last THEN t - b.last ELSE 0)
      IN  Advance(b, t) = IF Full <= x THEN Full ELSE x
  BY AdvanceIs, Zenon
<1>3. LET x == b.due + (IF t > b.dueAt THEN t - b.dueAt ELSE 0)
      IN  Due(b, t) = IF Full <= x THEN Full ELSE x
  BY DueIs, Zenon
<1>4. LET x == b.due + (IF b.last > b.dueAt THEN b.last - b.dueAt ELSE 0)
      IN  Due(b, b.last) = IF Full <= x THEN Full ELSE x
  BY <1>1, DueIs, Zenon
<1> QED
  BY <1>1, <1>2, <1>3, <1>4

(* The bucket after a reservation is sound, and its time is the request's. *)
LEMMA ChargedSound ==
  ASSUME NEW b, Sound(b), clock \in Nat, NEW t \in Nat, t <= clock,
         t <= b.lastSeen + MaxDelay, NEW o \in BOOLEAN
  PROVE  LET n == Charged(b, t, o)
         IN  /\ Sound(n) /\ n.last = t /\ n.lastSeen = b.lastSeen
             /\ n.setBack = (b.setBack \/ t < b.last)
             /\ n.overlapped = (b.overlapped \/ o)
             /\ n.tokens = Advance(b, t) - Period
<1> DEFINE n == Charged(b, t, o)
           back == b.setBack \/ t < b.last
           over == b.overlapped \/ o
<1>1. b \in Bucket
  BY Zenon DEF Sound
<1>2. /\ b.tokens \in Int /\ b.last \in Nat /\ b.due \in Int /\ b.dueAt \in Nat
      /\ b.lastSeen \in Nat /\ back \in BOOLEAN /\ over \in BOOLEAN
  BY <1>1, BucketFields, Zenon
<1>3. /\ Advance(b, t) \in Int /\ Advance(b, t) <= Full
      /\ Due(b, t) \in Int /\ Due(b, t) <= Full
      /\ Period \in Nat /\ Full \in Nat /\ MaxDelay \in Nat
  BY <1>1, AdvanceIs, DueIs, Constants
<1>4. CASE Advance(b, t) < Period
  <2> DEFINE left == Advance(b, t) - Period
             event == t - left
  <2>1. n = [tokens |-> left, last |-> t, lastEvent |-> event,
             lastSeen |-> b.lastSeen, due |-> b.due, dueAt |-> b.dueAt,
             setBack |-> back, overlapped |-> over]
    BY <1>1, <1>4, DeniedIs, Zenon
  <2>2. left \in Int /\ left <= Full /\ event \in Int
    BY <1>3
  <2> HIDE DEF n, left, event, back, over
  <2>3. n \in Bucket
    BY <1>2, <2>1, <2>2, Zenon DEF Bucket
  <2>4. n.tokens <= Full /\ n.due <= Full /\ n.dueAt <= n.lastSeen + MaxDelay
        /\ n.dueAt <= clock
    BY <2>1, <2>2, Zenon DEF Sound
  <2>5. Sound(n)
    BY <2>3, <2>4, Zenon DEF Sound
  <2> QED
    BY <2>1, <2>5 DEF n, back, over, left
<1>5. CASE ~(Advance(b, t) < Period)
  <2> DEFINE left == Advance(b, t) - Period
             due == Due(b, t) - Period
             late == IF b.dueAt >= t THEN b.dueAt ELSE t
  <2>1. n = [tokens |-> left, last |-> t, lastEvent |-> t,
             lastSeen |-> b.lastSeen, due |-> due, dueAt |-> late,
             setBack |-> back, overlapped |-> over]
    BY <1>1, <1>5, PassedIs, Zenon
  <2>2. left \in Int /\ left <= Full /\ due \in Int /\ due <= Full
    BY <1>3
  <2>3. late \in Nat /\ late <= b.lastSeen + MaxDelay /\ late <= clock
    BY <1>2, Zenon DEF Sound
  <2> HIDE DEF n, left, due, late, back, over
  <2>4. n \in Bucket
    BY <1>2, <2>1, <2>2, <2>3 DEF Bucket
  <2>5. n.tokens <= Full /\ n.due <= Full /\ n.dueAt <= n.lastSeen + MaxDelay
        /\ n.dueAt <= clock
    BY <2>1, <2>2, <2>3, Zenon
  <2>6. Sound(n)
    BY <2>4, <2>5, Zenon DEF Sound
  <2> QED
    BY <2>1, <2>6 DEF n, back, over, left
<1> QED
  BY <1>4, <1>5, Zenon

(* So is the bucket after a cancellation, which changes neither account    *)
(* nor the time it was seen.                                               *)
LEMMA CancelledSound ==
  ASSUME NEW b, Sound(b), NEW t \in Nat, NEW act \in Int
  PROVE  LET n == Cancelled(b, act, t)
         IN  /\ Sound(n) /\ n.lastSeen = b.lastSeen
             /\ n.overlapped = b.overlapped
             /\ n.due = b.due /\ n.dueAt = b.dueAt
             /\ \/ n = b
                \/ /\ act >= t /\ Period - (b.lastEvent - act) > 0
                   /\ n.last = t /\ n.setBack = (b.setBack \/ t < b.last)
<1> DEFINE n == Cancelled(b, act, t)
           back == b.setBack \/ t < b.last
<1>1. b \in Bucket
  BY Zenon DEF Sound
<1>2. CASE ~(act >= t /\ Period - (b.lastEvent - act) > 0)
  BY <1>1, <1>2, NotCancelled, Zenon
<1>3. CASE act >= t /\ Period - (b.lastEvent - act) > 0
  <2> DEFINE level == Min({Full, Advance(b, t) + (Period - (b.lastEvent - act))})
             event == IF act = b.lastEvent /\ act - Period >= t
                      THEN act - Period ELSE b.lastEvent
  <2>1. n = [tokens |-> level, last |-> t, lastEvent |-> event,
             lastSeen |-> b.lastSeen, due |-> b.due, dueAt |-> b.dueAt,
             setBack |-> back, overlapped |-> b.overlapped]
    BY <1>1, <1>3, CancelledIs, Zenon
  <2>2. /\ b.last \in Nat /\ b.due \in Int /\ b.dueAt \in Nat /\ b.lastEvent \in Int
        /\ b.lastSeen \in Nat /\ back \in BOOLEAN /\ b.overlapped \in BOOLEAN
        /\ Full \in Nat /\ Period \in Nat
    BY <1>1, BucketFields, Constants, Zenon
  <2>3. level \in Int /\ level <= Full
    <3>1. Advance(b, t) + (Period - (b.lastEvent - act)) \in Int
      BY <1>1, <2>2, AdvanceIs
    <3> QED
      BY <2>2, <3>1, MinOfTwo
  <2>4. event \in Int
    BY <2>2
  <2> HIDE DEF n, level, event, back
  <2>5. n \in Bucket
    BY <2>1, <2>2, <2>3, <2>4, Zenon DEF Bucket
  <2>6. n.tokens <= Full /\ n.due <= Full /\ n.dueAt <= n.lastSeen + MaxDelay
        /\ n.dueAt <= clock
    BY <2>1, <2>3, Zenon DEF Sound
  <2>7. Sound(n)
    BY <2>5, <2>6, Zenon DEF Sound
  <2> QED
    BY <1>3, <2>1, <2>7 DEF n, back
<1> QED
  BY <1>2, <1>3, Zenon

(* A bucket that holds what its account says still does after a request    *)
(* was let through.                                                        *)
LEMMA PassedFree ==
  ASSUME NEW b \in Bucket, b.tokens >= Due(b, b.last), NEW t \in Nat,
         NEW o \in BOOLEAN, ~(Advance(b, t) < Period), Charged(b, t, o) \in Bucket
  PROVE  LET n == Charged(b, t, o) IN n.tokens >= Due(n, n.last)
<1> DEFINE n == Charged(b, t, o)
<1>1. /\ b.dueAt \in Nat /\ Full \in Nat /\ Period \in Nat
      /\ Advance(b, t) \in Int /\ Due(b, t) \in Int /\ Due(b, t) <= Full
  BY BucketFields, Constants, AdvanceIs, DueIs
<1>2. /\ n.tokens = Advance(b, t) - Period /\ n.last = t
      /\ n.due = Due(b, t) - Period
      /\ n.dueAt = IF b.dueAt >= t THEN b.dueAt ELSE t
  BY PassedIs
<1> HIDE DEF n
<1>3. n.dueAt \in Nat /\ n.dueAt >= t
  BY <1>1, <1>2
<1>4. LET x == n.due + (IF t > n.dueAt THEN t - n.dueAt ELSE 0)
      IN  Due(n, t) = IF Full <= x THEN Full ELSE x
  BY DueIs, Zenon DEF n
<1>5. Due(n, t) <= n.due
  BY <1>1, <1>2, <1>3, <1>4
<1>6. Advance(b, t) >= Due(b, t)
  BY FreeLater, Zenon
<1>7. n.tokens >= Due(n, n.last)
  <2>1. Due(n, t) \in Int
    BY DueIs, Zenon DEF n
  <2> QED
    BY <1>1, <1>2, <1>5, <1>6, <2>1
<1> QED
  BY <1>7, Zenon DEF n

(* A denied request's reservation, alone on the bucket, will find what it  *)
(* left.                                                                   *)
LEMMA DeniedFree ==
  ASSUME NEW b \in Bucket, b.tokens >= Due(b, b.last), NEW t \in Nat,
         NEW o \in BOOLEAN, Advance(b, t) < Period,
         NEW v, v.now = t, v.act = Reserved(b, t).lastEvent
  PROVE  Lone(Charged(b, t, o), v)
<1> DEFINE n == Charged(b, t, o)
<1>1. /\ Full \in Nat /\ Period \in Nat
      /\ Advance(b, t) \in Int /\ Advance(b, t) <= Full /\ Due(b, t) \in Int
  BY Constants, AdvanceIs, DueIs
<1>2. /\ n.tokens = Advance(b, t) - Period /\ n.last = t /\ n.lastEvent = v.act
      /\ n.due = b.due /\ n.dueAt = b.dueAt
  BY DeniedIs
<1> HIDE DEF n
<1>3. Due(n, t) = Due(b, t)
  BY <1>2, Zenon DEF Due
<1>4. Advance(b, t) >= Due(b, t)
  BY FreeLater, Zenon
<1>5. Lone(n, v)
  BY <1>1, <1>2, <1>3, <1>4 DEF Lone
<1> QED
  BY <1>5, Zenon DEF n

(* Given back, it leaves the bucket with what its account says.            *)
LEMMA CancelledFree ==
  ASSUME NEW b \in Bucket, NEW v, Lone(b, v), v.now \in Nat, v.act \in Int, v.act > v.now
  PROVE  LET n == Cancelled(b, v.act, v.now) IN n.tokens >= Due(n, n.last)
<1> DEFINE n == Cancelled(b, v.act, v.now)
           restore == Period - (b.lastEvent - v.act)
<1>1. /\ b.tokens \in Int /\ b.lastEvent \in Int /\ Full \in Nat
      /\ Period \in Nat /\ Period >= 1
      /\ b.last = v.now /\ b.lastEvent = v.act /\ b.last \in Nat
      /\ Due(b, b.last) <= b.tokens + Period /\ b.tokens + Period <= Full
  BY BucketFields, Constants, Zenon DEF Lone
<1>2. restore = Period
  BY <1>1
<1>3. Advance(b, v.now) = b.tokens
  <2>1. LET x == b.tokens + (IF v.now > b.last THEN v.now - b.last ELSE 0)
        IN  Advance(b, v.now) = IF Full <= x THEN Full ELSE x
    BY AdvanceIs, Zenon
  <2> QED
    BY <1>1, <2>1
<1>4. Min({Full, Advance(b, v.now) + restore}) = b.tokens + Period
  <2>1. b.tokens + Period \in Int
    BY <1>1
  <2> QED
    BY <1>1, <1>2, <1>3, <2>1, MinOfTwo
<1>5. /\ n.tokens = b.tokens + Period /\ n.last = v.now
      /\ n.due = b.due /\ n.dueAt = b.dueAt
  <2>1. n = [tokens |-> Min({Full, Advance(b, v.now) + restore}),
            last |-> v.now,
            lastEvent |-> IF v.act = b.lastEvent /\ v.act - Period >= v.now
                          THEN v.act - Period ELSE b.lastEvent,
            lastSeen |-> b.lastSeen, due |-> b.due, dueAt |-> b.dueAt,
            setBack |-> (b.setBack \/ v.now < b.last), overlapped |-> b.overlapped]
    <3>1. v.act >= v.now /\ restore > 0
      BY <1>1, <1>2
    <3> QED
      BY <3>1, CancelledIs, Zenon
  <2> HIDE DEF n, restore
  <2> QED
    BY <1>4, <2>1, Zenon
<1> HIDE DEF n
<1>6. Due(n, v.now) = Due(b, v.now)
  BY <1>5, Zenon DEF Due
<1>7. n.tokens >= Due(n, n.last)
  <2>1. Due(b, v.now) \in Int
    BY DueIs, Zenon
  <2> QED
    BY <1>1, <1>5, <1>6, <2>1, Zenon
<1> QED
  BY <1>7, Zenon DEF n

-----------------------------------------------------------------------------
(* What every step of a request has in common. *)

(* The reference of a new bucket is not in use.                            *)
LEMMA FreshReference ==
  ASSUME NEW D, IsFiniteSet(D)
  PROVE  Min((1 .. Cardinality(D) + 1) \ D) \notin D
<1> DEFINE n == Cardinality(D) + 1
           S == (1 .. n) \ D
<1>1. Cardinality(D) \in Nat
  BY FS_CardinalityType, Zenon
<1>2. S # {}
  <2> SUFFICES ASSUME S = {} PROVE FALSE
    BY Zenon
  <2>1. 1 .. n \in SUBSET D
    BY Zenon
  <2>2. Cardinality(1 .. n) <= Cardinality(D)
    BY <2>1, FS_Subset, Zenon
  <2>3. Cardinality(1 .. n) = n
    BY <1>1, FS_Interval
  <2> QED
    BY <1>1, <2>2, <2>3
<1>3. S \subseteq Nat
  OBVIOUS
<1>4. Min(S) \in S
  BY <1>2, <1>3, LeastNumber, Zenon
<1> QED
  BY <1>4, Zenon

(* The values of a function on a finite set are finitely many.             *)
LEMMA FiniteImage ==
  ASSUME NEW S, IsFiniteSet(S), NEW f
  PROVE  IsFiniteSet({f[x] : x \in S})
<1> DEFINE T == {f[x] : x \in S}
           g == [x \in S |-> f[x]]
<1>1. g \in Surjection(S, T)
  BY Zenon DEF Surjection
<1> HIDE DEF g, T
<1>2. IsFiniteSet(T)
  BY <1>1, FS_Surjection, Zenon
<1> QED
  BY <1>2, Zenon DEF T

(* What is kept of h is what the map or a request refers to.               *)
KeptOf(c, h, m, sl) ==
  /\ IsFiniteSet(DOMAIN c)
  /\ \A r \in DOMAIN c :
       /\ c[r] = h[r]
       /\ \/ \E k \in DOMAIN m : r = m[k]
          \/ \E s \in Slots : sl[s].at \in {"reserve", "cancel"} /\ r = sl[s].ref
  /\ \A k \in DOMAIN m : m[k] \in DOMAIN c
  /\ \A s \in Slots : sl[s].at \in {"reserve", "cancel"} => sl[s].ref \in DOMAIN c

(* What is collected is what neither a key nor a request refers to.        *)
LEMMA Collected ==
  ASSUME NEW h, NEW m, NEW sl, IsFiniteSet(DOMAIN m)
  PROVE  KeptOf(Collect(h, m, sl), h, m, sl)
<1> DEFINE holding == {s \in Slots : sl[s].at \in {"reserve", "cancel"}}
           refs == {sl[s].ref : s \in holding}
           g == [s \in holding |-> sl[s].ref]
           c == Collect(h, m, sl)
<1>1. c = [r \in Range(m) \cup refs |-> h[r]]
  BY Zenon DEF Collect, Restrict
<1>2. IsFiniteSet(Range(m))
  BY FiniteImage, Zenon DEF Range
<1>3. IsFiniteSet(refs)
  <2>1. IsFiniteSet(holding)
    <3>1. holding \in SUBSET Slots
      BY Zenon
    <3> QED
      BY <3>1, FS_Subset, LimiterAssumption, Zenon
  <2>2. refs = {g[s] : s \in holding}
    BY Zenon
  <2> HIDE DEF g, holding, refs
  <2> QED
    BY <2>1, <2>2, FiniteImage, Zenon
<1>4. IsFiniteSet(DOMAIN c)
  <2>1. DOMAIN c = Range(m) \cup refs
    BY <1>1, Zenon
  <2> HIDE DEF refs, c
  <2> QED
    BY <1>2, <1>3, <2>1, FS_Union, Zenon
<1> HIDE DEF c
<1>5. KeptOf(c, h, m, sl)
  BY <1>1, <1>4, Zenon DEF Range, KeptOf
<1> QED
  BY <1>5, Zenon DEF c

(* The bucket and the reservations of a reference stay what they were.     *)
Same(r) ==
  /\ r \in DOMAIN heap /\ heap'[r] = heap[r]
  /\ \A u \in Slots : /\ Cancels(u, r)' <=> Cancels(u, r)
                      /\ Cancels(u, r) => slot'[u] = slot[u]

(* Request s leaves bucket n under ref, and leaves the others alone.       *)
Step(s, ref, n) ==
  /\ clock' = clock
  /\ slot' = [u \in Slots |-> slot'[u]]
  /\ \A u \in Slots : u # s => slot'[u] = slot[u]
  /\ Holds(s) => slot[s].ref = ref
  /\ Holds(s)' => slot'[s].ref = ref
  /\ IsFiniteSet(DOMAIN heap')
  /\ \A r \in DOMAIN heap' : r # ref => r \in DOMAIN heap /\ heap'[r] = heap[r]
  /\ \A r \in DOMAIN heap' : r = ref => heap'[r] = n
  /\ \A u \in Slots : Holds(u)' => slot'[u].ref \in DOMAIN heap'
  /\ \A k \in DOMAIN buckets' : buckets'[k] \in DOMAIN heap'

(* What is said of a bucket and its reservations stays true as they stay.  *)
LEMMA SameKept ==
  ASSUME NEW r, Same(r), RateAt(r), FreeAt(r)
  PROVE  RateAt(r)' /\ FreeAt(r)'
<1>1. Outstanding(r)' <=> Outstanding(r)
  BY Zenon DEF Same, Outstanding, Cancels
<1>2. RateAt(r)'
  BY Zenon DEF Same, RateAt
<1>3. FreeAt(r)'
  BY <1>1, Zenon DEF Same, FreeAt
<1> QED
  BY <1>2, <1>3, Zenon

(* A step of a request leaves every other bucket as it was.                *)
LEMMA OthersSame ==
  ASSUME NEW s \in Slots, NEW ref, NEW n, Step(s, ref, n),
         NEW r \in DOMAIN heap', r # ref
  PROVE  Same(r)
<1>1. r \in DOMAIN heap /\ heap'[r] = heap[r]
  BY Zenon DEF Step
<1>2. ASSUME NEW u \in Slots
      PROVE  (Cancels(u, r)' <=> Cancels(u, r)) /\ (Cancels(u, r) => slot'[u] = slot[u])
  <2>1. CASE u # s
    BY <2>1, Zenon DEF Step, Cancels
  <2>2. CASE u = s
    BY <2>2, Zenon DEF Step, Cancels, Holds
  <2> QED
    BY <2>1, <2>2, Zenon
<1> QED
  BY <1>1, <1>2, Zenon DEF Same

(* The types after a step of a request.                                    *)
LEMMA StepType ==
  ASSUME TypeInv, NEW s \in Slots, NEW ref, NEW n, Step(s, ref, n), Sound(n),
         IsFiniteSet(DOMAIN buckets'), Cardinality(DOMAIN buckets') <= MaxEntries,
         SlotInv(s)',
         \A u \in Slots : u # s /\ Holds(u) /\ slot[u].ref = ref
                            => slot[u].now <= n.lastSeen + MaxDelay
  PROVE  TypeInv'
<1>1. \A r \in DOMAIN heap' : Sound(heap[r])'
  <2> SUFFICES ASSUME NEW r \in DOMAIN heap' PROVE Sound(heap[r])'
    BY Zenon
  <2>1. CASE r = ref
    BY <2>1, Zenon DEF Step, Sound
  <2>2. CASE r # ref
    BY <2>2, Zenon DEF Step, Sound, TypeInv
  <2> QED
    BY <2>1, <2>2, Zenon
<1>2. ASSUME NEW u \in Slots, u # s PROVE SlotInv(u)'
  <2>1. slot'[u] = slot[u] /\ SlotInv(u) /\ clock' = clock
    BY <1>2, Zenon DEF Step, TypeInv
  <2>2. Holds(u) =>
          /\ slot'[u].ref \in DOMAIN heap'
          /\ slot'[u].now <= heap'[slot'[u].ref].lastSeen + MaxDelay
    <3> SUFFICES ASSUME Holds(u)
                 PROVE  /\ slot[u].ref \in DOMAIN heap'
                        /\ slot[u].now <= heap'[slot[u].ref].lastSeen + MaxDelay
      BY <2>1, Zenon
    <3>1. slot[u].ref \in DOMAIN heap'
      BY <2>1, Zenon DEF Step, Holds
    <3>2. CASE slot[u].ref = ref
      BY <1>2, <3>1, <3>2, Zenon DEF Step
    <3>3. CASE slot[u].ref # ref
      BY <2>1, <3>1, <3>3, Zenon DEF Step, SlotInv
    <3> QED
      BY <3>1, <3>2, <3>3, Zenon
  <2> QED
    BY <2>1, <2>2, Zenon DEF SlotInv, Holds
<1>3. \A u \in Slots : SlotInv(u)'
  BY <1>2, Zenon
<1> QED
  BY <1>1, <1>3, Zenon DEF TypeInv, Step

-----------------------------------------------------------------------------
(* The actions, as steps of that form. *)

(* allow under the lock: the bucket found, or a new one under a reference  *)
(* of its own, is the one the request holds from now on.                   *)
LEMMA LookupStep ==
  ASSUME TypeInv, NEW s \in Slots, Lookup(s)
  PROVE  \E ref : \E n :
           /\ Step(s, ref, n)
           /\ \/ ref \in DOMAIN heap /\ n = [heap[ref] EXCEPT !.lastSeen = slot[s].now]
              \/ ref \notin DOMAIN heap /\ n = [NewBucket EXCEPT !.lastSeen = slot[s].now]
           /\ slot[s].at = "lookup"
           /\ slot'[s].at = "reserve" /\ slot'[s].now = slot[s].now /\ slot'[s].ref = ref
           /\ IsFiniteSet(DOMAIN buckets') /\ Cardinality(DOMAIN buckets') <= MaxEntries
<1> DEFINE k == slot[s].key
           known == k \in DOMAIN buckets
           old == IF AtCapacity THEN <<>> ELSE buckets
           ref == IF known THEN buckets[k]
                  ELSE Min((1 .. Cardinality(DOMAIN heap) + 1) \ DOMAIN heap)
           b == IF known THEN heap[ref] ELSE NewBucket
           n == [b EXCEPT !.lastSeen = slot[s].now]
           v == [at |-> "reserve", client |-> slot[s].client, now |-> slot[s].now,
                 key |-> k, ref |-> ref]
<1>1. /\ buckets' = IF known THEN buckets ELSE Put(old, k, ref)
      /\ slot' = [slot EXCEPT ![s] = v]
      /\ heap' = Collect(Put(heap, ref, n), buckets', slot')
      /\ clock' = clock /\ slot[s].at = "lookup"
  BY Zenon DEF Lookup
<1>2. /\ IsFiniteSet(DOMAIN buckets) /\ Cardinality(DOMAIN buckets) <= MaxEntries
      /\ IsFiniteSet(DOMAIN heap)
      /\ \A x \in DOMAIN buckets : buckets[x] \in DOMAIN heap
      /\ slot = [u \in Slots |-> slot[u]]
      /\ \A u \in Slots : Holds(u) => slot[u].ref \in DOMAIN heap
  BY Zenon DEF TypeInv, SlotInv
<1>3. \/ ref \in DOMAIN heap /\ n = [heap[ref] EXCEPT !.lastSeen = slot[s].now]
      \/ ref \notin DOMAIN heap /\ n = [NewBucket EXCEPT !.lastSeen = slot[s].now]
  <2>1. CASE known
    BY <1>2, <2>1, Zenon
  <2>2. CASE ~known
    BY <1>2, <2>2, FreshReference, Zenon
  <2> QED
    BY <2>1, <2>2, Zenon
<1>4. /\ slot' = [u \in Slots |-> slot'[u]]
      /\ slot'[s] = v /\ \A u \in Slots : u # s => slot'[u] = slot[u]
  <2> HIDE DEF v
  <2> QED
    BY <1>1, <1>2, Zenon
<1>5. /\ v.at = "reserve" /\ v.now = slot[s].now /\ v.ref = ref
  BY Zenon
<1>6. /\ IsFiniteSet(DOMAIN buckets') /\ Cardinality(DOMAIN buckets') <= MaxEntries
      /\ \A x \in DOMAIN buckets' : buckets'[x] \in DOMAIN heap \cup {ref}
  <2>1. CASE known
    BY <1>1, <1>2, <2>1, Zenon
  <2>2. CASE ~known
    <3>1. buckets' = [x \in DOMAIN old \cup {k} |-> IF x = k THEN ref ELSE old[x]]
      BY <1>1, <2>2, Zenon DEF Put
    <3>2. DOMAIN <<>> = {}
      OBVIOUS
    <3>3. \A x \in DOMAIN old : x \in DOMAIN buckets /\ old[x] = buckets[x]
      BY <3>2, Zenon
    <3>4. /\ IsFiniteSet(DOMAIN old) /\ Cardinality(DOMAIN old) \in Nat
          /\ Cardinality(DOMAIN old) < MaxEntries
      <4>1. CASE AtCapacity
        BY <3>2, <4>1, FS_EmptySet, Constants
      <4>2. CASE ~AtCapacity
        BY <1>2, <4>2, FS_CardinalityType, Constants DEF AtCapacity
      <4> QED
        BY <4>1, <4>2, Zenon
    <3> HIDE DEF old, ref, k
    <3>5. DOMAIN buckets' = DOMAIN old \cup {k}
      BY <3>1, Zenon
    <3>6. /\ IsFiniteSet(DOMAIN old \cup {k})
          /\ Cardinality(DOMAIN old \cup {k}) =
               IF k \in DOMAIN old THEN Cardinality(DOMAIN old)
               ELSE Cardinality(DOMAIN old) + 1
      BY <3>4, FS_AddElement, Zenon
    <3>7. Cardinality(DOMAIN buckets') <= MaxEntries
      BY <3>4, <3>5, <3>6, Constants
    <3>8. \A x \in DOMAIN buckets' : buckets'[x] \in DOMAIN heap \cup {ref}
      BY <1>2, <3>1, <3>3, Zenon
    <3> QED
      BY <3>5, <3>6, <3>7, <3>8, Zenon
  <2> QED
    BY <2>1, <2>2, Zenon
<1> HIDE DEF ref, n, v, b, k, old, known
<1>7. /\ IsFiniteSet(DOMAIN heap')
      /\ \A r \in DOMAIN heap' :
           /\ heap'[r] = Put(heap, ref, n)[r]
           /\ \/ \E x \in DOMAIN buckets' : r = buckets'[x]
              \/ \E u \in Slots : slot'[u].at \in {"reserve", "cancel"} /\ r = slot'[u].ref
      /\ \A x \in DOMAIN buckets' : buckets'[x] \in DOMAIN heap'
      /\ \A u \in Slots :
           slot'[u].at \in {"reserve", "cancel"} => slot'[u].ref \in DOMAIN heap'
  <2> DEFINE h == Put(heap, ref, n)
  <2>1. heap' = Collect(h, buckets', slot') /\ IsFiniteSet(DOMAIN buckets')
    BY <1>1, <1>6, Zenon
  <2> HIDE DEF h
  <2>2. /\ IsFiniteSet(DOMAIN heap')
        /\ \A r \in DOMAIN heap' :
             /\ heap'[r] = h[r]
             /\ \/ \E x \in DOMAIN buckets' : r = buckets'[x]
                \/ \E u \in Slots : slot'[u].at \in {"reserve", "cancel"} /\ r = slot'[u].ref
        /\ \A x \in DOMAIN buckets' : buckets'[x] \in DOMAIN heap'
        /\ \A u \in Slots :
             slot'[u].at \in {"reserve", "cancel"} => slot'[u].ref \in DOMAIN heap'
    <3>1. KeptOf(Collect(h, buckets', slot'), h, buckets', slot')
      BY <2>1, Collected, Zenon
    <3>2. KeptOf(heap', h, buckets', slot')
      BY <2>1, <3>1, Zenon
    <3> QED
      BY <3>2, Zenon DEF KeptOf
  <2> QED
    BY <2>2, Zenon DEF h
<1>8. ASSUME NEW r \in DOMAIN heap'
      PROVE  /\ r # ref => r \in DOMAIN heap /\ heap'[r] = heap[r]
             /\ r = ref => heap'[r] = n
  <2>1. r \in DOMAIN heap \cup {ref}
    <3>1. CASE \E x \in DOMAIN buckets' : r = buckets'[x]
      BY <1>6, <3>1, Zenon
    <3>2. CASE \E u \in Slots : slot'[u].at \in {"reserve", "cancel"} /\ r = slot'[u].ref
      BY <1>2, <1>4, <1>5, <3>2, Zenon DEF Holds
    <3> QED
      BY <1>7, <1>8, <3>1, <3>2, Zenon
  <2> QED
    BY <1>7, <1>8, <2>1, Zenon DEF Put
<1>9. Step(s, ref, n)
  <2>1. ~Holds(s)
    BY <1>1, Zenon DEF Holds
  <2>2. \A u \in Slots : Holds(u)' => slot'[u].ref \in DOMAIN heap'
    BY <1>7, Zenon DEF Holds
  <2> QED
    BY <1>1, <1>4, <1>5, <1>7, <1>8, <2>1, <2>2, Zenon DEF Step
<1> QED
  BY <1>1, <1>3, <1>4, <1>5, <1>6, <1>9, Zenon

(* A request that holds a bucket and changes it, or leaves it.             *)
LEMMA HeldStep ==
  ASSUME TypeInv, NEW s \in Slots, Holds(s), NEW n, NEW v,
         v.at \in {"reserve", "cancel"} => v.ref = slot[s].ref,
         slot' = [slot EXCEPT ![s] = v],
         heap' = Collect([heap EXCEPT ![slot[s].ref] = n], buckets, slot'),
         buckets' = buckets, clock' = clock
  PROVE  Step(s, slot[s].ref, n) /\ slot'[s] = v
<1> DEFINE ref == slot[s].ref
<1>1. /\ IsFiniteSet(DOMAIN buckets)
      /\ \A x \in DOMAIN buckets : buckets[x] \in DOMAIN heap
      /\ slot = [u \in Slots |-> slot[u]]
      /\ \A u \in Slots : Holds(u) => slot[u].ref \in DOMAIN heap
  BY Zenon DEF TypeInv, SlotInv
<1>2. /\ slot' = [u \in Slots |-> slot'[u]]
      /\ slot'[s] = v /\ \A u \in Slots : u # s => slot'[u] = slot[u]
  BY <1>1, Zenon
<1>3. /\ IsFiniteSet(DOMAIN heap')
      /\ \A r \in DOMAIN heap' :
           /\ heap'[r] = [heap EXCEPT ![ref] = n][r]
           /\ \/ \E x \in DOMAIN buckets : r = buckets[x]
              \/ \E u \in Slots : slot'[u].at \in {"reserve", "cancel"} /\ r = slot'[u].ref
      /\ \A x \in DOMAIN buckets : buckets[x] \in DOMAIN heap'
      /\ \A u \in Slots :
           slot'[u].at \in {"reserve", "cancel"} => slot'[u].ref \in DOMAIN heap'
  <2> DEFINE h == [heap EXCEPT ![ref] = n]
  <2>1. heap' = Collect(h, buckets, slot')
    BY Zenon
  <2> HIDE DEF h
  <2>2. /\ IsFiniteSet(DOMAIN heap')
        /\ \A r \in DOMAIN heap' :
             /\ heap'[r] = h[r]
             /\ \/ \E x \in DOMAIN buckets : r = buckets[x]
                \/ \E u \in Slots : slot'[u].at \in {"reserve", "cancel"} /\ r = slot'[u].ref
        /\ \A x \in DOMAIN buckets : buckets[x] \in DOMAIN heap'
        /\ \A u \in Slots :
             slot'[u].at \in {"reserve", "cancel"} => slot'[u].ref \in DOMAIN heap'
    <3>1. KeptOf(Collect(h, buckets, slot'), h, buckets, slot')
      BY <1>1, Collected, Zenon
    <3>2. KeptOf(heap', h, buckets, slot')
      BY <2>1, <3>1, Zenon
    <3> QED
      BY <3>2, Zenon DEF KeptOf
  <2> QED
    BY <2>2, Zenon DEF h
<1>4. ASSUME NEW r \in DOMAIN heap'
      PROVE  /\ r # ref => r \in DOMAIN heap /\ heap'[r] = heap[r]
             /\ r = ref => heap'[r] = n
  <2>1. r \in DOMAIN heap
    <3>1. CASE \E x \in DOMAIN buckets : r = buckets[x]
      BY <1>1, <3>1, Zenon
    <3>2. CASE \E u \in Slots : slot'[u].at \in {"reserve", "cancel"} /\ r = slot'[u].ref
      BY <1>1, <1>2, <3>2 DEF Holds
    <3> QED
      BY <1>3, <1>4, <3>1, <3>2, Zenon
  <2>2. heap'[r] = [heap EXCEPT ![ref] = n][r]
    BY <1>3, <1>4, Zenon
  <2> QED
    BY <2>1, <2>2, Zenon
<1>5. Step(s, ref, n)
  <2>1. \A u \in Slots : Holds(u)' => slot'[u].ref \in DOMAIN heap'
    BY <1>3, Zenon DEF Holds
  <2>2. Holds(s)' => slot'[s].ref = ref
    BY <1>2, Zenon DEF Holds
  <2> QED
    BY <1>2, <1>3, <1>4, <2>1, <2>2, Zenon DEF Step
<1> QED
  BY <1>2, <1>5, Zenon

(* allow after the lock: the request is let through, or has to wait and    *)
(* has a reservation to give back.                                         *)
LEMMA ReserveStep ==
  ASSUME TypeInv, NEW s \in Slots, Reserve(s)
  PROVE  LET t == slot[s].now
             ref == slot[s].ref
             b == heap[ref]
             n == Charged(b, t, Outstanding(ref))
         IN  /\ slot[s].at = "reserve" /\ buckets' = buckets
             /\ Step(s, ref, n)
             /\ Advance(b, t) < Period =>
                  /\ slot'[s].at = "cancel" /\ slot'[s].now = t /\ slot'[s].ref = ref
                  /\ slot'[s].act = Reserved(b, t).lastEvent
             /\ ~(Advance(b, t) < Period) => slot'[s] = Idle
<1> DEFINE t == slot[s].now
           ref == slot[s].ref
           b == heap[ref]
           c == Reserved(b, t)
           denied == Delayed(c, t)
           n == Charged(b, t, Outstanding(ref))
           w == [at |-> "cancel", client |-> slot[s].client, now |-> t,
                 key |-> slot[s].key, ref |-> ref, act |-> c.lastEvent]
           v == IF denied THEN w ELSE Idle
<1>1. /\ slot[s].at = "reserve" /\ buckets' = buckets /\ clock' = clock
      /\ slot' = [slot EXCEPT ![s] = v]
      /\ heap' = Collect([heap EXCEPT ![ref] = n], buckets, slot')
  BY Zenon DEF Reserve, Charged
<1>2. Holds(s) /\ b \in Bucket /\ t \in Nat /\ Outstanding(ref) \in BOOLEAN
  BY <1>1, Zenon DEF Holds, TypeInv, SlotInv, Sound, Outstanding
<1>3. /\ w.at = "cancel" /\ w.now = t /\ w.ref = ref /\ w.act = c.lastEvent
      /\ Idle.at = "idle"
  BY Zenon DEF Idle
<1>4. v.at \in {"reserve", "cancel"} => v.ref = ref
  BY <1>3, Zenon
<1>5. Step(s, ref, n) /\ slot'[s] = v
  <2> HIDE DEF n, v
  <2> QED
    BY <1>1, <1>2, <1>4, HeldStep, Zenon
<1>6. Advance(b, t) < Period => denied
  BY <1>2, DeniedIs, Zenon
<1>7. ~(Advance(b, t) < Period) => ~denied
  BY <1>2, PassedIs, Zenon
<1> HIDE DEF n, w, denied, c
<1> QED
  BY <1>1, <1>3, <1>5, <1>6, <1>7, Zenon DEF n, c

(* The reservation is given back.                                          *)
LEMMA CancelStep ==
  ASSUME TypeInv, NEW s \in Slots, Cancel(s)
  PROVE  LET ref == slot[s].ref
             n == Cancelled(heap[ref], slot[s].act, slot[s].now)
         IN  /\ slot[s].at = "cancel" /\ buckets' = buckets
             /\ Step(s, ref, n) /\ slot'[s] = Idle
<1> DEFINE ref == slot[s].ref
           n == Cancelled(heap[ref], slot[s].act, slot[s].now)
<1>1. slot[s].at = "cancel" /\ ref \in DOMAIN heap
  BY Zenon DEF Cancel, TypeInv, SlotInv, Holds
<1>2. /\ buckets' = buckets /\ clock' = clock
      /\ slot' = [slot EXCEPT ![s] = Idle]
      /\ heap' = Collect([heap EXCEPT ![ref] = n], buckets, slot')
  BY <1>1, Zenon DEF Cancel, GiveBack
<1>3. ~(Idle.at \in {"reserve", "cancel"}) /\ Holds(s)
  BY <1>1, Zenon DEF Idle, Holds
<1> HIDE DEF n
<1>4. Step(s, ref, n) /\ slot'[s] = Idle
  BY <1>2, <1>3, HeldStep, Zenon
<1> QED
  BY <1>1, <1>2, <1>4, Zenon DEF n

-----------------------------------------------------------------------------
(* Every action keeps the invariant. *)

(* At the start there is no bucket and no request.                         *)
LEMMA InitInv == Init => Inv
<1> SUFFICES ASSUME Init PROVE Inv
  BY Zenon
<1>1. DOMAIN buckets = {} /\ DOMAIN heap = {}
  BY DEF Init
<1>2. IsFiniteSet({}) /\ Cardinality({}) = 0
  BY FS_EmptySet, Zenon
<1>3. \A s \in Slots : SlotInv(s)
  BY Zenon DEF Init, SlotInv, Holds, Idle
<1>4. TypeInv
  <2>1. slot = [s \in Slots |-> slot[s]] /\ clock \in Nat
    BY Zenon DEF Init
  <2> QED
    BY <1>1, <1>2, <1>3, <2>1, Constants DEF TypeInv
<1> QED
  BY <1>1, <1>4, Zenon DEF Inv, RateInv, FreeInv

(* A step of a request keeps what is said of the other buckets.            *)
LEMMA StepKeeps ==
  ASSUME RateInv, FreeInv, NEW s \in Slots, NEW ref, NEW n, Step(s, ref, n),
         ref \in DOMAIN heap' => RateAt(ref)' /\ FreeAt(ref)'
  PROVE  RateInv' /\ FreeInv'
<1> SUFFICES ASSUME NEW r \in DOMAIN heap' PROVE RateAt(r)' /\ FreeAt(r)'
  BY Zenon DEF RateInv, FreeInv
<1>1. CASE r = ref
  BY <1>1, Zenon
<1>2. CASE r # ref
  <2>1. Same(r)
    BY <1>2, OthersSame, Zenon
  <2>2. RateAt(r) /\ FreeAt(r)
    BY <2>1, Zenon DEF Same, RateInv, FreeInv
  <2> QED
    BY <2>1, <2>2, SameKept, Zenon
<1> QED
  BY <1>1, <1>2, Zenon

(* Middleware: a request that arrives holds nothing yet.                   *)
LEMMA ArriveInv == ASSUME Inv, NEW s \in Slots, Arrive(s) PROVE Inv'
<1>1. PICK v : /\ slot' = [slot EXCEPT ![s] = v]
               /\ v.at = "lookup" /\ v.now = clock
  <2>1. PICK client \in Clients, prefix \in Headers :
          slot' = [slot EXCEPT ![s] = [at |-> "lookup", client |-> client, now |-> clock,
                                       key |-> Key(prefix, client)]]
    BY Zenon DEF Arrive
  <2> DEFINE v == [at |-> "lookup", client |-> client, now |-> clock,
                   key |-> Key(prefix, client)]
  <2>2. v.at = "lookup" /\ v.now = clock
    BY Zenon
  <2> HIDE DEF v
  <2> QED
    BY <2>1, <2>2, Zenon DEF v
<1>2. slot[s].at = "idle" /\ UNCHANGED <<clock, buckets, heap>>
  BY DEF Arrive, Idle
<1>3. /\ slot' = [u \in Slots |-> slot'[u]]
      /\ slot'[s] = v /\ \A u \in Slots : u # s => slot'[u] = slot[u]
  BY <1>1, Zenon DEF Inv, TypeInv
<1>4. \A u \in Slots : SlotInv(u)'
  <2>1. SlotInv(s)'
    BY <1>1, <1>2, <1>3, Constants DEF Inv, TypeInv, SlotInv, Holds
  <2>2. ASSUME NEW u \in Slots, u # s PROVE SlotInv(u)'
    BY <1>2, <1>3, <2>2, Zenon DEF Inv, TypeInv, SlotInv, Holds
  <2> QED
    BY <2>1, <2>2, Zenon
<1>5. TypeInv'
  BY <1>2, <1>3, <1>4, Zenon DEF Inv, TypeInv, Sound
<1>6. \A r \in DOMAIN heap : Same(r)
  BY <1>1, <1>2, <1>3, Zenon DEF Same, Cancels
<1>7. RateInv' /\ FreeInv'
  <2> SUFFICES ASSUME NEW r \in DOMAIN heap PROVE RateAt(r)' /\ FreeAt(r)'
    BY <1>2, Zenon DEF RateInv, FreeInv
  <2> QED
    BY <1>6, SameKept, Zenon DEF Inv, RateInv, FreeInv
<1> QED
  BY <1>5, <1>7, Zenon DEF Inv

(* allow under the lock: a bucket that is seen again changes nothing else, *)
(* and a new one is full.                                                  *)
LEMMA LookupInv == ASSUME Inv, NEW s \in Slots, Lookup(s) PROVE Inv'
<1> DEFINE t == slot[s].now
<1>1. PICK ref : \E n :
        /\ Step(s, ref, n)
        /\ \/ ref \in DOMAIN heap /\ n = [heap[ref] EXCEPT !.lastSeen = t]
           \/ ref \notin DOMAIN heap /\ n = [NewBucket EXCEPT !.lastSeen = t]
        /\ slot[s].at = "lookup"
        /\ slot'[s].at = "reserve" /\ slot'[s].now = t /\ slot'[s].ref = ref
        /\ IsFiniteSet(DOMAIN buckets') /\ Cardinality(DOMAIN buckets') <= MaxEntries
  BY LookupStep, Zenon DEF Inv
<1>2. PICK n :
        /\ Step(s, ref, n)
        /\ \/ ref \in DOMAIN heap /\ n = [heap[ref] EXCEPT !.lastSeen = t]
           \/ ref \notin DOMAIN heap /\ n = [NewBucket EXCEPT !.lastSeen = t]
        /\ slot[s].at = "lookup"
        /\ slot'[s].at = "reserve" /\ slot'[s].now = t /\ slot'[s].ref = ref
        /\ IsFiniteSet(DOMAIN buckets') /\ Cardinality(DOMAIN buckets') <= MaxEntries
  BY <1>1, Zenon
<1>3. /\ t \in Nat /\ t <= clock /\ clock <= t + MaxDelay /\ clock \in Nat
      /\ MaxDelay \in Nat /\ Full \in Nat /\ Full >= 1
  BY <1>2, Constants DEF Inv, TypeInv, SlotInv
<1>4. /\ ref \in DOMAIN heap' /\ heap'[ref] = n
      /\ clock' = clock /\ \A u \in Slots : u # s => slot'[u] = slot[u]
  <2>1. Holds(s)'
    BY <1>2, Zenon DEF Holds
  <2> QED
    BY <1>2, <2>1, Zenon DEF Step
<1>5. Sound(n) /\ n.lastSeen = t
  <2>1. CASE ref \in DOMAIN heap /\ n = [heap[ref] EXCEPT !.lastSeen = t]
    <3> DEFINE b == heap[ref]
    <3>1. Sound(b)
      BY <2>1, Zenon DEF Inv, TypeInv
    <3> HIDE DEF b
    <3>2. n = [b EXCEPT !.lastSeen = t]
      BY <2>1, Zenon DEF b
    <3>3. n \in Bucket /\ n.lastSeen = t /\ n.tokens = b.tokens /\ n.due = b.due
          /\ n.dueAt = b.dueAt
      BY <1>3, <3>1, <3>2, Zenon DEF Sound, Bucket
    <3>4. b.dueAt \in Nat
      BY <3>1, Zenon DEF Sound, Bucket
    <3> QED
      BY <1>3, <3>1, <3>3, <3>4 DEF Sound
  <2>2. CASE n = [NewBucket EXCEPT !.lastSeen = t]
    <3>1. n = [tokens |-> Full, last |-> 0, lastEvent |-> 0, lastSeen |-> t,
               due |-> Full, dueAt |-> 0, setBack |-> FALSE, overlapped |-> FALSE]
      BY <2>2, Zenon DEF NewBucket
    <3>2. n \in Bucket
      BY <1>3, <3>1 DEF Bucket
    <3>3. n.tokens = Full /\ n.due = Full /\ n.dueAt = 0 /\ n.lastSeen = t
      BY <3>1, Zenon
    <3> QED
      BY <1>3, <3>2, <3>3 DEF Sound
  <2> QED
    BY <1>2, <2>1, <2>2, Zenon
<1>6. TypeInv'
  <2>1. SlotInv(s)'
    BY <1>2, <1>3, <1>4, <1>5 DEF SlotInv, Holds
  <2>2. ASSUME NEW u \in Slots, Holds(u)
        PROVE  slot[u].now <= n.lastSeen + MaxDelay
    <3>1. slot[u].now \in Nat /\ slot[u].now <= clock
      BY <2>2, Zenon DEF Inv, TypeInv, SlotInv, Holds
    <3> QED
      BY <1>3, <1>5, <3>1
  <2> QED
    BY <1>2, <1>5, <2>1, <2>2, StepType, Zenon DEF Inv
<1>7. \A u \in Slots : /\ Cancels(u, ref)' <=> Cancels(u, ref)
                       /\ Cancels(u, ref) => slot'[u] = slot[u]
  BY <1>2, <1>4, Zenon DEF Cancels
<1>8. RateAt(ref)' /\ FreeAt(ref)'
  <2>1. CASE ref \in DOMAIN heap /\ n = [heap[ref] EXCEPT !.lastSeen = t]
    <3> DEFINE b == heap[ref]
    <3>1. b \in Bucket /\ RateAt(ref) /\ FreeAt(ref)
      BY <2>1, Zenon DEF Inv, TypeInv, Sound, RateInv, FreeInv
    <3>2. /\ n.tokens = b.tokens /\ n.last = b.last /\ n.lastEvent = b.lastEvent
          /\ n.due = b.due /\ n.dueAt = b.dueAt
      BY <2>1, <3>1, Zenon DEF Bucket
    <3>3. n.setBack = b.setBack /\ n.overlapped = b.overlapped
      BY <2>1, <3>1, Zenon DEF Bucket
    <3>4. /\ Covered(n) <=> Covered(b)
          /\ \A a : Owed(n, a) <=> Owed(b, a)
          /\ \A a : Due(n, a) = Due(b, a)
      BY <3>2, Zenon DEF Covered, Owed, Due
    <3>5. \A v : Lone(n, v) <=> Lone(b, v)
      BY <3>2, <3>4, Zenon DEF Lone
    <3>6. RateAt(ref)'
      BY <1>4, <1>7, <3>1, <3>2, <3>3, <3>4, Zenon DEF RateAt
    <3>7. Outstanding(ref)' <=> Outstanding(ref)
      BY <1>7, Zenon DEF Outstanding, Cancels
    <3>8. FreeAt(ref)'
      BY <1>4, <1>7, <3>1, <3>2, <3>3, <3>4, <3>5, <3>7, ZenonT(40) DEF FreeAt
    <3> QED
      BY <3>6, <3>8, Zenon
  <2>2. CASE ref \notin DOMAIN heap /\ n = [NewBucket EXCEPT !.lastSeen = t]
    <3>1. \A u \in Slots : ~Cancels(u, ref)'
      BY <1>7, <2>2, Zenon DEF Inv, TypeInv, SlotInv, Holds, Cancels
    <3>2. Covered(n)
      BY <1>3, <2>2 DEF NewBucket, Covered
    <3>3. n.tokens >= Due(n, n.last)
      <4>1. n \in Bucket /\ n.tokens = Full /\ n.last = 0
        BY <1>5, <2>2, Zenon DEF NewBucket, Sound
      <4>2. Due(n, n.last) \in Int /\ Due(n, n.last) <= Full
        BY <1>3, <4>1, DueIs
      <4> QED
        BY <1>3, <4>1, <4>2, Zenon
    <3> QED
      BY <1>4, <3>1, <3>2, <3>3, Zenon DEF RateAt, FreeAt
  <2> QED
    BY <1>2, <2>1, <2>2, Zenon
<1>9. RateInv' /\ FreeInv'
  BY <1>2, <1>8, StepKeeps, Zenon DEF Inv
<1> QED
  BY <1>6, <1>9, Zenon DEF Inv

(* ReserveN: a request that is let through is covered, and one that has to *)
(* wait adds a reservation after those that are owed already.              *)
LEMMA ReserveInv == ASSUME Inv, NEW s \in Slots, Reserve(s) PROVE Inv'
<1>1. PICK t, ref, b, o, n, c : /\ t = slot[s].now /\ ref = slot[s].ref /\ b = heap[ref]
                                /\ o = Outstanding(ref) /\ n = Charged(b, t, o)
                                /\ c = Reserved(b, t)
  BY Zenon
<1>2. /\ slot[s].at = "reserve" /\ buckets' = buckets
      /\ Step(s, ref, n)
      /\ Advance(b, t) < Period =>
           /\ slot'[s].at = "cancel" /\ slot'[s].now = t /\ slot'[s].ref = ref
           /\ slot'[s].act = c.lastEvent
      /\ ~(Advance(b, t) < Period) => slot'[s] = Idle
  BY <1>1, ReserveStep, Zenon DEF Inv
<1>3. /\ t \in Nat /\ t <= clock /\ clock <= t + MaxDelay /\ clock \in Nat
      /\ ref \in DOMAIN heap /\ t <= b.lastSeen + MaxDelay
      /\ Sound(b) /\ b \in Bucket /\ o \in BOOLEAN
      /\ RateAt(ref) /\ FreeAt(ref)
  BY <1>1, <1>2, ZenonT(40) DEF Inv, TypeInv, SlotInv, Holds, Sound, RateInv, FreeInv, Outstanding
<1>4. /\ Sound(n) /\ n.last = t /\ n.lastSeen = b.lastSeen
      /\ n.setBack = (b.setBack \/ t < b.last)
      /\ n.overlapped = (b.overlapped \/ o)
  BY <1>1, <1>3, ChargedSound
<1>5. n \in Bucket /\ b.last \in Nat /\ b.setBack \in BOOLEAN /\ n.setBack \in BOOLEAN
  BY <1>3, <1>4, BucketFields, Zenon DEF Sound
<1>6. /\ clock' = clock /\ \A u \in Slots : u # s => slot'[u] = slot[u]
      /\ ref \in DOMAIN heap' => heap'[ref] = n
  BY <1>2, ZenonT(40) DEF Step
<1>7. Advance(b, t) < Period =>
        c.lastEvent = n.lastEvent /\ c.lastEvent \in Int /\ c.lastEvent > t
  BY <1>1, <1>3, DeniedIs, AdvanceIs, Constants
<1>8. TypeInv'
  <2>1. SlotInv(s)'
    <3>1. CASE Advance(b, t) < Period
      <4>1. ref \in DOMAIN heap'
        BY <1>2, <3>1, Zenon DEF Step, Holds
      <4> QED
        BY <1>2, <1>3, <1>4, <1>6, <1>7, <3>1, <4>1, Zenon DEF SlotInv, Holds
    <3>2. CASE ~(Advance(b, t) < Period)
      BY <1>2, <3>2 DEF SlotInv, Holds, Idle
    <3> QED
      BY <3>1, <3>2, Zenon
  <2>2. \A u \in Slots : Holds(u) /\ slot[u].ref = ref
                           => slot[u].now <= n.lastSeen + MaxDelay
    BY <1>1, <1>4, Zenon DEF Inv, TypeInv, SlotInv
  <2>3. IsFiniteSet(DOMAIN buckets') /\ Cardinality(DOMAIN buckets') <= MaxEntries
    BY <1>2, Zenon DEF Inv, TypeInv
  <2> QED
    BY <1>2, <1>4, <2>1, <2>2, <2>3, StepType, Zenon DEF Inv
<1>9. /\ ~Cancels(s, ref)
      /\ \A u \in Slots : u # s => (Cancels(u, ref)' <=> Cancels(u, ref))
      /\ \A u \in Slots : Cancels(u, ref) => slot[u].act \in Int
  BY <1>2, <1>6, Zenon DEF Cancels, Inv, TypeInv, SlotInv
<1>10. ASSUME ref \in DOMAIN heap' PROVE RateAt(ref)'
  <2> SUFFICES ASSUME ~n.setBack
               PROVE  /\ Covered(n)
                      /\ \A u \in Slots : Cancels(u, ref)' /\ slot'[u].act >= t
                                            => Owed(n, slot'[u].act)
                      /\ \A u1, u2 \in Slots :
                           /\ Cancels(u1, ref)' /\ Cancels(u2, ref)'
                           /\ slot'[u1].act = slot'[u2].act /\ slot'[u1].act >= t
                           => u1 = u2
    BY <1>4, <1>6, <1>10, Zenon DEF RateAt
  <2>1. ~b.setBack /\ t >= b.last
    <3>1. ~b.setBack /\ ~(t < b.last)
      BY <1>4, Zenon
    <3> QED
      BY <1>3, <1>5, <3>1
  <2>2. /\ Covered(b)
        /\ \A u \in Slots : Cancels(u, ref) /\ slot[u].act >= b.last => Owed(b, slot[u].act)
        /\ \A u1, u2 \in Slots :
             /\ Cancels(u1, ref) /\ Cancels(u2, ref)
             /\ slot[u1].act = slot[u2].act /\ slot[u1].act >= b.last
             => u1 = u2
    BY <1>1, <1>3, <2>1, Zenon DEF RateAt
  <2>3. CASE Advance(b, t) < Period
    <3>1. /\ Covered(n) /\ Owed(n, n.lastEvent)
          /\ \A a \in Int : a >= t /\ Owed(b, a) => Owed(n, a) /\ a < n.lastEvent
      BY <1>1, <1>3, <2>1, <2>2, <2>3, DeniedCovered, Zenon
    <3>2. slot'[s].act = n.lastEvent /\ n.lastEvent \in Int
      BY <1>2, <1>7, <2>3, Zenon
    <3>3. ASSUME NEW u \in Slots, u # s, Cancels(u, ref)', slot'[u].act >= t
          PROVE  /\ Cancels(u, ref) /\ slot'[u].act = slot[u].act
                 /\ slot[u].act \in Int /\ slot[u].act >= b.last
                 /\ Owed(n, slot[u].act) /\ slot[u].act < n.lastEvent
      <4>1. Cancels(u, ref) /\ slot'[u] = slot[u] /\ slot[u].act \in Int
        BY <1>6, <1>9, <3>3, Zenon
      <4>2. slot[u].act >= t /\ slot[u].act >= b.last
        BY <1>3, <1>5, <2>1, <3>3, <4>1
      <4> QED
        BY <2>2, <3>1, <4>1, <4>2, Zenon
    <3>4. ASSUME NEW u1 \in Slots, NEW u2 \in Slots,
                 Cancels(u1, ref)', Cancels(u2, ref)',
                 slot'[u1].act = slot'[u2].act, slot'[u1].act >= t
          PROVE  u1 = u2
      <4>1. CASE u1 = s /\ u2 # s
        BY <3>2, <3>3, <3>4, <4>1
      <4>2. CASE u2 = s /\ u1 # s
        BY <3>2, <3>3, <3>4, <4>2
      <4>3. CASE u1 # s /\ u2 # s
        BY <2>2, <3>3, <3>4, <4>3, Zenon
      <4> QED
        BY <4>1, <4>2, <4>3, Zenon
    <3>5. \A u \in Slots : Cancels(u, ref)' /\ slot'[u].act >= t
                             => Owed(n, slot'[u].act)
      BY <3>1, <3>2, <3>3, Zenon
    <3> QED
      BY <3>1, <3>4, <3>5, Zenon
  <2>4. CASE ~(Advance(b, t) < Period)
    <3>1. Covered(n) /\ \A a \in Int : Owed(b, a) => a < t
      BY <1>1, <1>3, <2>1, <2>2, <2>4, PassedCovered, Zenon
    <3>2. ASSUME NEW u \in Slots, Cancels(u, ref)', slot'[u].act >= t
          PROVE  FALSE
      <4>1. u # s
        BY <1>2, <2>4, <3>2 DEF Cancels, Idle
      <4>2. Cancels(u, ref) /\ slot'[u] = slot[u] /\ slot[u].act \in Int
        BY <1>6, <1>9, <3>2, <4>1, Zenon
      <4>3. slot[u].act >= b.last
        BY <1>3, <1>5, <2>1, <3>2, <4>2
      <4>4. slot[u].act < t
        BY <2>2, <3>1, <4>2, <4>3, Zenon
      <4> QED
        BY <1>3, <3>2, <4>2, <4>4
    <3> QED
      BY <3>1, <3>2, Zenon
  <2> QED
    BY <2>3, <2>4, Zenon
<1>11. ASSUME ref \in DOMAIN heap' PROVE FreeAt(ref)'
  <2> SUFFICES ASSUME ~n.overlapped
               PROVE  /\ ~Outstanding(ref)' => n.tokens >= Due(n, n.last)
                      /\ \A u \in Slots : Cancels(u, ref)' => Lone(n, slot'[u])
                      /\ \A u1, u2 \in Slots :
                           Cancels(u1, ref)' /\ Cancels(u2, ref)' => u1 = u2
    BY <1>6, <1>11, Zenon DEF FreeAt
  <2>1. ~b.overlapped /\ ~o
    BY <1>3, <1>4, Zenon
  <2>2. \A u \in Slots : ~Cancels(u, ref)
    BY <1>1, <2>1, Zenon DEF Outstanding, Cancels
  <2>3. b.tokens >= Due(b, b.last)
    BY <1>1, <1>3, <2>1, Zenon DEF FreeAt
  <2>4. \A u \in Slots : Cancels(u, ref)' => u = s
    BY <1>9, <2>2, Zenon
  <2>5. CASE Advance(b, t) < Period
    <3>1. Lone(n, slot'[s])
      BY <1>1, <1>2, <1>3, <2>3, <2>5, DeniedFree, Zenon
    <3>2. Outstanding(ref)'
      BY <1>2, <2>5, Zenon DEF Outstanding
    <3> QED
      BY <2>4, <3>1, <3>2, Zenon
  <2>6. CASE ~(Advance(b, t) < Period)
    <3>1. n.tokens >= Due(n, n.last)
      BY <1>1, <1>3, <1>5, <2>3, <2>6, PassedFree, Zenon
    <3>2. ~Cancels(s, ref)'
      BY <1>2, <2>6 DEF Cancels, Idle
    <3> QED
      BY <2>4, <3>1, <3>2, Zenon
  <2> QED
    BY <2>5, <2>6, Zenon
<1>12. RateInv' /\ FreeInv'
  BY <1>2, <1>10, <1>11, StepKeeps, Zenon DEF Inv
<1> QED
  BY <1>8, <1>12, Zenon DEF Inv

(* CancelAt: what is given back was owed, and what else is owed stays so.  *)
LEMMA CancelInv == ASSUME Inv, NEW s \in Slots, Cancel(s) PROVE Inv'
<1>1. PICK t, act, ref, b, n : /\ t = slot[s].now /\ act = slot[s].act
                               /\ ref = slot[s].ref /\ b = heap[ref]
                               /\ n = Cancelled(b, act, t)
  BY Zenon
<1>2. /\ slot[s].at = "cancel" /\ buckets' = buckets
      /\ Step(s, ref, n) /\ slot'[s] = Idle
  BY <1>1, CancelStep, Zenon DEF Inv
<1>3. /\ t \in Nat /\ act \in Int /\ act > t /\ clock \in Nat
      /\ ref \in DOMAIN heap /\ Sound(b) /\ b \in Bucket
      /\ RateAt(ref) /\ FreeAt(ref)
  BY <1>1, <1>2, ZenonT(40) DEF Inv, TypeInv, SlotInv, Holds, Sound, RateInv, FreeInv
<1>4. /\ Sound(n) /\ n.lastSeen = b.lastSeen
      /\ n.overlapped = b.overlapped
      /\ \/ n = b
         \/ /\ act >= t /\ Period - (b.lastEvent - act) > 0
            /\ n.last = t /\ n.setBack = (b.setBack \/ t < b.last)
  BY <1>1, <1>3, CancelledSound
<1>5. /\ clock' = clock /\ \A u \in Slots : u # s => slot'[u] = slot[u]
      /\ ref \in DOMAIN heap' => heap'[ref] = n
  BY <1>2, Zenon DEF Step
<1>6. TypeInv'
  <2>1. SlotInv(s)'
    BY <1>2 DEF SlotInv, Holds, Idle
  <2>2. \A u \in Slots : Holds(u) /\ slot[u].ref = ref
                           => slot[u].now <= n.lastSeen + MaxDelay
    BY <1>1, <1>4, Zenon DEF Inv, TypeInv, SlotInv
  <2>3. IsFiniteSet(DOMAIN buckets') /\ Cardinality(DOMAIN buckets') <= MaxEntries
    BY <1>2, Zenon DEF Inv, TypeInv
  <2> QED
    BY <1>2, <1>4, <2>1, <2>2, <2>3, StepType, ZenonT(40) DEF Inv
<1>7. /\ Cancels(s, ref) /\ ~Cancels(s, ref)'
      /\ \A u \in Slots : Cancels(u, ref)' => u # s /\ Cancels(u, ref) /\ slot'[u] = slot[u]
      /\ \A u \in Slots : Cancels(u, ref) => slot[u].act \in Int
  BY <1>1, <1>2, <1>5 DEF Cancels, Idle, Inv, TypeInv, SlotInv
<1>8. ASSUME ref \in DOMAIN heap' PROVE RateAt(ref)'
  <2> SUFFICES ASSUME ~n.setBack
               PROVE  /\ Covered(n)
                      /\ \A u \in Slots : Cancels(u, ref)' /\ slot'[u].act >= n.last
                                            => Owed(n, slot'[u].act)
                      /\ \A u1, u2 \in Slots :
                           /\ Cancels(u1, ref)' /\ Cancels(u2, ref)'
                           /\ slot'[u1].act = slot'[u2].act /\ slot'[u1].act >= n.last
                           => u1 = u2
    BY <1>5, <1>8, Zenon DEF RateAt
  <2>1. ~b.setBack =>
          /\ Covered(b)
          /\ \A u \in Slots : Cancels(u, ref) /\ slot[u].act >= b.last => Owed(b, slot[u].act)
          /\ \A u1, u2 \in Slots :
               /\ Cancels(u1, ref) /\ Cancels(u2, ref)
               /\ slot[u1].act = slot[u2].act /\ slot[u1].act >= b.last
               => u1 = u2
    BY <1>1, <1>3, Zenon DEF RateAt
  <2>2. CASE n = b
    BY <1>7, <2>1, <2>2, Zenon
  <2>3. CASE /\ act >= t /\ Period - (b.lastEvent - act) > 0
             /\ n.last = t /\ n.setBack = (b.setBack \/ t < b.last)
    <3>1. ~b.setBack /\ ~(t < b.last)
      BY <2>3, Zenon
    <3>2. b.last \in Nat /\ t >= b.last /\ act >= b.last
      BY <1>3, <3>1, BucketFields
    <3>3. Owed(b, act)
      BY <1>1, <1>7, <2>1, <3>1, <3>2, Zenon
    <3>4. /\ Covered(n)
          /\ \A a \in Int : a >= t /\ Owed(b, a) /\ a # act => Owed(n, a)
      BY <1>1, <1>3, <2>1, <2>3, <3>1, <3>2, <3>3, CancelledCovered, ZenonT(40)
    <3>5. ASSUME NEW u \in Slots, Cancels(u, ref)', slot'[u].act >= t
          PROVE  /\ u # s /\ Cancels(u, ref) /\ slot'[u] = slot[u]
                 /\ slot[u].act \in Int /\ slot[u].act >= t /\ slot[u].act >= b.last
      <4>1. u # s /\ Cancels(u, ref) /\ slot'[u] = slot[u] /\ slot[u].act \in Int
        BY <1>7, <3>5, Zenon
      <4> QED
        BY <1>3, <3>2, <3>5, <4>1
    <3>6. ASSUME NEW u \in Slots, Cancels(u, ref)', slot'[u].act >= t
          PROVE  Owed(n, slot'[u].act)
      <4>1. Owed(b, slot[u].act)
        BY <2>1, <3>1, <3>5, <3>6, Zenon
      <4>2. slot[u].act # act
        BY <1>1, <1>7, <2>1, <3>1, <3>5, <3>6, ZenonT(40)
      <4> QED
        BY <3>4, <3>5, <3>6, <4>1, <4>2, ZenonT(40)
    <3>7. ASSUME NEW u1 \in Slots, NEW u2 \in Slots,
                 Cancels(u1, ref)', Cancels(u2, ref)',
                 slot'[u1].act = slot'[u2].act, slot'[u1].act >= t
          PROVE  u1 = u2
      BY <2>1, <3>1, <3>5, <3>7, ZenonT(40)
    <3> QED
      BY <2>3, <3>4, <3>6, <3>7, Zenon
  <2> QED
    BY <1>4, <2>2, <2>3, Zenon
<1>9. ASSUME ref \in DOMAIN heap' PROVE FreeAt(ref)'
  <2> SUFFICES ASSUME ~n.overlapped
               PROVE  /\ ~Outstanding(ref)' => n.tokens >= Due(n, n.last)
                      /\ \A u \in Slots : Cancels(u, ref)' => Lone(n, slot'[u])
                      /\ \A u1, u2 \in Slots :
                           Cancels(u1, ref)' /\ Cancels(u2, ref)' => u1 = u2
    BY <1>5, <1>9, Zenon DEF FreeAt
  <2>1. /\ \A u \in Slots : Cancels(u, ref) => Lone(b, slot[u])
        /\ \A u1, u2 \in Slots : Cancels(u1, ref) /\ Cancels(u2, ref) => u1 = u2
    BY <1>1, <1>3, <1>4, Zenon DEF FreeAt
  <2>2. \A u \in Slots : ~Cancels(u, ref)'
    BY <1>7, <2>1, Zenon
  <2>3. n.tokens >= Due(n, n.last)
    BY <1>1, <1>3, <1>7, <2>1, CancelledFree, Zenon
  <2> QED
    BY <2>2, <2>3, Zenon
<1>10. RateInv' /\ FreeInv'
  BY <1>2, <1>8, <1>9, StepKeeps, Zenon DEF Inv
<1> QED
  BY <1>6, <1>10, Zenon DEF Inv

(* prune: what is no longer in the map and not held goes, the rest stays.  *)
LEMMA PruneInv == ASSUME Inv, Prune PROVE Inv'
<1>1. /\ clock' = clock /\ slot' = slot
      /\ buckets' = Restrict(buckets, {k \in DOMAIN buckets : ~Expired(heap[buckets[k]])})
      /\ heap' = Collect(heap, buckets', slot)
  BY Zenon DEF Prune
<1>2. DOMAIN buckets' \in SUBSET DOMAIN buckets
      /\ \A k \in DOMAIN buckets' : buckets'[k] = buckets[k]
  BY <1>1, Zenon DEF Restrict
<1>3. IsFiniteSet(DOMAIN buckets') /\ Cardinality(DOMAIN buckets') <= MaxEntries
  <2>1. IsFiniteSet(DOMAIN buckets) /\ Cardinality(DOMAIN buckets) <= MaxEntries
    BY Zenon DEF Inv, TypeInv
  <2>2. /\ IsFiniteSet(DOMAIN buckets')
        /\ Cardinality(DOMAIN buckets') <= Cardinality(DOMAIN buckets)
    BY <1>2, <2>1, FS_Subset, Zenon
  <2>3. Cardinality(DOMAIN buckets') \in Nat /\ Cardinality(DOMAIN buckets) \in Nat
    BY <2>1, <2>2, FS_CardinalityType, Zenon
  <2> QED
    BY <2>1, <2>2, <2>3, Constants
<1>4. KeptOf(heap', heap, buckets', slot)
  <2>1. KeptOf(Collect(heap, buckets', slot), heap, buckets', slot)
    BY <1>3, Collected, Zenon
  <2> QED
    BY <1>1, <2>1, Zenon
<1>5. \A r \in DOMAIN heap' : r \in DOMAIN heap /\ heap'[r] = heap[r]
  BY <1>2, <1>4 DEF KeptOf, Inv, TypeInv, SlotInv, Holds
<1>6. TypeInv'
  <2>1. \A u \in Slots : SlotInv(u)'
    BY <1>1, <1>4, <1>5, Zenon DEF KeptOf, Inv, TypeInv, SlotInv, Holds
  <2>2. \A r \in DOMAIN heap' : Sound(heap[r])'
    BY <1>1, <1>5, Zenon DEF Inv, TypeInv, Sound
  <2>3. IsFiniteSet(DOMAIN heap') /\ \A k \in DOMAIN buckets' : buckets'[k] \in DOMAIN heap'
    BY <1>4, Zenon DEF KeptOf
  <2> QED
    BY <1>1, <1>3, <2>1, <2>2, <2>3, Zenon DEF Inv, TypeInv
<1>7. RateInv' /\ FreeInv'
  <2> SUFFICES ASSUME NEW r \in DOMAIN heap' PROVE RateAt(r)' /\ FreeAt(r)'
    BY Zenon DEF RateInv, FreeInv
  <2>1. Same(r)
    BY <1>1, <1>5, Zenon DEF Same, Cancels
  <2>2. RateAt(r) /\ FreeAt(r)
    BY <1>5, Zenon DEF Inv, RateInv, FreeInv
  <2> QED
    BY <2>1, <2>2, SameKept, Zenon
<1> QED
  BY <1>6, <1>7, Zenon DEF Inv

(* Time passes, for no request longer than MaxDelay.                       *)
LEMMA TickInv == ASSUME Inv, Tick PROVE Inv'
<1>1. /\ clock' = clock + 1 /\ clock \in Nat /\ MaxDelay \in Nat
      /\ UNCHANGED <<buckets, heap, slot>>
      /\ \A s \in Slots : slot[s].at # "idle" => clock - slot[s].now < MaxDelay
  BY Constants, Zenon DEF Tick, InFlight, Inv, TypeInv
<1>2. \A s \in Slots : SlotInv(s)'
  <2> SUFFICES ASSUME NEW s \in Slots PROVE SlotInv(s)'
    BY Zenon
  <2>1. SlotInv(s)
    BY Zenon DEF Inv, TypeInv
  <2>2. slot[s].at # "idle" => clock + 1 <= slot[s].now + MaxDelay /\ slot[s].now <= clock + 1
    BY <1>1, <2>1 DEF SlotInv
  <2> QED
    BY <1>1, <2>1, <2>2, Zenon DEF SlotInv, Holds
<1>3. \A r \in DOMAIN heap : Sound(heap[r])'
  <2> SUFFICES ASSUME NEW r \in DOMAIN heap PROVE Sound(heap[r])'
    BY Zenon
  <2>1. Sound(heap[r])
    BY Zenon DEF Inv, TypeInv
  <2>2. heap[r].dueAt \in Nat
    BY <2>1, Zenon DEF Sound, Bucket
  <2> QED
    BY <1>1, <2>1, <2>2 DEF Sound
<1>4. TypeInv'
  BY <1>1, <1>2, <1>3 DEF Inv, TypeInv
<1>5. RateInv' /\ FreeInv'
  <2> SUFFICES ASSUME NEW r \in DOMAIN heap PROVE RateAt(r)' /\ FreeAt(r)'
    BY <1>1, Zenon DEF RateInv, FreeInv
  <2>1. Same(r)
    BY <1>1, Zenon DEF Same, Cancels
  <2> QED
    BY <2>1, SameKept, Zenon DEF Inv, RateInv, FreeInv
<1> QED
  BY <1>4, <1>5, Zenon DEF Inv

(* A step that changes nothing.                                            *)
LEMMA StutterInv == ASSUME Inv, UNCHANGED vars PROVE Inv'
<1>1. UNCHANGED <<clock, buckets, heap, slot>>
  BY Zenon DEF vars
<1>2. TypeInv'
  BY <1>1, Zenon DEF Inv, TypeInv, SlotInv, Holds, Sound
<1>3. RateInv' /\ FreeInv'
  <2> SUFFICES ASSUME NEW r \in DOMAIN heap PROVE RateAt(r)' /\ FreeAt(r)'
    BY <1>1, Zenon DEF RateInv, FreeInv
  <2>1. Same(r)
    BY <1>1, Zenon DEF Same, Cancels
  <2> QED
    BY <2>1, SameKept, Zenon DEF Inv, RateInv, FreeInv
<1> QED
  BY <1>2, <1>3, Zenon DEF Inv

-----------------------------------------------------------------------------
(* The theorems. *)

(* Inv holds throughout: Init establishes it and every action keeps it.    *)
THEOREM Invariance == Spec => []Inv
<1>1. Inv /\ [Next]_vars => Inv'
  BY ArriveInv, LookupInv, ReserveInv, CancelInv, PruneInv, TickInv, StutterInv, Zenon DEF Next
<1> QED
  BY <1>1, InitInv, PTL DEF Spec

(* The map never has more than MaxEntries buckets, whatever addresses come *)
(* in, and refers like the requests only to buckets that exist: resetting  *)
(* the map in allow and pruning it leave no request without its bucket.    *)
THEOREM BoundedMap == Spec => []TypeOK
<1>1. Inv => TypeOK
  <2> SUFFICES ASSUME Inv PROVE TypeOK
    BY Zenon
  <2>1. Range(buckets) \subseteq DOMAIN heap
    BY Zenon DEF Inv, TypeInv, Range
  <2>2. \A s \in Slots : slot[s].at \in {"reserve", "cancel"} => slot[s].ref \in DOMAIN heap
    BY Zenon DEF Inv, TypeInv, SlotInv, Holds
  <2> QED
    BY <2>1, <2>2, Zenon DEF Inv, TypeInv, TypeOK, Sound
<1> QED
  BY <1>1, Invariance, PTL

(* A bucket lets through no more than its burst and its rate, however many *)
(* requests reserve and cancel at once in whatever order, as long as no    *)
(* request sets its time back.                                             *)
THEOREM RateKept == Spec => []BucketKeepsRate
<1>1. Inv => BucketKeepsRate
  BY Zenon DEF Inv, RateInv, RateAt, Covered, BucketKeepsRate
<1> QED
  BY <1>1, Invariance, PTL

(* A denied request whose reservation met no other one costs its client    *)
(* nothing: CancelAt gives back exactly what ReserveN took.                *)
THEOREM DenialsAreFree == Spec => []LoneDenialsAreFree
<1>1. Inv => LoneDenialsAreFree
  <2> SUFFICES ASSUME Inv, NEW r \in DOMAIN heap, ~Outstanding(r), ~heap[r].overlapped
               PROVE  Advance(heap[r], clock) >= Due(heap[r], clock)
    BY Zenon DEF LoneDenialsAreFree
  <2>1. heap[r] \in Bucket /\ clock \in Nat
    BY Zenon DEF Inv, TypeInv, Sound
  <2>2. heap[r].tokens >= Due(heap[r], heap[r].last)
    BY Zenon DEF Inv, FreeInv, FreeAt
  <2> QED
    BY <2>1, <2>2, FreeLater, Zenon
<1> QED
  BY <1>1, Invariance, PTL

(* A bucket that prune removes would be full again, unless its time was    *)
(* set back, and no request still in allow holds it: with a TTL of a whole *)
(* refill and more, forgetting it gives nobody a fresh burst.              *)
THEOREM PruneIsSafe ==
  ASSUME TTLOutlastsRefill
  PROVE  Spec => PruneForgetsNothing
<1> DEFINE Safe ==
      \A k \in DOMAIN buckets :
        Prune /\ k \notin DOMAIN buckets' =>
          LET ref == buckets[k]
          IN  /\ heap[ref].setBack \/ Due(heap[ref], clock) = Full
              /\ \A s \in Slots : slot[s].at \in {"reserve", "cancel"} => slot[s].ref # ref
<1>1. ASSUME Inv, [Next]_vars PROVE [Safe]_vars
  <2> SUFFICES ASSUME NEW k \in DOMAIN buckets, Prune, k \notin DOMAIN buckets'
               PROVE  /\ heap[buckets[k]].setBack \/ Due(heap[buckets[k]], clock) = Full
                      /\ \A s \in Slots : slot[s].at \in {"reserve", "cancel"}
                                            => slot[s].ref # buckets[k]
    BY Zenon
  <2>1. PICK b : b = heap[buckets[k]]
    BY Zenon
  <2>2. Expired(b)
    BY <2>1, Zenon DEF Prune, Restrict
  <2>3. buckets[k] \in DOMAIN heap /\ Sound(b) /\ b \in Bucket /\ clock \in Nat
    BY <1>1, <2>1, Zenon DEF Inv, TypeInv, Sound
  <2>4. /\ b.lastSeen \in Nat /\ b.dueAt \in Nat /\ b.due \in Int
        /\ b.dueAt <= b.lastSeen + MaxDelay
        /\ clock - b.lastSeen > TTL
    BY <2>2, <2>3, BucketFields, Zenon DEF Sound, Expired
  <2>5. b.setBack \/ Due(b, clock) = Full
    <3> SUFFICES ASSUME ~b.setBack PROVE Due(b, clock) = Full
      BY Zenon
    <3>1. b.due >= 0
      BY <1>1, <2>1, <2>3, Zenon DEF Inv, RateInv, RateAt, Covered
    <3>2. LET x == b.due + (IF clock > b.dueAt THEN clock - b.dueAt ELSE 0)
          IN  Due(b, clock) = IF Full <= x THEN Full ELSE x
      BY <2>3, DueIs, Zenon
    <3> QED
      BY <2>3, <2>4, <3>1, <3>2, Constants DEF TTLOutlastsRefill
  <2>6. ASSUME NEW s \in Slots, slot[s].at \in {"reserve", "cancel"}, slot[s].ref = buckets[k]
        PROVE  FALSE
    <3>1. /\ slot[s].now \in Nat /\ clock <= slot[s].now + MaxDelay
          /\ slot[s].now <= b.lastSeen + MaxDelay
      BY <1>1, <2>1, <2>6, Zenon DEF Inv, TypeInv, SlotInv, Holds
    <3> QED
      BY <2>3, <2>4, <3>1, Constants DEF TTLOutlastsRefill
  <2> QED
    BY <2>1, <2>5, <2>6, Zenon
<1> QED
  BY <1>1, Invariance, PTL DEF Spec, PruneForgetsNothing

(* A request in the limiter keeps the key it arrived with, and whatever    *)
(* its caller wrote in X-Forwarded-For, that is the key of the address     *)
(* that reached the first of the trusted proxies.                          *)
THEOREM OwnKey == Spec => []CallerDoesNotChooseKey
<1> DEFINE Own(v) == v.at # "idle" => v.key = normaliseIP(v.client)
           KeyInv == \A s \in Slots : Own(slot[s])
<1>1. Init => KeyInv
  BY DEF Init, Idle
<1>2. ASSUME Inv, KeyInv, [Next]_vars PROVE KeyInv'
  <2>0. slot = [s \in Slots |-> slot[s]]
    BY <1>2, Zenon DEF Inv, TypeInv
  <2>1. ASSUME NEW s \in Slots, NEW v, slot' = [slot EXCEPT ![s] = v], Own(v)
        PROVE  KeyInv'
    BY <1>2, <2>0, <2>1, Zenon
  <2>2. ASSUME NEW s \in Slots, Arrive(s) PROVE KeyInv'
    <3>1. PICK client \in Clients, prefix \in Headers :
            slot' = [slot EXCEPT ![s] = [at |-> "lookup", client |-> client, now |-> clock,
                                         key |-> Key(prefix, client)]]
      BY <2>2, Zenon DEF Arrive
    <3>2. Key(prefix, client) = normaliseIP(client)
      BY KeyIsClient, Zenon
    <3> QED
      BY <2>1, <3>1, <3>2, Zenon
  <2>3. ASSUME NEW s \in Slots, Lookup(s) PROVE KeyInv'
    <3>1. PICK ref : slot' = [slot EXCEPT ![s] =
                                [at |-> "reserve", client |-> @.client, now |-> @.now,
                                 key |-> slot[s].key, ref |-> ref]]
      BY <2>3, Zenon DEF Lookup
    <3>2. slot[s].key = normaliseIP(slot[s].client)
      BY <1>2, <2>3, Zenon DEF Lookup
    <3> QED
      BY <2>0, <2>1, <3>1, <3>2, Zenon
  <2>4. ASSUME NEW s \in Slots, Reserve(s) PROVE KeyInv'
    <3>1. PICK b, denied :
            slot' = [slot EXCEPT ![s] =
                       IF denied THEN [at |-> "cancel", client |-> @.client,
                                       now |-> slot[s].now, key |-> @.key,
                                       ref |-> slot[s].ref, act |-> b.lastEvent]
                       ELSE Idle]
      BY <2>4, Zenon DEF Reserve
    <3>2. slot[s].key = normaliseIP(slot[s].client)
      BY <1>2, <2>4, Zenon DEF Reserve
    <3> QED
      BY <2>0, <2>1, <3>1, <3>2, Zenon DEF Idle
  <2>5. ASSUME NEW s \in Slots, Cancel(s) PROVE KeyInv'
    BY <2>1, <2>5, Zenon DEF Cancel, Idle
  <2>6. CASE Prune \/ Tick \/ UNCHANGED vars
    BY <1>2, <2>6, Zenon DEF Prune, Tick, vars
  <2> QED
    BY <1>2, <2>2, <2>3, <2>4, <2>5, <2>6, Zenon DEF Next
<1>3. KeyInv => CallerDoesNotChooseKey
  BY Zenon DEF CallerDoesNotChooseKey, InFlight
<1> QED
  BY <1>1, <1>2, <1>3, Invariance, PTL DEF Spec

=============================================================================
