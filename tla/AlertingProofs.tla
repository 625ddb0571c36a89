--------------------------- MODULE AlertingProofs ---------------------------
(***************************************************************************)
(* Proofs about what MCAlerting puts side by side: the alert loop with its *)
(* limiter, digests, deliveries and commands, the conditions alerts watch, *)
(* and the briefings, for any accounts, alerts, limits, failures, prints   *)
(* and cadences.                                                           *)
(***************************************************************************)
EXTENDS MCAlerting, SumsProofs, SequenceTheorems

-----------------------------------------------------------------------------
(* Sizes, orders and queues. *)

LEMMA DeliveryNumbers ==
  /\ IsFiniteSet(Accounts) /\ IsFiniteSet(AlertIds)
  /\ AccountOf \in [AlertIds -> Accounts] /\ Once \subseteq AlertIds /\ OnFills \subseteq AlertIds
  /\ Hour \in Nat \ {0} /\ PerHour \in Nat \ {0} /\ Cooldown \in Nat \ {0} /\ MarkAttempts \in Nat \ {0}
  /\ MaxFirings \in Nat /\ MaxGeneration \in Nat \ {0}
<1>1. \A S : Deliveries!IsFiniteSet(S) <=> IsFiniteSet(S)
  BY Zenon DEF Deliveries!IsFiniteSet, IsFiniteSet
<1> QED
  BY <1>1, DeliveriesAssumed DEF Deliveries!AlertsAssumption

LEMMA DeliverySizes ==
  ASSUME NEW S
  PROVE  Deliveries!Cardinality(S) = Cardinality(S)
  BY Zenon DEF Deliveries!Cardinality, Cardinality, Deliveries!IsFiniteSet, IsFiniteSet

\* The orders of a finite set name each of its elements once.
LEMMA OrderFacts ==
  ASSUME NEW S, IsFiniteSet(S), NEW q \in Deliveries!SetToSeqs(S)
  PROVE  /\ q \in Seq(S) /\ Len(q) = Cardinality(S) /\ Len(q) \in Nat /\ DOMAIN q = 1 .. Len(q)
         /\ \A j, k \in 1 .. Len(q) : j # k => q[j] # q[k]
         /\ \A x \in S : \E k \in 1 .. Len(q) : q[k] = x
<1>1. Cardinality(S) \in Nat
  BY FS_CardinalityType
<1>2. /\ q \in [1 .. Cardinality(S) -> S]
      /\ \A j, k \in 1 .. Cardinality(S) : j # k => q[j] # q[k]
  <2>1. Deliveries!Cardinality(S) = Cardinality(S)
    BY DeliverySizes
  <2> QED
    BY <2>1, Zenon DEF Deliveries!SetToSeqs
<1>3. q \in Injection(1 .. Cardinality(S), S)
  BY <1>2, Zenon DEF Injection, IsInjective
<1>4. Cardinality(1 .. Cardinality(S)) = Cardinality(S)
  BY <1>1, FS_Interval
<1>5. q \in Surjection(1 .. Cardinality(S), S)
  BY <1>3, <1>4, FS_Injection
<1>6. \A x \in S : \E k \in 1 .. Cardinality(S) : q[k] = x
  BY <1>5, Zenon DEF Surjection
<1> QED
  BY <1>1, <1>2, <1>6

\* What is left of a queue without its first m.
LEMMA RestFacts ==
  ASSUME NEW S, NEW q \in Seq(S), NEW m \in 0 .. Len(q)
  PROVE  LET r == SubSeq(q, m + 1, Len(q)) IN
         r \in Seq(S) /\ Len(r) = Len(q) - m /\ \A k \in 1 .. Len(q) - m : r[k] = q[k + m]
<1> DEFINE n == Len(q)
           r == SubSeq(q, m + 1, n)
<1>1. n \in Nat /\ m \in Nat /\ m <= n /\ \A i \in m + 1 .. n : q[i] \in S
  OBVIOUS
<1> HIDE DEF n
<1>2. m + 1 \in Int /\ n \in Int
  BY <1>1
<1>3. /\ r \in Seq(S) /\ Len(r) = IF m + 1 <= n THEN n - (m + 1) + 1 ELSE 0
      /\ \A i \in 1 .. n - (m + 1) + 1 : r[i] = q[m + 1 + i - 1]
  BY <1>1, <1>2, SubSeqProperties
<1> HIDE DEF r
<1>4. n - (m + 1) + 1 = n - m /\ (~ (m + 1 <= n) => n - m = 0)
  BY <1>1
<1>5. \A i \in 1 .. n - m : m + 1 + i - 1 = i + m
  BY <1>1
<1>6. r \in Seq(S) /\ Len(r) = n - m /\ \A k \in 1 .. n - m : r[k] = q[k + m]
  BY <1>3, <1>4, <1>5
<1> QED
  BY <1>6 DEF r, n

\* Where the limiter's loop over the front of its queue stops.
Stop(q, m) ==
  /\ m \in 0 .. Len(q)
  /\ \A k \in 1 .. m : q[k] >= Hour
  /\ m < Len(q) => q[m + 1] < Hour

LEMMA YoungIs ==
  ASSUME NEW q \in Seq(0 .. Hour), NEW m, Stop(q, m)
  PROVE  Deliveries!Young(q) = SubSeq(q, m + 1, Len(q))
<1> DEFINE Old(n) == n \in 0 .. Len(q) /\ (\A k \in 1 .. n : q[k] >= Hour) /\ (n < Len(q) => q[n + 1] < Hour)
<1>1. Old(m) /\ Len(q) \in Nat /\ \A k \in 1 .. Len(q) : q[k] \in Int
  BY DeliveryNumbers DEF Stop
<1>2. ASSUME NEW n, Old(n) PROVE n = m
  <2>1. ~ (n < m)
    <3>1. n < m => n + 1 \in 1 .. m /\ n < Len(q)
      BY <1>1, <1>2
    <3> QED
      BY <1>1, <1>2, <3>1, DeliveryNumbers
  <2>2. ~ (m < n)
    <3>1. m < n => m + 1 \in 1 .. n /\ m < Len(q)
      BY <1>1, <1>2
    <3> QED
      BY <1>1, <1>2, <3>1, DeliveryNumbers
  <2> QED
    BY <1>1, <1>2, <2>1, <2>2
<1>3. (CHOOSE n \in 0 .. Len(q) : /\ \A k \in 1 .. n : q[k] >= Hour
                                  /\ n < Len(q) => q[n + 1] < Hour) = m
  BY <1>1, <1>2
<1> QED
  BY <1>3 DEF Deliveries!Young

LEMMA YoungStops ==
  ASSUME NEW q \in Seq(0 .. Hour)
  PROVE  \E m : Stop(q, m)
<1> DEFINE T == {k \in 1 .. Len(q) + 1 : k = Len(q) + 1 \/ q[k] < Hour}
<1>1. Len(q) \in Nat /\ T \subseteq Nat /\ Len(q) + 1 \in T
  OBVIOUS
<1>2. PICK k \in T : \A j \in T : k <= j
  BY <1>1, LeastNat
<1>3. \A j \in 1 .. k - 1 : q[j] >= Hour
  BY <1>1, <1>2, DeliveryNumbers
<1>4. Stop(q, k - 1)
  BY <1>1, <1>2, <1>3 DEF Stop
<1> QED
  BY <1>4

LEMMA YoungFacts ==
  ASSUME NEW q \in Seq(0 .. Hour)
  PROVE  LET r == Deliveries!Young(q) IN
         /\ r \in Seq(0 .. Hour) /\ Len(r) <= Len(q)
         /\ r # <<>> => r[1] < Hour
<1>1. PICK m : Stop(q, m)
  BY YoungStops
<1>2. m \in 0 .. Len(q) /\ (m < Len(q) => q[m + 1] < Hour)
  BY <1>1 DEF Stop
<1> DEFINE r == SubSeq(q, m + 1, Len(q))
<1>3. Deliveries!Young(q) = r
  BY <1>1, YoungIs
<1>4. r \in Seq(0 .. Hour) /\ Len(r) = Len(q) - m /\ \A k \in 1 .. Len(q) - m : r[k] = q[k + m]
  BY <1>2, RestFacts
<1> HIDE DEF r
<1>5. r # <<>> => Len(r) > 0
  BY <1>4
<1>6. r # <<>> => r[1] < Hour
  BY <1>2, <1>4, <1>5
<1> QED
  BY <1>2, <1>3, <1>4, <1>6

\* A queue whose front is young stays as it is.
LEMMA YoungSame ==
  ASSUME NEW q \in Seq(0 .. Hour), q # <<>> => q[1] < Hour
  PROVE  Deliveries!Young(q) = q
<1>1. Stop(q, 0)
  BY DEF Stop
<1>2. Deliveries!Young(q) = SubSeq(q, 0 + 1, Len(q))
  BY <1>1, YoungIs
<1>3. SubSeq(q, 1, Len(q)) = q
  BY SubSeqFull
<1> QED
  BY <1>2, <1>3

LEMMA YoungTwice ==
  ASSUME NEW q \in Seq(0 .. Hour)
  PROVE  LET r == Deliveries!Young(q) IN
         /\ Deliveries!Young(r) = r /\ Deliveries!Young(Append(r, 0)) = Append(r, 0)
         /\ Append(r, 0) \in Seq(0 .. Hour)
<1> DEFINE r == Deliveries!Young(q)
<1>1. r \in Seq(0 .. Hour) /\ (r # <<>> => r[1] < Hour)
  BY YoungFacts
<1> HIDE DEF r
<1>2. Append(r, 0) \in Seq(0 .. Hour) /\ Append(r, 0)[1] < Hour
  BY <1>1, DeliveryNumbers
<1>3. Deliveries!Young(r) = r /\ Deliveries!Young(Append(r, 0)) = Append(r, 0)
  BY <1>1, <1>2, YoungSame
<1> QED
  BY <1>2, <1>3 DEF r

LEMMA OlderFacts ==
  ASSUME NEW q \in Seq(0 .. Hour)
  PROVE  /\ Deliveries!Older(q) \in Seq(0 .. Hour) /\ Len(Deliveries!Older(q)) = Len(q)
         /\ \A k \in 1 .. Len(q) : Deliveries!Older(q)[k] = IF q[k] < Hour THEN q[k] + 1 ELSE Hour
BY DeliveryNumbers DEF Deliveries!Older

\* What has become old by now is what has become old of what was young.
LEMMA YoungOlder ==
  ASSUME NEW q \in Seq(0 .. Hour)
  PROVE  /\ Deliveries!Young(Deliveries!Older(q)) = Deliveries!Young(Deliveries!Older(Deliveries!Young(q)))
         /\ Len(Deliveries!Young(Deliveries!Older(q))) <= Len(Deliveries!Young(q))
<1> DEFINE r == Deliveries!Young(q)
           p == Deliveries!Older(q)
           s == Deliveries!Older(r)
<1>1. PICK m : Stop(q, m)
  BY YoungStops
<1>2. m \in 0 .. Len(q) /\ r = SubSeq(q, m + 1, Len(q)) /\ \A k \in 1 .. m : q[k] >= Hour
  BY <1>1, YoungIs DEF Stop
<1>3. /\ r \in Seq(0 .. Hour) /\ Len(r) = Len(q) - m /\ Len(q) \in Nat
      /\ \A k \in 1 .. Len(r) : r[k] = q[k + m]
  <2>1. LET t == SubSeq(q, m + 1, Len(q)) IN
        t \in Seq(0 .. Hour) /\ Len(t) = Len(q) - m /\ \A k \in 1 .. Len(q) - m : t[k] = q[k + m]
    BY <1>2, RestFacts
  <2> HIDE DEF r
  <2> QED
    BY <1>2, <2>1
<1>4. /\ p \in Seq(0 .. Hour) /\ Len(p) = Len(q)
      /\ \A k \in 1 .. Len(q) : p[k] = IF q[k] < Hour THEN q[k] + 1 ELSE Hour
  BY OlderFacts
<1> HIDE DEF r, p
<1>5. /\ s \in Seq(0 .. Hour) /\ Len(s) = Len(r)
      /\ \A k \in 1 .. Len(r) : s[k] = IF r[k] < Hour THEN r[k] + 1 ELSE Hour
  BY <1>3, OlderFacts
<1> HIDE DEF s
<1>6. PICK n : Stop(s, n)
  BY <1>5, YoungStops
<1>7. n \in 0 .. Len(s) /\ (\A k \in 1 .. n : s[k] >= Hour) /\ (n < Len(s) => s[n + 1] < Hour)
  BY <1>6 DEF Stop
<1>8. \A k \in 1 .. Len(r) : s[k] = p[k + m]
  <2>1. ASSUME NEW k \in 1 .. Len(r) PROVE s[k] = p[k + m]
    <3>1. m \in Nat /\ k + m \in 1 .. Len(q)
      BY <1>2, <1>3
    <3>2. s[k] = IF r[k] < Hour THEN r[k] + 1 ELSE Hour
      BY <1>5
    <3>3. p[k + m] = IF q[k + m] < Hour THEN q[k + m] + 1 ELSE Hour
      BY <1>4, <3>1
    <3> QED
      BY <1>3, <3>2, <3>3
  <2> QED
    BY <2>1
<1>9. Stop(p, m + n)
  <2>1. m + n \in 0 .. Len(p)
    BY <1>2, <1>3, <1>4, <1>5, <1>7
  <2>2. ASSUME NEW k \in 1 .. m + n PROVE p[k] >= Hour
    <3>1. CASE k <= m
      <4>1. k \in 1 .. m /\ k \in 1 .. Len(q)
        BY <1>2, <1>3, <1>7, <3>1
      <4>2. q[k] >= Hour /\ p[k] = IF q[k] < Hour THEN q[k] + 1 ELSE Hour
        BY <1>2, <1>4, <4>1
      <4>3. q[k] \in 0 .. Hour
        BY <4>1, ElementOfSeq
      <4> QED
        BY <4>2, <4>3, DeliveryNumbers
    <3>2. CASE k > m
      <4>1. k - m \in 1 .. n /\ k - m \in 1 .. Len(r) /\ (k - m) + m = k
        BY <1>2, <1>3, <1>5, <1>7, <3>2
      <4> QED
        BY <1>7, <1>8, <4>1
    <3> QED
      BY <1>2, <3>1, <3>2
  <2>3. m + n < Len(p) => p[m + n + 1] < Hour
    <3>1. ASSUME m + n < Len(p) PROVE n + 1 \in 1 .. Len(r) /\ n < Len(s) /\ (n + 1) + m = m + n + 1
      BY <1>2, <1>3, <1>4, <1>5, <1>7, <3>1
    <3> QED
      BY <1>7, <1>8, <3>1
  <2> QED
    BY <2>1, <2>2, <2>3 DEF Stop
<1> DEFINE x == SubSeq(p, (m + n) + 1, Len(p))
           y == SubSeq(s, n + 1, Len(s))
<1>10. Deliveries!Young(p) = x /\ Deliveries!Young(s) = y
  BY <1>4, <1>5, <1>6, <1>9, YoungIs
<1>11. /\ x \in Seq(0 .. Hour) /\ Len(x) = Len(p) - (m + n)
       /\ \A k \in 1 .. Len(p) - (m + n) : x[k] = p[k + (m + n)]
  BY <1>4, <1>9, RestFacts DEF Stop
<1>12. y \in Seq(0 .. Hour) /\ Len(y) = Len(s) - n /\ \A k \in 1 .. Len(s) - n : y[k] = s[k + n]
  BY <1>5, <1>7, RestFacts
<1> HIDE DEF x, y
<1>13. Len(p) - (m + n) = Len(s) - n /\ Len(s) - n <= Len(r)
  BY <1>2, <1>3, <1>4, <1>5, <1>7
<1>14. \A k \in 1 .. Len(s) - n : x[k] = y[k]
  <2>1. ASSUME NEW k \in 1 .. Len(s) - n PROVE k + n \in 1 .. Len(r) /\ (k + n) + m = k + (m + n)
    BY <1>2, <1>3, <1>5, <1>7, <2>1
  <2> QED
    BY <1>8, <1>11, <1>12, <1>13, <2>1
<1>15. x = y
  BY <1>11, <1>12, <1>13, <1>14, SeqEqual
<1> QED
  BY <1>10, <1>12, <1>13, <1>15 DEF r, p, s

-----------------------------------------------------------------------------
(* Where a firing is. *)

Numbers == 1 .. MaxFirings
Hits == [alert : AlertIds, generation : Int]
Loads == Deliveries!Firing \cup Deliveries!Digest
Carries(f) == Deliveries!NumbersOf(f)
HeldBack(a) == Deliveries!ToSet(digest[a])

LoopTypes ==
  /\ fired \in Seq(Hits) /\ Len(fired) <= MaxFirings
  /\ firings \in Seq(Loads)
  /\ digest \in [Accounts -> Seq(Numbers)]
  /\ workers \subseteq Deliveries!AnyWorker
  /\ events \in [Numbers -> {"none", "undelivered", "delivered"}]
  /\ told \subseteq 1 .. Len(fired) /\ lost \subseteq 1 .. Len(fired)

\* What is carried has fired.
Known ==
  /\ \A k \in DOMAIN firings : Carries(firings[k]) \subseteq 1 .. Len(fired)
  /\ \A a \in Accounts : HeldBack(a) \subseteq 1 .. Len(fired)
  /\ \A w \in workers : Carries(w.f) \subseteq 1 .. Len(fired)

\* A firing is in the batch, held back, with a worker or settled, and not in two of these.
Apart ==
  /\ \A k \in DOMAIN firings : \A n \in Carries(firings[k]) :
       /\ \A j \in DOMAIN firings : j # k => n \notin Carries(firings[j])
       /\ \A a \in Accounts : n \notin HeldBack(a)
       /\ \A w \in workers : n \notin Carries(w.f)
       /\ n \notin told \cup lost
  /\ \A a \in Accounts : \A n \in HeldBack(a) :
       /\ \A b \in Accounts : b # a => n \notin HeldBack(b)
       /\ \A w \in workers : n \notin Carries(w.f)
       /\ n \notin told \cup lost

OnItsWay(n) ==
  \/ \E k \in DOMAIN firings : n \in Carries(firings[k])
  \/ \E a \in Accounts : n \in HeldBack(a)
  \/ \E w \in workers : n \in Carries(w.f)

Accounted == \A n \in 1 .. Len(fired) : OnItsWay(n) \/ n \in told \cup lost \/ events[n] # "none"

\* A digest has nothing to store; who sends a firing has recorded it.
StagesOK ==
  \A w \in workers :
    /\ Deliveries!IsDigest(w.f) => w.pc \in {"wait", "send"}
    /\ ~ Deliveries!IsDigest(w.f) /\ w.pc \in {"send", "resend"} => events[w.f.n] # "none"

\* Messages of an account are composed and sent one after the other.
OneByOne == Deliveries!OneAtATime

Placed == LoopTypes /\ Known /\ Apart /\ Accounted /\ StagesOK /\ OneByOne

LEMMA LoadFacts ==
  ASSUME NEW f \in Loads
  PROVE  /\ f.account \in Accounts
         /\ Deliveries!IsDigest(f) => f \in Deliveries!Digest /\ Carries(f) = {f.items[k] : k \in DOMAIN f.items}
         /\ ~ Deliveries!IsDigest(f) => f \in Deliveries!Firing /\ Carries(f) = {f.n} /\ f.n \in Numbers
BY DEF Loads, Deliveries!Firing, Deliveries!Digest, Deliveries!IsDigest, Carries, Deliveries!NumbersOf,
       Numbers, Deliveries!ToSet

LEMMA FiringFacts ==
  ASSUME NEW n \in Numbers, NEW a \in Accounts, NEW f, f = [n |-> n, account |-> a, items |-> <<>>]
  PROVE  f \in Deliveries!Firing /\ f \in Loads /\ ~ Deliveries!IsDigest(f) /\ Carries(f) = {n} /\ f.n = n
BY DEF Loads, Deliveries!Firing, Deliveries!IsDigest, Carries, Deliveries!NumbersOf, Numbers

LEMMA DigestFacts ==
  ASSUME LoopTypes, NEW a \in Accounts
  PROVE  LET d == Deliveries!DigestOf(a) IN
         d \in Loads /\ Deliveries!IsDigest(d) /\ Carries(d) = HeldBack(a) /\ d.account = a
BY DEF Loads, LoopTypes, Deliveries!Digest, Deliveries!DigestOf, Deliveries!IsDigest, Carries,
       Deliveries!NumbersOf, Numbers, HeldBack

LEMMA WorkerFacts ==
  ASSUME NEW w \in Deliveries!AnyWorker
  PROVE  w.f \in Loads /\ w.pc \in Deliveries!Stages /\ w.attempt \in 1 .. MarkAttempts
BY DEF Deliveries!AnyWorker, Loads

\* What an event that some alerts wait for leads to.
LEMMA FireFacts ==
  ASSUME LoopTypes, firings = <<>>, NEW hits, hits \subseteq AlertIds, NEW g \in Int,
         Deliveries!Fire(hits, g)
  PROVE  \E S \in SUBSET (hits \cap armed), N \in Nat :
           /\ Len(fired') = Len(fired) + N /\ Len(fired) + N <= MaxFirings
           /\ fired' \in Seq(Hits) /\ \A n \in 1 .. Len(fired) : fired'[n] = fired[n]
           /\ \A k \in 1 .. N : fired'[Len(fired) + k].alert \in S
           /\ \A i \in S : \E k \in 1 .. N : fired'[Len(fired) + k].alert = i
           /\ firings' \in Seq(Loads) /\ Len(firings') = N
           /\ \A k \in 1 .. N : /\ firings'[k].n = Len(fired) + k /\ ~ Deliveries!IsDigest(firings'[k])
                                /\ Carries(firings'[k]) = {Len(fired) + k}
           /\ armed' = armed \ (S \cap Once)
<1> DEFINE S == {i \in hits \intersect armed : cool[i] = 0}
           N == Cardinality(S)
           L == Len(fired)
<1>1. S \subseteq AlertIds /\ IsFiniteSet(S) /\ S \in SUBSET (hits \cap armed)
  BY DeliveryNumbers, FS_Subset
<1>2. N \in Nat /\ L \in Nat /\ fired \in Seq(Hits)
  BY <1>1, FS_CardinalityType DEF LoopTypes
<1>3. Deliveries!Cardinality(S) = N
  BY DeliverySizes
<1>4. PICK order \in Deliveries!SetToSeqs(S) :
        /\ fired' = fired \o [k \in 1 .. Len(order) |-> Deliveries!Hit(order[k], g)]
        /\ firings' = [k \in 1 .. Len(order) |->
             [n |-> Len(fired) + k, account |-> AccountOf[order[k]], items |-> <<>>]]
  BY Zenon DEF Deliveries!Fire
<1>5. L + N <= MaxFirings /\ armed' = armed \ (S \cap Once)
  BY <1>3 DEF Deliveries!Fire, Deliveries!Removed
<1> HIDE DEF S
<1>6. order \in Seq(S) /\ Len(order) = N /\ \A i \in S : \E k \in 1 .. N : order[k] = i
  BY <1>1, OrderFacts
<1> DEFINE new == [k \in 1 .. N |-> Deliveries!Hit(order[k], g)]
<1>7. \A k \in 1 .. N : order[k] \in S /\ order[k] \in AlertIds /\ AccountOf[order[k]] \in Accounts
  BY <1>1, <1>6, DeliveryNumbers
<1> HIDE DEF N
<1>8. new \in Seq(Hits) /\ Len(new) = N /\ \A k \in 1 .. N : new[k].alert = order[k]
  <2>1. \A k \in 1 .. N : Deliveries!Hit(order[k], g) \in Hits /\ Deliveries!Hit(order[k], g).alert = order[k]
    BY <1>7 DEF Hits, Deliveries!Hit
  <2> QED
    BY <1>2, <2>1
<1>9. fired' = fired \o new
  BY <1>4, <1>6
<1> HIDE DEF new, L
<1>10. /\ fired' \in Seq(Hits) /\ Len(fired') = L + N
       /\ \A n \in 1 .. L : fired'[n] = fired[n]
       /\ \A k \in 1 .. N : fired'[L + k] = new[k]
  <2>1. /\ fired \o new \in Seq(Hits) /\ Len(fired \o new) = Len(fired) + Len(new)
        /\ \A n \in 1 .. Len(fired) : (fired \o new)[n] = fired[n]
        /\ \A k \in 1 .. Len(new) : (fired \o new)[Len(fired) + k] = new[k]
    <3>1. fired \in Seq(Hits) /\ new \in Seq(Hits)
      BY <1>2, <1>8
    <3> QED
      BY ONLY <3>1
  <2>2. Len(new) = N /\ Len(fired) = L
    BY <1>8 DEF L
  <2> QED
    BY <1>9, <2>1, <2>2
<1>11. /\ \A k \in 1 .. N : fired'[L + k].alert \in S
       /\ \A i \in S : \E k \in 1 .. N : fired'[L + k].alert = i
  <2>1. \A k \in 1 .. N : fired'[L + k].alert = order[k]
    BY <1>8, <1>10
  <2> QED
    BY <1>6, <1>7, <2>1
<1>12. firings' = [k \in 1 .. N |-> [n |-> L + k, account |-> AccountOf[order[k]], items |-> <<>>]]
  BY <1>4, <1>6 DEF L
<1>13. \A k \in 1 .. N : /\ firings'[k] \in Loads /\ firings'[k].n = L + k /\ ~ Deliveries!IsDigest(firings'[k])
                         /\ Carries(firings'[k]) = {L + k}
  <2>1. ASSUME NEW k \in 1 .. N
        PROVE  /\ firings'[k] \in Loads /\ firings'[k].n = L + k /\ ~ Deliveries!IsDigest(firings'[k])
               /\ Carries(firings'[k]) = {L + k}
    <3>1. L + k \in Numbers
      BY <1>2, <1>5, DeliveryNumbers DEF Numbers
    <3>2. firings'[k] = [n |-> L + k, account |-> AccountOf[order[k]], items |-> <<>>]
      BY <1>12
    <3> QED
      BY <1>7, <3>1, <3>2, FiringFacts
  <2> QED
    BY <2>1
<1>14. firings' \in Seq(Loads) /\ Len(firings') = N
  <2>1. firings' = [k \in 1 .. N |-> firings'[k]]
    BY <1>12
  <2> QED
    BY <1>2, <1>13, <2>1
<1>15. L = Len(fired)
  BY DEF L
<1>16. /\ Len(fired') = Len(fired) + N /\ Len(fired) + N <= MaxFirings
       /\ fired' \in Seq(Hits) /\ \A n \in 1 .. Len(fired) : fired'[n] = fired[n]
       /\ \A k \in 1 .. N : fired'[Len(fired) + k].alert \in S
       /\ \A i \in S : \E k \in 1 .. N : fired'[Len(fired) + k].alert = i
       /\ firings' \in Seq(Loads) /\ Len(firings') = N
       /\ \A k \in 1 .. N : /\ firings'[k].n = Len(fired) + k /\ ~ Deliveries!IsDigest(firings'[k])
                            /\ Carries(firings'[k]) = {Len(fired) + k}
       /\ armed' = armed \ (S \cap Once)
  BY <1>5, <1>10, <1>11, <1>13, <1>14, <1>15
<1>17. S \in SUBSET (hits \cap armed) /\ N \in Nat
  BY <1>1, <1>2
<1> QED
  BY ONLY <1>16, <1>17

-----------------------------------------------------------------------------
(* What the limiter has admitted, what is over, and the rest of the types. *)

HasDigest(a) == \E k \in DOMAIN firings : Deliveries!IsDigest(firings[k]) /\ firings[k].account = a

\* A batch is of firings, or of digests of different accounts.
Batches ==
  \/ \A k \in DOMAIN firings : ~ Deliveries!IsDigest(firings[k])
  \/ \A k \in DOMAIN firings :
       /\ Deliveries!IsDigest(firings[k])
       /\ \A j \in DOMAIN firings : j # k => firings[j].account # firings[k].account

Queues == sent \in [Accounts -> Seq(0 .. Hour)] /\ starts \in [Accounts -> Seq(0 .. Hour)]

\* What the limiter admitted within the hour has gone to a worker, or is the digest at hand.
Tallied ==
  \A a \in Accounts :
    /\ Len(Deliveries!Young(sent[a])) <= PerHour
    /\ HasDigest(a) => Deliveries!Young(sent[a]) = Append(starts[a], 0)
    /\ ~ HasDigest(a) => Deliveries!Young(sent[a]) = starts[a]

Limits == Batches /\ Queues /\ Tallied

Commands == [cmd : {"upsert", "remove"}, alert : AlertIds, account : Accounts]
            \cup [cmd : {"drop"}, account : Accounts]
Fills == [account : Accounts, generation : Int]
Queued(i, c) == \E k \in DOMAIN cmds : cmds[k].cmd = c /\ cmds[k].alert = i
HasFired(i) == \E n \in 1 .. Len(fired) : fired[n].alert = i

SideTypes ==
  /\ generation \in [Accounts -> 1 .. MaxGeneration] /\ cached \in [Accounts -> 1 .. MaxGeneration]
  /\ resetting \in [Accounts -> {"no", "stored", "dropped"}]
  /\ rows \in [AlertIds -> [state : {"none", "active", "off"}, generation : 0 .. MaxGeneration,
                            cool : 0 .. Cooldown]]
  /\ calls \in [AlertIds -> [pc : {"none", "checked", "inserted"}, generation : 0 .. MaxGeneration]]
  /\ session \in [Accounts -> BOOLEAN]
  /\ armed \subseteq AlertIds /\ cool \in [AlertIds -> 0 .. Cooldown]
  /\ cmds \in Seq(Commands)
  /\ bus \in Seq(Fills)

\* An alert being created is not watched yet and has not fired; it is announced once.
Created ==
  /\ \A i \in AlertIds :
       /\ calls[i].pc = "checked" => rows[i].state = "none"
       /\ calls[i].pc = "inserted" => rows[i].state # "none" /\ ~ Queued(i, "upsert")
       /\ rows[i].state = "none" => ~ Queued(i, "upsert") /\ ~ Queued(i, "remove")
       /\ rows[i].state = "none" \/ calls[i].pc = "inserted" \/ Queued(i, "upsert")
            => i \notin armed /\ ~ HasFired(i)
  /\ \A j, k \in DOMAIN cmds : j # k /\ cmds[j].cmd = "upsert" /\ cmds[k].cmd = "upsert"
                                 => cmds[j].alert # cmds[k].alert

\* A one-shot with a firing to store, or that is over, is not watched.
Spent ==
  \A i \in Once :
    /\ \A k \in DOMAIN firings : ~ Deliveries!IsDigest(firings[k]) /\ fired[firings[k].n].alert = i => i \notin armed
    /\ \A w \in workers : w.pc = "mark" /\ fired[w.f.n].alert = i => i \notin armed
    /\ HasFired(i) /\ Deliveries!Over(i) => i \notin armed

AlertInv == Placed /\ Limits /\ SideTypes /\ Created /\ Spent

-----------------------------------------------------------------------------
(* Firings stay placed. *)

LEMMA TupleFacts ==
  ASSUME NEW S, NEW n \in Nat, NEW q, q = [k \in 1 .. n |-> q[k]], \A k \in 1 .. n : q[k] \in S
  PROVE  q \in Seq(S) /\ Len(q) = n /\ DOMAIN q = 1 .. n
OBVIOUS

LEMMA TailFacts ==
  ASSUME NEW S, NEW q \in Seq(S), q # <<>>
  PROVE  /\ Tail(q) \in Seq(S) /\ DOMAIN q = 1 .. Len(q) /\ Len(q) \in Nat \ {0}
         /\ DOMAIN Tail(q) = 1 .. Len(q) - 1 /\ Head(q) = q[1] /\ q[1] \in S
         /\ \A k \in 1 .. Len(q) - 1 : Tail(q)[k] = q[k + 1] /\ k + 1 \in 1 .. Len(q) /\ k + 1 # 1
OBVIOUS

LEMMA HeldFacts ==
  ASSUME NEW q \in Seq(Numbers), NEW n \in Numbers
  PROVE  /\ Deliveries!ToSet(<<>>) = {}
         /\ Append(q, n) \in Seq(Numbers) /\ Deliveries!ToSet(Append(q, n)) = Deliveries!ToSet(q) \cup {n}
<1> DEFINE r == Append(q, n)
<1>1. /\ r \in Seq(Numbers) /\ DOMAIN r = 1 .. Len(q) + 1 /\ DOMAIN q = 1 .. Len(q) /\ Len(q) \in Nat
      /\ r[Len(q) + 1] = n /\ \A k \in 1 .. Len(q) : r[k] = q[k]
  OBVIOUS
<1> HIDE DEF r
<1>2. {r[k] : k \in 1 .. Len(q) + 1} = {q[k] : k \in 1 .. Len(q)} \cup {n}
  <2>1. \A k \in 1 .. Len(q) + 1 : k \in 1 .. Len(q) \/ k = Len(q) + 1
    BY <1>1
  <2>2. \A k \in 1 .. Len(q) : k \in 1 .. Len(q) + 1
    BY <1>1
  <2>3. Len(q) + 1 \in 1 .. Len(q) + 1
    BY <1>1
  <2> QED
    BY <1>1, <2>1, <2>2, <2>3
<1>3. Deliveries!ToSet(r) = Deliveries!ToSet(q) \cup {n}
  BY <1>1, <1>2 DEF Deliveries!ToSet
<1>4. Deliveries!ToSet(<<>>) = {}
  BY DEF Deliveries!ToSet
<1> QED
  BY <1>1, <1>3, <1>4 DEF r

loopVars == <<events, digest, firings, workers, fired, told, lost>>

LEMMA PlacedQuietly ==
  ASSUME Placed, UNCHANGED loopVars
  PROVE  Placed'
BY DEF Placed, loopVars, LoopTypes, Known, Apart, Accounted, OnItsWay, StagesOK, OneByOne, HeldBack,
       Deliveries!OneAtATime

\* Firings of a print or a fill.
LEMMA PlacedFire ==
  ASSUME Placed, firings = <<>>, NEW N \in Nat,
         fired' \in Seq(Hits), Len(fired') = Len(fired) + N, Len(fired) + N <= MaxFirings,
         \A n \in 1 .. Len(fired) : fired'[n] = fired[n],
         firings' \in Seq(Loads), Len(firings') = N,
         \A k \in 1 .. N : Carries(firings'[k]) = {Len(fired) + k},
         UNCHANGED <<events, digest, workers, told, lost>>
  PROVE  Placed'
<1> DEFINE L == Len(fired)
<1>1. L \in Nat /\ DOMAIN firings' = 1 .. N /\ Len(fired') = L + N
  BY DEF Placed, LoopTypes
<1>2. /\ told \subseteq 1 .. L /\ lost \subseteq 1 .. L
      /\ \A a \in Accounts : HeldBack(a) \subseteq 1 .. L /\ HeldBack(a)' = HeldBack(a)
      /\ \A w \in workers : Carries(w.f) \subseteq 1 .. L
  BY DEF Placed, LoopTypes, Known, HeldBack
<1>3. \A k \in 1 .. N : Carries(firings'[k]) = {L + k}
  OBVIOUS
<1>4. LoopTypes'
  BY <1>1, <1>2 DEF Placed, LoopTypes
<1>5. DOMAIN firings = {}
  OBVIOUS
<1>6. /\ \A a \in Accounts : \A n \in HeldBack(a) :
           /\ \A b \in Accounts : b # a => n \notin HeldBack(b)
           /\ \A w \in workers : n \notin Carries(w.f)
           /\ n \notin told \cup lost
      /\ \A n \in 1 .. L : OnItsWay(n) \/ n \in told \cup lost \/ events[n] # "none"
  BY DEF Placed, Apart, Accounted
<1> HIDE DEF L
<1>7. Known'
  <2>1. \A k \in 1 .. N : L + k \in 1 .. L + N
    BY <1>1
  <2>2. 1 .. L \subseteq 1 .. L + N
    BY <1>1
  <2>3. \A k \in DOMAIN firings' : Carries(firings'[k]) \subseteq 1 .. L + N
    BY <1>1, <1>3, <2>1
  <2>4. \A a \in Accounts : HeldBack(a)' \subseteq 1 .. L + N
    BY <1>2, <2>2
  <2>5. \A w \in workers' : Carries(w.f) \subseteq 1 .. L + N
    BY <1>2, <2>2
  <2> QED
    BY <1>1, <2>3, <2>4, <2>5 DEF Known
<1>8. Apart'
  <2>1. ASSUME NEW k \in 1 .. N, NEW n \in Carries(firings'[k]) PROVE n = L + k /\ n \notin 1 .. L
    BY <1>1, <1>3
  <2>2. ASSUME NEW k \in 1 .. N, NEW n \in Carries(firings'[k]), NEW j \in 1 .. N, j # k
        PROVE  n \notin Carries(firings'[j])
    BY <1>1, <1>3, <2>2
  <2>3. \A k \in DOMAIN firings' : \A n \in Carries(firings'[k]) :
          /\ \A j \in DOMAIN firings' : j # k => n \notin Carries(firings'[j])
          /\ \A a \in Accounts : n \notin HeldBack(a)'
          /\ \A w \in workers' : n \notin Carries(w.f)
          /\ n \notin told' \cup lost'
    BY <1>1, <1>2, <2>1, <2>2
  <2>4. \A a \in Accounts : \A n \in HeldBack(a)' :
          /\ \A b \in Accounts : b # a => n \notin HeldBack(b)'
          /\ \A w \in workers' : n \notin Carries(w.f)
          /\ n \notin told' \cup lost'
    BY <1>2, <1>6
  <2> QED
    BY <2>3, <2>4 DEF Apart
<1>9. Accounted'
  <2>1. ASSUME NEW n \in 1 .. L + N PROVE OnItsWay(n)' \/ n \in told \cup lost \/ events[n] # "none"
    <3>1. CASE n <= L
      BY <1>1, <1>2, <1>5, <1>6, <3>1 DEF OnItsWay
    <3>2. CASE n > L
      <4>1. n - L \in 1 .. N /\ L + (n - L) = n
        BY <1>1, <3>2
      <4> QED
        BY <1>1, <1>3, <4>1 DEF OnItsWay
    <3> QED
      BY <1>1, <3>1, <3>2
  <2> QED
    BY <1>1, <2>1 DEF Accounted
<1>10. StagesOK' /\ OneByOne'
  BY DEF Placed, StagesOK, OneByOne, Deliveries!OneAtATime
<1> QED
  BY <1>4, <1>7, <1>8, <1>9, <1>10 DEF Placed

\* The digests of some accounts.
LEMMA FlushFacts ==
  ASSUME LoopTypes, Deliveries!Flush
  PROVE  /\ firings' \in Seq(Loads)
         /\ \A k \in DOMAIN firings' : /\ Deliveries!IsDigest(firings'[k]) /\ firings'[k].account \in Deliveries!Due
                                       /\ Carries(firings'[k]) = HeldBack(firings'[k].account)
                                       /\ \A j \in DOMAIN firings' : j # k => firings'[j].account # firings'[k].account
         /\ \A a \in Deliveries!Due : \E k \in DOMAIN firings' : firings'[k].account = a
         /\ digest' \in [Accounts -> Seq(Numbers)]
         /\ \A a \in Deliveries!Due : HeldBack(a)' = {}
         /\ \A a \in Accounts \ Deliveries!Due : HeldBack(a)' = HeldBack(a)
<1> DEFINE D == Deliveries!Due
<1>1. D \subseteq Accounts /\ IsFiniteSet(D)
  BY DeliveryNumbers, FS_Subset DEF Deliveries!Due
<1>2. digest' = [a \in Accounts |-> IF a \in D THEN <<>> ELSE digest[a]]
  BY DEF Deliveries!Flush
<1>3. PICK order \in Deliveries!SetToSeqs(D) : firings' = [k \in 1 .. Len(order) |-> Deliveries!DigestOf(order[k])]
  BY DEF Deliveries!Flush
<1> HIDE DEF D
<1>4. /\ order \in Seq(D) /\ Len(order) \in Nat
      /\ \A j, k \in 1 .. Len(order) : j # k => order[j] # order[k]
      /\ \A a \in D : \E k \in 1 .. Len(order) : order[k] = a
  BY <1>1, OrderFacts
<1>5. \A k \in 1 .. Len(order) :
        /\ firings'[k] \in Loads /\ Deliveries!IsDigest(firings'[k]) /\ firings'[k].account = order[k]
        /\ Carries(firings'[k]) = HeldBack(order[k]) /\ order[k] \in D
  <2>1. ASSUME NEW k \in 1 .. Len(order)
        PROVE  /\ firings'[k] \in Loads /\ Deliveries!IsDigest(firings'[k]) /\ firings'[k].account = order[k]
               /\ Carries(firings'[k]) = HeldBack(order[k]) /\ order[k] \in D
    <3>1. order[k] \in D /\ order[k] \in Accounts
      BY <1>1, <1>4
    <3> DEFINE d == Deliveries!DigestOf(order[k])
    <3>2. d \in Loads /\ Deliveries!IsDigest(d) /\ Carries(d) = HeldBack(order[k]) /\ d.account = order[k]
      BY <3>1, DigestFacts
    <3>3. firings'[k] = d
      BY <1>3
    <3> QED
      BY <3>1, <3>2, <3>3
  <2> QED
    BY <2>1
<1>6. DOMAIN firings' = 1 .. Len(order) /\ firings' \in Seq(Loads)
  <2>1. firings' = [k \in 1 .. Len(order) |-> firings'[k]]
    BY <1>3
  <2>2. \A k \in 1 .. Len(order) : firings'[k] \in Loads
    BY <1>5
  <2> QED
    BY <1>4, <2>1, <2>2, TupleFacts
<1>7. digest' \in [Accounts -> Seq(Numbers)]
  BY <1>2 DEF LoopTypes
<1>8. \A a \in D : HeldBack(a)' = {}
  BY <1>1, <1>2 DEF HeldBack, Deliveries!ToSet
<1>9. \A a \in Accounts \ D : HeldBack(a)' = HeldBack(a)
  BY <1>2 DEF HeldBack
<1>10. \A k \in DOMAIN firings' :
         /\ Deliveries!IsDigest(firings'[k]) /\ firings'[k].account \in D
         /\ Carries(firings'[k]) = HeldBack(firings'[k].account)
         /\ \A j \in DOMAIN firings' : j # k => firings'[j].account # firings'[k].account
  <2>1. ASSUME NEW k \in 1 .. Len(order)
        PROVE  firings'[k].account = order[k] /\ Carries(firings'[k]) = HeldBack(order[k])
    BY <1>5
  <2>2. ASSUME NEW k \in 1 .. Len(order)
        PROVE  Carries(firings'[k]) = HeldBack(firings'[k].account)
    BY <2>1
  <2>3. ASSUME NEW j \in 1 .. Len(order), NEW k \in 1 .. Len(order), j # k
        PROVE  firings'[j].account # firings'[k].account
    BY <1>4, <2>1, <2>3
  <2>4. ASSUME NEW k \in 1 .. Len(order) PROVE Deliveries!IsDigest(firings'[k]) /\ firings'[k].account \in D
    BY <1>5
  <2> QED
    BY <1>6, <2>2, <2>3, <2>4
<1>11. \A a \in D : \E k \in DOMAIN firings' : firings'[k].account = a
  BY <1>4, <1>5, <1>6
<1> QED
  BY <1>6, <1>7, <1>8, <1>9, <1>10, <1>11, Zenon DEF D

LEMMA PlacedFlush ==
  ASSUME Placed, Deliveries!Flush
  PROVE  Placed'
<1> DEFINE D == Deliveries!Due
<1>1. /\ firings' \in Seq(Loads)
      /\ \A k \in DOMAIN firings' : /\ firings'[k].account \in D
                                    /\ Carries(firings'[k]) = HeldBack(firings'[k].account)
                                    /\ \A j \in DOMAIN firings' : j # k => firings'[j].account # firings'[k].account
      /\ \A a \in D : \E k \in DOMAIN firings' : firings'[k].account = a
      /\ digest' \in [Accounts -> Seq(Numbers)]
      /\ \A a \in D : HeldBack(a)' = {}
      /\ \A a \in Accounts \ D : HeldBack(a)' = HeldBack(a)
  <2>1. LoopTypes
    BY DEF Placed
  <2> QED
    BY <2>1, FlushFacts
<1>2. D \subseteq Accounts /\ firings = <<>> /\ UNCHANGED <<workers, events, told, lost, fired>>
  BY DEF Deliveries!Flush, Deliveries!Due, Deliveries!stored, Deliveries!history
<1> HIDE DEF D
<1>3. \A a \in Accounts : HeldBack(a)' \subseteq HeldBack(a)
  BY <1>1
<1>4. LoopTypes'
  BY <1>1, <1>2 DEF Placed, LoopTypes
<1>5. Known'
  BY <1>1, <1>2, <1>3 DEF Placed, Known
<1>6. \A a \in Accounts : \A n \in HeldBack(a) :
        /\ \A b \in Accounts : b # a => n \notin HeldBack(b)
        /\ \A w \in workers : n \notin Carries(w.f)
        /\ n \notin told \cup lost
  BY DEF Placed, Apart
<1>7. Apart'
  <2>1. ASSUME NEW k \in DOMAIN firings', NEW n \in Carries(firings'[k])
        PROVE  /\ \A j \in DOMAIN firings' : j # k => n \notin Carries(firings'[j])
               /\ \A a \in Accounts : n \notin HeldBack(a)'
               /\ \A w \in workers : n \notin Carries(w.f)
               /\ n \notin told \cup lost
    <3> DEFINE a == firings'[k].account
    <3>1. a \in D /\ a \in Accounts /\ n \in HeldBack(a)
      BY <1>1, <1>2
    <3>2. \A b \in D : b # a => n \notin HeldBack(b)
      BY <1>2, <1>6, <3>1
    <3>3. \A j \in DOMAIN firings' : j # k => n \notin Carries(firings'[j])
      BY <1>1, <3>2
    <3>4. \A b \in Accounts : n \notin HeldBack(b)'
      BY <1>1, <1>3, <1>6, <3>1
    <3> QED
      BY <1>6, <3>1, <3>3, <3>4
  <2>2. \A a \in Accounts : \A n \in HeldBack(a)' :
          /\ \A b \in Accounts : b # a => n \notin HeldBack(b)'
          /\ \A w \in workers' : n \notin Carries(w.f)
          /\ n \notin told' \cup lost'
    BY <1>2, <1>3, <1>6
  <2> QED
    BY <1>2, <2>1, <2>2 DEF Apart
<1>8. Accounted'
  <2>1. ASSUME NEW n \in 1 .. Len(fired)
        PROVE  OnItsWay(n)' \/ n \in told \cup lost \/ events[n] # "none"
    <3>1. OnItsWay(n) \/ n \in told \cup lost \/ events[n] # "none"
      BY DEF Placed, Accounted
    <3>2. ASSUME NEW a \in Accounts, n \in HeldBack(a) PROVE OnItsWay(n)'
      BY <1>1, <3>2 DEF OnItsWay
    <3>3. ASSUME NEW w \in workers, n \in Carries(w.f) PROVE OnItsWay(n)'
      BY <1>2, <3>3 DEF OnItsWay
    <3> QED
      BY <1>2, <3>1, <3>2, <3>3 DEF OnItsWay
  <2> QED
    BY <1>2, <2>1 DEF Accounted
<1>9. StagesOK' /\ OneByOne'
  BY <1>2 DEF Placed, StagesOK, OneByOne, Deliveries!OneAtATime
<1> QED
  BY <1>4, <1>5, <1>7, <1>8, <1>9 DEF Placed

\* The batch without its first, which f is.
LEMMA BatchFacts ==
  ASSUME LoopTypes, firings # <<>>, firings' = Tail(firings), NEW f, f = Head(firings)
  PROVE  /\ f \in Loads /\ firings' \in Seq(Loads) /\ 1 \in DOMAIN firings /\ firings[1] = f
         /\ \A k \in DOMAIN firings' : k + 1 \in DOMAIN firings /\ k + 1 # 1 /\ firings'[k] = firings[k + 1]
         /\ \A k \in DOMAIN firings : k # 1 => k - 1 \in DOMAIN firings' /\ firings'[k - 1] = firings[k]
         /\ \A j, k \in DOMAIN firings' : j # k => j + 1 # k + 1
<1>1. firings \in Seq(Loads)
  BY DEF LoopTypes
<1>2. /\ Tail(firings) \in Seq(Loads) /\ DOMAIN firings = 1 .. Len(firings) /\ Len(firings) \in Nat \ {0}
      /\ DOMAIN Tail(firings) = 1 .. Len(firings) - 1 /\ Head(firings) = firings[1] /\ firings[1] \in Loads
      /\ \A k \in 1 .. Len(firings) - 1 : Tail(firings)[k] = firings[k + 1] /\ k + 1 \in 1 .. Len(firings) /\ k + 1 # 1
  BY <1>1, TailFacts
<1>3. \A k \in 1 .. Len(firings) : k # 1 => k - 1 \in 1 .. Len(firings) - 1 /\ (k - 1) + 1 = k
  BY <1>2
<1>4. \A j, k \in DOMAIN firings' : j # k => j + 1 # k + 1
  BY <1>2
<1> QED
  BY <1>2, <1>3, <1>4

\* The first of the batch goes to a worker, or is held back.
LEMMA PlacedDispatch ==
  ASSUME Placed, firings # <<>>, firings' = Tail(firings), NEW f, f = Head(firings),
         UNCHANGED <<events, fired, told, lost>>,
         \/ workers' = workers \cup {Deliveries!Worker(f, IF Deliveries!IsDigest(f) THEN "wait" ELSE "mark")}
            /\ UNCHANGED digest
         \/ ~ Deliveries!IsDigest(f) /\ digest' = [digest EXCEPT ![f.account] = Append(@, f.n)]
            /\ UNCHANGED workers
  PROVE  Placed'
<1>1. LoopTypes
  BY DEF Placed
<1>2. /\ f \in Loads /\ firings' \in Seq(Loads) /\ 1 \in DOMAIN firings /\ firings[1] = f
      /\ \A k \in DOMAIN firings' : k + 1 \in DOMAIN firings /\ k + 1 # 1 /\ firings'[k] = firings[k + 1]
      /\ \A k \in DOMAIN firings : k # 1 => k - 1 \in DOMAIN firings' /\ firings'[k - 1] = firings[k]
      /\ \A j, k \in DOMAIN firings' : j # k => j + 1 # k + 1
  BY <1>1, BatchFacts
<1>3. /\ \A k \in DOMAIN firings : Carries(firings[k]) \subseteq 1 .. Len(fired)
      /\ \A a \in Accounts : HeldBack(a) \subseteq 1 .. Len(fired)
      /\ \A w \in workers : Carries(w.f) \subseteq 1 .. Len(fired)
  BY DEF Placed, Known
<1>4. \A k \in DOMAIN firings' : \A n \in Carries(firings'[k]) :
        /\ \A j \in DOMAIN firings' : j # k => n \notin Carries(firings'[j])
        /\ \A a \in Accounts : n \notin HeldBack(a)
        /\ \A w \in workers : n \notin Carries(w.f)
        /\ n \notin told \cup lost
        /\ n \notin Carries(f)
  <2>1. ASSUME NEW k \in DOMAIN firings', NEW n \in Carries(firings'[k])
        PROVE  /\ \A j \in DOMAIN firings' : j # k => n \notin Carries(firings'[j])
               /\ \A a \in Accounts : n \notin HeldBack(a)
               /\ \A w \in workers : n \notin Carries(w.f)
               /\ n \notin told \cup lost
               /\ n \notin Carries(f)
    <3>1. k + 1 \in DOMAIN firings /\ n \in Carries(firings[k + 1]) /\ k + 1 # 1
      BY <1>2
    <3>2. /\ \A j \in DOMAIN firings : j # k + 1 => n \notin Carries(firings[j])
          /\ \A a \in Accounts : n \notin HeldBack(a)
          /\ \A w \in workers : n \notin Carries(w.f)
          /\ n \notin told \cup lost
      BY <3>1 DEF Placed, Apart
    <3>3. \A j \in DOMAIN firings' : j # k => n \notin Carries(firings'[j])
      BY <1>2, <3>2
    <3> QED
      BY <1>2, <3>1, <3>2, <3>3
  <2> QED
    BY <2>1
<1>5. \A n \in Carries(f) :
        /\ \A a \in Accounts : n \notin HeldBack(a)
        /\ \A w \in workers : n \notin Carries(w.f)
        /\ n \notin told \cup lost
  BY <1>2 DEF Placed, Apart
<1>6. \A a \in Accounts : \A n \in HeldBack(a) :
        /\ \A b \in Accounts : b # a => n \notin HeldBack(b)
        /\ \A w \in workers : n \notin Carries(w.f)
        /\ n \notin told \cup lost
  BY DEF Placed, Apart
<1>7. ASSUME NEW n \in 1 .. Len(fired)
      PROVE  \/ n \in Carries(f)
             \/ \E k \in DOMAIN firings' : n \in Carries(firings'[k])
             \/ \E a \in Accounts : n \in HeldBack(a)
             \/ \E w \in workers : n \in Carries(w.f)
             \/ n \in told \cup lost \/ events[n] # "none"
  <2>1. OnItsWay(n) \/ n \in told \cup lost \/ events[n] # "none"
    BY DEF Placed, Accounted
  <2>2. ASSUME NEW k \in DOMAIN firings, n \in Carries(firings[k])
        PROVE  n \in Carries(f) \/ \E j \in DOMAIN firings' : n \in Carries(firings'[j])
    BY <1>2, <2>2
  <2> QED
    BY <2>1, <2>2 DEF OnItsWay
<1>8. CASE /\ workers' = workers \cup {Deliveries!Worker(f, IF Deliveries!IsDigest(f) THEN "wait" ELSE "mark")}
           /\ UNCHANGED digest
  <2> DEFINE w == Deliveries!Worker(f, IF Deliveries!IsDigest(f) THEN "wait" ELSE "mark")
  <2>1. /\ w \in Deliveries!AnyWorker /\ w.f = f /\ w.pc \in {"wait", "mark"}
        /\ Deliveries!IsDigest(f) => w.pc = "wait"
    BY <1>2, DeliveryNumbers DEF Deliveries!Worker, Deliveries!AnyWorker, Loads, Deliveries!Stages
  <2>2. workers' = workers \cup {w}
    BY <1>8
  <2> HIDE DEF w
  <2>3. \A a \in Accounts : HeldBack(a)' = HeldBack(a)
    BY <1>8 DEF HeldBack
  <2>4. LoopTypes'
    BY <1>1, <1>2, <1>8, <2>1, <2>2 DEF LoopTypes
  <2>5. Known'
    <3>1. \A k \in DOMAIN firings' : Carries(firings'[k]) \subseteq 1 .. Len(fired)
      BY <1>2, <1>3
    <3>2. \A v \in workers' : Carries(v.f) \subseteq 1 .. Len(fired)
      BY <1>2, <1>3, <2>1, <2>2
    <3> QED
      BY <1>3, <2>3, <3>1, <3>2 DEF Known
  <2>6. Apart'
    <3>1. \A k \in DOMAIN firings' : \A n \in Carries(firings'[k]) : \A v \in workers' : n \notin Carries(v.f)
      BY <1>4, <2>1, <2>2
    <3>2. \A a \in Accounts : \A n \in HeldBack(a) : \A v \in workers' : n \notin Carries(v.f)
      BY <1>5, <1>6, <2>1, <2>2
    <3>3. \A k \in DOMAIN firings' : \A n \in Carries(firings'[k]) :
            /\ \A j \in DOMAIN firings' : j # k => n \notin Carries(firings'[j])
            /\ \A a \in Accounts : n \notin HeldBack(a)'
            /\ n \notin told' \cup lost'
      <4>1. ASSUME NEW k \in DOMAIN firings', NEW n \in Carries(firings'[k]), NEW a \in Accounts
            PROVE  n \notin HeldBack(a)'
        <5>1. n \notin HeldBack(a)
          BY <1>4
        <5>2. HeldBack(a)' = HeldBack(a)
          BY <1>8 DEF HeldBack
        <5> QED
          BY <5>1, <5>2
      <4> QED
        BY <1>4, <4>1
    <3>4. \A a \in Accounts : \A n \in HeldBack(a)' :
            /\ \A b \in Accounts : b # a => n \notin HeldBack(b)'
            /\ \A v \in workers' : n \notin Carries(v.f)
            /\ n \notin told' \cup lost'
      BY <1>6, <2>3, <3>2
    <3> QED
      BY <3>1, <3>3, <3>4 DEF Apart
  <2>7. Accounted'
    <3>1. ASSUME NEW n \in 1 .. Len(fired)
          PROVE  OnItsWay(n)' \/ n \in told \cup lost \/ events[n] # "none"
      BY <1>7, <2>1, <2>2, <2>3 DEF OnItsWay
    <3> QED
      BY <3>1 DEF Accounted
  <2>8. StagesOK' /\ OneByOne'
    <3>1. ~ Deliveries!HoldsLock(w)
      BY <2>1 DEF Deliveries!HoldsLock
    <3>2. OneByOne'
      BY <2>2, <3>1 DEF Placed, OneByOne, Deliveries!OneAtATime
    <3>3. StagesOK'
      BY <2>1, <2>2 DEF Placed, StagesOK
    <3> QED
      BY <3>2, <3>3
  <2> QED
    BY <2>4, <2>5, <2>6, <2>7, <2>8 DEF Placed
<1>9. CASE /\ ~ Deliveries!IsDigest(f)
           /\ digest' = [digest EXCEPT ![f.account] = Append(@, f.n)]
           /\ UNCHANGED workers
  <2> DEFINE c == f.account
             m == f.n
  <2>1. c \in Accounts /\ m \in Numbers /\ Carries(f) = {m}
    BY <1>2, <1>9, LoadFacts
  <2>2. digest \in [Accounts -> Seq(Numbers)] /\ digest' = [digest EXCEPT ![c] = Append(digest[c], m)]
    BY <1>1, <1>9 DEF LoopTypes
  <2> HIDE DEF c, m
  <2>3. Append(digest[c], m) \in Seq(Numbers) /\ Deliveries!ToSet(Append(digest[c], m)) = Deliveries!ToSet(digest[c]) \cup {m}
    BY <2>1, <2>2, HeldFacts
  <2>4. digest' \in [Accounts -> Seq(Numbers)]
    BY <2>2, <2>3
  <2>5. HeldBack(c)' = HeldBack(c) \cup {m} /\ \A a \in Accounts : a # c => HeldBack(a)' = HeldBack(a)
    BY <2>1, <2>2, <2>3 DEF HeldBack
  <2>6. LoopTypes'
    BY <1>1, <1>2, <1>9, <2>4 DEF LoopTypes
  <2>7. m \in 1 .. Len(fired)
    BY <1>2, <1>3, <2>1
  <2>8. Known'
    <3>1. \A k \in DOMAIN firings' : Carries(firings'[k]) \subseteq 1 .. Len(fired)
      BY <1>2, <1>3
    <3>2. \A a \in Accounts : HeldBack(a)' \subseteq 1 .. Len(fired)
      BY <1>3, <2>5, <2>7
    <3>3. \A v \in workers' : Carries(v.f) \subseteq 1 .. Len(fired)'
      BY <1>3, <1>9
    <3> QED
      BY <1>9, <3>1, <3>2, <3>3 DEF Known
  <2>9. Apart'
    <3>1. \A k \in DOMAIN firings' : \A n \in Carries(firings'[k]) : \A a \in Accounts : n \notin HeldBack(a)'
      BY <1>4, <2>1, <2>5
    <3>2. \A a \in Accounts : \A n \in HeldBack(a)' :
            /\ \A b \in Accounts : b # a => n \notin HeldBack(b)'
            /\ \A v \in workers : n \notin Carries(v.f)
            /\ n \notin told \cup lost
      BY <1>5, <1>6, <2>1, <2>5
    <3>3. \A k \in DOMAIN firings' : \A n \in Carries(firings'[k]) :
            /\ \A j \in DOMAIN firings' : j # k => n \notin Carries(firings'[j])
            /\ \A v \in workers : n \notin Carries(v.f)
            /\ n \notin told \cup lost
      BY <1>4
    <3>4. UNCHANGED <<workers, told, lost>>
      BY <1>1, <1>9
    <3> QED
      BY ONLY <3>1, <3>2, <3>3, <3>4 DEF Apart
  <2>10. Accounted'
    <3>1. ASSUME NEW n \in 1 .. Len(fired)
          PROVE  OnItsWay(n)' \/ n \in told \cup lost \/ events[n] # "none"
      <4>1. \A a \in Accounts : HeldBack(a) \subseteq HeldBack(a)'
        BY <2>5
      <4> QED
        BY <1>7, <1>9, <2>1, <2>5, <4>1 DEF OnItsWay
    <3> QED
      BY <3>1 DEF Accounted
  <2>11. StagesOK' /\ OneByOne'
    BY <1>9 DEF Placed, StagesOK, OneByOne, Deliveries!OneAtATime
  <2> QED
    BY <2>6, <2>8, <2>9, <2>10, <2>11 DEF Placed
<1> QED
  BY <1>8, <1>9

\* A worker goes on, or is done with what it carries.
LEMMA PlacedWork ==
  ASSUME Placed, NEW w \in workers, UNCHANGED <<firings, digest, fired>>,
         NEW U \in SUBSET Deliveries!AnyWorker, workers' = (workers \ {w}) \cup U,
         \A u, v \in U : u = v,
         \A u \in U : /\ u.f = w.f
                      /\ Deliveries!IsDigest(u.f) => u.pc \in {"wait", "send"}
                      /\ ~ Deliveries!IsDigest(u.f) /\ u.pc \in {"send", "resend"} => events'[u.f.n] # "none"
                      /\ Deliveries!HoldsLock(u) =>
                           \/ Deliveries!HoldsLock(w)
                           \/ ~ \E v \in workers : Deliveries!HoldsLock(v) /\ v.f.account = w.f.account,
         told \subseteq told', told' \subseteq told \cup Carries(w.f),
         lost \subseteq lost', lost' \subseteq lost \cup Carries(w.f),
         events' \in [Numbers -> {"none", "undelivered", "delivered"}],
         \A n \in Numbers : events[n] # "none" => events'[n] # "none",
         U = {} => \A n \in Carries(w.f) : n \in told' \cup lost' \/ events'[n] # "none"
  PROVE  Placed'
<1>1. /\ \A k \in DOMAIN firings : Carries(firings[k]) \subseteq 1 .. Len(fired)
      /\ \A a \in Accounts : HeldBack(a) \subseteq 1 .. Len(fired)
      /\ \A v \in workers : Carries(v.f) \subseteq 1 .. Len(fired)
  BY DEF Placed, Known
<1>2. /\ told' \cup lost' \subseteq told \cup lost \cup Carries(w.f)
      /\ \A v \in workers' : Carries(v.f) \subseteq 1 .. Len(fired)
  BY <1>1
<1>3. \A a \in Accounts : HeldBack(a)' = HeldBack(a)
  BY DEF HeldBack
<1>4. LoopTypes'
  BY <1>1 DEF Placed, LoopTypes
<1>5. Known'
  BY <1>1, <1>2, <1>3 DEF Known
<1>6. ASSUME NEW v \in workers' PROVE \E u \in workers : u.f = v.f
  OBVIOUS
<1>7. Apart'
  <2>1. \A k \in DOMAIN firings : \A n \in Carries(firings[k]) :
          /\ \A j \in DOMAIN firings : j # k => n \notin Carries(firings[j])
          /\ \A a \in Accounts : n \notin HeldBack(a)
          /\ \A v \in workers : n \notin Carries(v.f)
          /\ n \notin told \cup lost
    BY DEF Placed, Apart
  <2>2. \A a \in Accounts : \A n \in HeldBack(a) :
          /\ \A b \in Accounts : b # a => n \notin HeldBack(b)
          /\ \A v \in workers : n \notin Carries(v.f)
          /\ n \notin told \cup lost
    BY DEF Placed, Apart
  <2>3. \A k \in DOMAIN firings : \A n \in Carries(firings[k]) :
          (\A v \in workers' : n \notin Carries(v.f)) /\ n \notin told' \cup lost'
    BY <1>2, <1>6, <2>1
  <2>4. \A a \in Accounts : \A n \in HeldBack(a) :
          (\A v \in workers' : n \notin Carries(v.f)) /\ n \notin told' \cup lost'
    BY <1>2, <1>6, <2>2
  <2>5. \A k \in DOMAIN firings' : \A n \in Carries(firings'[k]) :
          /\ \A j \in DOMAIN firings' : j # k => n \notin Carries(firings'[j])
          /\ \A a \in Accounts : n \notin HeldBack(a)'
          /\ \A v \in workers' : n \notin Carries(v.f)
          /\ n \notin told' \cup lost'
    BY <1>3, <2>1, <2>3
  <2>6. \A a \in Accounts : \A n \in HeldBack(a)' :
          /\ \A b \in Accounts : b # a => n \notin HeldBack(b)'
          /\ \A v \in workers' : n \notin Carries(v.f)
          /\ n \notin told' \cup lost'
    BY <1>3, <2>2, <2>4
  <2> QED
    BY <2>5, <2>6 DEF Apart
<1>8. Accounted'
  <2>1. ASSUME NEW n \in 1 .. Len(fired)
        PROVE  OnItsWay(n)' \/ n \in told' \cup lost' \/ events'[n] # "none"
    <3>1. n \in Numbers
      BY DeliveryNumbers DEF Placed, LoopTypes, Numbers
    <3>2. OnItsWay(n) \/ n \in told \cup lost \/ events[n] # "none"
      BY DEF Placed, Accounted
    <3>3. ASSUME NEW v \in workers, n \in Carries(v.f)
          PROVE  (\E u \in workers' : n \in Carries(u.f)) \/ n \in told' \cup lost' \/ events'[n] # "none"
      BY <3>3
    <3> QED
      BY <1>3, <3>1, <3>2, <3>3 DEF OnItsWay
  <2> QED
    BY <2>1 DEF Accounted
<1>9. StagesOK'
  <2>1. ASSUME NEW v \in workers
        PROVE  /\ Deliveries!IsDigest(v.f) => v.pc \in {"wait", "send"}
               /\ ~ Deliveries!IsDigest(v.f) /\ v.pc \in {"send", "resend"} => events'[v.f.n] # "none"
    <3>1. ~ Deliveries!IsDigest(v.f) => v.f.n \in Numbers
      BY WorkerFacts, LoadFacts DEF Placed, LoopTypes
    <3> QED
      BY <3>1 DEF Placed, StagesOK
  <2> QED
    BY <2>1 DEF StagesOK
<1>10. OneByOne'
  <2>1. \A u, v \in workers : u # v /\ Deliveries!HoldsLock(u) /\ Deliveries!HoldsLock(v) => u.f.account # v.f.account
    BY DEF Placed, OneByOne, Deliveries!OneAtATime
  <2>2. ASSUME NEW u \in U, NEW v \in workers, v # w, Deliveries!HoldsLock(u), Deliveries!HoldsLock(v)
        PROVE  v.f.account # u.f.account
    BY <2>1, <2>2
  <2>3. \A u, v \in workers' : u # v /\ Deliveries!HoldsLock(u) /\ Deliveries!HoldsLock(v) => u.f.account # v.f.account
    BY <2>1, <2>2
  <2> QED
    BY <2>3 DEF OneByOne, Deliveries!OneAtATime
<1> QED
  BY <1>4, <1>5, <1>7, <1>8, <1>9, <1>10 DEF Placed

LEMMA PendingIs ==
  ASSUME NEW n
  PROVE  n \in Deliveries!Pending <=> OnItsWay(n)
BY DEF Deliveries!Pending, OnItsWay, HeldBack, Carries

LEMMA PlacedRestart ==
  ASSUME Placed, Deliveries!Restart
  PROVE  Placed'
<1>1. /\ firings' = <<>> /\ workers' = {} /\ digest' = [a \in Accounts |-> <<>>]
      /\ lost' = lost \cup {n \in Deliveries!Pending : events[n] = "none"}
      /\ UNCHANGED <<events, fired, told>>
  BY DEF Deliveries!Restart, Deliveries!stored
<1>2. DOMAIN firings' = {} /\ firings' \in Seq(Loads)
  BY <1>1
<1>3. \A a \in Accounts : HeldBack(a)' = {}
  BY <1>1 DEF HeldBack, Deliveries!ToSet
<1>4. \A n : OnItsWay(n) => n \in 1 .. Len(fired)
  BY DEF Placed, Known, OnItsWay
<1>5. lost' \subseteq 1 .. Len(fired)
  BY <1>1, <1>4, PendingIs DEF Placed, LoopTypes
<1>6. LoopTypes'
  BY <1>1, <1>2, <1>5 DEF Placed, LoopTypes
<1>7. Known' /\ Apart' /\ StagesOK' /\ OneByOne'
  <2>1. Known'
    BY <1>1, <1>2, <1>3 DEF Known
  <2>2. Apart'
    BY <1>1, <1>2, <1>3 DEF Apart
  <2>3. StagesOK' /\ OneByOne'
    BY <1>1 DEF StagesOK, OneByOne, Deliveries!OneAtATime
  <2> QED
    BY <2>1, <2>2, <2>3
<1>8. Accounted'
  <2>1. ASSUME NEW n \in 1 .. Len(fired)
        PROVE  n \in told \cup lost' \/ events[n] # "none"
    <3>1. OnItsWay(n) \/ n \in told \cup lost \/ events[n] # "none"
      BY DEF Placed, Accounted
    <3> QED
      BY <1>1, <3>1, PendingIs
  <2> QED
    BY <1>1, <2>1 DEF Accounted
<1> QED
  BY <1>6, <1>7, <1>8 DEF Placed

-----------------------------------------------------------------------------
(* The workers, one action at a time; then every step. *)

LEMMA BecomeFacts ==
  ASSUME NEW w \in Deliveries!AnyWorker, NEW pc \in Deliveries!Stages, NEW n \in 1 .. MarkAttempts,
         Deliveries!Become(w, pc, n)
  PROVE  \E u \in Deliveries!AnyWorker : u.f = w.f /\ u.pc = pc /\ workers' = (workers \ {w}) \cup {u}
<1> DEFINE v == [w EXCEPT !.pc = pc]
           u == [v EXCEPT !.attempt = n]
<1>1. v \in Deliveries!AnyWorker /\ v.f = w.f /\ v.pc = pc
  BY DEF Deliveries!AnyWorker
<1>2. workers' = (workers \ {w}) \cup {u}
  BY DEF Deliveries!Become
<1> HIDE DEF v
<1>3. u \in Deliveries!AnyWorker /\ u.f = v.f /\ u.pc = v.pc
  BY <1>1 DEF Deliveries!AnyWorker
<1> HIDE DEF u
<1> QED
  BY <1>1, <1>2, <1>3

\* A worker that goes on to another stage.
LEMMA PlacedBecome ==
  ASSUME Placed, NEW w \in workers, UNCHANGED <<firings, digest, fired, told, lost>>,
         NEW pc \in Deliveries!Stages, NEW n \in 1 .. MarkAttempts, Deliveries!Become(w, pc, n),
         Deliveries!IsDigest(w.f) => pc \in {"wait", "send"},
         ~ Deliveries!IsDigest(w.f) /\ pc \in {"send", "resend"} => events'[w.f.n] # "none",
         pc \in {"record", "send", "resend"} =>
           \/ Deliveries!HoldsLock(w)
           \/ ~ \E v \in workers : Deliveries!HoldsLock(v) /\ v.f.account = w.f.account,
         events' \in [Numbers -> {"none", "undelivered", "delivered"}],
         \A m \in Numbers : events[m] # "none" => events'[m] # "none"
  PROVE  Placed'
<1>1. w \in Deliveries!AnyWorker
  BY DEF Placed, LoopTypes
<1>2. PICK u \in Deliveries!AnyWorker : u.f = w.f /\ u.pc = pc /\ workers' = (workers \ {w}) \cup {u}
  BY <1>1, BecomeFacts
<1> DEFINE U == {u}
<1>3. /\ U \in SUBSET Deliveries!AnyWorker /\ workers' = (workers \ {w}) \cup U
      /\ \A x, y \in U : x = y
      /\ U # {}
  BY <1>2
<1>4. \A x \in U : /\ x.f = w.f
                   /\ Deliveries!IsDigest(x.f) => x.pc \in {"wait", "send"}
                   /\ ~ Deliveries!IsDigest(x.f) /\ x.pc \in {"send", "resend"} => events'[x.f.n] # "none"
                   /\ Deliveries!HoldsLock(x) =>
                        \/ Deliveries!HoldsLock(w)
                        \/ ~ \E v \in workers : Deliveries!HoldsLock(v) /\ v.f.account = w.f.account
  <2>1. u.f = w.f /\ u.pc = pc /\ (Deliveries!HoldsLock(u) => pc \in {"record", "send", "resend"})
    BY <1>2 DEF Deliveries!HoldsLock
  <2> QED
    BY <2>1
<1> HIDE DEF U
<1> QED
  BY <1>3, <1>4, PlacedWork

\* A worker that is done.
LEMMA PlacedFinish ==
  ASSUME Placed, NEW w \in workers, UNCHANGED <<firings, digest, fired>>, Deliveries!Finish(w),
         told \subseteq told', told' \subseteq told \cup Carries(w.f),
         lost \subseteq lost', lost' \subseteq lost \cup Carries(w.f),
         events' \in [Numbers -> {"none", "undelivered", "delivered"}],
         \A n \in Numbers : events[n] # "none" => events'[n] # "none",
         \A n \in Carries(w.f) : n \in told' \cup lost' \/ events'[n] # "none"
  PROVE  Placed'
<1> DEFINE U == {}
<1>1. /\ U \in SUBSET Deliveries!AnyWorker /\ workers' = (workers \ {w}) \cup U
      /\ \A x, y \in U : x = y
      /\ \A u \in U : /\ u.f = w.f
                      /\ Deliveries!IsDigest(u.f) => u.pc \in {"wait", "send"}
                      /\ ~ Deliveries!IsDigest(u.f) /\ u.pc \in {"send", "resend"} => events'[u.f.n] # "none"
                      /\ Deliveries!HoldsLock(u) =>
                           \/ Deliveries!HoldsLock(w)
                           \/ ~ \E v \in workers : Deliveries!HoldsLock(v) /\ v.f.account = w.f.account
  BY DEF Deliveries!Finish
<1> HIDE DEF U
<1> QED
  BY <1>1, PlacedWork

\* What the stages of a worker leave alone.
LEMMA WorkFrames ==
  ASSUME NEW w, Deliveries!Handle(w) \/ Deliveries!Lock(w)
  PROVE  /\ UNCHANGED <<firings, digest, fired, starts, sent>>
         /\ UNCHANGED <<generation, cached, resetting, calls, session, armed, cool, cmds, bus>>
BY DEF Deliveries!Handle, Deliveries!Works, Deliveries!Fails, Deliveries!Lock, Deliveries!MarkFired, Deliveries!MarkFails, Deliveries!Record,
       Deliveries!RecordFails, Deliveries!NoSession, Deliveries!Send, Deliveries!SendFails,
       Deliveries!stored, Deliveries!history

LEMMA PlacedHandle ==
  ASSUME Placed, NEW w \in workers, Deliveries!Handle(w) \/ Deliveries!Lock(w)
  PROVE  Placed'
<1>1. UNCHANGED <<firings, digest, fired>>
  BY WorkFrames
<1>2. /\ w \in Deliveries!AnyWorker /\ w.f \in Loads /\ w.pc \in Deliveries!Stages
      /\ w.attempt \in 1 .. MarkAttempts
      /\ events \in [Numbers -> {"none", "undelivered", "delivered"}]
      /\ Deliveries!IsDigest(w.f) => w.pc \in {"wait", "send"}
      /\ ~ Deliveries!IsDigest(w.f) /\ w.pc \in {"send", "resend"} => events[w.f.n] # "none"
  BY WorkerFacts DEF Placed, LoopTypes, StagesOK
<1>3. ~ Deliveries!IsDigest(w.f) => w.f.n \in Numbers /\ Carries(w.f) = {w.f.n}
  BY <1>2, LoadFacts
<1>4. 1 \in 1 .. MarkAttempts /\ {"mark", "wait", "record", "send", "resend"} = Deliveries!Stages
  BY DeliveryNumbers DEF Deliveries!Stages
<1>5. CASE Deliveries!MarkFired(w) \/ Deliveries!MarkFails(w)
  <2>1. w.pc = "mark" /\ ~ Deliveries!IsDigest(w.f) /\ UNCHANGED <<events, told, lost>>
    BY <1>2, <1>5 DEF Deliveries!MarkFired, Deliveries!MarkFails, Deliveries!stored, Deliveries!history
  <2>2. \E pc \in {"mark", "wait"}, n \in 1 .. MarkAttempts : Deliveries!Become(w, pc, n)
    <3>1. CASE Deliveries!Become(w, "wait", 1)
      BY <1>4, <3>1
    <3>2. CASE w.attempt < MarkAttempts /\ Deliveries!Become(w, "mark", w.attempt + 1)
      <4>1. w.attempt + 1 \in 1 .. MarkAttempts
        BY <1>2, <3>2, DeliveryNumbers
      <4> QED
        BY <3>2, <4>1
    <3> QED
      BY <1>5, <3>1, <3>2 DEF Deliveries!MarkFired, Deliveries!MarkFails
  <2>3. PICK pc \in {"mark", "wait"}, n \in 1 .. MarkAttempts : Deliveries!Become(w, pc, n)
    BY <2>2
  <2> QED
    BY <1>1, <1>2, <1>4, <2>1, <2>3, PlacedBecome
<1>6. CASE Deliveries!Lock(w)
  <2> DEFINE pc == IF Deliveries!IsDigest(w.f) THEN "send" ELSE "record"
  <2>1. /\ Deliveries!Become(w, pc, 1) /\ UNCHANGED <<events, told, lost>>
        /\ ~ \E v \in workers : Deliveries!HoldsLock(v) /\ v.f.account = w.f.account
    BY <1>6 DEF Deliveries!Lock, Deliveries!stored, Deliveries!history
  <2>2. /\ pc \in Deliveries!Stages /\ (Deliveries!IsDigest(w.f) => pc \in {"wait", "send"})
        /\ (~ Deliveries!IsDigest(w.f) => pc \notin {"send", "resend"})
    BY <1>4
  <2> HIDE DEF pc
  <2> QED
    BY <1>1, <1>2, <1>4, <2>1, <2>2, PlacedBecome
<1>7. CASE Deliveries!Record(w)
  <2>1. /\ w.pc = "record" /\ Deliveries!Become(w, "send", 1) /\ UNCHANGED <<told, lost>>
        /\ events' = [events EXCEPT ![w.f.n] = "undelivered"] /\ ~ Deliveries!IsDigest(w.f)
    BY <1>2, <1>7 DEF Deliveries!Record, Deliveries!history
  <2>2. /\ events' \in [Numbers -> {"none", "undelivered", "delivered"}]
        /\ \A n \in Numbers : events[n] # "none" => events'[n] # "none"
        /\ events'[w.f.n] # "none"
    BY <1>2, <1>3, <2>1
  <2>3. Deliveries!HoldsLock(w)
    BY <2>1 DEF Deliveries!HoldsLock
  <2> QED
    BY <1>1, <1>2, <1>4, <2>1, <2>2, <2>3, PlacedBecome
<1>8. CASE Deliveries!RecordFails(w)
  <2>1. Deliveries!Finish(w) /\ lost' = lost \cup Carries(w.f) /\ UNCHANGED <<events, told>>
    BY <1>8 DEF Deliveries!RecordFails, Deliveries!Lose, Carries, Deliveries!stored
  <2> QED
    BY <1>1, <1>2, <2>1, PlacedFinish
<1>9. CASE Deliveries!NoSession(w)
  <2>1. /\ Deliveries!Finish(w) /\ UNCHANGED <<events, told>> /\ w.pc = "send"
        /\ IF Deliveries!IsDigest(w.f) THEN lost' = lost \cup Carries(w.f) ELSE UNCHANGED lost
    BY <1>9 DEF Deliveries!NoSession, Deliveries!Lose, Carries, Deliveries!stored
  <2>2. lost \subseteq lost' /\ lost' \subseteq lost \cup Carries(w.f)
    BY <2>1
  <2>3. \A n \in Carries(w.f) : n \in lost' \/ events[n] # "none"
    BY <1>2, <1>3, <2>1
  <2> QED
    BY <1>1, <1>2, <2>1, <2>2, <2>3, PlacedFinish
<1>10. CASE Deliveries!Send(w)
  <2>1. /\ Deliveries!Finish(w) /\ told' = told \cup Carries(w.f) /\ UNCHANGED lost
        /\ events' = IF Deliveries!IsDigest(w.f) THEN events ELSE [events EXCEPT ![w.f.n] = "delivered"]
    BY <1>10 DEF Deliveries!Send, Deliveries!Tell, Carries
  <2>2. /\ events' \in [Numbers -> {"none", "undelivered", "delivered"}]
        /\ \A n \in Numbers : events[n] # "none" => events'[n] # "none"
    BY <1>2, <1>3, <2>1
  <2> QED
    BY <1>1, <1>2, <2>1, <2>2, PlacedFinish
<1>11. CASE Deliveries!SendFails(w)
  <2>1. UNCHANGED <<events, told>> /\ (w.pc = "resend" \/ w.pc = "send") /\ Deliveries!HoldsLock(w)
    BY <1>11 DEF Deliveries!SendFails, Deliveries!Ready, Deliveries!HoldsLock, Deliveries!stored
  <2>2. CASE /\ ~ Deliveries!IsDigest(w.f) /\ w.pc = "send"
             /\ Deliveries!Become(w, "resend", 1) /\ UNCHANGED lost
    BY <1>1, <1>2, <1>4, <2>1, <2>2, PlacedBecome
  <2>3. CASE ~ Deliveries!IsDigest(w.f) /\ w.pc = "resend" /\ Deliveries!Finish(w) /\ UNCHANGED lost
    <3>1. \A n \in Carries(w.f) : events[n] # "none"
      BY <1>2, <1>3, <2>3
    <3> QED
      BY <1>1, <1>2, <2>1, <2>3, <3>1, PlacedFinish
  <2>4. CASE Deliveries!IsDigest(w.f) /\ Deliveries!Finish(w) /\ lost' = lost \cup Carries(w.f)
    BY <1>1, <1>2, <2>1, <2>4, PlacedFinish
  <2> QED
    BY <1>11, <2>2, <2>3, <2>4 DEF Deliveries!SendFails, Deliveries!Lose, Carries
<1> QED
  BY <1>5, <1>6, <1>7, <1>8, <1>9, <1>10, <1>11 DEF Deliveries!Handle, Deliveries!Works, Deliveries!Fails

\* The steps of calls, resets, the broker and alert_loop that hand on no firing.
CallSteps ==
  \E i \in AlertIds : \/ Deliveries!CheckLimit(i) \/ Deliveries!InsertAlert(i)
                      \/ Deliveries!Upsert(i) \/ Deliveries!Deactivate(i)
AccountSteps ==
  \E a \in Accounts : \/ Deliveries!ChooseSession(a) \/ Deliveries!ResetStore(a) \/ Deliveries!DropAccount(a)
                      \/ Deliveries!ReloadAccounts(a) \/ Deliveries!BrokerFill(a)
FireSteps == Deliveries!OnFill \/ \E i \in AlertIds \ OnFills : Deliveries!OnTrade({i})
WorkSteps == \E w \in workers : Deliveries!Handle(w) \/ Deliveries!Lock(w)

LEMMA NextCases ==
  ASSUME Deliveries!Next
  PROVE  \/ CallSteps \/ AccountSteps \/ Deliveries!Command \/ Deliveries!Lagged
         \/ FireSteps \/ Deliveries!Flush \/ Deliveries!Dispatch \/ WorkSteps
         \/ Deliveries!Age \/ Deliveries!Restart
BY DEF Deliveries!Next, Deliveries!Calm, Deliveries!Handle, CallSteps, AccountSteps, FireSteps, WorkSteps

LEMMA LoopFrames ==
  ASSUME CallSteps \/ AccountSteps \/ Deliveries!Command \/ Deliveries!Lagged
  PROVE  UNCHANGED loopVars /\ UNCHANGED <<sent, starts>>
<1>1. CASE CallSteps
  BY <1>1 DEF CallSteps, loopVars, Deliveries!CheckLimit, Deliveries!InsertAlert, Deliveries!Upsert,
     Deliveries!Deactivate, Deliveries!stored, Deliveries!memory, Deliveries!history
<1>2. CASE AccountSteps
  BY <1>2 DEF AccountSteps, loopVars, Deliveries!ChooseSession, Deliveries!ResetStore, Deliveries!DropAccount,
     Deliveries!ReloadAccounts, Deliveries!BrokerFill, Deliveries!stored, Deliveries!memory, Deliveries!history
<1>3. CASE Deliveries!Command
  BY <1>3 DEF loopVars, Deliveries!Command, Deliveries!stored, Deliveries!history
<1>4. CASE Deliveries!Lagged
  BY <1>4 DEF loopVars, Deliveries!Lagged, Deliveries!stored, Deliveries!history
<1> QED
  BY <1>1, <1>2, <1>3, <1>4

\* What a print or a fill leads to.
LEMMA FireStepFacts ==
  ASSUME FireSteps, LoopTypes, SideTypes
  PROVE  /\ firings = <<>>
         /\ UNCHANGED <<events, digest, workers, told, lost, sent, starts>>
         /\ UNCHANGED <<generation, cached, resetting, rows, calls, session, cmds, restarts>>
         /\ \E hits \in SUBSET AlertIds, g \in Int : Deliveries!Fire(hits, g)
         /\ bus' = bus \/ (bus # <<>> /\ bus' = Tail(bus))
<1>1. CASE Deliveries!OnFill
  <2>1. bus # <<>> /\ Deliveries!Fire(Deliveries!FillHits(Head(bus)), Head(bus).generation)
    BY <1>1 DEF Deliveries!OnFill
  <2>2. Head(bus) \in Fills
    <3>1. bus \in Seq(Fills)
      BY DEF SideTypes
    <3> QED
      BY <2>1, <3>1
  <2>3. Head(bus).generation \in Int /\ Deliveries!FillHits(Head(bus)) \subseteq AlertIds
    BY <2>2, DeliveryNumbers DEF Deliveries!FillHits, Fills
  <2>4. \E hits \in SUBSET AlertIds, g \in Int : Deliveries!Fire(hits, g)
    BY <2>1, <2>3
  <2> QED
    BY <1>1, <2>4 DEF Deliveries!OnFill, Deliveries!stored
<1>2. CASE \E i \in AlertIds \ OnFills : Deliveries!OnTrade({i})
  <2>1. PICK i \in AlertIds : Deliveries!OnTrade({i})
    BY <1>2
  <2>2. Deliveries!Fire({i}, 0) /\ {i} \in SUBSET AlertIds /\ 0 \in Int
    BY <2>1 DEF Deliveries!OnTrade
  <2>3. \E hits \in SUBSET AlertIds, g \in Int : Deliveries!Fire(hits, g)
    BY <2>2
  <2> QED
    BY <2>1, <2>3 DEF Deliveries!OnTrade, Deliveries!stored
<1> QED
  BY <1>1, <1>2 DEF FireSteps

LEMMA DispatchFacts ==
  ASSUME Deliveries!Dispatch, NEW f, f = Head(firings)
  PROVE  /\ firings # <<>> /\ firings' = Tail(firings)
         /\ UNCHANGED <<events, fired, told, lost, generation, cached, resetting, rows, calls, session,
                        armed, cool, cmds, bus>>
         /\ \/ /\ Deliveries!IsDigest(f) /\ Deliveries!Spawn(f) /\ UNCHANGED <<sent, digest>>
            \/ /\ ~ Deliveries!IsDigest(f) /\ Deliveries!Admits(sent[f.account])
               /\ sent' = [sent EXCEPT ![f.account] = Deliveries!Admitted(sent[f.account])]
               /\ Deliveries!Spawn(f) /\ UNCHANGED digest
            \/ /\ ~ Deliveries!IsDigest(f)
               /\ sent' = [sent EXCEPT ![f.account] = Deliveries!Young(sent[f.account])]
               /\ digest' = [digest EXCEPT ![f.account] = Append(@, f.n)] /\ UNCHANGED <<workers, starts>>
BY DEF Deliveries!Dispatch, Deliveries!HoldBack, Deliveries!stored

LEMMA PlacedStep ==
  ASSUME Placed, SideTypes, Deliveries!Next \/ UNCHANGED alertVars
  PROVE  Placed'
<1>1. CASE UNCHANGED alertVars
  BY <1>1, PlacedQuietly DEF alertVars, loopVars
<1>2. CASE CallSteps \/ AccountSteps \/ Deliveries!Command \/ Deliveries!Lagged
  BY <1>2, LoopFrames, PlacedQuietly
<1>3. CASE FireSteps
  <2>1. /\ firings = <<>> /\ LoopTypes
        /\ UNCHANGED <<events, digest, workers, told, lost>>
        /\ \E hits \in SUBSET AlertIds, g \in Int : Deliveries!Fire(hits, g)
    BY <1>3, FireStepFacts DEF Placed
  <2>2. PICK hits \in SUBSET AlertIds, g \in Int : Deliveries!Fire(hits, g)
    BY <2>1
  <2>3. \E S \in SUBSET (hits \cap armed), N \in Nat :
           /\ Len(fired') = Len(fired) + N /\ Len(fired) + N <= MaxFirings
           /\ fired' \in Seq(Hits) /\ \A n \in 1 .. Len(fired) : fired'[n] = fired[n]
           /\ \A k \in 1 .. N : fired'[Len(fired) + k].alert \in S
           /\ \A i \in S : \E k \in 1 .. N : fired'[Len(fired) + k].alert = i
           /\ firings' \in Seq(Loads) /\ Len(firings') = N
           /\ \A k \in 1 .. N : /\ firings'[k].n = Len(fired) + k /\ ~ Deliveries!IsDigest(firings'[k])
                                /\ Carries(firings'[k]) = {Len(fired) + k}
           /\ armed' = armed \ (S \cap Once)
    BY <2>1, <2>2, FireFacts
  <2>4. PICK N \in Nat :
           /\ Len(fired') = Len(fired) + N /\ Len(fired) + N <= MaxFirings
           /\ fired' \in Seq(Hits) /\ \A n \in 1 .. Len(fired) : fired'[n] = fired[n]
           /\ firings' \in Seq(Loads) /\ Len(firings') = N
           /\ \A k \in 1 .. N : Carries(firings'[k]) = {Len(fired) + k}
    BY <2>3
  <2> QED
    BY <2>1, <2>4, PlacedFire
<1>4. CASE Deliveries!Flush
  BY <1>4, PlacedFlush
<1>5. CASE Deliveries!Dispatch
  <2> DEFINE f == Head(firings)
  <2>1. /\ firings # <<>> /\ firings' = Tail(firings) /\ UNCHANGED <<events, fired, told, lost>>
        /\ \/ Deliveries!Spawn(f) /\ UNCHANGED digest
           \/ /\ ~ Deliveries!IsDigest(f)
              /\ digest' = [digest EXCEPT ![f.account] = Append(@, f.n)] /\ UNCHANGED workers
    BY <1>5, DispatchFacts
  <2> HIDE DEF f
  <2>2. f = Head(firings)
    BY DEF f
  <2>3. \/ workers' = workers \cup {Deliveries!Worker(f, IF Deliveries!IsDigest(f) THEN "wait" ELSE "mark")}
           /\ UNCHANGED digest
        \/ ~ Deliveries!IsDigest(f) /\ digest' = [digest EXCEPT ![f.account] = Append(@, f.n)]
           /\ UNCHANGED workers
    BY <2>1 DEF Deliveries!Spawn
  <2> QED
    BY <2>1, <2>2, <2>3, PlacedDispatch
<1>6. CASE WorkSteps
  BY <1>6, PlacedHandle DEF WorkSteps
<1>7. CASE Deliveries!Age
  BY <1>7, PlacedQuietly DEF Deliveries!Age, loopVars
<1>8. CASE Deliveries!Restart
  BY <1>8, PlacedRestart
<1> QED
  BY <1>1, <1>2, <1>3, <1>4, <1>5, <1>6, <1>7, <1>8, NextCases

-----------------------------------------------------------------------------
(* The hourly limit. *)

LEMMA LimitsSame ==
  ASSUME Limits, UNCHANGED <<firings, sent, starts>>
  PROVE  Limits'
BY DEF Limits, Batches, Queues, Tallied, HasDigest

LEMMA LimitsFire ==
  ASSUME Limits, firings = <<>>, UNCHANGED <<sent, starts>>,
         \A k \in DOMAIN firings' : ~ Deliveries!IsDigest(firings'[k])
  PROVE  Limits'
<1>1. \A a \in Accounts : ~ HasDigest(a) /\ ~ HasDigest(a)'
  BY DEF HasDigest
<1>2. Queues' /\ Batches'
  BY DEF Limits, Queues, Batches
<1>3. Tallied'
  BY <1>1 DEF Limits, Tallied
<1> QED
  BY <1>2, <1>3 DEF Limits

LEMMA LimitsFlush ==
  ASSUME Limits, LoopTypes, Deliveries!Flush
  PROVE  Limits'
<1> DEFINE D == Deliveries!Due
<1>1. /\ \A k \in DOMAIN firings' : /\ Deliveries!IsDigest(firings'[k]) /\ firings'[k].account \in D
                                    /\ \A j \in DOMAIN firings' : j # k => firings'[j].account # firings'[k].account
      /\ \A a \in D : \E k \in DOMAIN firings' : firings'[k].account = a
  BY FlushFacts
<1>2. /\ D \subseteq Accounts /\ firings = <<>> /\ UNCHANGED starts
      /\ \A a \in D : Len(Deliveries!Young(sent[a])) < PerHour
      /\ sent' = [a \in Accounts |-> IF a \in D THEN Append(Deliveries!Young(sent[a]), 0) ELSE sent[a]]
  BY DEF Deliveries!Flush, Deliveries!Due, Deliveries!Admits, Deliveries!Admitted, Deliveries!history
<1> HIDE DEF D
<1>3. ASSUME NEW a \in Accounts
      PROVE  /\ sent'[a] \in Seq(0 .. Hour) /\ starts'[a] \in Seq(0 .. Hour)
             /\ Len(Deliveries!Young(sent'[a])) <= PerHour
             /\ Deliveries!Young(sent'[a]) = IF a \in D THEN Append(starts[a], 0) ELSE starts[a]
  <2>1. sent[a] \in Seq(0 .. Hour) /\ starts[a] \in Seq(0 .. Hour)
    BY DEF Limits, Queues
  <2>2. Len(Deliveries!Young(sent[a])) <= PerHour /\ Deliveries!Young(sent[a]) = starts[a]
    BY <1>2 DEF Limits, Tallied, HasDigest
  <2>3. CASE a \in D
    <3>1. /\ Deliveries!Young(Append(Deliveries!Young(sent[a]), 0)) = Append(Deliveries!Young(sent[a]), 0)
          /\ Append(Deliveries!Young(sent[a]), 0) \in Seq(0 .. Hour)
      BY <2>1, YoungTwice
    <3>2. sent'[a] = Append(starts[a], 0) /\ Len(starts[a]) < PerHour
      BY <1>2, <2>2, <2>3
    <3>3. Len(Append(starts[a], 0)) = Len(starts[a]) + 1 /\ Len(starts[a]) \in Nat
      BY <2>1
    <3> QED
      BY <1>2, <2>1, <2>2, <2>3, <3>1, <3>2, <3>3, DeliveryNumbers
  <2>4. CASE a \notin D
    BY <1>2, <2>1, <2>2, <2>4
  <2> QED
    BY <2>3, <2>4
<1>4. \A a \in Accounts : HasDigest(a)' <=> a \in D
  BY <1>1 DEF HasDigest
<1>5. Batches'
  BY <1>1 DEF Batches
<1>6. Queues'
  <2>1. DOMAIN sent' = Accounts /\ sent' = [a \in Accounts |-> sent'[a]] /\ starts \in [Accounts -> Seq(0 .. Hour)]
    BY <1>2 DEF Limits, Queues
  <2> QED
    BY <1>2, <1>3, <2>1 DEF Queues
<1>7. Tallied'
  BY <1>2, <1>3, <1>4 DEF Tallied
<1> QED
  BY <1>5, <1>6, <1>7 DEF Limits

LEMMA LimitsDispatch ==
  ASSUME Limits, LoopTypes, Deliveries!Dispatch
  PROVE  Limits'
<1>0. PICK f : f = Head(firings)
  OBVIOUS
<1> DEFINE c == f.account
<1>1. /\ firings # <<>> /\ firings' = Tail(firings)
      /\ \/ /\ Deliveries!IsDigest(f) /\ Deliveries!Spawn(f) /\ UNCHANGED sent
         \/ /\ ~ Deliveries!IsDigest(f) /\ Deliveries!Admits(sent[c])
            /\ sent' = [sent EXCEPT ![c] = Deliveries!Admitted(sent[c])] /\ Deliveries!Spawn(f)
         \/ /\ ~ Deliveries!IsDigest(f)
            /\ sent' = [sent EXCEPT ![c] = Deliveries!Young(sent[c])] /\ UNCHANGED starts
  BY <1>0, DispatchFacts
<1>2. /\ \/ /\ Deliveries!IsDigest(f) /\ starts' = [starts EXCEPT ![c] = Append(starts[c], 0)] /\ UNCHANGED sent
         \/ /\ ~ Deliveries!IsDigest(f) /\ Len(Deliveries!Young(sent[c])) < PerHour
            /\ sent' = [sent EXCEPT ![c] = Append(Deliveries!Young(sent[c]), 0)]
            /\ starts' = [starts EXCEPT ![c] = Append(starts[c], 0)]
         \/ /\ ~ Deliveries!IsDigest(f)
            /\ sent' = [sent EXCEPT ![c] = Deliveries!Young(sent[c])] /\ UNCHANGED starts
  BY <1>1 DEF Deliveries!Spawn, Deliveries!Admits, Deliveries!Admitted
<1>3. /\ f \in Loads /\ firings[1] = f /\ 1 \in DOMAIN firings
      /\ \A k \in DOMAIN firings' : k + 1 \in DOMAIN firings /\ k + 1 # 1 /\ firings'[k] = firings[k + 1]
      /\ \A k \in DOMAIN firings : k # 1 => k - 1 \in DOMAIN firings' /\ firings'[k - 1] = firings[k]
      /\ \A j, k \in DOMAIN firings' : j # k => j + 1 # k + 1
  BY <1>0, <1>1, BatchFacts
<1>4. c \in Accounts
  BY <1>3, LoadFacts
<1>5. Batches'
  BY <1>3 DEF Limits, Batches
<1>6. \A a \in Accounts : a # c => (HasDigest(a)' <=> HasDigest(a))
  BY <1>3 DEF HasDigest
<1>7. ~ HasDigest(c)'
  <2>1. ASSUME NEW k \in DOMAIN firings', Deliveries!IsDigest(firings'[k]), firings'[k].account = c PROVE FALSE
    <3>1. k + 1 \in DOMAIN firings /\ k + 1 # 1 /\ Deliveries!IsDigest(firings[k + 1])
          /\ firings[k + 1].account = firings[1].account /\ 1 \in DOMAIN firings
      BY <1>3, <2>1
    <3>2. firings[k + 1].account # firings[1].account
      BY <3>1 DEF Limits, Batches
    <3> QED
      BY <3>1, <3>2
  <2> QED
    BY <2>1 DEF HasDigest
<1>8. HasDigest(c) <=> Deliveries!IsDigest(f)
  BY <1>3 DEF Limits, Batches, HasDigest
<1> HIDE DEF c
<1>9. \A a \in Accounts :
        /\ sent[a] \in Seq(0 .. Hour) /\ starts[a] \in Seq(0 .. Hour)
        /\ Len(Deliveries!Young(sent[a])) <= PerHour
        /\ HasDigest(a) => Deliveries!Young(sent[a]) = Append(starts[a], 0)
        /\ ~ HasDigest(a) => Deliveries!Young(sent[a]) = starts[a]
  BY DEF Limits, Queues, Tallied
<1>13. sent \in [Accounts -> Seq(0 .. Hour)] /\ starts \in [Accounts -> Seq(0 .. Hour)]
  BY DEF Limits, Queues
<1>10. ASSUME NEW a \in Accounts, a # c
       PROVE  sent'[a] = sent[a] /\ starts'[a] = starts[a]
  BY <1>2, <1>10, <1>13
<1>11. /\ sent'[c] \in Seq(0 .. Hour) /\ starts'[c] \in Seq(0 .. Hour)
       /\ Len(Deliveries!Young(sent'[c])) <= PerHour
       /\ Deliveries!Young(sent'[c]) = starts'[c]
  <2> DEFINE y == Deliveries!Young(sent[c])
             b == Append(starts[c], 0)
  <2>1. /\ y \in Seq(0 .. Hour) /\ Deliveries!Young(y) = y
        /\ Deliveries!Young(Append(y, 0)) = Append(y, 0) /\ Append(y, 0) \in Seq(0 .. Hour)
    BY <1>4, <1>9, YoungFacts, YoungTwice
  <2>2. /\ sent[c] \in Seq(0 .. Hour) /\ starts[c] \in Seq(0 .. Hour) /\ Len(y) <= PerHour
        /\ y = IF Deliveries!IsDigest(f) THEN b ELSE starts[c]
    BY <1>4, <1>8, <1>9
  <2>3. Len(Append(y, 0)) = Len(y) + 1 /\ Len(y) \in Nat
    BY <2>1
  <2>4. \/ sent'[c] = sent[c] /\ starts'[c] = b /\ Deliveries!IsDigest(f)
        \/ sent'[c] = Append(y, 0) /\ starts'[c] = b /\ ~ Deliveries!IsDigest(f) /\ Len(y) < PerHour
        \/ sent'[c] = y /\ starts'[c] = starts[c] /\ ~ Deliveries!IsDigest(f)
    BY <1>2, <1>4, <1>13
  <2>5. b \in Seq(0 .. Hour)
    BY <2>1, <2>2
  <2>6. PerHour \in Nat
    BY DeliveryNumbers
  <2>7. Deliveries!Young(sent[c]) = y
    OBVIOUS
  <2> HIDE DEF y, b
  <2>8. CASE sent'[c] = sent[c] /\ starts'[c] = b /\ Deliveries!IsDigest(f)
    BY <1>4, <1>9, <2>2, <2>5, <2>7, <2>8
  <2>9. CASE sent'[c] = Append(y, 0) /\ starts'[c] = b /\ ~ Deliveries!IsDigest(f) /\ Len(y) < PerHour
    <3>1. b = Append(y, 0)
      BY <2>2, <2>9 DEF b
    <3> QED
      BY <2>1, <2>3, <2>5, <2>6, <2>9, <3>1
  <2>10. CASE sent'[c] = y /\ starts'[c] = starts[c] /\ ~ Deliveries!IsDigest(f)
    BY <2>1, <2>2, <2>10
  <2> QED
    BY <2>4, <2>8, <2>9, <2>10
<1>12. ASSUME NEW a \in Accounts
       PROVE  /\ sent'[a] \in Seq(0 .. Hour) /\ starts'[a] \in Seq(0 .. Hour)
              /\ Len(Deliveries!Young(sent'[a])) <= PerHour
              /\ HasDigest(a)' => Deliveries!Young(sent'[a]) = Append(starts'[a], 0)
              /\ ~ HasDigest(a)' => Deliveries!Young(sent'[a]) = starts'[a]
  <2>1. CASE a = c
    <3>1. ~ HasDigest(a)'
      BY <1>7, <2>1
    <3> QED
      BY <1>11, <2>1, <3>1
  <2>2. CASE a # c
    BY <1>6, <1>9, <1>10, <2>2
  <2> QED
    BY <2>1, <2>2
<1>14. Queues'
  <2>1. sent' = [a \in Accounts |-> sent'[a]] /\ starts' = [a \in Accounts |-> starts'[a]]
    BY <1>2, <1>13
  <2> QED
    BY <1>12, <2>1 DEF Queues
<1> QED
  BY <1>5, <1>12, <1>14 DEF Limits, Tallied

LEMMA LimitsAge ==
  ASSUME Limits, Deliveries!Age
  PROVE  Limits'
<1>1. /\ firings = <<>> /\ UNCHANGED firings
      /\ \A a \in Accounts : sent'[a] = Deliveries!Older(sent[a])
      /\ \A a \in Accounts : starts'[a] = Deliveries!Young(Deliveries!Older(starts[a]))
  BY DEF Deliveries!Age
<1>2. \A a \in Accounts : ~ HasDigest(a) /\ ~ HasDigest(a)'
  BY <1>1 DEF HasDigest
<1>3. ASSUME NEW a \in Accounts
      PROVE  /\ sent'[a] \in Seq(0 .. Hour) /\ starts'[a] \in Seq(0 .. Hour)
             /\ Len(Deliveries!Young(sent'[a])) <= PerHour
             /\ Deliveries!Young(sent'[a]) = starts'[a]
  <2>1. /\ sent[a] \in Seq(0 .. Hour) /\ starts[a] \in Seq(0 .. Hour)
        /\ Len(Deliveries!Young(sent[a])) <= PerHour /\ Deliveries!Young(sent[a]) = starts[a]
    BY <1>2 DEF Limits, Queues, Tallied
  <2> DEFINE q == Deliveries!Older(sent[a])
             r == Deliveries!Older(starts[a])
  <2>2. q \in Seq(0 .. Hour) /\ r \in Seq(0 .. Hour)
    BY <2>1, OlderFacts
  <2>3. Deliveries!Young(q) = Deliveries!Young(r) /\ Len(Deliveries!Young(q)) <= Len(Deliveries!Young(sent[a]))
    BY <2>1, YoungOlder
  <2> HIDE DEF q, r
  <2>4. Deliveries!Young(r) \in Seq(0 .. Hour) /\ Deliveries!Young(sent[a]) \in Seq(0 .. Hour)
        /\ Deliveries!Young(q) \in Seq(0 .. Hour)
    BY <2>1, <2>2, YoungFacts
  <2>5. Len(Deliveries!Young(sent[a])) \in Nat /\ Len(Deliveries!Young(q)) \in Nat
    BY <2>4
  <2>6. sent'[a] = q /\ starts'[a] = Deliveries!Young(r)
    BY <1>1 DEF q, r
  <2> QED
    BY <2>1, <2>2, <2>3, <2>4, <2>5, <2>6, DeliveryNumbers
<1>4. Batches'
  BY <1>1 DEF Batches
<1>5. Queues'
  <2>1. sent' = [a \in Accounts |-> sent'[a]] /\ starts' = [a \in Accounts |-> starts'[a]]
    BY DEF Deliveries!Age
  <2> QED
    BY <1>3, <2>1 DEF Queues
<1> QED
  BY <1>2, <1>3, <1>4, <1>5 DEF Limits, Tallied

\* A process that starts has admitted nothing.
LEMMA LimitsFresh ==
  ASSUME sent' = [b \in Accounts |-> <<>>], starts' = sent', firings' = <<>>
  PROVE  Limits'
<1>1. <<>> \in Seq(0 .. Hour) /\ Len(<<>>) = 0
  OBVIOUS
<1>2. Deliveries!Young(<<>>) = <<>>
  BY <1>1, YoungSame
<1>3. \A b \in Accounts : sent'[b] = <<>> /\ starts'[b] = <<>> /\ ~ HasDigest(b)'
  BY DEF HasDigest
<1>4. Batches'
  BY DEF Batches
<1> QED
  BY <1>1, <1>2, <1>3, <1>4, DeliveryNumbers DEF Limits, Queues, Tallied

-----------------------------------------------------------------------------
(* The commands on their way, what is being created and what is over. *)

Unique == \A j, k \in DOMAIN cmds : j # k /\ cmds[j].cmd = "upsert" /\ cmds[k].cmd = "upsert"
                                      => cmds[j].alert # cmds[k].alert

LEMMA CommandFacts ==
  ASSUME NEW c \in Commands
  PROVE  /\ c.cmd \in {"upsert", "remove", "drop"}
         /\ c.cmd # "drop" => c.alert \in AlertIds
BY DEF Commands

LEMMA CommandsAre ==
  ASSUME NEW a \in Accounts
  PROVE  /\ [cmd |-> "drop", account |-> a] \in Commands
         /\ \A i \in AlertIds : /\ [cmd |-> "upsert", alert |-> i, account |-> a] \in Commands
                                /\ [cmd |-> "remove", alert |-> i, account |-> a] \in Commands
BY DEF Commands

LEMMA QueuedMore ==
  ASSUME cmds \in Seq(Commands), NEW c \in Commands, cmds' = Append(cmds, c)
  PROVE  /\ cmds' \in Seq(Commands)
         /\ \A i \in AlertIds, x \in {"upsert", "remove"} : Queued(i, x)' <=> Queued(i, x) \/ (c.cmd = x /\ c.alert = i)
         /\ Unique /\ (c.cmd = "upsert" => ~ Queued(c.alert, "upsert")) => Unique'
<1>1. /\ DOMAIN cmds = 1 .. Len(cmds) /\ DOMAIN cmds' = 1 .. Len(cmds) + 1 /\ Len(cmds) \in Nat
      /\ cmds'[Len(cmds) + 1] = c /\ \A k \in 1 .. Len(cmds) : cmds'[k] = cmds[k]
  OBVIOUS
<1>2. cmds' \in Seq(Commands)
  OBVIOUS
<1> DEFINE L == Len(cmds)
<1>3. L \in Nat /\ L + 1 \in 1 .. L + 1 /\ \A k \in 1 .. L + 1 : k \in 1 .. L \/ k = L + 1
  BY <1>1
<1>4. \A k \in 1 .. L : k \in 1 .. L + 1 /\ k # L + 1
  BY <1>1
<1> HIDE DEF L
<1>5. DOMAIN cmds = 1 .. L /\ DOMAIN cmds' = 1 .. L + 1 /\ cmds'[L + 1] = c /\ \A k \in 1 .. L : cmds'[k] = cmds[k]
  BY <1>1 DEF L
<1>6. ASSUME NEW i \in AlertIds, NEW x \in {"upsert", "remove"}
      PROVE  Queued(i, x)' <=> Queued(i, x) \/ (c.cmd = x /\ c.alert = i)
  BY <1>3, <1>4, <1>5 DEF Queued
<1>7. ASSUME Unique, c.cmd = "upsert" => ~ Queued(c.alert, "upsert")
      PROVE  Unique'
  BY <1>3, <1>4, <1>5, <1>7 DEF Unique, Queued
<1> QED
  BY <1>2, <1>6, <1>7

LEMMA QueuedLess ==
  ASSUME cmds \in Seq(Commands), cmds # <<>>, cmds' = Tail(cmds), NEW c, c = Head(cmds)
  PROVE  /\ c \in Commands /\ cmds' \in Seq(Commands)
         /\ \A i \in AlertIds, x \in {"upsert", "remove"} :
              /\ Queued(i, x)' => Queued(i, x)
              /\ Queued(i, x) => Queued(i, x)' \/ (c.cmd = x /\ c.alert = i)
              /\ c.cmd = x /\ c.alert = i => Queued(i, x)
         /\ Unique => Unique' /\ (c.cmd = "upsert" => ~ Queued(c.alert, "upsert")')
<1>1. /\ Tail(cmds) \in Seq(Commands) /\ DOMAIN cmds = 1 .. Len(cmds) /\ Len(cmds) \in Nat \ {0}
      /\ DOMAIN Tail(cmds) = 1 .. Len(cmds) - 1 /\ Head(cmds) = cmds[1] /\ cmds[1] \in Commands
      /\ \A k \in 1 .. Len(cmds) - 1 : Tail(cmds)[k] = cmds[k + 1] /\ k + 1 \in 1 .. Len(cmds) /\ k + 1 # 1
  BY TailFacts
<1> DEFINE L == Len(cmds)
<1>2. /\ DOMAIN cmds = 1 .. L /\ DOMAIN cmds' = 1 .. L - 1 /\ c = cmds[1] /\ c \in Commands /\ 1 \in 1 .. L
      /\ \A k \in 1 .. L - 1 : cmds'[k] = cmds[k + 1] /\ k + 1 \in 1 .. L /\ k + 1 # 1
      /\ \A k \in 1 .. L : k # 1 => k - 1 \in 1 .. L - 1 /\ cmds'[k - 1] = cmds[k]
      /\ \A j, k \in 1 .. L - 1 : j # k => j + 1 # k + 1
  BY <1>1
<1> HIDE DEF L
<1>3. ASSUME NEW i \in AlertIds, NEW x \in {"upsert", "remove"}
      PROVE  /\ Queued(i, x)' => Queued(i, x)
             /\ Queued(i, x) => Queued(i, x)' \/ (c.cmd = x /\ c.alert = i)
             /\ c.cmd = x /\ c.alert = i => Queued(i, x)
  BY ONLY <1>2 DEF Queued
<1>4. ASSUME Unique
      PROVE  Unique' /\ (c.cmd = "upsert" => ~ Queued(c.alert, "upsert")')
  <2>1. Unique'
    BY ONLY <1>2, <1>4 DEF Unique
  <2>2. c.cmd = "upsert" => ~ Queued(c.alert, "upsert")'
    BY ONLY <1>2, <1>4 DEF Unique, Queued
  <2> QED
    BY <2>1, <2>2
<1> QED
  BY <1>1, <1>2, <1>3, <1>4

\* What is being created stays so when nothing is announced, and only what was watched fires.
LEMMA CreatedSame ==
  ASSUME Created, UNCHANGED cmds, armed' \subseteq armed,
         \A i \in AlertIds : /\ calls'[i].pc = calls[i].pc
                             /\ rows'[i].state = "none" <=> rows[i].state = "none"
                             /\ HasFired(i)' => HasFired(i) \/ i \in armed
  PROVE  Created'
<1>1. \A i, x : Queued(i, x)' <=> Queued(i, x)
  BY DEF Queued
<1> QED
  BY <1>1 DEF Created

LEMMA CreatedCall ==
  ASSUME Created, SideTypes, CallSteps
  PROVE  Created'
<1>1. PICK i \in AlertIds : \/ Deliveries!CheckLimit(i) \/ Deliveries!InsertAlert(i)
                            \/ Deliveries!Upsert(i) \/ Deliveries!Deactivate(i)
  BY DEF CallSteps
<1>2. /\ calls \in [AlertIds -> [pc : {"none", "checked", "inserted"}, generation : 0 .. MaxGeneration]]
      /\ rows \in [AlertIds -> [state : {"none", "active", "off"}, generation : 0 .. MaxGeneration, cool : 0 .. Cooldown]]
      /\ cmds \in Seq(Commands) /\ AccountOf[i] \in Accounts
  BY DeliveryNumbers DEF SideTypes
<1>3. UNCHANGED <<armed, fired>>
  BY <1>1 DEF Deliveries!CheckLimit, Deliveries!InsertAlert, Deliveries!Upsert, Deliveries!Deactivate,
     Deliveries!memory, Deliveries!history
<1>4. \A j \in AlertIds : HasFired(j)' <=> HasFired(j)
  BY <1>3 DEF HasFired
<1>5. Unique /\ \A j \in AlertIds :
        /\ calls[j].pc = "checked" => rows[j].state = "none"
        /\ calls[j].pc = "inserted" => rows[j].state # "none" /\ ~ Queued(j, "upsert")
        /\ rows[j].state = "none" => ~ Queued(j, "upsert") /\ ~ Queued(j, "remove")
        /\ rows[j].state = "none" \/ calls[j].pc = "inserted" \/ Queued(j, "upsert") => j \notin armed /\ ~ HasFired(j)
  BY DEF Created, Unique
<1>6. SUFFICES Unique' /\ \A j \in AlertIds :
        /\ calls'[j].pc = "checked" => rows'[j].state = "none"
        /\ calls'[j].pc = "inserted" => rows'[j].state # "none" /\ ~ Queued(j, "upsert")'
        /\ rows'[j].state = "none" => ~ Queued(j, "upsert")' /\ ~ Queued(j, "remove")'
        /\ rows'[j].state = "none" \/ calls'[j].pc = "inserted" \/ Queued(j, "upsert")' => j \notin armed' /\ ~ HasFired(j)'
  BY DEF Created, Unique
<1>7. CASE Deliveries!CheckLimit(i)
  <2>1. UNCHANGED <<rows, cmds>> /\ rows[i].state = "none" /\ calls' = [calls EXCEPT ![i] = [pc |-> "checked", generation |-> cached[AccountOf[i]]]]
    BY <1>7 DEF Deliveries!CheckLimit, Deliveries!stored, Deliveries!memory
  <2>2. calls'[i].pc = "checked" /\ \A j \in AlertIds : j # i => calls'[j] = calls[j]
    BY <1>2, <2>1
  <2>3. (\A j, x : Queued(j, x)' <=> Queued(j, x)) /\ (Unique' <=> Unique)
    BY <2>1 DEF Queued, Unique
  <2> QED
    BY <1>3, <1>4, <1>5, <2>1, <2>2, <2>3
<1>8. CASE Deliveries!InsertAlert(i)
  <2>1. /\ UNCHANGED cmds /\ calls[i].pc = "checked" /\ calls' = [calls EXCEPT ![i].pc = "inserted"]
        /\ rows' = [rows EXCEPT ![i] = [state |-> "active", generation |-> calls[i].generation, cool |-> 0]]
    BY <1>8 DEF Deliveries!InsertAlert, Deliveries!memory
  <2>2. calls'[i].pc = "inserted" /\ \A j \in AlertIds : j # i => calls'[j] = calls[j]
    BY <1>2, <2>1
  <2>3. rows'[i].state = "active" /\ \A j \in AlertIds : j # i => rows'[j] = rows[j]
    BY <1>2, <2>1
  <2>4. (\A j, x : Queued(j, x)' <=> Queued(j, x)) /\ (Unique' <=> Unique)
    BY <2>1 DEF Queued, Unique
  <2> QED
    BY <1>3, <1>4, <1>5, <2>1, <2>2, <2>3, <2>4
<1>9. CASE Deliveries!Upsert(i)
  <2> DEFINE c == [cmd |-> "upsert", alert |-> i, account |-> AccountOf[i]]
  <2>1. UNCHANGED rows /\ calls[i].pc = "inserted" /\ calls' = [calls EXCEPT ![i] = Deliveries!NoCall] /\ cmds' = Append(cmds, c)
    BY <1>9 DEF Deliveries!Upsert
  <2>2. calls'[i].pc = "none" /\ \A j \in AlertIds : j # i => calls'[j] = calls[j]
    BY <1>2, <2>1 DEF Deliveries!NoCall
  <2>3. c \in Commands /\ c.cmd = "upsert" /\ c.alert = i
    BY <1>2, CommandsAre
  <2> HIDE DEF c
  <2>4. /\ \A j \in AlertIds, x \in {"upsert", "remove"} : Queued(j, x)' <=> Queued(j, x) \/ (x = "upsert" /\ j = i)
        /\ Unique'
    BY <1>2, <1>5, <2>1, <2>3, QueuedMore
  <2> QED
    BY <1>3, <1>4, <1>5, <2>1, <2>2, <2>4
<1>10. CASE Deliveries!Deactivate(i)
  <2> DEFINE c == [cmd |-> "remove", alert |-> i, account |-> AccountOf[i]]
  <2>1. UNCHANGED calls /\ rows[i].state = "active" /\ rows' = [rows EXCEPT ![i].state = "off"] /\ cmds' = Append(cmds, c)
    BY <1>10 DEF Deliveries!Deactivate, Deliveries!CurrentAlerts
  <2>2. rows'[i].state = "off" /\ \A j \in AlertIds : j # i => rows'[j] = rows[j]
    BY <1>2, <2>1
  <2>3. c \in Commands /\ c.cmd = "remove" /\ c.alert = i
    BY <1>2, CommandsAre
  <2> HIDE DEF c
  <2>4. /\ \A j \in AlertIds, x \in {"upsert", "remove"} : Queued(j, x)' <=> Queued(j, x) \/ (x = "remove" /\ j = i)
        /\ Unique'
    BY <1>2, <1>5, <2>1, <2>3, QueuedMore
  <2> QED
    BY <1>3, <1>4, <1>5, <2>1, <2>2, <2>4
<1> QED
  BY <1>1, <1>7, <1>8, <1>9, <1>10

LEMMA CreatedDrop ==
  ASSUME Created, SideTypes, NEW a \in Accounts, Deliveries!DropAccount(a)
  PROVE  Created'
<1> DEFINE c == [cmd |-> "drop", account |-> a]
<1>1. UNCHANGED <<rows, calls, armed, fired>> /\ cmds' = Append(cmds, c) /\ cmds \in Seq(Commands)
  BY DEF Deliveries!DropAccount, Deliveries!stored, Deliveries!history, SideTypes
<1>2. c \in Commands /\ c.cmd = "drop"
  BY CommandsAre
<1> HIDE DEF c
<1>3. (\A j \in AlertIds, x \in {"upsert", "remove"} : Queued(j, x)' <=> Queued(j, x)) /\ (Unique => Unique')
  BY <1>1, <1>2, QueuedMore
<1>4. \A j \in AlertIds : HasFired(j)' <=> HasFired(j)
  BY <1>1 DEF HasFired
<1> QED
  BY <1>1, <1>3, <1>4 DEF Created, Unique

LEMMA CreatedCommand ==
  ASSUME Created, SideTypes, Deliveries!Command
  PROVE  Created'
<1>0. PICK c : c = Head(cmds)
  OBVIOUS
<1>1. /\ cmds # <<>> /\ cmds' = Tail(cmds) /\ UNCHANGED <<rows, calls, fired>> /\ cmds \in Seq(Commands)
      /\ armed' = CASE c.cmd = "upsert" -> armed \union {c.alert}
                    [] c.cmd = "remove" -> armed \ {c.alert}
                    [] c.cmd = "drop"   -> {i \in armed : AccountOf[i] # c.account}
  BY <1>0 DEF Deliveries!Command, Deliveries!stored, Deliveries!history, SideTypes
<1>2. /\ c \in Commands
      /\ \A i \in AlertIds, x \in {"upsert", "remove"} :
           /\ Queued(i, x)' => Queued(i, x)
           /\ c.cmd = x /\ c.alert = i => Queued(i, x)
      /\ Unique => Unique' /\ (c.cmd = "upsert" => ~ Queued(c.alert, "upsert")')
  BY <1>0, <1>1, QueuedLess
<1>3. c.cmd \in {"upsert", "remove", "drop"} /\ (c.cmd # "drop" => c.alert \in AlertIds)
  BY <1>2, CommandFacts
<1>4. Unique /\ \A j \in AlertIds :
        /\ calls[j].pc = "checked" => rows[j].state = "none"
        /\ calls[j].pc = "inserted" => rows[j].state # "none" /\ ~ Queued(j, "upsert")
        /\ rows[j].state = "none" => ~ Queued(j, "upsert") /\ ~ Queued(j, "remove")
        /\ rows[j].state = "none" \/ calls[j].pc = "inserted" \/ Queued(j, "upsert") => j \notin armed /\ ~ HasFired(j)
  BY DEF Created, Unique
<1>5. \A j \in AlertIds : HasFired(j)' <=> HasFired(j)
  BY <1>1 DEF HasFired
<1>6. \A j \in AlertIds : j \in armed' => j \in armed \/ (c.cmd = "upsert" /\ c.alert = j)
  BY <1>1, <1>3
<1>7. \A j \in AlertIds : c.cmd = "upsert" /\ c.alert = j =>
        Queued(j, "upsert") /\ ~ Queued(j, "upsert")' /\ rows[j].state # "none" /\ calls[j].pc # "inserted"
  BY <1>2, <1>4
<1>8. \A j \in AlertIds :
        /\ calls'[j].pc = "checked" => rows'[j].state = "none"
        /\ calls'[j].pc = "inserted" => rows'[j].state # "none" /\ ~ Queued(j, "upsert")'
        /\ rows'[j].state = "none" => ~ Queued(j, "upsert")' /\ ~ Queued(j, "remove")'
        /\ rows'[j].state = "none" \/ calls'[j].pc = "inserted" \/ Queued(j, "upsert")' => j \notin armed' /\ ~ HasFired(j)'
  BY <1>1, <1>2, <1>4, <1>5, <1>6, <1>7
<1> QED
  BY <1>2, <1>4, <1>8 DEF Created, Unique

LEMMA OverIs ==
  ASSUME NEW i
  PROVE  Deliveries!Over(i) <=> rows[i].state = "off" /\ ~ Queued(i, "remove")
BY DEF Deliveries!Over, Queued

\* What is carried has fired.
LEMMA CarriedHasFired ==
  ASSUME LoopTypes, Known
  PROVE  /\ \A k \in DOMAIN firings : ~ Deliveries!IsDigest(firings[k]) => firings[k].n \in 1 .. Len(fired)
         /\ \A w \in workers : ~ Deliveries!IsDigest(w.f) => w.f.n \in 1 .. Len(fired)
<1>1. ASSUME NEW k \in DOMAIN firings, ~ Deliveries!IsDigest(firings[k])
      PROVE  firings[k].n \in 1 .. Len(fired)
  <2>1. firings[k] \in Loads
    BY DEF LoopTypes
  <2>2. Carries(firings[k]) = {firings[k].n}
    BY <1>1, <2>1, LoadFacts
  <2> QED
    BY <2>2 DEF Known
<1>2. ASSUME NEW w \in workers, ~ Deliveries!IsDigest(w.f)
      PROVE  w.f.n \in 1 .. Len(fired)
  <2>1. w.f \in Loads
    BY WorkerFacts DEF LoopTypes
  <2>2. Carries(w.f) = {w.f.n}
    BY <1>2, <2>1, LoadFacts
  <2> QED
    BY <2>2 DEF Known
<1> QED
  BY <1>1, <1>2

SpentFirings == \A i \in Once : \A k \in DOMAIN firings :
                  ~ Deliveries!IsDigest(firings[k]) /\ fired[firings[k].n].alert = i => i \notin armed
SpentMarks == \A i \in Once : \A w \in workers : w.pc = "mark" /\ fired[w.f.n].alert = i => i \notin armed
SpentRows == \A i \in Once : HasFired(i) /\ Deliveries!Over(i) => i \notin armed

LEMMA SpentIs == Spent <=> SpentFirings /\ SpentMarks /\ SpentRows
BY DEF Spent, SpentFirings, SpentMarks, SpentRows

LEMMA SpentSame ==
  ASSUME Spent, UNCHANGED <<firings, fired, workers>>, armed' \subseteq armed,
         \A i \in Once : Deliveries!Over(i)' => Deliveries!Over(i)
  PROVE  Spent'
BY DEF Spent, HasFired

LEMMA SpentCall ==
  ASSUME Spent, SideTypes, CallSteps
  PROVE  Spent'
<1>1. PICK i \in AlertIds : \/ Deliveries!CheckLimit(i) \/ Deliveries!InsertAlert(i)
                            \/ Deliveries!Upsert(i) \/ Deliveries!Deactivate(i)
  BY DEF CallSteps
<1>2. UNCHANGED <<armed, fired, firings, workers>>
  BY <1>1 DEF Deliveries!CheckLimit, Deliveries!InsertAlert, Deliveries!Upsert, Deliveries!Deactivate,
     Deliveries!memory, Deliveries!history
<1>3. /\ rows \in [AlertIds -> [state : {"none", "active", "off"}, generation : 0 .. MaxGeneration, cool : 0 .. Cooldown]]
      /\ cmds \in Seq(Commands) /\ AccountOf[i] \in Accounts
  BY DeliveryNumbers DEF SideTypes
<1>4. ASSUME NEW j \in Once
      PROVE  rows'[j].state = "off" /\ ~ Queued(j, "remove")' => rows[j].state = "off" /\ ~ Queued(j, "remove")
  <2>1. j \in AlertIds
    BY DeliveryNumbers
  <2>2. CASE Deliveries!CheckLimit(i)
    BY <2>2 DEF Queued, Deliveries!CheckLimit, Deliveries!stored, Deliveries!memory
  <2>3. CASE Deliveries!InsertAlert(i)
    <3>1. rows' = [rows EXCEPT ![i] = [state |-> "active", generation |-> calls[i].generation, cool |-> 0]] /\ UNCHANGED cmds
      BY <2>3 DEF Deliveries!InsertAlert, Deliveries!memory
    <3>2. rows'[j].state = "off" => rows[j].state = "off"
      BY <1>3, <2>1, <3>1
    <3> QED
      BY <3>1, <3>2 DEF Queued
  <2>4. CASE Deliveries!Upsert(i)
    <3> DEFINE c == [cmd |-> "upsert", alert |-> i, account |-> AccountOf[i]]
    <3>1. UNCHANGED rows /\ cmds' = Append(cmds, c)
      BY <2>4 DEF Deliveries!Upsert
    <3>2. c \in Commands
      BY <1>3, CommandsAre
    <3> HIDE DEF c
    <3>3. Queued(j, "remove") => Queued(j, "remove")'
      BY <1>3, <2>1, <3>1, <3>2, QueuedMore
    <3> QED
      BY <3>1, <3>3
  <2>5. CASE Deliveries!Deactivate(i)
    <3> DEFINE c == [cmd |-> "remove", alert |-> i, account |-> AccountOf[i]]
    <3>1. rows' = [rows EXCEPT ![i].state = "off"] /\ cmds' = Append(cmds, c)
      BY <2>5 DEF Deliveries!Deactivate
    <3>2. c \in Commands /\ c.cmd = "remove" /\ c.alert = i
      BY <1>3, CommandsAre
    <3> HIDE DEF c
    <3>3. Queued(j, "remove")' <=> Queued(j, "remove") \/ (c.cmd = "remove" /\ c.alert = j)
      BY <1>3, <2>1, <3>1, <3>2, QueuedMore
    <3>4. j # i => rows'[j] = rows[j]
      BY <1>3, <2>1, <3>1
    <3> QED
      BY <3>2, <3>3, <3>4
  <2> QED
    BY <1>1, <2>2, <2>3, <2>4, <2>5
<1>5. \A j \in Once : Deliveries!Over(j)' => Deliveries!Over(j)
  <2>1. \A j : Deliveries!Over(j) <=> rows[j].state = "off" /\ ~ Queued(j, "remove")
    BY OverIs
  <2>2. \A j : Deliveries!Over(j)' <=> rows'[j].state = "off" /\ ~ Queued(j, "remove")'
    BY DEF Deliveries!Over, Queued
  <2> QED
    BY <1>4, <2>1, <2>2
<1> QED
  BY <1>2, <1>5, SpentSame

LEMMA SpentCommand ==
  ASSUME Spent, Placed, Created, SideTypes, Deliveries!Command
  PROVE  Spent'
<1>0. PICK c : c = Head(cmds)
  OBVIOUS
<1>1. /\ cmds # <<>> /\ cmds' = Tail(cmds) /\ UNCHANGED <<rows, fired, firings, workers>> /\ cmds \in Seq(Commands)
      /\ armed' = CASE c.cmd = "upsert" -> armed \union {c.alert}
                    [] c.cmd = "remove" -> armed \ {c.alert}
                    [] c.cmd = "drop"   -> {i \in armed : AccountOf[i] # c.account}
  BY <1>0 DEF Deliveries!Command, Deliveries!stored, Deliveries!history, SideTypes
<1>2. /\ c \in Commands
      /\ \A i \in AlertIds, x \in {"upsert", "remove"} :
           /\ Queued(i, x) => Queued(i, x)' \/ (c.cmd = x /\ c.alert = i)
           /\ c.cmd = x /\ c.alert = i => Queued(i, x)
  BY <1>0, <1>1, QueuedLess
<1>3. c.cmd \in {"upsert", "remove", "drop"} /\ (c.cmd # "drop" => c.alert \in AlertIds)
  BY <1>2, CommandFacts
<1>4. ASSUME NEW i \in Once, i \in armed'
      PROVE  /\ (c.cmd = "upsert" /\ c.alert = i) \/ i \in armed
             /\ ~ (c.cmd = "remove" /\ c.alert = i)
  BY <1>1, <1>3, <1>4
<1>5. \A i \in Once : c.cmd = "upsert" /\ c.alert = i => ~ HasFired(i)
  BY <1>2, DeliveryNumbers DEF Created
<1>6. /\ \A k \in DOMAIN firings : ~ Deliveries!IsDigest(firings[k]) => firings[k].n \in 1 .. Len(fired)
      /\ \A w \in workers : ~ Deliveries!IsDigest(w.f) => w.f.n \in 1 .. Len(fired)
  BY CarriedHasFired DEF Placed
<1>7. SpentFirings'
  <2>1. ASSUME NEW i \in Once, NEW k \in DOMAIN firings, ~ Deliveries!IsDigest(firings[k]), fired[firings[k].n].alert = i
        PROVE  i \notin armed'
    <3>1. HasFired(i)
      BY <1>6, <2>1 DEF HasFired
    <3>2. i \notin armed
      BY <2>1 DEF Spent
    <3> QED
      BY <1>4, <1>5, <3>1, <3>2
  <2> QED
    BY <1>1, <2>1 DEF SpentFirings
<1>8. SpentMarks'
  <2>1. ASSUME NEW i \in Once, NEW w \in workers, w.pc = "mark", fired[w.f.n].alert = i
        PROVE  i \notin armed'
    <3>1. ~ Deliveries!IsDigest(w.f)
      BY <2>1 DEF Placed, StagesOK
    <3>2. HasFired(i)
      BY <1>6, <2>1, <3>1 DEF HasFired
    <3>3. i \notin armed
      BY <2>1 DEF Spent
    <3> QED
      BY <1>4, <1>5, <3>2, <3>3
  <2> QED
    BY <1>1, <2>1 DEF SpentMarks
<1>9. SpentRows'
  <2>1. ASSUME NEW i \in Once, HasFired(i), rows[i].state = "off", ~ Queued(i, "remove")', i \in armed'
        PROVE  FALSE
    <3>1. i \in AlertIds /\ i \in armed /\ ~ (c.cmd = "remove" /\ c.alert = i)
      BY <1>4, <1>5, <2>1, DeliveryNumbers
    <3>2. ~ Queued(i, "remove")
      BY <1>2, <2>1, <3>1
    <3>3. Deliveries!Over(i)
      BY <2>1, <3>2, OverIs
    <3> QED
      BY <2>1, <3>1, <3>3 DEF Spent
  <2>2. \A i : Deliveries!Over(i)' <=> rows'[i].state = "off" /\ ~ Queued(i, "remove")'
    BY DEF Deliveries!Over, Queued
  <2>3. \A i : HasFired(i)' <=> HasFired(i)
    BY <1>1 DEF HasFired
  <2> QED
    BY <1>1, <2>1, <2>2, <2>3 DEF SpentRows
<1> QED
  BY <1>7, <1>8, <1>9, SpentIs DEF Spent, SpentFirings, SpentMarks, SpentRows

LEMMA SpentFire ==
  ASSUME Spent, Placed, firings = <<>>, UNCHANGED <<rows, cmds, workers>>,
         NEW S \in SUBSET armed, NEW N \in Nat, armed' = armed \ (S \cap Once),
         Len(fired') = Len(fired) + N, \A n \in 1 .. Len(fired) : fired'[n] = fired[n],
         \A k \in 1 .. N : fired'[Len(fired) + k].alert \in S,
         DOMAIN firings' = 1 .. N, \A k \in 1 .. N : firings'[k].n = Len(fired) + k
  PROVE  Spent'
<1>1. Len(fired) \in Nat
  BY DEF Placed, LoopTypes
<1>2. \A i \in S \cap Once : i \notin armed'
  OBVIOUS
<1>3. ASSUME NEW n \in 1 .. Len(fired'), n \notin 1 .. Len(fired)
      PROVE  fired'[n].alert \in S
  <2>1. n - Len(fired) \in 1 .. N /\ Len(fired) + (n - Len(fired)) = n
    BY <1>1, <1>3
  <2> QED
    BY <2>1
<1>4. SpentFirings'
  BY <1>2 DEF SpentFirings
<1>5. SpentMarks'
  <2>1. ASSUME NEW i \in Once, NEW w \in workers, w.pc = "mark", fired'[w.f.n].alert = i
        PROVE  i \notin armed'
    <3>1. ~ Deliveries!IsDigest(w.f)
      BY <2>1 DEF Placed, StagesOK
    <3>2. w.f.n \in 1 .. Len(fired)
      BY <3>1, CarriedHasFired DEF Placed
    <3>3. fired[w.f.n].alert = i
      BY <2>1, <3>2
    <3> QED
      BY <2>1, <3>3 DEF Spent
  <2> QED
    BY <2>1 DEF SpentMarks
<1>6. SpentRows'
  <2>1. \A i : Deliveries!Over(i)' <=> Deliveries!Over(i)
    BY DEF Deliveries!Over
  <2>2. ASSUME NEW i \in Once, NEW n \in 1 .. Len(fired'), fired'[n].alert = i, Deliveries!Over(i)
        PROVE  i \notin armed'
    <3>1. CASE n \in 1 .. Len(fired)
      <4>1. HasFired(i)
        BY <2>2, <3>1 DEF HasFired
      <4> QED
        BY <2>2, <4>1 DEF Spent
    <3>2. CASE n \notin 1 .. Len(fired)
      BY <1>2, <1>3, <2>2, <3>2
    <3> QED
      BY <3>1, <3>2
  <2> QED
    BY <2>1, <2>2 DEF SpentRows, HasFired
<1> QED
  BY <1>4, <1>5, <1>6 DEF Spent, SpentFirings, SpentMarks, SpentRows

LEMMA SpentDispatch ==
  ASSUME Spent, LoopTypes, Deliveries!Dispatch
  PROVE  Spent'
<1>0. PICK f : f = Head(firings)
  OBVIOUS
<1>1. /\ firings # <<>> /\ firings' = Tail(firings) /\ UNCHANGED <<fired, rows, armed, cmds>>
      /\ Deliveries!Spawn(f) \/ UNCHANGED workers
  BY <1>0, DispatchFacts
<1>2. /\ f \in Loads /\ 1 \in DOMAIN firings /\ firings[1] = f
      /\ \A k \in DOMAIN firings' : k + 1 \in DOMAIN firings /\ firings'[k] = firings[k + 1]
  BY <1>0, <1>1, BatchFacts
<1>3. SpentFirings'
  BY <1>1, <1>2 DEF Spent, SpentFirings
<1>4. SpentMarks'
  <2>1. ASSUME NEW w \in workers', w \notin workers, w.pc = "mark"
        PROVE  w.f = f /\ ~ Deliveries!IsDigest(f)
    BY <1>1, <2>1 DEF Deliveries!Spawn, Deliveries!Worker
  <2>2. ASSUME NEW i \in Once, NEW w \in workers', w.pc = "mark", fired[w.f.n].alert = i
        PROVE  i \notin armed
    <3>1. CASE w \in workers
      BY <2>2, <3>1 DEF Spent
    <3>2. CASE w \notin workers
      BY <1>2, <2>1, <2>2, <3>2 DEF Spent
    <3> QED
      BY <3>1, <3>2
  <2> QED
    BY <1>1, <2>2 DEF SpentMarks
<1>5. SpentRows'
  BY <1>1 DEF Spent, SpentRows, HasFired, Deliveries!Over
<1> QED
  BY <1>3, <1>4, <1>5 DEF Spent, SpentFirings, SpentMarks, SpentRows

\* Storing a firing turns off a one-shot that is not watched any more.
LEMMA SpentWork ==
  ASSUME Spent, Placed, SideTypes, NEW w \in workers, Deliveries!Handle(w) \/ Deliveries!Lock(w)
  PROVE  Spent'
<1>1. UNCHANGED <<firings, fired, armed, cmds>>
  BY WorkFrames
<1>2. \A v \in workers' : v.pc = "mark" => v \in workers \/ (v.f = w.f /\ w.pc = "mark")
  <2>0. w \in Deliveries!AnyWorker
    BY DEF Placed, LoopTypes
  <2>1. ASSUME NEW pc \in {"wait", "record", "send", "resend"}, Deliveries!Become(w, pc, 1)
        PROVE  \A v \in workers' : v.pc = "mark" => v \in workers
    <3>1. 1 \in 1 .. MarkAttempts /\ pc \in Deliveries!Stages
      BY DeliveryNumbers DEF Deliveries!Stages
    <3>2. PICK u : u.pc = pc /\ workers' = (workers \ {w}) \cup {u}
      BY <2>0, <2>1, <3>1, BecomeFacts
    <3> QED
      BY <3>2
  <2>2. CASE Deliveries!Finish(w)
    BY <2>2 DEF Deliveries!Finish
  <2>3. ASSUME w.pc = "mark", w.attempt < MarkAttempts, Deliveries!Become(w, "mark", w.attempt + 1)
        PROVE  \A v \in workers' : v \in workers \/ v.f = w.f
    <3>1. w.attempt + 1 \in 1 .. MarkAttempts /\ "mark" \in Deliveries!Stages
      BY <2>0, <2>3, WorkerFacts, DeliveryNumbers DEF Deliveries!Stages
    <3>2. PICK u : u.f = w.f /\ workers' = (workers \ {w}) \cup {u}
      BY <2>0, <2>3, <3>1, BecomeFacts
    <3> QED
      BY <3>2
  <2>4. \/ \E pc \in {"wait", "record", "send", "resend"} : Deliveries!Become(w, pc, 1)
        \/ Deliveries!Finish(w)
        \/ w.pc = "mark" /\ w.attempt < MarkAttempts /\ Deliveries!Become(w, "mark", w.attempt + 1)
    <3>1. CASE Deliveries!MarkFired(w) \/ Deliveries!MarkFails(w) \/ Deliveries!Record(w)
      BY <3>1 DEF Deliveries!MarkFired, Deliveries!MarkFails, Deliveries!Record
    <3>2. CASE Deliveries!RecordFails(w) \/ Deliveries!NoSession(w) \/ Deliveries!Send(w)
      BY <3>2 DEF Deliveries!RecordFails, Deliveries!NoSession, Deliveries!Send
    <3>3. CASE Deliveries!SendFails(w)
      BY <3>3 DEF Deliveries!SendFails
    <3>4. CASE Deliveries!Lock(w)
      BY <3>4 DEF Deliveries!Lock
    <3> QED
      BY <3>1, <3>2, <3>3, <3>4 DEF Deliveries!Handle, Deliveries!Works, Deliveries!Fails
  <2> QED
    BY <2>1, <2>2, <2>3, <2>4
<1>3. SpentFirings'
  BY <1>1 DEF Spent, SpentFirings
<1>4. SpentMarks'
  <2>1. ASSUME NEW i \in Once, NEW v \in workers', v.pc = "mark", fired[v.f.n].alert = i
        PROVE  i \notin armed
    BY <1>2, <2>1 DEF Spent
  <2> QED
    BY <1>1, <2>1 DEF SpentMarks
<1>5. SpentRows'
  <2>1. ASSUME NEW i \in Once, HasFired(i), Deliveries!Over(i)', i \in armed
        PROVE  FALSE
    <3>1. CASE Deliveries!MarkFired(w)
      <4> DEFINE j == fired[w.f.n].alert
      <4>1. /\ w.pc = "mark" /\ rows' = [rows EXCEPT ![j] = Deliveries!Marked(rows[j], j)]
        BY <3>1 DEF Deliveries!MarkFired, Deliveries!AlertOf
      <4>2. i # j
        BY <2>1, <4>1 DEF Spent
      <4>3. rows'[i] = rows[i]
        BY <4>1, <4>2, DeliveryNumbers DEF SideTypes
      <4>4. Deliveries!Over(i)
        BY <1>1, <2>1, <4>3 DEF Deliveries!Over
      <4> QED
        BY <2>1, <4>4 DEF Spent
    <3>2. CASE ~ Deliveries!MarkFired(w)
      <4>1. UNCHANGED rows
        BY <3>2 DEF Deliveries!Handle, Deliveries!Works, Deliveries!Fails, Deliveries!Lock, Deliveries!MarkFails, Deliveries!Record,
           Deliveries!RecordFails, Deliveries!NoSession, Deliveries!Send, Deliveries!SendFails,
           Deliveries!stored
      <4>2. Deliveries!Over(i)
        BY <1>1, <2>1, <4>1 DEF Deliveries!Over
      <4> QED
        BY <2>1, <4>2 DEF Spent
    <3> QED
      BY <3>1, <3>2
  <2> QED
    BY <1>1, <2>1 DEF SpentRows, HasFired
<1> QED
  BY <1>3, <1>4, <1>5 DEF Spent, SpentFirings, SpentMarks, SpentRows

LEMMA CreatedAndSpentRestart ==
  ASSUME SideTypes, Created, Deliveries!Restart
  PROVE  Created' /\ Spent'
<1>1. /\ cmds' = <<>> /\ firings' = <<>> /\ workers' = {} /\ UNCHANGED <<rows, fired>>
      /\ \A i \in AlertIds : calls'[i] = Deliveries!NoCall
      /\ armed' = {i \in AlertIds : Deliveries!Loaded(i)}
  BY DEF Deliveries!Restart, Deliveries!stored
<1>2. \A i \in armed' : rows[i].state = "active"
  BY <1>1 DEF Deliveries!Loaded
<1>3. \A i : ~ Queued(i, "upsert")' /\ ~ Queued(i, "remove")'
  BY <1>1 DEF Queued
<1>4. \A i : HasFired(i)' <=> HasFired(i)
  BY <1>1 DEF HasFired
<1>5. \A i \in AlertIds : calls'[i].pc = "none"
  BY <1>1 DEF Deliveries!NoCall
<1>6. \A i \in AlertIds : rows[i].state = "none" => ~ HasFired(i)
  BY DEF Created
<1>7. Unique'
  BY <1>1 DEF Unique
<1>8. Created'
  BY <1>1, <1>2, <1>3, <1>4, <1>5, <1>6, <1>7 DEF Created, Unique
<1>9. \A i : i \in armed' => ~ Deliveries!Over(i)'
  BY <1>1, <1>2 DEF Deliveries!Over
<1>10. Spent'
  BY <1>1, <1>9 DEF Spent
<1> QED
  BY <1>8, <1>10

LEMMA RowsAge ==
  ASSUME SideTypes, Deliveries!Age, NEW i \in AlertIds
  PROVE  rows'[i].state = rows[i].state
<1>1. rows \in [AlertIds -> [state : {"none", "active", "off"}, generation : 0 .. MaxGeneration, cool : 0 .. Cooldown]]
  BY DEF SideTypes
<1>2. rows' = [j \in AlertIds |-> [rows[j] EXCEPT !.cool = Deliveries!Sooner(rows[j].cool)]]
  BY DEF Deliveries!Age
<1> QED
  BY <1>1, <1>2

LEMMA MarkedFacts ==
  ASSUME NEW r \in [state : {"none", "active", "off"}, generation : 0 .. MaxGeneration, cool : 0 .. Cooldown], NEW i
  PROVE  LET v == Deliveries!Marked(r, i) IN
         /\ v \in [state : {"none", "active", "off"}, generation : 0 .. MaxGeneration, cool : 0 .. Cooldown]
         /\ v.state = "none" <=> r.state = "none"
<1> DEFINE u == [r EXCEPT !.cool = Cooldown]
           s == IF r.state = "active" /\ i \in Once THEN "off" ELSE r.state
           v == [u EXCEPT !.state = s]
<1>1. /\ u \in [state : {"none", "active", "off"}, generation : 0 .. MaxGeneration, cool : 0 .. Cooldown]
      /\ u.state = r.state
  BY DeliveryNumbers
<1>2. s \in {"none", "active", "off"} /\ (s = "none" <=> r.state = "none")
  OBVIOUS
<1>3. Deliveries!Marked(r, i) = v
  BY DEF Deliveries!Marked
<1> HIDE DEF u, s
<1>4. /\ v \in [state : {"none", "active", "off"}, generation : 0 .. MaxGeneration, cool : 0 .. Cooldown]
      /\ v.state = s
  BY <1>1, <1>2
<1> HIDE DEF v
<1> QED
  BY <1>2, <1>3, <1>4

LEMMA RowsWork ==
  ASSUME SideTypes, WorkSteps
  PROVE  /\ rows' \in [AlertIds -> [state : {"none", "active", "off"}, generation : 0 .. MaxGeneration, cool : 0 .. Cooldown]]
         /\ \A i \in AlertIds : rows'[i].state = "none" <=> rows[i].state = "none"
<1>1. rows \in [AlertIds -> [state : {"none", "active", "off"}, generation : 0 .. MaxGeneration, cool : 0 .. Cooldown]]
  BY DEF SideTypes
<1>2. PICK w \in workers : Deliveries!Handle(w) \/ Deliveries!Lock(w)
  BY DEF WorkSteps
<1>3. CASE Deliveries!MarkFired(w)
  <2>1. PICK j : rows' = [rows EXCEPT ![j] = Deliveries!Marked(rows[j], j)]
    BY <1>3 DEF Deliveries!MarkFired
  <2>2. ASSUME NEW i \in AlertIds
        PROVE  /\ rows'[i] \in [state : {"none", "active", "off"}, generation : 0 .. MaxGeneration, cool : 0 .. Cooldown]
               /\ rows'[i].state = "none" <=> rows[i].state = "none"
    <3>1. CASE i = j
      <4> DEFINE v == Deliveries!Marked(rows[i], i)
      <4>1. rows[i] \in [state : {"none", "active", "off"}, generation : 0 .. MaxGeneration, cool : 0 .. Cooldown]
        BY <1>1
      <4>2. /\ v \in [state : {"none", "active", "off"}, generation : 0 .. MaxGeneration, cool : 0 .. Cooldown]
            /\ v.state = "none" <=> rows[i].state = "none"
        BY <4>1, MarkedFacts
      <4>3. rows'[i] = v
        BY <1>1, <2>1, <3>1
      <4> HIDE DEF v
      <4> QED
        BY <4>2, <4>3
    <3>2. CASE i # j
      BY <1>1, <2>1, <3>2
    <3> QED
      BY <3>1, <3>2
  <2>3. rows' = [i \in AlertIds |-> rows'[i]]
    BY <1>1, <2>1
  <2> QED
    BY <2>2, <2>3
<1>4. CASE ~ Deliveries!MarkFired(w)
  <2>1. UNCHANGED rows
    BY <1>2, <1>4 DEF Deliveries!Handle, Deliveries!Works, Deliveries!Fails, Deliveries!Lock, Deliveries!MarkFails, Deliveries!Record,
       Deliveries!RecordFails, Deliveries!NoSession, Deliveries!Send, Deliveries!SendFails,
       Deliveries!stored
  <2> QED
    BY <1>1, <2>1
<1> QED
  BY <1>3, <1>4

\* What a step that fires alerts does, in one place.
LEMMA FiringStep ==
  ASSUME FireSteps, Placed, SideTypes
  PROVE  /\ firings = <<>>
         /\ UNCHANGED <<digest, workers, sent, starts, generation, cached, resetting, rows, calls, session, cmds>>
         /\ \E S \in SUBSET armed, N \in Nat :
              /\ Len(fired') = Len(fired) + N /\ Len(fired) + N <= MaxFirings
              /\ \A n \in 1 .. Len(fired) : fired'[n] = fired[n]
              /\ \A k \in 1 .. N : fired'[Len(fired) + k].alert \in S
              /\ \A i \in S : \E k \in 1 .. N : fired'[Len(fired) + k].alert = i
              /\ firings' \in Seq(Loads) /\ DOMAIN firings' = 1 .. N
              /\ \A k \in 1 .. N : firings'[k].n = Len(fired) + k /\ ~ Deliveries!IsDigest(firings'[k])
              /\ armed' = armed \ (S \cap Once)
<1>1. /\ firings = <<>> /\ LoopTypes
      /\ UNCHANGED <<digest, workers, sent, starts, generation, cached, resetting, rows, calls, session, cmds>>
      /\ \E hits \in SUBSET AlertIds, g \in Int : Deliveries!Fire(hits, g)
  BY FireStepFacts DEF Placed
<1>2. PICK hits \in SUBSET AlertIds, g \in Int : Deliveries!Fire(hits, g)
  BY <1>1
<1>3. \E S \in SUBSET (hits \cap armed), N \in Nat :
           /\ Len(fired') = Len(fired) + N /\ Len(fired) + N <= MaxFirings
           /\ fired' \in Seq(Hits) /\ \A n \in 1 .. Len(fired) : fired'[n] = fired[n]
           /\ \A k \in 1 .. N : fired'[Len(fired) + k].alert \in S
           /\ \A i \in S : \E k \in 1 .. N : fired'[Len(fired) + k].alert = i
           /\ firings' \in Seq(Loads) /\ Len(firings') = N
           /\ \A k \in 1 .. N : /\ firings'[k].n = Len(fired) + k /\ ~ Deliveries!IsDigest(firings'[k])
                                /\ Carries(firings'[k]) = {Len(fired) + k}
           /\ armed' = armed \ (S \cap Once)
  BY <1>1, <1>2, FireFacts
<1>4. PICK S \in SUBSET (hits \cap armed), N \in Nat :
           /\ Len(fired') = Len(fired) + N /\ Len(fired) + N <= MaxFirings
           /\ \A n \in 1 .. Len(fired) : fired'[n] = fired[n]
           /\ \A k \in 1 .. N : fired'[Len(fired) + k].alert \in S
           /\ \A i \in S : \E k \in 1 .. N : fired'[Len(fired) + k].alert = i
           /\ firings' \in Seq(Loads) /\ Len(firings') = N
           /\ \A k \in 1 .. N : firings'[k].n = Len(fired) + k /\ ~ Deliveries!IsDigest(firings'[k])
           /\ armed' = armed \ (S \cap Once)
  BY <1>3
<1>5. S \in SUBSET armed /\ DOMAIN firings' = 1 .. N
  BY <1>4
<1> QED
  BY <1>1, <1>4, <1>5

LEMMA CreatedStep ==
  ASSUME Created, Placed, SideTypes, Deliveries!Next \/ UNCHANGED alertVars
  PROVE  Created'
<1>1. CASE UNCHANGED alertVars
  <2>1. UNCHANGED <<cmds, armed, calls, rows, fired>>
    BY <1>1 DEF alertVars
  <2> QED
    BY <2>1, CreatedSame DEF HasFired
<1>2. CASE CallSteps
  BY <1>2, CreatedCall
<1>3. CASE AccountSteps
  <2>1. PICK a \in Accounts : \/ Deliveries!ChooseSession(a) \/ Deliveries!ResetStore(a) \/ Deliveries!DropAccount(a)
                              \/ Deliveries!ReloadAccounts(a) \/ Deliveries!BrokerFill(a)
    BY <1>3 DEF AccountSteps
  <2>2. CASE Deliveries!DropAccount(a)
    BY <2>2, CreatedDrop
  <2>3. CASE ~ Deliveries!DropAccount(a)
    <3>1. UNCHANGED <<cmds, armed, calls, rows, fired>>
      BY <2>1, <2>3 DEF Deliveries!ChooseSession, Deliveries!ResetStore, Deliveries!ReloadAccounts,
         Deliveries!BrokerFill, Deliveries!stored, Deliveries!memory, Deliveries!history
    <3> QED
      BY <3>1, CreatedSame DEF HasFired
  <2> QED
    BY <2>2, <2>3
<1>4. CASE Deliveries!Command
  BY <1>4, CreatedCommand
<1>5. CASE Deliveries!Lagged \/ Deliveries!Flush
  <2>1. UNCHANGED <<cmds, armed, calls, rows, fired>>
    BY <1>5 DEF Deliveries!Lagged, Deliveries!Flush, Deliveries!stored, Deliveries!history
  <2> QED
    BY <2>1, CreatedSame DEF HasFired
<1>6. CASE FireSteps
  <2>1. UNCHANGED <<rows, calls, cmds>>
    BY <1>6, FiringStep
  <2>2. \E S \in SUBSET armed, N \in Nat :
          /\ Len(fired') = Len(fired) + N
          /\ \A n \in 1 .. Len(fired) : fired'[n] = fired[n]
          /\ \A k \in 1 .. N : fired'[Len(fired) + k].alert \in S
          /\ armed' = armed \ (S \cap Once)
    BY <1>6, FiringStep
  <2>3. PICK S \in SUBSET armed, N \in Nat :
          /\ Len(fired') = Len(fired) + N
          /\ \A n \in 1 .. Len(fired) : fired'[n] = fired[n]
          /\ \A k \in 1 .. N : fired'[Len(fired) + k].alert \in S
          /\ armed' = armed \ (S \cap Once)
    BY <2>2
  <2>4. Len(fired) \in Nat
    BY DEF Placed, LoopTypes
  <2>5. ASSUME NEW i \in AlertIds, HasFired(i)', ~ HasFired(i)
        PROVE  i \in armed
    <3>1. PICK n \in 1 .. Len(fired') : fired'[n].alert = i
      BY <2>5 DEF HasFired
    <3>2. n \notin 1 .. Len(fired)
      BY <2>3, <2>5, <3>1 DEF HasFired
    <3>3. n - Len(fired) \in 1 .. N /\ Len(fired) + (n - Len(fired)) = n
      BY <2>3, <2>4, <3>2
    <3>4. i \in S
      BY <2>3, <3>1, <3>3
    <3> QED
      BY <3>4
  <2> QED
    BY <2>1, <2>3, <2>5, CreatedSame
<1>7. CASE Deliveries!Dispatch
  <2>1. UNCHANGED <<cmds, armed, calls, rows, fired>>
    BY <1>7 DEF Deliveries!Dispatch, Deliveries!stored
  <2> QED
    BY <2>1, CreatedSame DEF HasFired
<1>8. CASE WorkSteps
  <2>1. UNCHANGED <<cmds, armed, calls, fired>>
    BY <1>8, WorkFrames DEF WorkSteps
  <2>2. \A i \in AlertIds : rows'[i].state = "none" <=> rows[i].state = "none"
    BY <1>8, RowsWork
  <2> QED
    BY <2>1, <2>2, CreatedSame DEF HasFired
<1>9. CASE Deliveries!Age
  <2>1. UNCHANGED <<cmds, armed, calls, fired>>
    BY <1>9 DEF Deliveries!Age
  <2>2. \A i \in AlertIds : rows'[i].state = rows[i].state
    BY <1>9, RowsAge
  <2> QED
    BY <2>1, <2>2, CreatedSame DEF HasFired
<1>10. CASE Deliveries!Restart
  BY <1>10, CreatedAndSpentRestart
<1> QED
  BY <1>1, <1>2, <1>3, <1>4, <1>5, <1>6, <1>7, <1>8, <1>9, <1>10, NextCases

LEMMA SpentStep ==
  ASSUME Spent, Created, Placed, SideTypes, Deliveries!Next \/ UNCHANGED alertVars
  PROVE  Spent'
<1>1. CASE UNCHANGED alertVars
  <2>1. UNCHANGED <<firings, fired, workers, armed, rows, cmds>>
    BY <1>1 DEF alertVars
  <2> QED
    BY <2>1, SpentSame DEF Deliveries!Over
<1>2. CASE CallSteps
  BY <1>2, SpentCall
<1>3. CASE AccountSteps
  <2>1. PICK a \in Accounts : \/ Deliveries!ChooseSession(a) \/ Deliveries!ResetStore(a) \/ Deliveries!DropAccount(a)
                              \/ Deliveries!ReloadAccounts(a) \/ Deliveries!BrokerFill(a)
    BY <1>3 DEF AccountSteps
  <2>2. UNCHANGED <<firings, fired, workers, armed, rows>>
    BY <2>1 DEF Deliveries!ChooseSession, Deliveries!ResetStore, Deliveries!DropAccount, Deliveries!ReloadAccounts,
       Deliveries!BrokerFill, Deliveries!stored, Deliveries!memory, Deliveries!history
  <2>3. CASE Deliveries!DropAccount(a)
    <3> DEFINE c == [cmd |-> "drop", account |-> a]
    <3>1. cmds' = Append(cmds, c) /\ cmds \in Seq(Commands)
      BY <2>3 DEF Deliveries!DropAccount, SideTypes
    <3>2. c \in Commands /\ c.cmd = "drop"
      BY CommandsAre
    <3> HIDE DEF c
    <3>3. \A j \in AlertIds : Queued(j, "remove")' <=> Queued(j, "remove")
      BY <3>1, <3>2, QueuedMore
    <3>4. \A j \in Once : Deliveries!Over(j)' => Deliveries!Over(j)
      <4>1. \A j : Deliveries!Over(j) <=> rows[j].state = "off" /\ ~ Queued(j, "remove")
        BY OverIs
      <4>2. \A j : Deliveries!Over(j)' <=> rows'[j].state = "off" /\ ~ Queued(j, "remove")'
        BY DEF Deliveries!Over, Queued
      <4> QED
        BY <2>2, <3>3, <4>1, <4>2, DeliveryNumbers
    <3> QED
      BY <2>2, <3>4, SpentSame
  <2>4. CASE ~ Deliveries!DropAccount(a)
    <3>1. UNCHANGED cmds
      BY <2>1, <2>4 DEF Deliveries!ChooseSession, Deliveries!ResetStore, Deliveries!ReloadAccounts,
         Deliveries!BrokerFill, Deliveries!memory
    <3> QED
      BY <2>2, <3>1, SpentSame DEF Deliveries!Over
  <2> QED
    BY <2>3, <2>4
<1>4. CASE Deliveries!Command
  BY <1>4, SpentCommand
<1>5. CASE Deliveries!Lagged
  <2>1. UNCHANGED <<firings, fired, workers, armed, rows, cmds>>
    BY <1>5 DEF Deliveries!Lagged, Deliveries!stored, Deliveries!history
  <2> QED
    BY <2>1, SpentSame DEF Deliveries!Over
<1>6. CASE FireSteps
  <2>1. firings = <<>> /\ UNCHANGED <<rows, cmds, workers>>
    BY <1>6, FiringStep
  <2>2. PICK S \in SUBSET armed, N \in Nat :
          /\ Len(fired') = Len(fired) + N
          /\ \A n \in 1 .. Len(fired) : fired'[n] = fired[n]
          /\ \A k \in 1 .. N : fired'[Len(fired) + k].alert \in S
          /\ firings' \in Seq(Loads) /\ DOMAIN firings' = 1 .. N
          /\ \A k \in 1 .. N : firings'[k].n = Len(fired) + k /\ ~ Deliveries!IsDigest(firings'[k])
          /\ armed' = armed \ (S \cap Once)
    BY <1>6, FiringStep
  <2> QED
    BY <2>1, <2>2, SpentFire
<1>7. CASE Deliveries!Flush
  <2>1. UNCHANGED <<fired, workers, armed, rows, cmds>>
    BY <1>7 DEF Deliveries!Flush, Deliveries!stored, Deliveries!history
  <2>2. \A k \in DOMAIN firings' : Deliveries!IsDigest(firings'[k])
    BY <1>7, FlushFacts DEF Placed
  <2>3. \A i : (Deliveries!Over(i)' <=> Deliveries!Over(i)) /\ (HasFired(i)' <=> HasFired(i))
    BY <2>1 DEF Deliveries!Over, HasFired
  <2> QED
    BY <2>1, <2>2, <2>3 DEF Spent
<1>8. CASE Deliveries!Dispatch
  BY <1>8, SpentDispatch DEF Placed
<1>9. CASE WorkSteps
  BY <1>9, SpentWork DEF WorkSteps
<1>10. CASE Deliveries!Age
  <2>1. UNCHANGED <<firings, fired, workers, armed, cmds>>
    BY <1>10 DEF Deliveries!Age
  <2>2. \A i \in AlertIds : rows'[i].state = rows[i].state
    BY <1>10, RowsAge
  <2>3. \A i \in Once : Deliveries!Over(i)' => Deliveries!Over(i)
    BY <2>1, <2>2, DeliveryNumbers DEF Deliveries!Over
  <2> QED
    BY <2>1, <2>3, SpentSame
<1>11. CASE Deliveries!Restart
  BY <1>11, CreatedAndSpentRestart
<1> QED
  BY <1>1, <1>2, <1>3, <1>4, <1>5, <1>6, <1>7, <1>8, <1>9, <1>10, <1>11, NextCases

-----------------------------------------------------------------------------
(* Types. *)

Row == [state : {"none", "active", "off"}, generation : 0 .. MaxGeneration, cool : 0 .. Cooldown]
Call == [pc : {"none", "checked", "inserted"}, generation : 0 .. MaxGeneration]

LEMMA TypesCall ==
  ASSUME SideTypes, CallSteps
  PROVE  SideTypes'
<1>1. PICK i \in AlertIds : \/ Deliveries!CheckLimit(i) \/ Deliveries!InsertAlert(i)
                            \/ Deliveries!Upsert(i) \/ Deliveries!Deactivate(i)
  BY DEF CallSteps
<1>2. /\ calls \in [AlertIds -> Call] /\ rows \in [AlertIds -> Row] /\ cmds \in Seq(Commands)
      /\ AccountOf[i] \in Accounts /\ session \in [Accounts -> BOOLEAN]
      /\ cached \in [Accounts -> 1 .. MaxGeneration]
  BY DeliveryNumbers DEF SideTypes, Call, Row
<1>3. UNCHANGED <<generation, cached, resetting, armed, cool, bus>>
  BY <1>1 DEF Deliveries!CheckLimit, Deliveries!InsertAlert, Deliveries!Upsert, Deliveries!Deactivate,
     Deliveries!stored, Deliveries!memory
<1>4. calls[i] \in Call /\ rows[i] \in Row /\ cached[AccountOf[i]] \in 0 .. MaxGeneration
  BY <1>2, DeliveryNumbers
<1>5. /\ [pc |-> "checked", generation |-> cached[AccountOf[i]]] \in Call
      /\ [calls[i] EXCEPT !.pc = "inserted"] \in Call /\ Deliveries!NoCall \in Call
  BY <1>4, DeliveryNumbers DEF Call, Deliveries!NoCall
<1>6. /\ [state |-> "active", generation |-> calls[i].generation, cool |-> 0] \in Row
      /\ [rows[i] EXCEPT !.state = "off"] \in Row
  BY <1>4, DeliveryNumbers DEF Call, Row
<1>7. calls' \in [AlertIds -> Call]
  <2>1. \/ UNCHANGED calls
        \/ \E c \in Call : calls' = [calls EXCEPT ![i] = c]
    <3>1. CASE Deliveries!CheckLimit(i)
      BY <1>5, <3>1 DEF Deliveries!CheckLimit
    <3>2. CASE Deliveries!InsertAlert(i)
      <4>1. calls' = [calls EXCEPT ![i] = [calls[i] EXCEPT !.pc = "inserted"]]
        BY <3>2 DEF Deliveries!InsertAlert
      <4> QED
        BY <1>5, <4>1
    <3>3. CASE Deliveries!Upsert(i)
      BY <1>5, <3>3 DEF Deliveries!Upsert
    <3>4. CASE Deliveries!Deactivate(i)
      BY <3>4 DEF Deliveries!Deactivate
    <3> QED
      BY <1>1, <3>1, <3>2, <3>3, <3>4
  <2> QED
    BY <1>2, <2>1
<1>8. rows' \in [AlertIds -> Row]
  <2>1. \/ UNCHANGED rows
        \/ \E r \in Row : rows' = [rows EXCEPT ![i] = r]
    <3>1. CASE Deliveries!CheckLimit(i)
      BY <3>1 DEF Deliveries!CheckLimit, Deliveries!stored
    <3>2. CASE Deliveries!InsertAlert(i)
      BY <1>6, <3>2 DEF Deliveries!InsertAlert
    <3>3. CASE Deliveries!Upsert(i)
      BY <3>3 DEF Deliveries!Upsert
    <3>4. CASE Deliveries!Deactivate(i)
      <4>1. rows' = [rows EXCEPT ![i] = [rows[i] EXCEPT !.state = "off"]]
        BY <3>4 DEF Deliveries!Deactivate
      <4> QED
        BY <1>6, <4>1
    <3> QED
      BY <1>1, <3>1, <3>2, <3>3, <3>4
  <2> QED
    BY <1>2, <2>1
<1>9. cmds' \in Seq(Commands)
  <2>1. \/ UNCHANGED cmds
        \/ \E c \in Commands : cmds' = Append(cmds, c)
    <3>1. /\ [cmd |-> "upsert", alert |-> i, account |-> AccountOf[i]] \in Commands
          /\ [cmd |-> "remove", alert |-> i, account |-> AccountOf[i]] \in Commands
      BY <1>2, CommandsAre
    <3>2. CASE Deliveries!CheckLimit(i)
      BY <3>2 DEF Deliveries!CheckLimit, Deliveries!memory
    <3>3. CASE Deliveries!InsertAlert(i)
      BY <3>3 DEF Deliveries!InsertAlert, Deliveries!memory
    <3>4. CASE Deliveries!Upsert(i)
      BY <3>1, <3>4 DEF Deliveries!Upsert
    <3>5. CASE Deliveries!Deactivate(i)
      BY <3>1, <3>5 DEF Deliveries!Deactivate
    <3> QED
      BY <1>1, <3>2, <3>3, <3>4, <3>5
  <2>2. cmds \in Seq(Commands)
    BY <1>2
  <2>3. \A c \in Commands : Append(cmds, c) \in Seq(Commands)
    BY <2>2
  <2> QED
    BY <2>1, <2>2, <2>3
<1>10. session' \in [Accounts -> BOOLEAN]
  <2>1. CASE Deliveries!Upsert(i)
    <3>1. PICK s \in {session[AccountOf[i]], TRUE} : session' = [session EXCEPT ![AccountOf[i]] = s]
      BY <2>1 DEF Deliveries!Upsert
    <3>2. s \in BOOLEAN
      BY <1>2, <3>1
    <3> QED
      BY <1>2, <3>1, <3>2
  <2>2. CASE ~ Deliveries!Upsert(i)
    BY <1>1, <1>2, <2>2 DEF Deliveries!CheckLimit, Deliveries!InsertAlert, Deliveries!Deactivate, Deliveries!stored
  <2> QED
    BY <2>1, <2>2
<1> QED
  BY <1>3, <1>7, <1>8, <1>9, <1>10 DEF SideTypes, Call, Row

LEMMA TypesAccount ==
  ASSUME SideTypes, AccountSteps
  PROVE  SideTypes'
<1>1. PICK a \in Accounts : \/ Deliveries!ChooseSession(a) \/ Deliveries!ResetStore(a) \/ Deliveries!DropAccount(a)
                            \/ Deliveries!ReloadAccounts(a) \/ Deliveries!BrokerFill(a)
  BY DEF AccountSteps
<1>2. UNCHANGED <<rows, calls, armed, cool>>
  BY <1>1 DEF Deliveries!ChooseSession, Deliveries!ResetStore, Deliveries!DropAccount, Deliveries!ReloadAccounts,
     Deliveries!BrokerFill, Deliveries!stored, Deliveries!memory
<1>3. CASE Deliveries!ChooseSession(a)
  <2>1. UNCHANGED <<generation, cached, resetting, cmds, bus>> /\ session' = [session EXCEPT ![a] = ~ session[a]]
    BY <1>3 DEF Deliveries!ChooseSession, Deliveries!memory
  <2>2. session \in [Accounts -> BOOLEAN]
    BY DEF SideTypes
  <2>3. session' \in [Accounts -> BOOLEAN]
    BY <2>1, <2>2
  <2> QED
    BY <1>2, <2>1, <2>3 DEF SideTypes
<1>4. CASE Deliveries!ResetStore(a)
  <2>1. /\ UNCHANGED <<session, cached, cmds, bus>> /\ resetting' = [resetting EXCEPT ![a] = "stored"]
        /\ generation' = [generation EXCEPT ![a] = generation[a] + 1] /\ generation[a] < MaxGeneration
    BY <1>4 DEF Deliveries!ResetStore, Deliveries!memory
  <2>2. generation' \in [Accounts -> 1 .. MaxGeneration]
    BY <2>1, DeliveryNumbers DEF SideTypes
  <2>3. resetting' \in [Accounts -> {"no", "stored", "dropped"}]
    BY <2>1 DEF SideTypes
  <2> QED
    BY <1>2, <2>1, <2>2, <2>3 DEF SideTypes
<1>5. CASE Deliveries!DropAccount(a)
  <2>1. /\ UNCHANGED <<session, generation, cached, bus>> /\ resetting' = [resetting EXCEPT ![a] = "dropped"]
        /\ cmds' = Append(cmds, [cmd |-> "drop", account |-> a])
    BY <1>5 DEF Deliveries!DropAccount, Deliveries!stored
  <2>2. resetting' \in [Accounts -> {"no", "stored", "dropped"}]
    BY <2>1 DEF SideTypes
  <2>3. [cmd |-> "drop", account |-> a] \in Commands /\ cmds \in Seq(Commands)
    BY CommandsAre DEF SideTypes
  <2>4. cmds' \in Seq(Commands)
    BY <2>1, <2>3
  <2> QED
    BY <1>2, <2>1, <2>2, <2>4 DEF SideTypes
<1>6. CASE Deliveries!ReloadAccounts(a)
  <2>1. /\ UNCHANGED <<session, generation, cmds, bus>> /\ resetting' = [resetting EXCEPT ![a] = "no"]
        /\ cached' = generation
    BY <1>6 DEF Deliveries!ReloadAccounts, Deliveries!stored
  <2>2. resetting' \in [Accounts -> {"no", "stored", "dropped"}]
    BY <2>1 DEF SideTypes
  <2> QED
    BY <1>2, <2>1, <2>2 DEF SideTypes
<1>7. CASE Deliveries!BrokerFill(a)
  <2> DEFINE b == [account |-> a, generation |-> Deliveries!BrokerGeneration(a)]
  <2>1. UNCHANGED <<session, generation, cached, resetting, cmds>> /\ bus' = Append(bus, b) /\ bus \in Seq(Fills)
    BY <1>7 DEF Deliveries!BrokerFill, Deliveries!stored, SideTypes
  <2>2. generation[a] \in Int
    BY DeliveryNumbers DEF SideTypes
  <2>3. b \in Fills
    BY <2>2 DEF Fills, Deliveries!BrokerGeneration
  <2> HIDE DEF b
  <2>4. bus' \in Seq(Fills)
    BY <2>1, <2>3
  <2> QED
    BY <1>2, <2>1, <2>4 DEF SideTypes
<1> QED
  BY <1>1, <1>3, <1>4, <1>5, <1>6, <1>7

LEMMA TypesStep ==
  ASSUME SideTypes, Placed, Deliveries!Next \/ UNCHANGED alertVars
  PROVE  SideTypes'
<1>1. CASE UNCHANGED alertVars
  BY <1>1 DEF alertVars, SideTypes
<1>2. CASE CallSteps
  BY <1>2, TypesCall
<1>3. CASE AccountSteps
  BY <1>3, TypesAccount
<1>4. CASE Deliveries!Command
  <2>0. PICK c : c = Head(cmds)
    OBVIOUS
  <2>1. /\ cmds # <<>> /\ cmds' = Tail(cmds) /\ cmds \in Seq(Commands)
        /\ UNCHANGED <<generation, cached, resetting, rows, calls, session, bus>>
        /\ armed' = CASE c.cmd = "upsert" -> armed \union {c.alert}
                      [] c.cmd = "remove" -> armed \ {c.alert}
                      [] c.cmd = "drop"   -> {i \in armed : AccountOf[i] # c.account}
        /\ cool' = IF c.cmd = "upsert" THEN [cool EXCEPT ![c.alert] = 0] ELSE cool
    BY <1>4, <2>0 DEF Deliveries!Command, Deliveries!stored, SideTypes
  <2>2. c \in Commands /\ cmds' \in Seq(Commands)
    BY <2>0, <2>1, QueuedLess
  <2>3. c.cmd \in {"upsert", "remove", "drop"} /\ (c.cmd # "drop" => c.alert \in AlertIds)
    BY <2>2, CommandFacts
  <2>4. armed \subseteq AlertIds /\ cool \in [AlertIds -> 0 .. Cooldown]
    BY DEF SideTypes
  <2>5. armed' \subseteq AlertIds
    BY <2>1, <2>3, <2>4
  <2>6. cool' \in [AlertIds -> 0 .. Cooldown]
    BY <2>1, <2>3, <2>4, DeliveryNumbers
  <2> QED
    BY <2>1, <2>2, <2>5, <2>6 DEF SideTypes
<1>5. CASE Deliveries!Lagged
  <2>1. /\ UNCHANGED <<generation, cached, resetting, rows, calls, session, armed, cool, cmds>>
        /\ bus # <<>> /\ bus' = Tail(bus) /\ bus \in Seq(Fills)
    BY <1>5 DEF Deliveries!Lagged, Deliveries!stored, SideTypes
  <2>2. bus' \in Seq(Fills)
    BY <2>1
  <2> QED
    BY <2>1, <2>2 DEF SideTypes
<1>6. CASE FireSteps
  <2>1. /\ UNCHANGED <<generation, cached, resetting, rows, calls, session, cmds>>
        /\ bus' = bus \/ (bus # <<>> /\ bus' = Tail(bus))
        /\ \E hits \in SUBSET AlertIds, g \in Int : Deliveries!Fire(hits, g)
    BY <1>6, FireStepFacts DEF Placed
  <2>2. bus \in Seq(Fills) /\ cool \in [AlertIds -> 0 .. Cooldown] /\ armed \subseteq AlertIds
    BY DEF SideTypes
  <2>3. bus' \in Seq(Fills)
    <3>1. CASE bus # <<>> /\ bus' = Tail(bus)
      <4>1. Tail(bus) \in Seq(Fills)
        BY ONLY <2>2, <3>1
      <4> QED
        BY <3>1, <4>1
    <3> QED
      BY <2>1, <2>2, <3>1
  <2>4. armed' \subseteq armed /\ cool' \in [AlertIds -> 0 .. Cooldown]
    BY <2>1, <2>2, DeliveryNumbers DEF Deliveries!Fire, Deliveries!Removed
  <2> QED
    BY <2>1, <2>2, <2>3, <2>4 DEF SideTypes
<1>7. CASE Deliveries!Flush
  BY <1>7 DEF SideTypes, Deliveries!Flush, Deliveries!stored
<1>8. CASE Deliveries!Dispatch
  BY <1>8, DispatchFacts DEF SideTypes
<1>9. CASE WorkSteps
  <2>1. UNCHANGED <<generation, cached, resetting, calls, session, armed, cool, cmds, bus>>
    BY <1>9, WorkFrames DEF WorkSteps
  <2>2. rows' \in [AlertIds -> [state : {"none", "active", "off"}, generation : 0 .. MaxGeneration, cool : 0 .. Cooldown]]
    BY <1>9, RowsWork
  <2> QED
    BY <2>1, <2>2 DEF SideTypes
<1>10. CASE Deliveries!Age
  <2>1. /\ UNCHANGED <<generation, cached, resetting, calls, session, armed, cmds, bus>>
        /\ cool' = [i \in AlertIds |-> Deliveries!Sooner(cool[i])]
        /\ rows' = [i \in AlertIds |-> [rows[i] EXCEPT !.cool = Deliveries!Sooner(rows[i].cool)]]
    BY <1>10 DEF Deliveries!Age
  <2>2. \A c \in 0 .. Cooldown : Deliveries!Sooner(c) \in 0 .. Cooldown
    BY DeliveryNumbers DEF Deliveries!Sooner
  <2>3. cool' \in [AlertIds -> 0 .. Cooldown]
    BY <2>1, <2>2 DEF SideTypes
  <2>4. ASSUME NEW i \in AlertIds
        PROVE  [rows[i] EXCEPT !.cool = Deliveries!Sooner(rows[i].cool)] \in Row
    <3>1. rows[i] \in Row
      BY DEF SideTypes, Row
    <3>2. rows[i].cool \in 0 .. Cooldown
      BY <3>1 DEF Row
    <3>3. Deliveries!Sooner(rows[i].cool) \in 0 .. Cooldown
      BY <2>2, <3>2
    <3> QED
      BY <3>1, <3>3 DEF Row
  <2>5. rows' \in [AlertIds -> Row]
    BY <2>1, <2>4
  <2> QED
    BY <2>1, <2>3, <2>5 DEF SideTypes, Row
<1>11. CASE Deliveries!Restart
  <2>1. /\ UNCHANGED <<generation, rows, session>> /\ cached' = generation /\ cmds' = <<>> /\ bus' = <<>>
        /\ resetting' = [a \in Accounts |-> "no"] /\ calls' = [i \in AlertIds |-> Deliveries!NoCall]
        /\ armed' = {i \in AlertIds : Deliveries!Loaded(i)} /\ cool' = [i \in AlertIds |-> rows[i].cool]
    BY <1>11 DEF Deliveries!Restart, Deliveries!stored
  <2>2. \A i \in AlertIds : rows[i].cool \in 0 .. Cooldown
    BY DEF SideTypes
  <2>3. calls' \in [AlertIds -> [pc : {"none", "checked", "inserted"}, generation : 0 .. MaxGeneration]]
    BY <2>1, DeliveryNumbers DEF Deliveries!NoCall
  <2>4. cmds' \in Seq(Commands) /\ bus' \in Seq(Fills)
    BY <2>1
  <2>5. armed' \subseteq AlertIds /\ cool' \in [AlertIds -> 0 .. Cooldown]
    BY <2>1, <2>2
  <2> QED
    BY <2>1, <2>3, <2>4, <2>5 DEF SideTypes
<1> QED
  BY <1>1, <1>2, <1>3, <1>4, <1>5, <1>6, <1>7, <1>8, <1>9, <1>10, <1>11, NextCases

-----------------------------------------------------------------------------
(* The alert loop: what the runs check of it. *)

LEMMA AlertStart == Deliveries!Init => AlertInv
<1> SUFFICES ASSUME Deliveries!Init PROVE AlertInv
  OBVIOUS
<1> USE DEF Deliveries!Init
<1>1. /\ firings = <<>> /\ fired = <<>> /\ cmds = <<>> /\ bus = <<>> /\ workers = {} /\ armed = {}
      /\ told = {} /\ lost = {}
      /\ digest = [a \in Accounts |-> <<>>] /\ sent = [a \in Accounts |-> <<>>]
      /\ starts = [a \in Accounts |-> <<>>] /\ events = [n \in Numbers |-> "none"]
  BY DEF Numbers
<1>2. DOMAIN firings = {} /\ DOMAIN cmds = {} /\ 1 .. Len(fired) = {} /\ Len(fired) = 0
  BY <1>1
<1>3. /\ generation = [a \in Accounts |-> 1] /\ cached = [a \in Accounts |-> 1]
      /\ resetting = [a \in Accounts |-> "no"] /\ rows = [i \in AlertIds |-> Deliveries!NoRow]
      /\ calls = [i \in AlertIds |-> Deliveries!NoCall] /\ session = [a \in Accounts |-> FALSE]
      /\ cool = [i \in AlertIds |-> 0]
  OBVIOUS
<1> USE DEF Deliveries!NoRow, Deliveries!NoCall
<1>4. \A a \in Accounts : HeldBack(a) = {}
  BY <1>1 DEF HeldBack, Deliveries!ToSet
<1>5. Placed
  <2>1. LoopTypes
    BY <1>1, <1>2, DeliveryNumbers DEF LoopTypes
  <2>2. Known /\ Apart
    BY <1>1, <1>2, <1>4 DEF Known, Apart
  <2>3. Accounted /\ StagesOK /\ OneByOne
    BY <1>1, <1>2 DEF Accounted, StagesOK, OneByOne, Deliveries!OneAtATime
  <2> QED
    BY <2>1, <2>2, <2>3 DEF Placed
<1>6. Limits
  <2>1. <<>> \in Seq(0 .. Hour) /\ Len(<<>>) = 0
    OBVIOUS
  <2>2. Deliveries!Young(<<>>) = <<>>
    BY <2>1, YoungSame
  <2>3. \A a \in Accounts : sent[a] = <<>> /\ starts[a] = <<>> /\ ~ HasDigest(a)
    BY <1>1, <1>2 DEF HasDigest
  <2>4. Batches /\ Queues
    BY <1>1, <1>2 DEF Batches, Queues
  <2> QED
    BY <2>1, <2>2, <2>3, <2>4, DeliveryNumbers DEF Limits, Tallied
<1>7. SideTypes
  <2>1. generation \in [Accounts -> 1 .. MaxGeneration] /\ cached \in [Accounts -> 1 .. MaxGeneration]
    BY <1>3, DeliveryNumbers
  <2>2. /\ rows \in [AlertIds -> [state : {"none", "active", "off"}, generation : 0 .. MaxGeneration, cool : 0 .. Cooldown]]
        /\ calls \in [AlertIds -> [pc : {"none", "checked", "inserted"}, generation : 0 .. MaxGeneration]]
    BY <1>3, DeliveryNumbers
  <2>3. cool \in [AlertIds -> 0 .. Cooldown]
    BY <1>3, DeliveryNumbers
  <2> QED
    BY <1>1, <1>3, <2>1, <2>2, <2>3 DEF SideTypes
<1>8. Created /\ Spent
  <2>1. /\ \A i : ~ Queued(i, "upsert") /\ ~ Queued(i, "remove") /\ ~ HasFired(i)
        /\ \A i \in AlertIds : calls[i].pc = "none"
    BY <1>1, <1>2, <1>3 DEF Queued, HasFired
  <2> QED
    BY <1>1, <1>2, <2>1 DEF Created, Spent
<1> QED
  BY <1>5, <1>6, <1>7, <1>8 DEF AlertInv

LEMMA LimitsStep ==
  ASSUME Limits, Placed, SideTypes, Deliveries!Next \/ UNCHANGED alertVars
  PROVE  Limits'
<1>1. CASE UNCHANGED alertVars
  BY <1>1, LimitsSame DEF alertVars
<1>2. CASE CallSteps \/ AccountSteps \/ Deliveries!Command \/ Deliveries!Lagged
  BY <1>2, LoopFrames, LimitsSame DEF loopVars
<1>3. CASE FireSteps
  <2>1. /\ firings = <<>> /\ UNCHANGED <<sent, starts>>
        /\ \A k \in DOMAIN firings' : ~ Deliveries!IsDigest(firings'[k])
    BY <1>3, FiringStep
  <2> QED
    BY <2>1, LimitsFire
<1>4. CASE Deliveries!Flush
  BY <1>4, LimitsFlush DEF Placed
<1>5. CASE Deliveries!Dispatch
  BY <1>5, LimitsDispatch DEF Placed
<1>6. CASE WorkSteps
  <2>1. UNCHANGED <<firings, sent, starts>>
    BY <1>6, WorkFrames DEF WorkSteps
  <2> QED
    BY <2>1, LimitsSame
<1>7. CASE Deliveries!Age
  BY <1>7, LimitsAge
<1>8. CASE Deliveries!Restart
  BY <1>8, LimitsFresh DEF Deliveries!Restart
<1> QED
  BY <1>1, <1>2, <1>3, <1>4, <1>5, <1>6, <1>7, <1>8, NextCases

LEMMA AlertStep == AlertInv /\ (Deliveries!Next \/ UNCHANGED alertVars) => AlertInv'
BY PlacedStep, LimitsStep, TypesStep, CreatedStep, SpentStep DEF AlertInv

\* What a step of the whole is to one component.
LEMMA StepsOfOne ==
  ASSUME [Next]_vars
  PROVE  /\ Deliveries!Next \/ UNCHANGED alertVars
         /\ Conditions!Next \/ UNCHANGED watchVars
         /\ Messages!Next \/ UNCHANGED briefVars
BY DEF Next, vars, DeliverySteps, ResetSteps, PrintSteps, TickSteps, BriefingSteps, Deliveries!Next

LEMMA AlertInvariance == Spec => []AlertInv
<1>1. Init => AlertInv
  BY AlertStart DEF Init
<1>2. AlertInv /\ [Next]_vars => AlertInv'
  BY AlertStep, StepsOfOne
<1> QED
  BY <1>1, <1>2, PTL DEF Spec

LEMMA LimitShows ==
  ASSUME Limits, NEW a \in Accounts
  PROVE  Deliveries!Cardinality({k \in DOMAIN starts[a] : starts[a][k] < Hour}) <= PerHour
<1> DEFINE q == starts[a]
           S == {k \in DOMAIN q : q[k] < Hour}
<1>1. q \in Seq(0 .. Hour) /\ sent[a] \in Seq(0 .. Hour)
  BY DEF Limits, Queues
<1>2. /\ Len(Deliveries!Young(sent[a])) <= PerHour
      /\ Deliveries!Young(sent[a]) = Append(q, 0) \/ Deliveries!Young(sent[a]) = q
  BY DEF Limits, Tallied
<1> HIDE DEF q
<1>3. Len(q) \in Nat /\ DOMAIN q = 1 .. Len(q) /\ Len(Append(q, 0)) = Len(q) + 1
  BY <1>1
<1>4. Len(q) <= PerHour
  BY <1>2, <1>3, DeliveryNumbers
<1>5. IsFiniteSet(1 .. Len(q)) /\ Cardinality(1 .. Len(q)) = Len(q)
  <2>1. \A n \in Nat : IsFiniteSet(1 .. n) /\ Cardinality(1 .. n) = n
    BY FS_Interval
  <2> QED
    BY <1>3, <2>1
<1>6. S \subseteq 1 .. Len(q)
  BY <1>3
<1> HIDE DEF S
<1>7. Cardinality(S) \in Nat /\ Cardinality(S) <= Len(q)
  BY <1>5, <1>6, FS_Subset, FS_CardinalityType
<1>8. Deliveries!Cardinality(S) <= PerHour
  BY <1>3, <1>4, <1>7, DeliverySizes, DeliveryNumbers
<1> QED
  BY <1>8 DEF S, q

LEMMA AlertsShow == AlertInv => FiringsKept
<1> SUFFICES ASSUME AlertInv PROVE FiringsKept
  OBVIOUS
<1>1. Placed /\ Limits /\ SideTypes
  BY DEF AlertInv
<1>2. Deliveries!TypeOK
  <2>1. ASSUME NEW a \in Accounts
        PROVE  (\A k \in DOMAIN sent[a] : sent[a][k] \in 0 .. Hour) /\ Deliveries!ToSet(digest[a]) \subseteq 1 .. Len(fired)
    <3>1. sent[a] \in Seq(0 .. Hour)
      BY <1>1 DEF Limits, Queues
    <3>2. \A k \in DOMAIN sent[a] : sent[a][k] \in 0 .. Hour
      <4>1. ASSUME NEW S, NEW q \in Seq(S), NEW k \in DOMAIN q PROVE q[k] \in S
        BY LenProperties, ElementOfSeq
      <4> QED
        BY <3>1, <4>1
    <3>3. Deliveries!ToSet(digest[a]) \subseteq 1 .. Len(fired)
      BY <1>1 DEF Placed, Known, HeldBack
    <3> QED
      BY <3>2, <3>3
  <2> QED
    BY <1>1, <2>1 DEF Deliveries!TypeOK, SideTypes, Placed, LoopTypes, Numbers
<1>3. Deliveries!FiringsAccounted
  <2>1. \A n \in 1 .. Len(fired) : n \in Deliveries!Pending \union told \union lost \/ events[n] # "none"
    BY <1>1, PendingIs DEF Placed, Accounted
  <2>2. \A a \in Accounts : Deliveries!ToSet(digest[a]) \intersect (told \union lost) = {}
    BY <1>1 DEF Placed, Apart, HeldBack
  <2> QED
    BY <2>1, <2>2 DEF Deliveries!FiringsAccounted
<1>4. Deliveries!HourlyLimit
  BY <1>1, LimitShows DEF Deliveries!HourlyLimit
<1>5. Deliveries!OneAtATime
  BY <1>1 DEF Placed, OneByOne
<1> QED
  BY <1>2, <1>3, <1>4, <1>5 DEF FiringsKept

\* alert_loop, Limiter and handle, whatever the accounts, limits, failures and crashes: no
\* firing is lost without a failure or a crash, and none is told while it is held back; an
\* account gets no more than the hourly limit, digests included, one message at a time.
THEOREM FiringsAreKept == Spec => []FiringsKept
<1>1. Spec => []AlertInv
  BY AlertInvariance
<1> QED
  BY <1>1, AlertsShow, PTL

\* A one-shot whose firing was stored never fires again, whatever calls, commands, resets,
\* failures and restarts come between.
THEOREM OnceStaysOnce == Spec => OnceIsOnce
<1>1. AlertInv /\ [Next]_vars =>
        [fired' # fired => \A i \in Once : Deliveries!FiresAgain(i) =>
           \A n \in 1 .. Len(fired) : fired[n].alert = i => ~ Deliveries!Over(i)]_Deliveries!vars
  <2> SUFFICES ASSUME AlertInv, [Next]_vars, fired' # fired, NEW i \in Once, Deliveries!FiresAgain(i),
                      NEW m \in 1 .. Len(fired), fired[m].alert = i
               PROVE  ~ Deliveries!Over(i)
    OBVIOUS
  <2>1. FireSteps
    <3>1. Deliveries!Next /\ fired' # fired
      BY StepsOfOne DEF alertVars
    <3>2. ~ (CallSteps \/ AccountSteps \/ Deliveries!Command \/ Deliveries!Lagged)
      BY <3>1, LoopFrames DEF loopVars
    <3>3. ~ (Deliveries!Flush \/ Deliveries!Dispatch \/ Deliveries!Age \/ Deliveries!Restart)
      BY <3>1 DEF Deliveries!Flush, Deliveries!Dispatch, Deliveries!Age, Deliveries!Restart, Deliveries!history
    <3>4. ~ WorkSteps
      BY <3>1, WorkFrames DEF WorkSteps
    <3> QED
      BY <3>1, <3>2, <3>3, <3>4, NextCases
  <2>2. PICK S \in SUBSET armed, N \in Nat :
          /\ Len(fired') = Len(fired) + N
          /\ \A k \in 1 .. N : fired'[Len(fired) + k].alert \in S
    BY <2>1, FiringStep DEF AlertInv
  <2>3. PICK n \in Len(fired) + 1 .. Len(fired') : fired'[n].alert = i
    BY DEF Deliveries!FiresAgain
  <2>4. Len(fired) \in Nat
    BY DEF AlertInv, Placed, LoopTypes
  <2>5. n - Len(fired) \in 1 .. N /\ Len(fired) + (n - Len(fired)) = n
    BY <2>2, <2>3, <2>4
  <2>6. i \in armed
    BY <2>2, <2>3, <2>5
  <2>7. HasFired(i)
    BY DEF HasFired
  <2> QED
    BY <2>6, <2>7 DEF AlertInv, Spent
<1> QED
  BY <1>1, AlertInvariance, PTL DEF Spec, OnceIsOnce, Deliveries!OnceIsOnce

-----------------------------------------------------------------------------
(* News and briefings on time. *)

\* A tick that sees another session than the last one sees a change since then.
TickInv == watchOpen # "unknown" /\ watchOpen # watchSession => watchNews

\* What a print or a fill fires is no opening and no close.
LEMMA PrintsAreNoEdges ==
  ASSUME NEW p, Conditions!OnTrade(p)
  PROVE  watchFired' \intersect Conditions!Edges = {}
<1>1. CASE ~ Conditions!Watched
  BY <1>1 DEF Conditions!OnTrade
<1>2. CASE Conditions!Watched
  <2>1. Conditions!Fire({c \in watchAlerts : Conditions!Hit(c, watchHistory', p)})
    BY <1>2 DEF Conditions!OnTrade
  <2>2. \A c : Conditions!Hit(c, watchHistory', p) =>
                 c.kind \in {"price_above", "price_below", "move", "volume_surge"}
    BY DEF Conditions!Hit
  <2> QED
    BY <2>1, <2>2 DEF Conditions!Fire, Conditions!Edges
<1> QED
  BY <1>1, <1>2

LEMMA TickStep ==
  ASSUME TickInv, Conditions!Next \/ UNCHANGED watchVars
  PROVE  TickInv' /\ (Conditions!Next /\ watchFired' \intersect Conditions!Edges # {} => watchNews)
<1>1. CASE \E price \in Prices, qty \in Qtys, late \in 0 .. MaxLate :
             Conditions!OnTrade([age |-> late, price |-> price, value |-> price * qty])
  <2>1. PICK p : Conditions!OnTrade(p)
    BY <1>1
  <2> QED
    BY <2>1, PrintsAreNoEdges DEF Conditions!OnTrade, TickInv
<1>2. CASE Conditions!OnFill
  BY <1>2 DEF Conditions!OnFill, Conditions!Fire, Conditions!Edges, TickInv
<1>3. CASE Conditions!OnTick
  BY <1>3 DEF Conditions!OnTick, Conditions!Fire, Conditions!Changed, TickInv
<1>4. CASE Conditions!Bell \/ Conditions!Minute \/ Conditions!Restart
  BY <1>4 DEF Conditions!Bell, Conditions!Minute, Conditions!Restart, TickInv
<1>5. CASE \E k \in Kinds : Conditions!Create(k) \/ Conditions!Delete(k)
  BY <1>5 DEF Conditions!Create, Conditions!Delete, TickInv
<1>6. CASE ~ Conditions!Next /\ UNCHANGED watchVars
  BY <1>6 DEF watchVars, TickInv
<1> QED
  BY <1>1, <1>2, <1>3, <1>4, <1>5, <1>6 DEF Conditions!Next

\* What the schedule holds.
BriefTypes ==
  /\ briefOpen \in [Venues -> {"yes", "no", "unknown"}]
  /\ cadence \in [Accounts -> {Messages!Off, Messages!EdgesOnly} \union Every]
  /\ last \in [Messages!Keys -> Messages!None .. MaxAge]
  /\ was \in [Messages!Keys -> 0 .. MaxAge]
  /\ waiting \in [Messages!Keys -> Messages!None .. MaxAge]
  /\ opened \in [Messages!Keys -> BOOLEAN]
  /\ queue \subseteq Messages!Moments

\* An opening to be sent is one the schedule has seen and the session has not told yet.
Unsent ==
  \A m \in queue : m.what = "opened" =>
    briefOpen[m.venue] = "yes" /\ ~ opened[<<m.account, m.venue>>]

\* Once an opening was sent, the schedule does not believe the venue closed.
Told ==
  \A k \in Messages!Keys : opened[k] /\ k[2] \in briefSession => briefOpen[k[2]] # "no"

\* An entry is no older than what was due, and an hourly account that waits has an
\* entry as old as its wait.
Entries ==
  \A k \in Messages!Keys :
    /\ last[k] <= was[k]
    /\ waiting[k] # Messages!None /\ Messages!Hours(k) /\ k[2] \in briefSession => waiting[k] <= last[k]

BriefInv == BriefTypes /\ Unsent /\ Told /\ Entries

LEMMA BriefNumbers ==
  /\ MaxAge \in Nat
  /\ \A n \in Every : n \in Nat /\ 1 <= n /\ n < MaxAge
BY MessagesAssumed DEF Messages!BriefingsAssumption

LEMMA KeyParts ==
  ASSUME NEW k \in Messages!Keys
  PROVE  k[1] \in Accounts /\ k[2] \in Venues /\ k = <<k[1], k[2]>>
BY DEF Messages!Keys

LEMMA AgedFacts ==
  ASSUME NEW n \in Messages!None .. MaxAge
  PROVE  /\ Messages!Aged(n) \in Messages!None .. MaxAge
         /\ Messages!Aged(n) = Messages!None <=> n = Messages!None
         /\ n \in 0 .. MaxAge => Messages!Aged(n) \in 0 .. MaxAge
         /\ \A m \in Messages!None .. MaxAge : n <= m => Messages!Aged(n) <= Messages!Aged(m)
BY BriefNumbers DEF Messages!Aged, Messages!None

LEMMA MomentParts ==
  ASSUME NEW m \in Messages!Moments
  PROVE  /\ <<m.account, m.venue>> \in Messages!Keys
         /\ m.account \in Accounts /\ m.venue \in Venues
         /\ m = [account |-> m.account, venue |-> m.venue, what |-> m.what]
BY DEF Messages!Moments, Messages!Keys

\* What a tick enters for an account at a venue.
LEMMA EntryFacts ==
  ASSUME BriefInv, NEW k \in Messages!Keys
  PROVE  /\ Messages!Entry(k) \in 0 .. MaxAge /\ Messages!Entry(k) <= was[k] /\ last[k] <= Messages!Entry(k)
         /\ Messages!Entered(k) \in Messages!None .. MaxAge
         /\ Messages!Due(k) \in {"opened", "during"} => Messages!Entered(k) = 0
         /\ Messages!Entered(k) <= was[k]
         /\ Messages!Hours(k) /\ k[2] \in briefSession =>
              Messages!Entered(k) = 0 \/ (Messages!Due(k) = "nothing" /\ Messages!Entered(k) = Messages!Entry(k))
<1>1. k[1] \in Accounts /\ k[2] \in Venues
  BY KeyParts
<1>2. /\ last[k] \in Messages!None .. MaxAge /\ was[k] \in 0 .. MaxAge
      /\ last[k] <= was[k]
  BY DEF BriefInv, BriefTypes, Entries
<1>3. Messages!Entry(k) \in 0 .. MaxAge /\ Messages!Entry(k) <= was[k] /\ last[k] <= Messages!Entry(k)
  BY <1>2, BriefNumbers DEF Messages!Entry, Messages!None
<1>4. Messages!Due(k) \in {"nothing", "opened", "closed", "during"}
  BY DEF Messages!Due
<1>5. Messages!Due(k) = "closed" => k[2] \notin briefSession
  BY DEF Messages!Due, Messages!Opens, Messages!Closes
<1>6. CASE Messages!Due(k) \in {"opened", "during"}
  <2>1. Messages!Entered(k) = 0
    BY <1>6 DEF Messages!Entered, Messages!AfterDuring
  <2> QED
    BY <2>1, <1>2, <1>3, BriefNumbers DEF Messages!None
<1>7. CASE Messages!Due(k) = "closed"
  <2>1. Messages!Entered(k) = Messages!None
    BY <1>7 DEF Messages!Entered
  <2> QED
    BY <2>1, <1>2, <1>3, <1>5, <1>7, BriefNumbers DEF Messages!None
<1>8. CASE Messages!Due(k) = "nothing"
  <2>1. Messages!Entered(k) = IF k[2] \in briefSession /\ Messages!Hours(k) THEN Messages!Entry(k) ELSE last[k]
    BY <1>8 DEF Messages!Entered
  <2> QED
    BY <2>1, <1>2, <1>3, <1>8, BriefNumbers DEF Messages!None
<1> QED
  BY <1>4, <1>6, <1>7, <1>8

LEMMA BriefStart == Messages!Init => BriefInv
<1> SUFFICES ASSUME Messages!Init PROVE BriefInv
  OBVIOUS
<1>1. BriefTypes
  BY BriefNumbers DEF Messages!Init, BriefTypes, Messages!None
<1>2. Unsent /\ Told
  BY DEF Messages!Init, Unsent, Told
<1>3. Entries
  BY BriefNumbers DEF Messages!Init, Entries, Messages!None
<1> QED
  BY <1>1, <1>2, <1>3 DEF BriefInv

LEMMA BriefTick == BriefInv /\ Messages!Tick => BriefInv'
<1> SUFFICES ASSUME BriefInv, Messages!Tick PROVE BriefInv'
  OBVIOUS
<1>1. BriefTypes /\ UNCHANGED <<briefSession, cadence, opened>>
  BY DEF BriefInv, Messages!Tick
<1>2. /\ \A k \in Messages!Keys : last'[k] = Messages!Entered(k)
      /\ last' \in [Messages!Keys -> Messages!None .. MaxAge]
  BY EntryFacts DEF Messages!Tick
<1>3. /\ \A k \in Messages!Keys :
           was'[k] = IF Messages!Due(k) \in {"opened", "during"} THEN 0 ELSE was[k]
      /\ was' \in [Messages!Keys -> 0 .. MaxAge]
  BY <1>1, BriefNumbers DEF Messages!Tick, BriefTypes
<1>4. /\ \A k \in Messages!Keys :
           waiting'[k] = IF waiting[k] = Messages!None \/ Messages!Due(k) # "nothing" THEN 0 ELSE waiting[k]
      /\ waiting' \in [Messages!Keys -> Messages!None .. MaxAge]
  BY <1>1, BriefNumbers DEF Messages!Tick, BriefTypes, Messages!None
<1>5. /\ \A v \in Venues : briefOpen'[v] = IF v \in briefSession THEN "yes" ELSE "no"
      /\ briefOpen' \in [Venues -> {"yes", "no", "unknown"}]
  BY DEF Messages!Tick, Messages!Seen
<1>6. \A m \in queue' :
        /\ m \in Messages!Moments
        /\ m.what = "opened" => briefOpen[m.venue] = "no" /\ m.venue \in briefSession
  <2>1. ASSUME NEW m \in queue'
        PROVE  /\ m \in Messages!Moments
               /\ m.what = "opened" => briefOpen[m.venue] = "no" /\ m.venue \in briefSession
    <3>1. PICK k \in Messages!Keys : m = Messages!Moment(k, Messages!Due(k)) /\ Messages!Due(k) # "nothing"
      BY DEF Messages!Tick
    <3>2. Messages!Due(k) \in {"opened", "closed", "during"}
      BY <3>1 DEF Messages!Due
    <3>3. Messages!Due(k) = "opened" => briefOpen[k[2]] = "no" /\ k[2] \in briefSession
      BY DEF Messages!Due, Messages!Opens
    <3> QED
      BY <3>1, <3>2, <3>3, KeyParts DEF Messages!Moment, Messages!Moments
  <2> QED
    BY <2>1
<1>7. BriefTypes'
  BY <1>1, <1>2, <1>3, <1>4, <1>5, <1>6 DEF BriefTypes
<1>8. Unsent'
  <2> SUFFICES ASSUME NEW m \in queue', m.what = "opened"
               PROVE  briefOpen'[m.venue] = "yes" /\ ~ opened[<<m.account, m.venue>>]
    BY <1>1 DEF Unsent
  <2>1. <<m.account, m.venue>> \in Messages!Keys /\ m.venue \in Venues
    BY <1>6, MomentParts
  <2>2. briefOpen[m.venue] = "no" /\ m.venue \in briefSession
    BY <1>6
  <2> QED
    BY <1>5, <2>1, <2>2 DEF BriefInv, Told
<1>9. Told'
  BY <1>1, <1>5, KeyParts DEF Told
<1>10. Entries'
  <2> SUFFICES ASSUME NEW k \in Messages!Keys
               PROVE  /\ last'[k] <= was'[k]
                      /\ waiting'[k] # Messages!None /\ Messages!Hours(k) /\ k[2] \in briefSession =>
                           waiting'[k] <= last'[k]
    BY <1>1 DEF Entries, Messages!Hours
  <2>1. /\ last[k] \in Messages!None .. MaxAge /\ was[k] \in 0 .. MaxAge
        /\ waiting[k] \in Messages!None .. MaxAge
    BY <1>1 DEF BriefTypes
  <2>2. last'[k] <= was'[k]
    BY <1>2, <1>3, EntryFacts
  <2>3. ASSUME Messages!Hours(k), k[2] \in briefSession, waiting'[k] # 0
        PROVE  waiting'[k] <= last'[k]
    <3>1. waiting'[k] = waiting[k] /\ waiting[k] # Messages!None /\ Messages!Due(k) = "nothing"
      BY <1>4, <2>3
    <3>2. waiting[k] <= last[k]
      BY <2>3, <3>1 DEF BriefInv, Entries
    <3>3. last'[k] = Messages!Entered(k) /\ Messages!Entered(k) \in {0, Messages!Entry(k)}
      BY <1>2, <2>3, EntryFacts
    <3>4. Messages!Entered(k) = Messages!Entry(k)
      <4>1. Messages!Entered(k) = IF k[2] \in briefSession /\ Messages!Hours(k) THEN Messages!Entry(k) ELSE last[k]
        BY <3>1 DEF Messages!Entered
      <4> QED
        BY <2>3, <4>1
    <3>5. Messages!Entry(k) \in 0 .. MaxAge /\ last[k] <= Messages!Entry(k)
      BY EntryFacts
    <3> QED
      BY <2>1, <3>1, <3>2, <3>3, <3>4, <3>5, BriefNumbers DEF Messages!None
  <2>4. ASSUME Messages!Hours(k), k[2] \in briefSession, waiting'[k] = 0
        PROVE  waiting'[k] <= last'[k]
    <3>1. Messages!Entered(k) \in 0 .. MaxAge
      BY <2>4, EntryFacts, BriefNumbers
    <3> QED
      BY <2>4, <3>1, <1>2, BriefNumbers
  <2> QED
    BY <2>2, <2>3, <2>4
<1> QED
  BY <1>7, <1>8, <1>9, <1>10 DEF BriefInv

LEMMA BriefSend ==
  ASSUME BriefInv, NEW m \in queue, Messages!Send(m)
  PROVE  BriefInv'
<1> DEFINE key == <<m.account, m.venue>>
<1>1. BriefTypes /\ UNCHANGED <<briefSession, cadence, briefOpen, last, was, waiting>> /\ queue' = queue \ {m}
  BY DEF BriefInv, Messages!Send
<1>2. m \in Messages!Moments /\ key \in Messages!Keys
  BY <1>1, MomentParts DEF BriefTypes
<1>3. opened' = opened \/ opened' = [opened EXCEPT ![key] = opened[key] \/ m.what = "opened"]
  BY DEF Messages!Send
<1> HIDE DEF key
<1>4. /\ opened' \in [Messages!Keys -> BOOLEAN]
      /\ \A k \in Messages!Keys : opened'[k] => opened[k] \/ (k = key /\ m.what = "opened")
  BY <1>1, <1>2, <1>3 DEF BriefTypes
<1>5. BriefTypes'
  BY <1>1, <1>4 DEF BriefTypes
<1>6. Unsent'
  <2> SUFFICES ASSUME NEW x \in queue, x # m, x.what = "opened"
               PROVE  briefOpen[x.venue] = "yes" /\ ~ opened'[<<x.account, x.venue>>]
    BY <1>1 DEF Unsent
  <2>1. x \in Messages!Moments /\ <<x.account, x.venue>> \in Messages!Keys
    BY <1>1, MomentParts DEF BriefTypes
  <2>2. briefOpen[x.venue] = "yes" /\ ~ opened[<<x.account, x.venue>>]
    BY DEF BriefInv, Unsent
  <2>3. ASSUME <<x.account, x.venue>> = key, m.what = "opened" PROVE x = m
    BY <1>2, <2>1, <2>3, MomentParts DEF key
  <2> QED
    BY <1>4, <2>1, <2>2, <2>3
<1>7. Told'
  <2> SUFFICES ASSUME NEW k \in Messages!Keys, opened'[k], k[2] \in briefSession
               PROVE  briefOpen[k[2]] # "no"
    BY <1>1 DEF Told
  <2>1. CASE opened[k]
    BY <2>1 DEF BriefInv, Told
  <2>2. CASE k = key /\ m.what = "opened"
    <3>1. briefOpen[m.venue] = "yes"
      BY <2>2 DEF BriefInv, Unsent
    <3>2. k[2] = m.venue
      BY <2>2 DEF key
    <3> QED
      BY <3>1, <3>2
  <2> QED
    BY <1>4, <2>1, <2>2
<1>8. Entries'
  BY <1>1 DEF BriefInv, Entries, Messages!Hours
<1> QED
  BY <1>5, <1>6, <1>7, <1>8 DEF BriefInv

LEMMA BriefPasses == BriefInv /\ Messages!Passes => BriefInv'
<1> SUFFICES ASSUME BriefInv, Messages!Passes PROVE BriefInv'
  OBVIOUS
<1>1. BriefTypes /\ UNCHANGED <<briefSession, cadence, briefOpen, queue, opened>>
  BY DEF BriefInv, Messages!Passes
<1>2. /\ \A k \in Messages!Keys : /\ last'[k] = Messages!Aged(last[k])
                                  /\ was'[k] = Messages!Aged(was[k])
                                  /\ waiting'[k] = Messages!Aged(waiting[k])
      /\ last' \in [Messages!Keys -> Messages!None .. MaxAge]
      /\ was' \in [Messages!Keys -> 0 .. MaxAge]
      /\ waiting' \in [Messages!Keys -> Messages!None .. MaxAge]
  <2>1. \A n \in 0 .. MaxAge : n \in Messages!None .. MaxAge
    BY BriefNumbers DEF Messages!None
  <2> QED
    BY <1>1, <2>1, AgedFacts DEF Messages!Passes, BriefTypes
<1>3. BriefTypes'
  BY <1>1, <1>2 DEF BriefTypes
<1>4. Unsent' /\ Told'
  BY <1>1 DEF BriefInv, Unsent, Told
<1>5. Entries'
  <2> SUFFICES ASSUME NEW k \in Messages!Keys
               PROVE  /\ last'[k] <= was'[k]
                      /\ waiting'[k] # Messages!None /\ Messages!Hours(k) /\ k[2] \in briefSession =>
                           waiting'[k] <= last'[k]
    BY <1>1 DEF Entries, Messages!Hours
  <2>1. /\ last[k] \in Messages!None .. MaxAge /\ was[k] \in Messages!None .. MaxAge
        /\ waiting[k] \in Messages!None .. MaxAge
    BY <1>1, BriefNumbers DEF BriefTypes, Messages!None
  <2>2. last[k] <= was[k]
    BY DEF BriefInv, Entries
  <2>3. waiting[k] # Messages!None /\ Messages!Hours(k) /\ k[2] \in briefSession => waiting[k] <= last[k]
    BY DEF BriefInv, Entries
  <2> QED
    BY <1>2, <2>1, <2>2, <2>3, AgedFacts
<1> QED
  BY <1>3, <1>4, <1>5 DEF BriefInv

\* A change of session, cadence or conversation, and a restart.
BriefChanges ==
  \/ Messages!Restart
  \/ \E v \in Venues : Messages!Bell(v)
  \/ \E a \in Accounts : Messages!Choose(a)
  \/ \E a \in Accounts, c \in {Messages!Off, Messages!EdgesOnly} \union Every : Messages!Configure(a, c)

LEMMA BriefChange == BriefInv /\ BriefChanges => BriefInv'
<1> SUFFICES ASSUME BriefInv, BriefChanges PROVE BriefInv'
  OBVIOUS
<1>1. BriefTypes /\ Unsent /\ Told /\ Entries
  BY DEF BriefInv
<1>2. Messages!None \in Messages!None .. MaxAge /\ \A n \in 0 .. MaxAge : Messages!None <= n
  BY BriefNumbers DEF Messages!None
<1>3. CASE Messages!Restart
  <2>1. /\ briefOpen' = [v \in Venues |-> "unknown"] /\ queue' = {}
        /\ last' = [k \in Messages!Keys |-> Messages!None]
        /\ waiting' = [k \in Messages!Keys |-> Messages!None]
        /\ UNCHANGED <<briefSession, cadence, was, opened>>
    BY <1>3 DEF Messages!Restart
  <2>2. BriefTypes'
    BY <1>1, <1>2, <2>1 DEF BriefTypes
  <2>3. Unsent' /\ Told'
    BY <2>1, KeyParts DEF Unsent, Told
  <2>4. Entries'
    BY <1>1, <1>2, <2>1 DEF Entries, BriefTypes
  <2> QED
    BY <2>2, <2>3, <2>4 DEF BriefInv
<1>4. CASE \E v \in Venues : Messages!Bell(v)
  <2>1. PICK v \in Venues : Messages!Bell(v)
    BY <1>4
  <2>2. /\ opened' = [k \in Messages!Keys |-> IF k[2] = v THEN FALSE ELSE opened[k]]
        /\ waiting' = [k \in Messages!Keys |-> IF k[2] = v THEN Messages!None ELSE waiting[k]]
        /\ \A x : x # v => (x \in briefSession' <=> x \in briefSession)
        /\ UNCHANGED <<cadence, briefOpen, last, queue, was>>
    BY <2>1 DEF Messages!Bell
  <2>3. /\ opened' \in [Messages!Keys -> BOOLEAN]
        /\ waiting' \in [Messages!Keys -> Messages!None .. MaxAge]
        /\ \A k \in Messages!Keys : opened'[k] => opened[k] /\ k[2] # v
        /\ \A k \in Messages!Keys : waiting'[k] # Messages!None => waiting'[k] = waiting[k] /\ k[2] # v
    BY <1>1, <1>2, <2>2 DEF BriefTypes
  <2>4. BriefTypes'
    BY <1>1, <2>2, <2>3 DEF BriefTypes
  <2>5. Unsent'
    <3> SUFFICES ASSUME NEW m \in queue, m.what = "opened"
                 PROVE  briefOpen[m.venue] = "yes" /\ ~ opened'[<<m.account, m.venue>>]
      BY <2>2 DEF Unsent
    <3>1. <<m.account, m.venue>> \in Messages!Keys
      BY <1>1, MomentParts DEF BriefTypes
    <3> QED
      BY <1>1, <2>3, <3>1 DEF Unsent
  <2>6. Told'
    BY <1>1, <2>2, <2>3 DEF Told
  <2>7. Entries'
    BY <1>1, <2>2, <2>3 DEF Entries, Messages!Hours
  <2> QED
    BY <2>4, <2>5, <2>6, <2>7 DEF BriefInv
<1>5. CASE \E a \in Accounts : Messages!Choose(a)
  <2>1. UNCHANGED <<briefSession, cadence, briefOpen, last, queue, was, opened, waiting>>
    BY <1>5 DEF Messages!Choose
  <2> QED
    BY <1>1, <2>1 DEF BriefInv, BriefTypes, Unsent, Told, Entries, Messages!Hours
<1>6. CASE \E a \in Accounts, c \in {Messages!Off, Messages!EdgesOnly} \union Every : Messages!Configure(a, c)
  <2>1. PICK a \in Accounts, c \in {Messages!Off, Messages!EdgesOnly} \union Every : Messages!Configure(a, c)
    BY <1>6
  <2>2. /\ cadence' = [cadence EXCEPT ![a] = c]
        /\ waiting' = [k \in Messages!Keys |-> IF k[1] = a THEN Messages!None ELSE waiting[k]]
        /\ UNCHANGED <<briefSession, briefOpen, last, queue, was, opened>>
    BY <2>1 DEF Messages!Configure
  <2>3. /\ cadence' \in [Accounts -> {Messages!Off, Messages!EdgesOnly} \union Every]
        /\ \A b \in Accounts : b # a => cadence'[b] = cadence[b]
        /\ waiting' \in [Messages!Keys -> Messages!None .. MaxAge]
        /\ \A k \in Messages!Keys : waiting'[k] # Messages!None => waiting'[k] = waiting[k] /\ k[1] # a
    BY <1>1, <1>2, <2>2 DEF BriefTypes
  <2>4. BriefTypes' /\ Unsent' /\ Told'
    BY <1>1, <2>2, <2>3 DEF BriefTypes, Unsent, Told
  <2>5. Entries'
    BY <1>1, <2>2, <2>3, KeyParts DEF Entries, Messages!Hours
  <2> QED
    BY <2>4, <2>5 DEF BriefInv
<1> QED
  BY <1>3, <1>4, <1>5, <1>6 DEF BriefChanges

LEMMA BriefStep == BriefInv /\ (Messages!Next \/ UNCHANGED briefVars) => BriefInv'
<1> SUFFICES ASSUME BriefInv, Messages!Next \/ UNCHANGED briefVars PROVE BriefInv'
  OBVIOUS
<1>1. CASE Messages!Next
  BY <1>1, BriefTick, BriefPasses, BriefSend, BriefChange DEF Messages!Next, BriefChanges
<1>2. CASE UNCHANGED briefVars
  BY <1>2 DEF briefVars, BriefInv, BriefTypes, Unsent, Told, Entries, Messages!Hours
<1> QED
  BY <1>1, <1>2

\* What a tick sends and enters, seen from the properties.
LEMMA BriefShows ==
  ASSUME BriefInv, Messages!Next \/ UNCHANGED briefVars
  PROVE  /\ \A m \in queue \ queue' : m.what = "opened" => ~ opened[<<m.account, m.venue>>]
         /\ \A k \in Messages!Keys :
              Messages!Due(k) = "during" /\ (\A n \in Every : was[k] < n) => ~ Messages!Tick
         /\ \A k \in Messages!Keys :
              Messages!Hours(k) /\ k[2] \in briefSession /\ waiting'[k] >= cadence[k[1]] => ~ Messages!Tick
<1>1. \A m \in queue \ queue' : m.what = "opened" => ~ opened[<<m.account, m.venue>>]
  BY DEF BriefInv, Unsent
<1>2. ASSUME NEW k \in Messages!Keys, Messages!Due(k) = "during", \A n \in Every : was[k] < n
      PROVE  FALSE
  <2>1. cadence[k[1]] \in Every /\ Messages!Entry(k) >= cadence[k[1]]
    BY <1>2 DEF Messages!Due, Messages!Hours
  <2>2. Messages!Entry(k) \in 0 .. MaxAge /\ Messages!Entry(k) <= was[k] /\ was[k] \in 0 .. MaxAge
    BY <1>2, EntryFacts DEF BriefInv, BriefTypes
  <2> QED
    BY <1>2, <2>1, <2>2, BriefNumbers
<1>3. ASSUME NEW k \in Messages!Keys, Messages!Hours(k), k[2] \in briefSession,
             waiting'[k] >= cadence[k[1]], Messages!Tick
      PROVE  FALSE
  <2>1. cadence[k[1]] \in Every /\ cadence[k[1]] \in Nat /\ 1 <= cadence[k[1]]
    BY <1>3, BriefNumbers DEF Messages!Hours
  <2>2. waiting'[k] = IF waiting[k] = Messages!None \/ Messages!Due(k) # "nothing" THEN 0 ELSE waiting[k]
    BY <1>3 DEF Messages!Tick
  <2>3. waiting'[k] = waiting[k] /\ waiting[k] # Messages!None /\ Messages!Due(k) = "nothing"
    BY <1>3, <2>1, <2>2
  <2>4. waiting[k] <= last[k] /\ waiting[k] \in Messages!None .. MaxAge /\ last[k] \in Messages!None .. MaxAge
    BY <1>3, <2>3 DEF BriefInv, Entries, BriefTypes
  <2>5. Messages!Entry(k) \in 0 .. MaxAge /\ last[k] <= Messages!Entry(k)
    BY <1>3, EntryFacts
  <2>6. Messages!Entry(k) >= cadence[k[1]]
    BY <1>3, <2>1, <2>3, <2>4, <2>5, BriefNumbers DEF Messages!None
  <2>7. cadence[k[1]] # Messages!Off
    BY <2>1 DEF Messages!Off
  <2> QED
    BY <1>3, <2>3, <2>6, <2>7 DEF Messages!Due
<1> QED
  BY <1>1, <1>2, <1>3

\* on_tick and the briefings' Schedule, whatever the accounts, venues and cadences: an
\* opening is announced once in a session and only as news, an hourly briefing comes
\* neither sooner than the shortest cadence nor later than the account's own.
THEOREM NewsOnTime == Spec => OnTime
<1>1. Init => TickInv /\ BriefInv
  BY BriefStart DEF Init, Conditions!Init, TickInv
<1>2. TickInv /\ BriefInv /\ [Next]_vars => TickInv' /\ BriefInv'
  BY StepsOfOne, TickStep, BriefStep
<1>3. Spec => [](TickInv /\ BriefInv)
  BY <1>1, <1>2, PTL DEF Spec
<1>4. TickInv /\ [Next]_vars => [watchFired' \intersect Conditions!Edges # {} => watchNews]_Conditions!vars
  <2> SUFFICES ASSUME TickInv, [Next]_vars, watchFired' \intersect Conditions!Edges # {}, ~ UNCHANGED Conditions!vars
               PROVE  watchNews
    OBVIOUS
  <2>1. Conditions!Next
    BY StepsOfOne DEF watchVars, Conditions!vars
  <2> QED
    BY <2>1, TickStep
<1>5. BriefInv /\ [Next]_vars =>
        [\A m \in queue \ queue' : m.what = "opened" => ~ opened[<<m.account, m.venue>>]]_Messages!vars
  BY StepsOfOne, BriefShows
<1>6. BriefInv /\ [Next]_vars =>
        [\A k \in Messages!Keys :
           Messages!Due(k) = "during" /\ (\A n \in Every : was[k] < n) => ~ Messages!Tick]_Messages!vars
  BY StepsOfOne, BriefShows
<1>7. BriefInv /\ [Next]_vars =>
        [\A k \in Messages!Keys :
           Messages!Hours(k) /\ k[2] \in briefSession /\ waiting'[k] >= cadence[k[1]] => ~ Messages!Tick]_Messages!vars
  BY StepsOfOne, BriefShows
<1> QED
  BY <1>3, <1>4, <1>5, <1>6, <1>7, PTL
     DEF Spec, OnTime, Conditions!EdgesAreNews, Messages!OpensOnce, Messages!Spaced, Messages!NeverOverdue

-----------------------------------------------------------------------------
(* What is listed is watched. *)

\* A command that takes an alert out of the watcher.
Undoes(c, i) ==
  \/ c.cmd = "remove" /\ c.alert = i
  \/ c.cmd = "drop" /\ c.account = AccountOf[i]

\* An alert is armed when the commands on their way have come through.
Announced(i) ==
  \/ i \in armed /\ \A k \in DOMAIN cmds : ~ Undoes(cmds[k], i)
  \/ \E k \in DOMAIN cmds : /\ cmds[k].cmd = "upsert" /\ cmds[k].alert = i
                            /\ \A l \in DOMAIN cmds : l > k => ~ Undoes(cmds[l], i)

\* A one-shot that fired and left no event: what it said was held back, or is on its way.
Excused(i) == i \in Once /\ \E n \in 1 .. Len(fired) : fired[n].alert = i /\ events[n] = "none"

Current(i) == rows[i].state = "active" /\ rows[i].generation = generation[AccountOf[i]]

Listed == \A i \in AlertIds : Current(i) => calls[i].pc = "inserted" \/ Announced(i) \/ Excused(i)

\* One account is reset at a time; what is listed is of a generation the cache has reached.
Generations ==
  /\ \A a, b \in Accounts : resetting[a] # "no" /\ resetting[b] # "no" => a = b
  /\ \A a \in Accounts : /\ resetting[a] = "no" => cached[a] = generation[a]
                         /\ resetting[a] # "no" => cached[a] < generation[a]
  /\ \A i \in AlertIds :
       /\ calls[i].pc = "checked" => calls[i].generation <= cached[AccountOf[i]]
       /\ rows[i].state # "none" => rows[i].generation <= cached[AccountOf[i]]

\* The row of a one-shot is off by the time its firing is recorded.
MarkedOff ==
  /\ \A n \in Numbers : n > Len(fired) => events[n] = "none"
  /\ \A w \in workers : ~ Deliveries!IsDigest(w.f) /\ w.pc # "mark" /\ fired[w.f.n].alert \in Once
                          => rows[fired[w.f.n].alert].state # "active"

WatchedInv == Generations /\ MarkedOff /\ Listed

Calls == [AlertIds -> [pc : {"none", "checked", "inserted"}, generation : 0 .. MaxGeneration]]
Rows == [AlertIds -> [state : {"none", "active", "off"}, generation : 0 .. MaxGeneration, cool : 0 .. Cooldown]]

LEMMA AnnouncedMore ==
  ASSUME cmds \in Seq(Commands), NEW c \in Commands, cmds' = Append(cmds, c), armed' = armed, NEW i \in AlertIds
  PROVE  /\ Announced(i) /\ ~ Undoes(c, i) => Announced(i)'
         /\ c.cmd = "upsert" /\ c.alert = i => Announced(i)'
<1> DEFINE L == Len(cmds)
<1>1. /\ DOMAIN cmds = 1 .. L /\ DOMAIN cmds' = 1 .. L + 1 /\ L \in Nat
      /\ cmds'[L + 1] = c /\ \A k \in 1 .. L : cmds'[k] = cmds[k]
  OBVIOUS
<1>2. /\ L + 1 \in 1 .. L + 1 /\ \A k \in 1 .. L + 1 : k \in 1 .. L \/ k = L + 1
      /\ \A k \in 1 .. L + 1 : ~ (k > L + 1)
      /\ \A k \in 1 .. L : k \in 1 .. L + 1
  BY <1>1
<1> HIDE DEF L
<1>3. ASSUME c.cmd = "upsert", c.alert = i
      PROVE  Announced(i)'
  BY <1>1, <1>2, <1>3 DEF Announced
<1>4. ASSUME ~ Undoes(c, i), Announced(i)
      PROVE  Announced(i)'
  <2>1. \A l \in 1 .. L + 1 : Undoes(cmds'[l], i) => l \in 1 .. L /\ cmds'[l] = cmds[l]
    BY <1>1, <1>2, <1>4
  <2>2. CASE i \in armed /\ \A k \in DOMAIN cmds : ~ Undoes(cmds[k], i)
    <3>1. \A k \in DOMAIN cmds' : ~ Undoes(cmds'[k], i)
      BY <1>1, <2>1, <2>2
    <3> QED
      BY <2>2, <3>1 DEF Announced, Undoes
  <2>3. CASE \E k \in DOMAIN cmds : /\ cmds[k].cmd = "upsert" /\ cmds[k].alert = i
                                    /\ \A l \in DOMAIN cmds : l > k => ~ Undoes(cmds[l], i)
    <3>1. PICK k \in DOMAIN cmds : /\ cmds[k].cmd = "upsert" /\ cmds[k].alert = i
                                   /\ \A l \in DOMAIN cmds : l > k => ~ Undoes(cmds[l], i)
      BY <2>3
    <3>2. /\ k \in DOMAIN cmds' /\ cmds'[k].cmd = "upsert" /\ cmds'[k].alert = i
          /\ \A l \in DOMAIN cmds' : l > k => ~ Undoes(cmds'[l], i)
      BY <1>1, <1>2, <2>1, <3>1
    <3> QED
      BY <3>2 DEF Announced, Undoes
  <2> QED
    BY <1>4, <2>2, <2>3 DEF Announced
<1> QED
  BY <1>3, <1>4

\* A command that is carried out leaves armed what was to be.
LEMMA AnnouncedLess ==
  ASSUME SideTypes, Deliveries!Command, NEW i \in AlertIds, Announced(i)
  PROVE  Announced(i)'
<1>0. PICK c : c = Head(cmds)
  OBVIOUS
<1>1. /\ cmds # <<>> /\ cmds' = Tail(cmds) /\ cmds \in Seq(Commands)
      /\ armed' = CASE c.cmd = "upsert" -> armed \union {c.alert}
                    [] c.cmd = "remove" -> armed \ {c.alert}
                    [] c.cmd = "drop"   -> {j \in armed : AccountOf[j] # c.account}
  BY <1>0 DEF Deliveries!Command, SideTypes
<1> DEFINE L == Len(cmds)
<1>2. /\ DOMAIN cmds = 1 .. L /\ DOMAIN cmds' = 1 .. L - 1 /\ L \in Nat \ {0} /\ c = cmds[1] /\ c \in Commands
      /\ \A k \in 1 .. L - 1 : cmds'[k] = cmds[k + 1] /\ k + 1 \in 1 .. L
  BY <1>0, <1>1, TailFacts
<1> HIDE DEF L
<1>3. /\ \A k \in 1 .. L : k # 1 => k - 1 \in 1 .. L - 1 /\ cmds'[k - 1] = cmds[k]
      /\ \A k \in 1 .. L - 1 : k + 1 > 1
      /\ \A k \in 1 .. L, l \in 1 .. L - 1 : l > k - 1 => l + 1 > k
      /\ 1 \in 1 .. L
  BY <1>2
<1>4. c.cmd \in {"upsert", "remove", "drop"}
  BY <1>2, CommandFacts
<1>5. ~ Undoes(c, i) => (i \in armed => i \in armed') /\ (c.cmd = "upsert" /\ c.alert = i => i \in armed')
  BY <1>1, <1>4, DeliveryNumbers DEF Undoes
<1>6. CASE i \in armed /\ \A k \in DOMAIN cmds : ~ Undoes(cmds[k], i)
  <2>1. i \in armed'
    BY <1>2, <1>3, <1>5, <1>6
  <2>2. \A k \in DOMAIN cmds' : ~ Undoes(cmds'[k], i)
    BY <1>2, <1>6
  <2> QED
    BY <2>1, <2>2 DEF Announced, Undoes
<1>7. CASE \E k \in DOMAIN cmds : /\ cmds[k].cmd = "upsert" /\ cmds[k].alert = i
                                  /\ \A l \in DOMAIN cmds : l > k => ~ Undoes(cmds[l], i)
  <2>1. PICK k \in DOMAIN cmds : /\ cmds[k].cmd = "upsert" /\ cmds[k].alert = i
                                 /\ \A l \in DOMAIN cmds : l > k => ~ Undoes(cmds[l], i)
    BY <1>7
  <2>2. CASE k = 1
    <3>1. c.cmd = "upsert" /\ c.alert = i
      BY <1>2, <2>1, <2>2
    <3>2. i \in armed'
      BY <1>5, <3>1 DEF Undoes
    <3>3. \A l \in DOMAIN cmds' : ~ Undoes(cmds'[l], i)
      BY <1>2, <1>3, <2>1, <2>2
    <3> QED
      BY <3>2, <3>3 DEF Announced, Undoes
  <2>3. CASE k # 1
    <3>1. /\ k - 1 \in DOMAIN cmds' /\ cmds'[k - 1].cmd = "upsert" /\ cmds'[k - 1].alert = i
          /\ \A l \in DOMAIN cmds' : l > k - 1 => ~ Undoes(cmds'[l], i)
      BY <1>2, <1>3, <2>1, <2>3
    <3> QED
      BY <3>1 DEF Announced, Undoes
  <2> QED
    BY <2>2, <2>3
<1> QED
  BY <1>6, <1>7 DEF Announced

\* Steps that leave commands, rows and what fired alone.
LEMMA WatchedSame ==
  ASSUME WatchedInv, UNCHANGED <<generation, cached, resetting, calls, armed, cmds, fired, events>>,
         \A i \in AlertIds : rows'[i].state = rows[i].state /\ rows'[i].generation = rows[i].generation,
         \A w \in workers' : ~ Deliveries!IsDigest(w.f) /\ w.pc # "mark" /\ fired[w.f.n].alert \in Once => w \in workers
  PROVE  WatchedInv'
<1>1. \A i \in AlertIds : /\ Current(i)' => Current(i)
                          /\ Announced(i) => Announced(i)'
                          /\ Excused(i) => Excused(i)'
  BY DEF Current, Announced, Undoes, Excused
<1>2. Listed'
  BY <1>1 DEF WatchedInv, Listed
<1>3. Generations'
  BY DEF WatchedInv, Generations
<1>4. MarkedOff'
  BY DeliveryNumbers DEF WatchedInv, MarkedOff
<1> QED
  BY <1>2, <1>3, <1>4 DEF WatchedInv

LEMMA WatchedCall ==
  ASSUME WatchedInv, SideTypes, Created, LoopTypes, Known, CallSteps
  PROVE  WatchedInv'
<1>1. PICK i \in AlertIds : \/ Deliveries!CheckLimit(i) \/ Deliveries!InsertAlert(i)
                            \/ Deliveries!Upsert(i) \/ Deliveries!Deactivate(i)
  BY DEF CallSteps
<1>2. /\ calls \in Calls /\ rows \in Rows /\ cmds \in Seq(Commands)
      /\ AccountOf[i] \in Accounts /\ cached \in [Accounts -> 1 .. MaxGeneration]
      /\ generation \in [Accounts -> 1 .. MaxGeneration]
  BY DeliveryNumbers DEF SideTypes, Calls, Rows
<1>3. UNCHANGED <<generation, cached, resetting, armed, fired, events, workers>>
  BY <1>1 DEF Deliveries!CheckLimit, Deliveries!InsertAlert, Deliveries!Upsert, Deliveries!Deactivate,
     Deliveries!stored, Deliveries!memory, Deliveries!history
<1>4. \A j \in AlertIds : Excused(j)' <=> Excused(j)
  BY <1>3 DEF Excused
<1>5. Generations /\ MarkedOff /\ Listed
  BY DEF WatchedInv
<1>6. cached[AccountOf[i]] \in Nat /\ calls[i].generation \in Nat
  BY <1>2, DeliveryNumbers DEF Calls
<1>7. CASE Deliveries!CheckLimit(i)
  <2>1. /\ UNCHANGED <<rows, cmds>> /\ rows[i].state = "none"
        /\ calls' = [calls EXCEPT ![i] = [pc |-> "checked", generation |-> cached[AccountOf[i]]]]
    BY <1>7 DEF Deliveries!CheckLimit, Deliveries!stored, Deliveries!memory
  <2>2. /\ calls'[i].pc = "checked" /\ calls'[i].generation = cached[AccountOf[i]]
        /\ \A j \in AlertIds : j # i => calls'[j] = calls[j]
    BY <1>2, <2>1 DEF Calls
  <2>3. Generations'
    BY <1>3, <1>5, <1>6, <2>1, <2>2 DEF Generations
  <2>4. MarkedOff'
    BY <1>3, <1>5, <2>1 DEF MarkedOff
  <2>5. \A j \in AlertIds : /\ Current(j)' => Current(j) /\ j # i
                            /\ Announced(j) => Announced(j)'
    BY <1>3, <2>1 DEF Current, Announced, Undoes
  <2>6. Listed'
    BY <1>4, <1>5, <2>2, <2>5 DEF Listed
  <2> QED
    BY <2>3, <2>4, <2>6 DEF WatchedInv
<1>8. CASE Deliveries!InsertAlert(i)
  <2>1. /\ UNCHANGED cmds /\ calls[i].pc = "checked" /\ calls' = [calls EXCEPT ![i].pc = "inserted"]
        /\ rows' = [rows EXCEPT ![i] = [state |-> "active", generation |-> calls[i].generation, cool |-> 0]]
    BY <1>8 DEF Deliveries!InsertAlert, Deliveries!memory
  <2>2. calls'[i].pc = "inserted" /\ \A j \in AlertIds : j # i => calls'[j] = calls[j]
    BY <1>2, <2>1 DEF Calls
  <2>3. /\ rows'[i].generation = calls[i].generation /\ \A j \in AlertIds : j # i => rows'[j] = rows[j]
    BY <1>2, <2>1 DEF Rows
  <2>4. Generations'
    <3>1. calls[i].generation <= cached[AccountOf[i]]
      BY <1>5, <2>1 DEF Generations
    <3> QED
      BY <1>3, <1>5, <2>2, <2>3, <3>1 DEF Generations
  <2>5. ~ HasFired(i)
    BY <2>1 DEF Created
  <2>6. MarkedOff'
    <3>1. ASSUME NEW w \in workers, ~ Deliveries!IsDigest(w.f), w.pc # "mark", fired[w.f.n].alert \in Once
          PROVE  rows'[fired[w.f.n].alert].state # "active"
      <4>1. w.f.n \in 1 .. Len(fired)
        BY <3>1, CarriedHasFired
      <4>2. fired[w.f.n].alert # i
        BY <2>5, <4>1 DEF HasFired
      <4> QED
        BY <1>5, <2>3, <3>1, <4>2, DeliveryNumbers DEF MarkedOff
    <3> QED
      BY <1>3, <1>5, <3>1 DEF MarkedOff
  <2>7. \A j \in AlertIds : /\ j # i /\ Current(j)' => Current(j)
                            /\ Announced(j) => Announced(j)'
    BY <1>3, <2>1, <2>3 DEF Current, Announced, Undoes
  <2>8. Listed'
    BY <1>4, <1>5, <2>2, <2>7 DEF Listed
  <2> QED
    BY <2>4, <2>6, <2>8 DEF WatchedInv
<1>9. CASE Deliveries!Upsert(i)
  <2> DEFINE c == [cmd |-> "upsert", alert |-> i, account |-> AccountOf[i]]
  <2>1. UNCHANGED rows /\ calls' = [calls EXCEPT ![i] = Deliveries!NoCall] /\ cmds' = Append(cmds, c)
    BY <1>9 DEF Deliveries!Upsert
  <2>2. calls'[i].pc = "none" /\ \A j \in AlertIds : j # i => calls'[j] = calls[j]
    BY <1>2, <2>1 DEF Deliveries!NoCall, Calls
  <2>3. c \in Commands /\ c.cmd = "upsert" /\ c.alert = i
    BY <1>2, CommandsAre
  <2> HIDE DEF c
  <2>4. Announced(i)' /\ \A j \in AlertIds : Announced(j) => Announced(j)'
    <3>1. \A j : ~ Undoes(c, j)
      BY <2>3 DEF Undoes
    <3> QED
      BY <1>2, <1>3, <2>1, <2>3, <3>1, AnnouncedMore
  <2>5. Generations'
    BY <1>3, <1>5, <2>1, <2>2 DEF Generations
  <2>6. MarkedOff'
    BY <1>3, <1>5, <2>1 DEF MarkedOff
  <2>7. \A j \in AlertIds : Current(j)' => Current(j)
    BY <1>3, <2>1 DEF Current
  <2>8. Listed'
    BY <1>4, <1>5, <2>2, <2>4, <2>7 DEF Listed
  <2> QED
    BY <2>5, <2>6, <2>8 DEF WatchedInv
<1>10. CASE Deliveries!Deactivate(i)
  <2> DEFINE c == [cmd |-> "remove", alert |-> i, account |-> AccountOf[i]]
  <2>1. /\ UNCHANGED calls /\ rows[i].state = "active" /\ rows' = [rows EXCEPT ![i].state = "off"]
        /\ cmds' = Append(cmds, c)
    BY <1>10 DEF Deliveries!Deactivate, Deliveries!CurrentAlerts
  <2>2. /\ rows'[i].state = "off" /\ rows'[i].generation = rows[i].generation
        /\ \A j \in AlertIds : j # i => rows'[j] = rows[j]
    BY <1>2, <2>1 DEF Rows
  <2>3. c \in Commands /\ c.cmd = "remove" /\ c.alert = i
    BY <1>2, CommandsAre
  <2> HIDE DEF c
  <2>4. \A j \in AlertIds : j # i /\ Announced(j) => Announced(j)'
    <3>1. \A j : j # i => ~ Undoes(c, j)
      BY <2>3 DEF Undoes
    <3> QED
      BY <1>2, <1>3, <2>1, <2>3, <3>1, AnnouncedMore
  <2>5. Generations'
    BY <1>3, <1>5, <2>1, <2>2 DEF Generations
  <2>6. MarkedOff'
    BY <1>3, <1>5, <2>2, DeliveryNumbers DEF MarkedOff
  <2>7. \A j \in AlertIds : Current(j)' => Current(j) /\ j # i
    BY <1>3, <2>2 DEF Current
  <2>8. Listed'
    BY <1>4, <1>5, <2>1, <2>4, <2>7 DEF Listed
  <2> QED
    BY <2>5, <2>6, <2>8 DEF WatchedInv
<1> QED
  BY <1>1, <1>7, <1>8, <1>9, <1>10

LEMMA WatchedAccount ==
  ASSUME WatchedInv, SideTypes, AccountSteps,
         \A a, b \in Accounts : resetting'[a] # "no" /\ resetting'[b] # "no" => a = b
  PROVE  WatchedInv'
<1>1. PICK a \in Accounts : \/ Deliveries!ChooseSession(a) \/ Deliveries!ResetStore(a) \/ Deliveries!DropAccount(a)
                            \/ Deliveries!ReloadAccounts(a) \/ Deliveries!BrokerFill(a)
  BY DEF AccountSteps
<1>2. UNCHANGED <<rows, calls, armed, events, fired, workers>>
  BY <1>1 DEF Deliveries!ChooseSession, Deliveries!ResetStore, Deliveries!DropAccount, Deliveries!ReloadAccounts,
     Deliveries!BrokerFill, Deliveries!stored, Deliveries!memory, Deliveries!history
<1>3. /\ Generations /\ MarkedOff /\ Listed /\ MarkedOff'
      /\ \A i \in AlertIds : Excused(i)' <=> Excused(i)
  BY <1>2 DEF WatchedInv, MarkedOff, Excused
<1>4. /\ rows \in Rows /\ calls \in Calls /\ cmds \in Seq(Commands)
      /\ cached \in [Accounts -> 1 .. MaxGeneration] /\ generation \in [Accounts -> 1 .. MaxGeneration]
      /\ resetting \in [Accounts -> {"no", "stored", "dropped"}]
      /\ \A i \in AlertIds : AccountOf[i] \in Accounts
  BY DeliveryNumbers DEF SideTypes, Calls, Rows
<1>5. /\ \A b \in Accounts : cached[b] \in Int /\ generation[b] \in Int
      /\ \A i \in AlertIds : rows[i].generation \in Int /\ calls[i].generation \in Int
  BY <1>4, DeliveryNumbers DEF Rows, Calls
<1>6. CASE Deliveries!ChooseSession(a) \/ Deliveries!BrokerFill(a)
  <2>1. UNCHANGED <<generation, cached, resetting, cmds>>
    BY <1>6 DEF Deliveries!ChooseSession, Deliveries!BrokerFill, Deliveries!stored, Deliveries!memory
  <2> QED
    BY <1>2, <2>1, WatchedSame
<1>7. CASE Deliveries!ResetStore(a)
  <2>1. /\ UNCHANGED <<cached, cmds>> /\ resetting' = [resetting EXCEPT ![a] = "stored"] /\ resetting[a] = "no"
        /\ generation' = [generation EXCEPT ![a] = generation[a] + 1]
    BY <1>7 DEF Deliveries!ResetStore, Deliveries!memory
  <2>2. /\ generation'[a] = generation[a] + 1 /\ resetting'[a] = "stored" /\ cached[a] = generation[a]
        /\ \A b \in Accounts : b # a => generation'[b] = generation[b] /\ resetting'[b] = resetting[b]
    BY <1>3, <1>4, <2>1 DEF Generations
  <2>3. Generations'
    BY <1>2, <1>3, <1>5, <2>1, <2>2 DEF Generations
  <2>4. \A i \in AlertIds : Current(i)' => Current(i)
    BY <1>2, <1>3, <1>4, <1>5, <2>2 DEF Current, Generations
  <2>5. \A i \in AlertIds : Announced(i) => Announced(i)'
    BY <1>2, <2>1 DEF Announced, Undoes
  <2>6. Listed'
    BY <1>2, <1>3, <2>4, <2>5 DEF Listed
  <2> QED
    BY <1>3, <2>3, <2>6 DEF WatchedInv
<1>8. CASE Deliveries!DropAccount(a)
  <2> DEFINE c == [cmd |-> "drop", account |-> a]
  <2>1. /\ UNCHANGED <<generation, cached>> /\ cmds' = Append(cmds, c)
        /\ resetting[a] = "stored" /\ resetting' = [resetting EXCEPT ![a] = "dropped"]
    BY <1>8 DEF Deliveries!DropAccount, Deliveries!stored
  <2>2. /\ resetting'[a] = "dropped" /\ cached[a] < generation[a]
        /\ \A b \in Accounts : b # a => resetting'[b] = resetting[b]
    BY <1>3, <1>4, <2>1 DEF Generations
  <2>3. Generations'
    BY <1>2, <1>3, <2>1, <2>2 DEF Generations
  <2>4. \A i \in AlertIds : Current(i)' => Current(i) /\ AccountOf[i] # a
    <3>1. \A i \in AlertIds : Current(i)' <=> Current(i)
      BY <1>2, <2>1 DEF Current
    <3> SUFFICES ASSUME NEW i \in AlertIds, Current(i), AccountOf[i] = a PROVE FALSE
      BY <3>1
    <3>2. rows[i].state = "active" /\ rows[i].generation = generation[a]
      BY DEF Current
    <3>3. rows[i].generation <= cached[a]
      BY <1>3, <3>2 DEF Generations
    <3> QED
      BY <1>5, <2>2, <3>2, <3>3
  <2>5. c \in Commands /\ \A i : AccountOf[i] # a => ~ Undoes(c, i)
    BY CommandsAre DEF Undoes
  <2> HIDE DEF c
  <2>6. \A i \in AlertIds : AccountOf[i] # a /\ Announced(i) => Announced(i)'
    BY <1>2, <1>4, <2>1, <2>5, AnnouncedMore
  <2>7. Listed'
    BY <1>2, <1>3, <2>4, <2>6 DEF Listed
  <2> QED
    BY <1>3, <2>3, <2>7 DEF WatchedInv
<1>9. CASE Deliveries!ReloadAccounts(a)
  <2>1. /\ UNCHANGED <<generation, cmds>> /\ cached' = generation
        /\ resetting[a] = "dropped" /\ resetting' = [resetting EXCEPT ![a] = "no"]
    BY <1>9 DEF Deliveries!ReloadAccounts, Deliveries!stored
  <2>2. /\ resetting'[a] = "no" /\ cached[a] < generation[a]
        /\ \A b \in Accounts : b # a => resetting'[b] = "no" /\ cached[b] = generation[b]
    BY <1>3, <1>4, <2>1 DEF Generations
  <2>3. \A b \in Accounts : resetting'[b] = "no" /\ cached[b] <= cached'[b]
    BY <1>5, <2>1, <2>2
  <2>4. Generations'
    <3>1. \A i \in AlertIds :
            /\ calls[i].pc = "checked" => calls[i].generation <= cached'[AccountOf[i]]
            /\ rows[i].state # "none" => rows[i].generation <= cached'[AccountOf[i]]
      BY <1>3, <1>4, <1>5, <2>1, <2>3 DEF Generations
    <3> QED
      BY <1>2, <2>1, <2>3, <3>1 DEF Generations
  <2>5. \A i \in AlertIds : (Current(i)' => Current(i)) /\ (Announced(i) => Announced(i)')
    BY <1>2, <2>1 DEF Current, Announced, Undoes
  <2>6. Listed'
    BY <1>2, <1>3, <2>5 DEF Listed
  <2> QED
    BY <1>3, <2>4, <2>6 DEF WatchedInv
<1> QED
  BY <1>1, <1>6, <1>7, <1>8, <1>9

LEMMA WatchedFire ==
  ASSUME WatchedInv, SideTypes, Placed, FireSteps
  PROVE  WatchedInv'
<1>1. /\ UNCHANGED <<workers, generation, cached, resetting, rows, calls, cmds, events>>
      /\ LoopTypes /\ Known
  BY FiringStep, FireStepFacts DEF Placed
<1>2. PICK S \in SUBSET armed, N \in Nat :
        /\ Len(fired') = Len(fired) + N /\ Len(fired) + N <= MaxFirings
        /\ \A n \in 1 .. Len(fired) : fired'[n] = fired[n]
        /\ \A i \in S : \E k \in 1 .. N : fired'[Len(fired) + k].alert = i
        /\ armed' = armed \ (S \cap Once)
  BY FiringStep
<1> DEFINE L == Len(fired)
<1>3. /\ L \in Nat /\ L + N <= MaxFirings /\ Len(fired') = L + N
      /\ \A n \in 1 .. L : n \in 1 .. L + N
      /\ \A k \in 1 .. N : L + k \in 1 .. L + N /\ L + k \in Numbers /\ L + k > L
      /\ \A n \in Numbers : n > L + N => n > L
  BY <1>1, <1>2, DeliveryNumbers DEF LoopTypes, Numbers
<1>4. Generations'
  BY <1>1 DEF WatchedInv, Generations
<1>5. MarkedOff'
  <2>1. \A w \in workers : ~ Deliveries!IsDigest(w.f) => fired'[w.f.n] = fired[w.f.n]
    BY <1>1, <1>2, CarriedHasFired
  <2>2. \A n \in Numbers : n > Len(fired') => events'[n] = "none"
    BY <1>1, <1>3 DEF WatchedInv, MarkedOff
  <2> QED
    BY <1>1, <2>1, <2>2 DEF WatchedInv, MarkedOff
<1>6. ASSUME NEW i \in AlertIds, Excused(i)
      PROVE  Excused(i)'
  BY <1>1, <1>2, <1>3, <1>6 DEF Excused
<1>7. ASSUME NEW i \in AlertIds, Announced(i), ~ Announced(i)'
      PROVE  Excused(i)'
  <2>1. i \in armed /\ i \notin armed'
    BY <1>1, <1>7 DEF Announced, Undoes
  <2>2. i \in S /\ i \in Once
    BY <1>2, <2>1
  <2>3. PICK k \in 1 .. N : fired'[L + k].alert = i
    BY <1>2, <2>2
  <2>4. events'[L + k] = "none" /\ L + k \in 1 .. Len(fired')
    BY <1>1, <1>3 DEF WatchedInv, MarkedOff
  <2> QED
    BY <2>2, <2>3, <2>4 DEF Excused
<1>8. Listed'
  BY <1>1, <1>6, <1>7 DEF WatchedInv, Listed, Current
<1> QED
  BY <1>4, <1>5, <1>8 DEF WatchedInv

LEMMA MarkedRow ==
  ASSUME NEW r \in [state : {"none", "active", "off"}, generation : 0 .. MaxGeneration, cool : 0 .. Cooldown], NEW i
  PROVE  LET v == Deliveries!Marked(r, i) IN
         /\ v.generation = r.generation
         /\ v.state = IF r.state = "active" /\ i \in Once THEN "off" ELSE r.state
<1> DEFINE u == [r EXCEPT !.cool = Cooldown]
           s == IF r.state = "active" /\ i \in Once THEN "off" ELSE r.state
           v == [u EXCEPT !.state = s]
<1>1. /\ u \in [state : {"none", "active", "off"}, generation : 0 .. MaxGeneration, cool : 0 .. Cooldown]
      /\ u.state = r.state /\ u.generation = r.generation
  BY DeliveryNumbers
<1>2. Deliveries!Marked(r, i) = v
  BY DEF Deliveries!Marked
<1> HIDE DEF u, s
<1>3. v.state = s /\ v.generation = r.generation
  BY <1>1
<1> HIDE DEF v
<1> QED
  BY <1>2, <1>3 DEF s

\* A worker that stores the firing turns the row of a one-shot off.
LEMMA WatchedMark ==
  ASSUME WatchedInv, SideTypes, Placed, NEW w \in workers, Deliveries!MarkFired(w)
  PROVE  WatchedInv'
<1> DEFINE j == fired[w.f.n].alert
<1>1. /\ UNCHANGED <<generation, cached, resetting, calls, armed, cmds, fired, events>>
      /\ rows' = [rows EXCEPT ![j] = Deliveries!Marked(rows[j], j)]
      /\ workers' = (workers \ {w}) \cup {[w EXCEPT !.pc = "wait", !.attempt = 1]}
      /\ w.pc = "mark"
  BY DEF Deliveries!MarkFired, Deliveries!Become, Deliveries!history, Deliveries!AlertOf
<1>2. ~ Deliveries!IsDigest(w.f)
  BY <1>1 DEF Placed, StagesOK
<1>3. /\ w.f.n \in 1 .. Len(fired) /\ fired \in Seq(Hits) /\ w \in Deliveries!AnyWorker
      /\ rows \in Rows
  BY <1>2, CarriedHasFired DEF Placed, LoopTypes, SideTypes, Rows
<1>4. j \in AlertIds
  <2>1. fired[w.f.n] \in Hits
    BY <1>3
  <2> QED
    BY <2>1 DEF Hits
<1> HIDE DEF j
<1>5. /\ rows'[j].generation = rows[j].generation
      /\ rows'[j].state = IF rows[j].state = "active" /\ j \in Once THEN "off" ELSE rows[j].state
      /\ \A i \in AlertIds : i # j => rows'[i] = rows[i]
  <2>1. rows[j] \in [state : {"none", "active", "off"}, generation : 0 .. MaxGeneration, cool : 0 .. Cooldown]
    BY <1>3, <1>4 DEF Rows
  <2>2. rows'[j] = Deliveries!Marked(rows[j], j) /\ \A i \in AlertIds : i # j => rows'[i] = rows[i]
    BY <1>1, <1>3, <1>4 DEF Rows
  <2> QED
    BY <2>1, <2>2, MarkedRow
<1>6. Generations'
  BY <1>1, <1>5 DEF WatchedInv, Generations
<1>7. MarkedOff'
  <2>1. ASSUME NEW v \in workers', ~ Deliveries!IsDigest(v.f), v.pc # "mark", fired[v.f.n].alert \in Once
        PROVE  rows'[fired[v.f.n].alert].state # "active"
    <3>1. CASE v \in workers
      BY <1>5, <2>1, <3>1, DeliveryNumbers DEF WatchedInv, MarkedOff
    <3>2. CASE v = [w EXCEPT !.pc = "wait", !.attempt = 1]
      <4>1. v.f = w.f
        BY <1>3, <3>2 DEF Deliveries!AnyWorker
      <4>2. j \in Once
        BY <2>1, <4>1 DEF j
      <4>3. rows'[j].state # "active"
        BY <1>5, <4>2
      <4> QED
        BY <4>1, <4>3 DEF j
    <3> QED
      BY <1>1, <2>1, <3>1, <3>2
  <2> QED
    BY <1>1, <2>1 DEF WatchedInv, MarkedOff
<1>8. \A i \in AlertIds : /\ Current(i)' => Current(i)
                          /\ Announced(i) => Announced(i)'
                          /\ Excused(i) => Excused(i)'
  BY <1>1, <1>5 DEF Current, Announced, Undoes, Excused
<1>9. Listed'
  BY <1>1, <1>8 DEF WatchedInv, Listed
<1> QED
  BY <1>6, <1>7, <1>9 DEF WatchedInv

\* What a worker does after that.
LEMMA WatchedWork ==
  ASSUME WatchedInv, SideTypes, Placed, NEW w \in workers,
         Deliveries!Record(w) \/ Deliveries!NoSession(w) \/ Deliveries!Send(w) \/ Deliveries!Lock(w)
  PROVE  WatchedInv'
<1>1. /\ UNCHANGED <<rows, generation, cached, resetting, calls, armed, cmds, fired>>
      /\ w.pc # "mark"
      /\ \A v \in workers' : v \in workers \/ v.f = w.f
  <2>1. w \in Deliveries!AnyWorker
    BY DEF Placed, LoopTypes
  <2>2. /\ [w EXCEPT !.pc = "send", !.attempt = 1].f = w.f
        /\ [w EXCEPT !.pc = "record", !.attempt = 1].f = w.f
    BY <2>1 DEF Deliveries!AnyWorker
  <2>3. /\ UNCHANGED <<rows, generation, cached, resetting, calls, armed, cmds, fired>>
        /\ w.pc \in {"record", "send", "resend", "wait"}
    BY DEF Deliveries!Record, Deliveries!NoSession, Deliveries!Send, Deliveries!Lock, Deliveries!Ready,
       Deliveries!stored, Deliveries!history
  <2>4. \/ workers' = workers \ {w}
        \/ workers' = (workers \ {w}) \cup {[w EXCEPT !.pc = "send", !.attempt = 1]}
        \/ workers' = (workers \ {w}) \cup {[w EXCEPT !.pc = "record", !.attempt = 1]}
    <3>1. CASE Deliveries!Record(w)
      BY <3>1 DEF Deliveries!Record, Deliveries!Become
    <3>2. CASE Deliveries!NoSession(w) \/ Deliveries!Send(w)
      BY <3>2 DEF Deliveries!NoSession, Deliveries!Send, Deliveries!Finish
    <3>3. CASE Deliveries!Lock(w)
      BY <3>3 DEF Deliveries!Lock, Deliveries!Become
    <3> QED
      BY <3>1, <3>2, <3>3
  <2> QED
    BY <2>2, <2>3, <2>4
<1>2. /\ LoopTypes /\ Known /\ events \in [Numbers -> {"none", "undelivered", "delivered"}]
  BY DEF Placed, LoopTypes
<1>3. /\ ~ Deliveries!IsDigest(w.f) => w.f.n \in 1 .. Len(fired)
      /\ Deliveries!IsDigest(w.f) => events' = events
      /\ \A n \in Numbers : n # w.f.n => events'[n] = events[n]
  <2>1. \/ UNCHANGED events
        \/ ~ Deliveries!IsDigest(w.f) /\ \E x : events' = [events EXCEPT ![w.f.n] = x]
    <3>1. Deliveries!Record(w) => ~ Deliveries!IsDigest(w.f)
      BY DEF Deliveries!Record, Placed, StagesOK
    <3> QED
      BY <3>1 DEF Deliveries!Record, Deliveries!NoSession, Deliveries!Send, Deliveries!Lock, Deliveries!stored
  <2> QED
    BY <1>2, <2>1, CarriedHasFired
<1>4. Generations'
  BY <1>1 DEF WatchedInv, Generations
<1>5. MarkedOff'
  <2>1. Len(fired) \in Nat /\ Len(fired) <= MaxFirings
    BY <1>2 DEF LoopTypes
  <2>2. \A n \in Numbers : n > Len(fired) => events'[n] = "none"
    <3>1. \A n \in Numbers : n > Len(fired) => n # w.f.n \/ Deliveries!IsDigest(w.f)
      BY <1>3, <2>1 DEF Numbers
    <3> QED
      BY <1>3, <3>1 DEF WatchedInv, MarkedOff
  <2>3. \A v \in workers' : ~ Deliveries!IsDigest(v.f) /\ v.pc # "mark" /\ fired[v.f.n].alert \in Once
                              => rows[fired[v.f.n].alert].state # "active"
    BY <1>1 DEF WatchedInv, MarkedOff
  <2> QED
    BY <1>1, <2>2, <2>3 DEF MarkedOff
<1>6. ASSUME NEW i \in AlertIds, Current(i), Excused(i)
      PROVE  Excused(i)'
  <2>1. PICK n \in 1 .. Len(fired) : fired[n].alert = i /\ events[n] = "none"
    BY <1>6 DEF Excused
  <2>2. n \in Numbers
    BY <1>2, DeliveryNumbers DEF LoopTypes, Numbers
  <2>3. n # w.f.n \/ Deliveries!IsDigest(w.f)
    BY <1>1, <1>6, <2>1 DEF WatchedInv, MarkedOff, Excused, Current
  <2>4. events'[n] = "none"
    BY <1>3, <2>1, <2>2, <2>3
  <2> QED
    BY <1>1, <1>6, <2>1, <2>4 DEF Excused
<1>7. \A i \in AlertIds : (Current(i)' => Current(i)) /\ (Announced(i) => Announced(i)')
  BY <1>1 DEF Current, Announced, Undoes
<1>8. Listed'
  BY <1>1, <1>6, <1>7 DEF WatchedInv, Listed
<1> QED
  BY <1>4, <1>5, <1>8 DEF WatchedInv

\* A restarted watcher has armed what is listed, and the cache is the store's.
LEMMA WatchedRestart ==
  ASSUME WatchedInv, SideTypes, Deliveries!Restart
  PROVE  WatchedInv'
<1>1. /\ UNCHANGED <<generation, rows, events, fired>> /\ cached' = generation
      /\ resetting' = [a \in Accounts |-> "no"] /\ calls' = [i \in AlertIds |-> Deliveries!NoCall]
      /\ armed' = {i \in AlertIds : Deliveries!Loaded(i)} /\ cmds' = <<>> /\ workers' = {}
  BY DEF Deliveries!Restart, Deliveries!stored
<1>2. /\ \A a \in Accounts : resetting'[a] = "no"
      /\ \A i \in AlertIds : calls'[i].pc = "none"
      /\ \A i \in AlertIds : rows[i].generation \in Int /\ AccountOf[i] \in Accounts
      /\ \A a \in Accounts : cached[a] \in Int /\ generation[a] \in Int
  BY <1>1, DeliveryNumbers DEF Deliveries!NoCall, SideTypes
<1>3. \A a \in Accounts : cached[a] <= generation[a]
  BY <1>2 DEF WatchedInv, Generations
<1>4. Generations'
  BY <1>1, <1>2, <1>3 DEF WatchedInv, Generations
<1>5. MarkedOff'
  BY <1>1 DEF WatchedInv, MarkedOff
<1>6. \A i \in AlertIds : Current(i)' => Announced(i)'
  BY <1>1 DEF Current, Announced, Deliveries!Loaded
<1>7. Listed'
  BY <1>6 DEF Listed
<1> QED
  BY <1>4, <1>5, <1>7 DEF WatchedInv

CalmWork == \E w \in workers : Deliveries!Works(w) \/ Deliveries!Lock(w)

LEMMA CalmCases ==
  ASSUME Deliveries!Calm
  PROVE  \/ CallSteps \/ AccountSteps \/ Deliveries!Command \/ Deliveries!Lagged
         \/ FireSteps \/ Deliveries!Flush \/ Deliveries!Dispatch \/ CalmWork
         \/ Deliveries!Age \/ Deliveries!Restart
BY DEF Deliveries!Calm, CallSteps, AccountSteps, FireSteps, CalmWork

LEMMA WatchedStep ==
  ASSUME WatchedInv, AlertInv,
         \/ /\ Deliveries!Calm
            /\ \A a, b \in Accounts : resetting'[a] # "no" /\ resetting'[b] # "no" => a = b
         \/ UNCHANGED alertVars
  PROVE  WatchedInv'
<1>0. SideTypes /\ Placed /\ LoopTypes /\ Known /\ Created
  BY DEF AlertInv, Placed
<1>1. CASE UNCHANGED alertVars
  <2>1. UNCHANGED <<generation, cached, resetting, calls, armed, cmds, fired, events, rows, workers>>
    BY <1>1 DEF alertVars
  <2> QED
    BY <2>1, WatchedSame
<1>2. CASE CallSteps
  BY <1>0, <1>2, WatchedCall
<1>3. CASE /\ AccountSteps
           /\ \A a, b \in Accounts : resetting'[a] # "no" /\ resetting'[b] # "no" => a = b
  BY <1>0, <1>3, WatchedAccount
<1>4. CASE Deliveries!Command
  <2>1. UNCHANGED <<generation, cached, resetting, calls, rows, fired, events, workers>>
    BY <1>4 DEF Deliveries!Command, Deliveries!stored, Deliveries!history
  <2>2. \A i \in AlertIds : /\ Current(i)' => Current(i)
                            /\ Announced(i) => Announced(i)'
                            /\ Excused(i) => Excused(i)'
    BY <1>0, <1>4, <2>1, AnnouncedLess DEF Current, Excused
  <2>3. Listed'
    BY <2>1, <2>2 DEF WatchedInv, Listed
  <2>4. Generations' /\ MarkedOff'
    BY <2>1 DEF WatchedInv, Generations, MarkedOff
  <2> QED
    BY <2>3, <2>4 DEF WatchedInv
<1>5. CASE Deliveries!Lagged \/ Deliveries!Flush
  <2>1. UNCHANGED <<generation, cached, resetting, calls, armed, cmds, fired, events, rows, workers>>
    BY <1>5 DEF Deliveries!Lagged, Deliveries!Flush, Deliveries!stored, Deliveries!history
  <2> QED
    BY <2>1, WatchedSame
<1>6. CASE FireSteps
  BY <1>0, <1>6, WatchedFire
<1>7. CASE Deliveries!Dispatch
  <2> DEFINE f == Head(firings)
  <2>1. /\ UNCHANGED <<generation, cached, resetting, calls, armed, cmds, fired, events, rows>>
        /\ Deliveries!Spawn(f) \/ UNCHANGED workers
    BY <1>7, DispatchFacts
  <2> HIDE DEF f
  <2>2. \A v \in workers' : v \in workers \/ v = Deliveries!Worker(f, IF Deliveries!IsDigest(f) THEN "wait" ELSE "mark")
    BY <2>1 DEF Deliveries!Spawn
  <2>3. \A v \in workers' : ~ Deliveries!IsDigest(v.f) /\ v.pc # "mark" => v \in workers
    BY <2>2 DEF Deliveries!Worker
  <2> QED
    BY <2>1, <2>3, WatchedSame
<1>8. CASE CalmWork
  BY <1>0, <1>8, WatchedMark, WatchedWork DEF CalmWork, Deliveries!Works
<1>9. CASE Deliveries!Age
  <2>1. UNCHANGED <<generation, cached, resetting, calls, armed, cmds, fired, events, workers>>
    BY <1>9 DEF Deliveries!Age
  <2>2. \A i \in AlertIds : rows'[i].generation = rows[i].generation
    <3>1. rows \in Rows
      BY <1>0 DEF SideTypes, Rows
    <3>2. rows' = [i \in AlertIds |-> [rows[i] EXCEPT !.cool = Deliveries!Sooner(rows[i].cool)]]
      BY <1>9 DEF Deliveries!Age
    <3> QED
      BY <3>1, <3>2 DEF Rows
  <2>3. \A i \in AlertIds : rows'[i].state = rows[i].state
    BY <1>0, <1>9, RowsAge
  <2> QED
    BY <2>1, <2>2, <2>3, WatchedSame
<1>10. CASE Deliveries!Restart
  BY <1>0, <1>10, WatchedRestart
<1> QED
  BY <1>1, <1>2, <1>3, <1>4, <1>5, <1>6, <1>7, <1>8, <1>9, <1>10, CalmCases

LEMMA WatchedStart == Deliveries!Init => WatchedInv
<1> SUFFICES ASSUME Deliveries!Init PROVE WatchedInv
  OBVIOUS
<1>1. /\ generation = [a \in Accounts |-> 1] /\ cached = [a \in Accounts |-> 1] /\ workers = {}
      /\ resetting = [a \in Accounts |-> "no"] /\ rows = [i \in AlertIds |-> Deliveries!NoRow]
      /\ calls = [i \in AlertIds |-> Deliveries!NoCall] /\ events = [n \in Numbers |-> "none"]
  BY DEF Deliveries!Init, Numbers
<1> QED
  BY <1>1 DEF WatchedInv, Generations, MarkedOff, Listed, Current, Deliveries!NoRow, Deliveries!NoCall

LEMMA ListedShows == WatchedInv => Deliveries!ListedIsWatched
<1> SUFFICES ASSUME WatchedInv, Deliveries!Quiet, NEW a \in Accounts, NEW i \in Deliveries!CurrentAlerts(a)
             PROVE  \/ i \in armed
                    \/ i \in Once /\ \E n \in 1 .. Len(fired) : Deliveries!AlertOf(n) = i /\ events[n] = "none"
  BY DEF Deliveries!ListedIsWatched
<1>1. i \in AlertIds /\ AccountOf[i] = a /\ rows[i].state = "active" /\ rows[i].generation = cached[a]
  BY DEF Deliveries!CurrentAlerts
<1>2. cached[a] = generation[a] /\ calls[i].pc = "none" /\ cmds = <<>>
  BY <1>1 DEF Deliveries!Quiet, WatchedInv, Generations
<1>3. Announced(i) \/ Excused(i)
  BY <1>1, <1>2 DEF WatchedInv, Listed, Current
<1> QED
  BY <1>2, <1>3 DEF Announced, Excused, Deliveries!AlertOf

-----------------------------------------------------------------------------
(* Prints within a window. *)

Prints == Seq(Conditions!AnyPrint)

LEMMA WatchNumbers ==
  /\ Kinds \subseteq Conditions!OfInstrument \union Conditions!Edges \union {"order_filled"}
  /\ \A k \in Kinds : Window[k] \in 1 .. MaxWindow
  /\ Prices \subseteq Nat /\ Qtys \subseteq Nat /\ MaxWindow \in Nat /\ MaxLate \in Nat
  /\ Rest \in Nat \ {0} /\ MaxLate <= MaxWindow
BY ConditionsAssumed DEF Conditions!WatcherAssumption, Conditions!OfInstrument, Conditions!Edges

\* The function InWindow is the last value of.
Firsts(h, w) ==
  LET first[i \in 0 .. Len(h)] ==
        IF i = 0 THEN <<>> ELSE IF h[i].age <= w THEN Append(first[i - 1], h[i]) ELSE first[i - 1]
  IN  first

LEMMA WindowIs ==
  ASSUME NEW h, NEW w
  PROVE  Conditions!InWindow(h, w) = Firsts(h, w)[Len(h)]
BY Zenon DEF Conditions!InWindow, Firsts

LEMMA FirstsFacts ==
  ASSUME NEW h \in Prints, NEW w
  PROVE  /\ Firsts(h, w)[0] = <<>>
         /\ \A k \in 1 .. Len(h) : Firsts(h, w)[k] =
              IF h[k].age <= w THEN Append(Firsts(h, w)[k - 1], h[k]) ELSE Firsts(h, w)[k - 1]
         /\ \A k \in 0 .. Len(h) : Firsts(h, w)[k] \in Prints
<1> DEFINE n == Len(h)
           X == Prints
           F == [k \in 1 .. n |-> [t \in X |-> IF h[k].age <= w THEN Append(t, h[k]) ELSE t]]
           Eq(t) == t = [k \in 0 .. n |->
                      IF k = 0 THEN <<>> ELSE IF h[k].age <= w THEN Append(t[k - 1], h[k]) ELSE t[k - 1]]
           out == CHOOSE t : Eq(t)
<1>1. n \in Nat /\ <<>> \in X /\ \A k \in 1 .. n : h[k] \in Conditions!AnyPrint
  BY DEF Prints
<1>2. F \in [1 .. n -> [X -> X]]
  <2>1. \A k \in 1 .. n, t \in X : Append(t, h[k]) \in X
    <3> HIDE DEF n
    <3> QED
      BY <1>1 DEF Prints
  <2> HIDE DEF X, n
  <2> QED
    BY <2>1
<1>3. PICK f : IsRecursion(f, n, X, <<>>, F)
  <2> HIDE DEF F, n, X
  <2> QED
    BY <1>1, <1>2, RecursionExists
<1>4. f \in [0 .. n -> X] /\ f[0] = <<>>
  BY <1>3 DEF IsRecursion
<1>5. ASSUME NEW k \in 1 .. n
      PROVE  f[k] = IF h[k].age <= w THEN Append(f[k - 1], h[k]) ELSE f[k - 1]
  <2>1. k - 1 \in 0 .. n
    BY <1>1
  <2>2. f[k - 1] \in X
    <3> HIDE DEF X, n
    <3> QED
      BY <1>4, <2>1
  <2>3. f[k] = F[k][f[k - 1]]
    <3> HIDE DEF F, X, n
    <3> QED
      BY <1>3 DEF IsRecursion
  <2> HIDE DEF X
  <2> QED
    BY <2>2, <2>3
<1>6. Eq(f)
  <2>1. f = [k \in 0 .. n |-> f[k]]
    BY <1>4
  <2>2. \A k \in 0 .. n : k = 0 \/ k \in 1 .. n
    BY <1>1
  <2> HIDE DEF n, X
  <2>3. \A k \in 0 .. n : f[k] =
          IF k = 0 THEN <<>> ELSE IF h[k].age <= w THEN Append(f[k - 1], h[k]) ELSE f[k - 1]
    <3> SUFFICES ASSUME NEW k \in 0 .. n
                 PROVE  f[k] = IF k = 0 THEN <<>> ELSE IF h[k].age <= w THEN Append(f[k - 1], h[k]) ELSE f[k - 1]
      OBVIOUS
    <3>1. CASE k = 0
      BY <1>4, <3>1
    <3>2. CASE k # 0
      <4>1. f[k] = IF h[k].age <= w THEN Append(f[k - 1], h[k]) ELSE f[k - 1]
        BY <1>5, <2>2, <3>2
      <4> QED
        BY <3>2, <4>1, Zenon
    <3> QED
      BY <3>1, <3>2
  <2> QED
    BY <2>1, <2>3
<1>7. Eq(out)
  BY <1>6
<1>8. out = Firsts(h, w)
  BY Zenon DEF Firsts
<1> HIDE DEF out
<1>9. out[0] = <<>> /\ \A k \in 1 .. n :
        out[k] = IF h[k].age <= w THEN Append(out[k - 1], h[k]) ELSE out[k - 1]
  <2>1. out = [k \in 0 .. n |->
           IF k = 0 THEN <<>> ELSE IF h[k].age <= w THEN Append(out[k - 1], h[k]) ELSE out[k - 1]]
    BY <1>7
  <2>2. 0 \in 0 .. n /\ \A k \in 1 .. n : k \in 0 .. n /\ k # 0
    BY <1>1
  <2> HIDE DEF n
  <2> QED
    BY <2>1, <2>2
<1> DEFINE S == {k \in 0 .. n : out[k] \in X}
<1>10. 0 \in S
  BY <1>1, <1>9
<1>11. ASSUME NEW k \in 1 .. n, k - 1 \in S PROVE k \in S
  <2>1. h[k] \in Conditions!AnyPrint /\ out[k - 1] \in X /\ k \in 0 .. n
    BY <1>1, <1>11
  <2>2. Append(out[k - 1], h[k]) \in X
    BY <2>1 DEF Prints
  <2> HIDE DEF X, n
  <2> QED
    BY <1>9, <2>1, <2>2
<1>12. \A k \in 0 .. n : k \in S
  <2> HIDE DEF S, n
  <2> QED
    BY <1>1, <1>10, <1>11, UpTo
<1> QED
  BY <1>8, <1>9, <1>12

LEMMA FirstsStep ==
  ASSUME NEW h \in Prints, NEW w, NEW k \in 1 .. Len(h), NEW j, j = k - 1
  PROVE  Firsts(h, w)[k] = IF h[k].age <= w THEN Append(Firsts(h, w)[j], h[k]) ELSE Firsts(h, w)[j]
BY FirstsFacts

LEMMA WindowPrints ==
  ASSUME NEW h \in Prints, NEW w
  PROVE  Conditions!InWindow(h, w) \in Prints
<1>1. Len(h) \in 0 .. Len(h)
  BY DEF Prints
<1> QED
  BY <1>1, WindowIs, FirstsFacts

\* What is in the window of the first prints is decided by them.
LEMMA FirstsSame ==
  ASSUME NEW h \in Prints, NEW g \in Prints, NEW w, NEW m \in Nat, m <= Len(h), m <= Len(g),
         \A k \in 1 .. m : g[k] = h[k]
  PROVE  Firsts(g, w)[m] = Firsts(h, w)[m]
<1> DEFINE S == {k \in 0 .. m : Firsts(g, w)[k] = Firsts(h, w)[k]}
<1>1. 0 \in S
  BY FirstsFacts
<1>2. ASSUME NEW k \in 1 .. m, k - 1 \in S PROVE k \in S
  <2>1. k \in 1 .. Len(h) /\ k \in 1 .. Len(g) /\ k \in 0 .. m /\ g[k] = h[k]
    BY DEF Prints
  <2>2. Firsts(g, w)[k - 1] = Firsts(h, w)[k - 1]
    BY <1>2
  <2>3. /\ Firsts(h, w)[k] = IF h[k].age <= w THEN Append(Firsts(h, w)[k - 1], h[k]) ELSE Firsts(h, w)[k - 1]
        /\ Firsts(g, w)[k] = IF g[k].age <= w THEN Append(Firsts(g, w)[k - 1], g[k]) ELSE Firsts(g, w)[k - 1]
    BY <2>1, FirstsFacts, Zenon
  <2> QED
    BY <2>1, <2>2, <2>3
<1>3. \A k \in 0 .. m : k \in S
  <2> HIDE DEF S
  <2> QED
    BY <1>1, <1>2, UpTo
<1> QED
  BY <1>3

LEMMA WindowAppend ==
  ASSUME NEW h \in Prints, NEW p \in Conditions!AnyPrint, NEW w
  PROVE  Conditions!InWindow(Append(h, p), w) =
           IF p.age <= w THEN Append(Conditions!InWindow(h, w), p) ELSE Conditions!InWindow(h, w)
<1> DEFINE g == Append(h, p)
           n == Len(h)
<1>1. n \in Nat /\ g \in Prints /\ Len(g) = n + 1 /\ g[n + 1] = p /\ \A k \in 1 .. n : g[k] = h[k]
  BY DEF Prints
<1> HIDE DEF g
<1>2. n + 1 \in 1 .. Len(g) /\ n + 1 - 1 = n /\ n <= Len(g)
  BY <1>1
<1>3. Firsts(g, w)[n + 1] = IF p.age <= w THEN Append(Firsts(g, w)[n], p) ELSE Firsts(g, w)[n]
  BY <1>1, <1>2, FirstsFacts
<1>4. Firsts(g, w)[n] = Firsts(h, w)[n]
  BY <1>1, <1>2, FirstsSame
<1> QED
  BY <1>1, <1>3, <1>4, WindowIs DEF g

\* What is in a window is in a wider one.
LEMMA WindowTwice ==
  ASSUME NEW h \in Prints, NEW m \in Nat, NEW w \in Nat, w <= m
  PROVE  Conditions!InWindow(Conditions!InWindow(h, m), w) = Conditions!InWindow(h, w)
<1> DEFINE n == Len(h)
           S == {k \in 0 .. n : Conditions!InWindow(Firsts(h, m)[k], w) = Firsts(h, w)[k]}
<1>1. n \in Nat /\ 0 \in 0 .. n /\ n \in 0 .. n /\ <<>> \in Prints /\ Len(<<>>) = 0
  BY DEF Prints
<1>2. 0 \in S
  <2>1. Conditions!InWindow(<<>>, w) = <<>>
    BY <1>1, WindowIs, FirstsFacts
  <2> QED
    BY <1>1, <2>1, FirstsFacts
<1>3. ASSUME NEW k \in 1 .. n, k - 1 \in S PROVE k \in S
  <2> DEFINE t == Firsts(h, m)[k - 1]
             p == h[k]
  <2>1. k \in 0 .. n /\ k - 1 \in 0 .. n /\ p \in Conditions!AnyPrint /\ p.age \in Int
    <3>1. p \in Conditions!AnyPrint
      BY <1>1 DEF Prints
    <3>2. p.age \in 0 .. MaxWindow + 1
      BY <3>1 DEF Conditions!AnyPrint
    <3> HIDE DEF p
    <3> QED
      BY <1>1, <3>1, <3>2, WatchNumbers
  <2>2. Conditions!InWindow(t, w) = Firsts(h, w)[k - 1]
    BY <1>3
  <2>3. /\ Firsts(h, m)[k] = IF p.age <= m THEN Append(t, p) ELSE t
        /\ Firsts(h, w)[k] = IF p.age <= w THEN Append(Firsts(h, w)[k - 1], p) ELSE Firsts(h, w)[k - 1]
        /\ t \in Prints
    BY <2>1, FirstsFacts, Zenon
  <2> HIDE DEF t, p
  <2>4. Conditions!InWindow(Append(t, p), w) =
          IF p.age <= w THEN Append(Conditions!InWindow(t, w), p) ELSE Conditions!InWindow(t, w)
    BY <2>1, <2>3, WindowAppend
  <2>5. ~ (p.age <= m) => ~ (p.age <= w)
    BY <2>1
  <2>6. Conditions!InWindow(Firsts(h, m)[k], w) = Firsts(h, w)[k]
    BY <2>2, <2>3, <2>4, <2>5
  <2> QED
    BY <2>1, <2>6
<1>4. \A k \in 0 .. n : k \in S
  <2> HIDE DEF S, n
  <2> QED
    BY <1>1, <1>2, <1>3, UpTo
<1>5. Conditions!InWindow(Firsts(h, m)[n], w) = Firsts(h, w)[n]
  BY <1>1, <1>4
<1> QED
  BY <1>5, WindowIs

\* Prints outside the window in front of others make no difference.
LEMMA WindowSkips ==
  ASSUME NEW h \in Prints, NEW w, NEW m \in 0 .. Len(h), \A k \in 1 .. m : ~ (h[k].age <= w)
  PROVE  /\ SubSeq(h, m + 1, Len(h)) \in Prints
         /\ Conditions!InWindow(SubSeq(h, m + 1, Len(h)), w) = Conditions!InWindow(h, w)
<1> DEFINE n == Len(h)
           g == SubSeq(h, m + 1, n)
           L == n - m
<1>1. n \in Nat /\ m \in Nat /\ L \in Nat /\ h \in Seq(Conditions!AnyPrint)
  BY DEF Prints
<1>2. g \in Prints /\ Len(g) = L /\ \A k \in 1 .. L : g[k] = h[k + m]
  BY <1>1, RestFacts DEF Prints
<1> HIDE DEF g
<1> DEFINE T == {k \in 0 .. m : Firsts(h, w)[k] = <<>>}
<1>3. 0 \in T
  BY <1>1, FirstsFacts
<1>4. ASSUME NEW k \in 1 .. m, k - 1 \in T PROVE k \in T
  <2>1. k \in 1 .. Len(h) /\ k \in 0 .. m /\ Firsts(h, w)[k - 1] = <<>>
    BY <1>1, <1>4
  <2>2. Firsts(h, w)[k] = IF h[k].age <= w THEN Append(Firsts(h, w)[k - 1], h[k]) ELSE Firsts(h, w)[k - 1]
    BY <2>1, FirstsFacts
  <2> QED
    BY <2>1, <2>2
<1>5. Firsts(h, w)[m] = <<>>
  <2>1. \A k \in 0 .. m : k \in T
    <3> HIDE DEF T
    <3> QED
      BY <1>1, <1>3, <1>4, UpTo
  <2> QED
    BY <1>1, <2>1
<1> DEFINE S == {k \in 0 .. L : Firsts(g, w)[k] = Firsts(h, w)[k + m]}
<1>6. 0 \in S
  BY <1>1, <1>2, <1>5, FirstsFacts
<1>7. ASSUME NEW k \in 1 .. L, k - 1 \in S PROVE k \in S
  <2> DEFINE e == k + m
             d == k - 1 + m
  <2>1. k \in 1 .. Len(g) /\ e \in 1 .. Len(h) /\ k \in 0 .. L /\ g[k] = h[e] /\ d = e - 1
    BY <1>1, <1>2
  <2>2. Firsts(g, w)[k - 1] = Firsts(h, w)[d]
    BY <1>7
  <2>3. Firsts(g, w)[k] = Firsts(h, w)[e]
    <3> HIDE DEF e, d, L
    <3>1. Firsts(g, w)[k] = IF g[k].age <= w THEN Append(Firsts(g, w)[k - 1], g[k]) ELSE Firsts(g, w)[k - 1]
      BY <1>2, <2>1, FirstsStep
    <3>2. Firsts(h, w)[e] = IF h[e].age <= w THEN Append(Firsts(h, w)[d], h[e]) ELSE Firsts(h, w)[d]
      BY <2>1, FirstsStep
    <3> QED
      BY <2>1, <2>2, <3>1, <3>2
  <2> HIDE DEF L
  <2> QED
    BY <2>1, <2>3
<1>8. Firsts(g, w)[L] = Firsts(h, w)[n]
  <2>1. \A k \in 0 .. L : k \in S
    <3> HIDE DEF S, L
    <3> QED
      BY <1>1, <1>6, <1>7, UpTo
  <2>2. L \in 0 .. L /\ L + m = n
    BY <1>1
  <2> HIDE DEF L
  <2> QED
    BY <2>1, <2>2
<1> QED
  BY <1>2, <1>8, WindowIs DEF g

OlderPrint(p) == [p EXCEPT !.age = IF @ > MaxWindow THEN @ ELSE @ + 1]

LEMMA OlderPrintFacts ==
  ASSUME NEW p \in Conditions!AnyPrint
  PROVE  OlderPrint(p) \in Conditions!AnyPrint /\ (~ (p.age <= MaxWindow) => ~ (OlderPrint(p).age <= MaxWindow))
BY WatchNumbers DEF Conditions!AnyPrint, OlderPrint

LEMMA OlderPrints ==
  ASSUME NEW h \in Prints
  PROVE  /\ Conditions!Older(h) \in Prints /\ Len(Conditions!Older(h)) = Len(h)
         /\ \A k \in 1 .. Len(h) : Conditions!Older(h)[k] = OlderPrint(h[k])
<1> DEFINE g == Conditions!Older(h)
<1>1. DOMAIN h = 1 .. Len(h) /\ Len(h) \in Nat /\ \A k \in 1 .. Len(h) : h[k] \in Conditions!AnyPrint
  BY DEF Prints
<1>2. g = [k \in 1 .. Len(h) |-> OlderPrint(h[k])]
  BY <1>1, Zenon DEF Conditions!Older, OlderPrint
<1>4. \A k \in 1 .. Len(h) : OlderPrint(h[k]) \in Conditions!AnyPrint
  BY <1>1, OlderPrintFacts
<1> HIDE DEF g
<1>5. g \in [1 .. Len(h) -> Conditions!AnyPrint]
  BY <1>2, <1>4
<1> QED
  BY <1>1, <1>2, <1>5 DEF g, Prints

\* What has left the window stays out of it.
LEMMA OlderWindow ==
  ASSUME NEW h \in Prints
  PROVE  Conditions!InWindow(Conditions!Older(Conditions!InWindow(h, MaxWindow)), MaxWindow)
           = Conditions!InWindow(Conditions!Older(h), MaxWindow)
<1> DEFINE n == Len(h)
           g == Conditions!Older(h)
           M == MaxWindow
           S == {k \in 0 .. n : Conditions!InWindow(Conditions!Older(Firsts(h, M)[k]), M) = Firsts(g, M)[k]}
<1>1. n \in Nat /\ 0 \in 0 .. n /\ n \in 0 .. n /\ <<>> \in Prints /\ Len(<<>>) = 0
  BY DEF Prints
<1>2. g \in Prints /\ Len(g) = n /\ \A k \in 1 .. n : g[k] = OlderPrint(h[k])
  BY OlderPrints
<1>3. 0 \in S
  <2>1. Conditions!Older(<<>>) \in Prints /\ Len(Conditions!Older(<<>>)) = 0
    BY <1>1, OlderPrints
  <2>2. Conditions!InWindow(Conditions!Older(<<>>), M) = <<>>
    BY <2>1, WindowIs, FirstsFacts
  <2>3. Firsts(h, M)[0] = <<>> /\ Firsts(g, M)[0] = <<>>
    BY <1>2, FirstsFacts
  <2> QED
    BY <1>1, <2>2, <2>3
<1>4. ASSUME NEW k \in 1 .. n, k - 1 \in S PROVE k \in S
  <2> DEFINE t == Firsts(h, M)[k - 1]
             p == h[k]
             o == OlderPrint(p)
  <2>1. k \in 0 .. n /\ k - 1 \in 0 .. n /\ k \in 1 .. Len(g) /\ p \in Conditions!AnyPrint /\ g[k] = o
    BY <1>1, <1>2 DEF Prints
  <2>2. o \in Conditions!AnyPrint /\ (~ (p.age <= M) => ~ (o.age <= M))
    BY <2>1, OlderPrintFacts
  <2>3. Conditions!InWindow(Conditions!Older(t), M) = Firsts(g, M)[k - 1]
    BY <1>4
  <2>4. /\ Firsts(h, M)[k] = IF p.age <= M THEN Append(t, p) ELSE t
        /\ t \in Prints
    BY <2>1, FirstsFacts, Zenon
  <2>5. Firsts(g, M)[k] = IF o.age <= M THEN Append(Firsts(g, M)[k - 1], o) ELSE Firsts(g, M)[k - 1]
    BY <1>2, <2>1, FirstsFacts
  <2>6. Conditions!Older(Append(t, p)) = Append(Conditions!Older(t), o)
    <3> DEFINE l == Len(t)
               u == Append(t, p)
               x == Conditions!Older(u)
               y == Conditions!Older(t)
    <3> HIDE DEF t, p, o
    <3>1. l \in Nat /\ u \in Prints /\ Len(u) = l + 1 /\ u[l + 1] = p /\ \A j \in 1 .. l : u[j] = t[j]
      BY <2>1, <2>4 DEF Prints
    <3> HIDE DEF u
    <3>2. x \in Prints /\ Len(x) = l + 1 /\ \A j \in 1 .. l + 1 : x[j] = OlderPrint(u[j])
      BY <3>1, OlderPrints
    <3>3. y \in Prints /\ Len(y) = l /\ \A j \in 1 .. l : y[j] = OlderPrint(t[j])
      BY <2>4, OlderPrints
    <3> HIDE DEF x, y
    <3>4. /\ Append(y, o) \in Prints /\ Len(Append(y, o)) = l + 1 /\ Append(y, o)[l + 1] = o
          /\ \A j \in 1 .. l : Append(y, o)[j] = y[j]
      BY <2>2, <3>3 DEF Prints
    <3>5. \A j \in 1 .. l + 1 : j = l + 1 \/ j \in 1 .. l
      BY <3>1
    <3>6. \A j \in 1 .. l + 1 : x[j] = Append(y, o)[j]
      BY <3>1, <3>2, <3>3, <3>4, <3>5 DEF o
    <3>7. x = Append(y, o)
      <4>1. ASSUME NEW a \in Prints, NEW b \in Prints, Len(a) = Len(b), \A j \in 1 .. Len(a) : a[j] = b[j]
            PROVE  a = b
        BY <4>1, SeqEqual DEF Prints
      <4> QED
        BY <3>2, <3>4, <3>6, <4>1
    <3> QED
      BY <3>7 DEF x, y, u
  <2> HIDE DEF t, p, o, g, M
  <2>7. Conditions!Older(t) \in Prints
    BY <2>4, OlderPrints
  <2>8. Conditions!InWindow(Append(Conditions!Older(t), o), M) =
          IF o.age <= M THEN Append(Conditions!InWindow(Conditions!Older(t), M), o)
          ELSE Conditions!InWindow(Conditions!Older(t), M)
    BY <2>2, <2>7, WindowAppend
  <2>9. Conditions!InWindow(Conditions!Older(Firsts(h, M)[k]), M) = Firsts(g, M)[k]
    <3>1. CASE p.age <= M
      BY <2>3, <2>4, <2>5, <2>6, <2>8, <3>1
    <3>2. CASE ~ (p.age <= M)
      BY <2>2, <2>3, <2>4, <2>5, <3>2
    <3> QED
      BY <3>1, <3>2
  <2> QED
    BY <2>1, <2>9
<1>5. \A k \in 0 .. n : k \in S
  <2> HIDE DEF S, n
  <2> QED
    BY <1>1, <1>3, <1>4, UpTo
<1>6. Conditions!InWindow(Conditions!Older(Firsts(h, M)[n]), M) = Firsts(g, M)[n]
  BY <1>1, <1>5
<1> QED
  BY <1>2, <1>6, WindowIs

\* Pruning drops nothing of the window and leaves one of its prints in front.
LEMMA PrunedFacts ==
  ASSUME NEW h \in Prints
  PROVE  /\ Conditions!Pruned(h) \in Prints
         /\ Conditions!InWindow(Conditions!Pruned(h), MaxWindow) = Conditions!InWindow(h, MaxWindow)
         /\ Conditions!Pruned(h) # <<>> => Conditions!Pruned(h)[1].age <= MaxWindow
<1> DEFINE n == Len(h)
           S == {i \in DOMAIN h : h[i].age <= MaxWindow}
<1>1. n \in Nat /\ DOMAIN h = 1 .. n /\ \A i \in 1 .. n : h[i] \in Conditions!AnyPrint
  BY DEF Prints
<1>2. \A i \in 1 .. n : h[i].age > MaxWindow <=> ~ (h[i].age <= MaxWindow)
  <2>1. ASSUME NEW p \in Conditions!AnyPrint PROVE p.age > MaxWindow <=> ~ (p.age <= MaxWindow)
    <3>1. p.age \in 0 .. MaxWindow + 1
      BY DEF Conditions!AnyPrint
    <3> QED
      BY <3>1, WatchNumbers
  <2> QED
    BY <1>1, <2>1
<1>3. CASE S = {}
  <2>1. Conditions!Pruned(h) = <<>>
    BY <1>1, <1>2, <1>3 DEF Conditions!Pruned
  <2>2. \A k \in 1 .. n : ~ (h[k].age <= MaxWindow)
    BY <1>1, <1>3
  <2>3. n \in 0 .. n /\ SubSeq(h, n + 1, n) = <<>>
    BY <1>1 DEF Prints
  <2>4. Conditions!InWindow(SubSeq(h, n + 1, n), MaxWindow) = Conditions!InWindow(h, MaxWindow)
    BY <2>2, <2>3, WindowSkips
  <2>5. Conditions!Pruned(h) \in Prints
    BY <2>1 DEF Prints
  <2> QED
    BY <2>1, <2>3, <2>4, <2>5
<1>4. CASE S # {}
  <2> DEFINE m == Conditions!Min(S)
             g == SubSeq(h, m, n)
  <2>1. m \in S /\ \A i \in S : m <= i
    <3>1. \E x \in S : \A y \in S : x <= y
      <4>1. S \subseteq Nat
        BY <1>1
      <4> HIDE DEF S
      <4> QED
        BY <1>4, <4>1, LeastNat
    <3>2. m = CHOOSE x \in S : \A y \in S : x <= y
      BY Zenon DEF Conditions!Min
    <3> HIDE DEF m, S
    <3> QED
      BY <3>1, <3>2
  <2>2. Conditions!Pruned(h) = g
    <3>1. ~ \A i \in DOMAIN h : h[i].age > MaxWindow
      BY <1>1, <1>2, <1>4
    <3> QED
      BY <3>1, Zenon DEF Conditions!Pruned
  <2> HIDE DEF m
  <2>3. m \in 1 .. n /\ m - 1 \in 0 .. n /\ m - 1 + 1 = m /\ h[m].age <= MaxWindow
    BY <1>1, <2>1
  <2>4. \A k \in 1 .. m - 1 : ~ (h[k].age <= MaxWindow)
    <3> SUFFICES ASSUME NEW k \in 1 .. m - 1, h[k].age <= MaxWindow PROVE FALSE
      OBVIOUS
    <3>1. k \in S /\ ~ (m <= k)
      BY <1>1, <2>3
    <3> QED
      BY <2>1, <3>1
  <2>5. g \in Prints /\ Conditions!InWindow(g, MaxWindow) = Conditions!InWindow(h, MaxWindow)
    <3> DEFINE l == m - 1
    <3> HIDE DEF l
    <3>1. l \in 0 .. n /\ l + 1 = m /\ \A k \in 1 .. l : ~ (h[k].age <= MaxWindow)
      BY <2>3, <2>4 DEF l
    <3>2. /\ SubSeq(h, l + 1, n) \in Prints
          /\ Conditions!InWindow(SubSeq(h, l + 1, n), MaxWindow) = Conditions!InWindow(h, MaxWindow)
      BY <3>1, WindowSkips
    <3> QED
      BY <3>1, <3>2
  <2>6. g[1] = h[m]
    BY <1>1, <2>3 DEF Prints
  <2> QED
    BY <2>2, <2>3, <2>5, <2>6
<1> QED
  BY <1>3, <1>4

-----------------------------------------------------------------------------
(* Conditions: what is armed, and what is kept to judge it by. *)

WatchTypes ==
  /\ watchCool \in [Kinds -> 0 .. Rest]
  /\ watchOpen \in {"yes", "no", "unknown"} /\ watchSession \in {"yes", "no"}

\* What is armed is what is stored, as it was created.
Armed == watchAlerts = watchRows /\ \A c \in watchRows : \E k \in Kinds : c = Conditions!Condition(k)

\* The history holds the prints of the window, behind others that are older only after a late one.
Kept ==
  /\ watchHistory \in Prints
  /\ Conditions!InWindow(watchHistory, MaxWindow) = watchKept
  /\ watchPrint # Conditions!NoPrint /\ watchHistory # <<>> => watchHistory[1].age <= MaxWindow

ConditionsInv == WatchTypes /\ Armed /\ Kept

\* A condition comes back from its columns as it was.
LEMMA PartsOfCondition ==
  ASSUME NEW k \in Kinds
  PROVE  Conditions!from_parts(Conditions!Condition(k)) = Conditions!Condition(k)
<1> DEFINE c == Conditions!Condition(k)
<1>1. k \in {"price_above", "price_below", "move", "volume_surge", "order_filled", "session_open", "session_close"}
  BY WatchNumbers DEF Conditions!OfInstrument, Conditions!Edges
<1>2. c.kind = k
  BY DEF Conditions!Condition
<1>3. CASE k \in {"price_above", "price_below"}
  <2>1. Conditions!Needs(c.kind) = {"instrument", "threshold"}
    BY <1>2, <1>3 DEF Conditions!Needs, Conditions!Edges
  <2> QED
    BY <1>3, <2>1 DEF Conditions!from_parts, Conditions!Condition, Conditions!OfInstrument, Conditions!Edges
<1>4. CASE k \in {"move", "volume_surge"}
  <2>1. Conditions!Needs(c.kind) = {"instrument", "threshold", "window"}
    BY <1>2, <1>4 DEF Conditions!Needs, Conditions!Edges
  <2> QED
    BY <1>4, <2>1 DEF Conditions!from_parts, Conditions!Condition, Conditions!OfInstrument, Conditions!Edges
<1>5. CASE k \in {"session_open", "session_close"}
  <2>1. Conditions!Needs(c.kind) = {"venue"}
    BY <1>2, <1>5 DEF Conditions!Needs, Conditions!Edges
  <2> QED
    BY <1>5, <2>1 DEF Conditions!from_parts, Conditions!Condition, Conditions!OfInstrument, Conditions!Edges
<1>6. CASE k = "order_filled"
  <2>1. Conditions!Needs(c.kind) = {"instrument"}
    BY <1>2, <1>6 DEF Conditions!Needs, Conditions!Edges
  <2> QED
    BY <1>6, <2>1 DEF Conditions!from_parts, Conditions!Condition, Conditions!OfInstrument, Conditions!Edges
<1> QED
  BY <1>1, <1>3, <1>4, <1>5, <1>6

LEMMA ArmedStep ==
  ASSUME Armed, Conditions!Next \/ UNCHANGED watchVars
  PROVE  Armed'
<1>1. CASE UNCHANGED <<watchAlerts, watchRows>>
  BY <1>1 DEF Armed
<1>2. CASE Conditions!Restart
  <2>1. watchAlerts' = {Conditions!from_parts(r) : r \in watchRows} /\ watchRows' = watchRows
    BY <1>2 DEF Conditions!Restart
  <2>2. \A r \in watchRows : Conditions!from_parts(r) = r
    BY PartsOfCondition DEF Armed
  <2>3. {Conditions!from_parts(r) : r \in watchRows} = watchRows
    BY <2>2
  <2> QED
    BY <2>1, <2>3 DEF Armed
<1>3. ASSUME NEW k \in Kinds, Conditions!Create(k) \/ Conditions!Delete(k)
      PROVE  Armed'
  <2>1. CASE Conditions!Create(k)
    <3>1. watchRows' = watchRows \union {Conditions!Condition(k)} /\ \A r \in watchRows : r.kind # k
      BY <2>1 DEF Conditions!Create
    <3>2. watchAlerts' = {c \in watchAlerts : c.kind # k} \union {Conditions!Condition(k)}
      BY <2>1 DEF Conditions!Create
    <3> QED
      BY <3>1, <3>2 DEF Armed
  <2>2. CASE Conditions!Delete(k)
    BY <2>2 DEF Conditions!Delete, Armed
  <2> QED
    BY <1>3, <2>1, <2>2
<1>4. ASSUME NEW p, Conditions!OnTrade(p)
      PROVE  UNCHANGED <<watchAlerts, watchRows>>
  BY <1>4 DEF Conditions!OnTrade
<1>5. CASE \/ Conditions!OnFill \/ Conditions!OnTick \/ Conditions!Bell
           \/ Conditions!Minute \/ UNCHANGED watchVars
  BY <1>1, <1>5 DEF Conditions!OnFill, Conditions!OnTick, Conditions!Bell, Conditions!Minute, watchVars
<1> QED
  BY <1>1, <1>2, <1>3, <1>4, <1>5 DEF Conditions!Next

LEMMA KeptTrade ==
  ASSUME Kept, NEW p \in Conditions!AnyPrint, p.age <= MaxWindow, Conditions!OnTrade(p)
  PROVE  Kept'
<1>1. CASE ~ Conditions!Watched
  BY <1>1 DEF Conditions!OnTrade, Kept
<1>2. CASE Conditions!Watched
  <2> DEFINE h == Append(watchHistory, p)
  <2>1. watchHistory' = Conditions!Pruned(h) /\ watchKept' = Append(watchKept, p)
    BY <1>2 DEF Conditions!OnTrade
  <2>2. h \in Prints
    BY DEF Kept, Prints
  <2>3. Conditions!InWindow(h, MaxWindow) = Append(Conditions!InWindow(watchHistory, MaxWindow), p)
    BY WindowAppend DEF Kept
  <2> HIDE DEF h
  <2>4. /\ Conditions!Pruned(h) \in Prints
        /\ Conditions!InWindow(Conditions!Pruned(h), MaxWindow) = Conditions!InWindow(h, MaxWindow)
        /\ Conditions!Pruned(h) # <<>> => Conditions!Pruned(h)[1].age <= MaxWindow
    BY <2>2, PrunedFacts
  <2> QED
    BY <2>1, <2>3, <2>4 DEF Kept
<1> QED
  BY <1>1, <1>2

LEMMA KeptStep ==
  ASSUME Kept, Conditions!Next \/ UNCHANGED watchVars
  PROVE  Kept'
<1>1. CASE UNCHANGED <<watchHistory, watchKept>> /\ (watchPrint' = Conditions!NoPrint \/ watchPrint' = watchPrint)
  BY <1>1 DEF Kept
<1>2. ASSUME NEW price \in Prices, NEW qty \in Qtys, NEW late \in 0 .. MaxLate,
             Conditions!OnTrade([age |-> late, price |-> price, value |-> price * qty])
      PROVE  Kept'
  <2> DEFINE p == [age |-> late, price |-> price, value |-> price * qty]
  <2>1. price \in Nat /\ qty \in Nat
    BY WatchNumbers
  <2>2. price * qty \in Nat
    BY <2>1
  <2>3. late \in 0 .. MaxWindow + 1 /\ late <= MaxWindow
    BY WatchNumbers
  <2>4. p \in Conditions!AnyPrint /\ p.age <= MaxWindow
    BY <2>2, <2>3 DEF Conditions!AnyPrint
  <2>5. Conditions!OnTrade(p)
    BY <1>2
  <2> HIDE DEF p
  <2> QED
    BY <2>4, <2>5, KeptTrade
<1>3. CASE Conditions!Minute
  <2>1. /\ watchHistory' = Conditions!Older(watchHistory) /\ watchPrint' = Conditions!NoPrint
        /\ watchKept' = Conditions!InWindow(Conditions!Older(watchKept), MaxWindow)
    BY <1>3 DEF Conditions!Minute
  <2>2. Conditions!Older(watchHistory) \in Prints
    BY OlderPrints DEF Kept
  <2>3. Conditions!InWindow(Conditions!Older(watchKept), MaxWindow)
          = Conditions!InWindow(Conditions!Older(watchHistory), MaxWindow)
    BY OlderWindow DEF Kept
  <2> QED
    BY <2>1, <2>2, <2>3 DEF Kept
<1>4. CASE Conditions!Restart
  <2>1. watchHistory' = <<>> /\ watchKept' = <<>> /\ watchPrint' = Conditions!NoPrint
    BY <1>4 DEF Conditions!Restart
  <2>2. <<>> \in Prints /\ Len(<<>>) = 0
    BY DEF Prints
  <2>3. Conditions!InWindow(<<>>, MaxWindow) = <<>>
    BY <2>2, WindowIs, FirstsFacts
  <2> QED
    BY <2>1, <2>2, <2>3 DEF Kept
<1>5. CASE \/ Conditions!OnFill \/ Conditions!OnTick \/ Conditions!Bell \/ UNCHANGED watchVars
           \/ \E k \in Kinds : Conditions!Create(k) \/ Conditions!Delete(k)
  BY <1>1, <1>5
     DEF Conditions!OnFill, Conditions!OnTick, Conditions!Bell, Conditions!Create, Conditions!Delete, watchVars
<1> QED
  BY <1>2, <1>3, <1>4, <1>5 DEF Conditions!Next

LEMMA CoolFire ==
  ASSUME watchCool \in [Kinds -> 0 .. Rest], NEW hits, Conditions!Fire(hits)
  PROVE  watchCool' \in [Kinds -> 0 .. Rest]
BY WatchNumbers DEF Conditions!Fire

LEMMA WatchTypesStep ==
  ASSUME WatchTypes, Conditions!Next \/ UNCHANGED watchVars
  PROVE  WatchTypes'
<1>1. ASSUME NEW p, Conditions!OnTrade(p)
      PROVE  watchCool' \in [Kinds -> 0 .. Rest] /\ UNCHANGED <<watchOpen, watchSession>>
  <2>1. UNCHANGED watchCool \/ \E hits : Conditions!Fire(hits)
    BY <1>1 DEF Conditions!OnTrade
  <2> QED
    BY <1>1, <2>1, CoolFire DEF WatchTypes, Conditions!OnTrade
<1>2. CASE Conditions!OnFill
  <2>1. \E hits : Conditions!Fire(hits)
    BY <1>2 DEF Conditions!OnFill
  <2> QED
    BY <1>2, <2>1, CoolFire DEF WatchTypes, Conditions!OnFill
<1>3. CASE Conditions!OnTick
  <2>1. \E hits : Conditions!Fire(hits)
    BY <1>3 DEF Conditions!OnTick
  <2> QED
    BY <1>3, <2>1, CoolFire DEF WatchTypes, Conditions!OnTick
<1>4. CASE Conditions!Minute
  <2>1. /\ watchCool' = [k \in Kinds |-> IF watchCool[k] < Rest THEN watchCool[k] + 1 ELSE Rest]
        /\ UNCHANGED <<watchOpen, watchSession>>
    BY <1>4 DEF Conditions!Minute
  <2> QED
    BY <2>1, WatchNumbers DEF WatchTypes
<1>5. CASE Conditions!Bell \/ Conditions!Restart \/ UNCHANGED watchVars
  BY <1>5 DEF WatchTypes, Conditions!Bell, Conditions!Restart, watchVars
<1>6. ASSUME NEW k \in Kinds, Conditions!Create(k) \/ Conditions!Delete(k)
      PROVE  WatchTypes'
  BY <1>6, WatchNumbers DEF WatchTypes, Conditions!Create, Conditions!Delete
<1> QED
  BY <1>1, <1>2, <1>3, <1>4, <1>5, <1>6 DEF Conditions!Next, WatchTypes

LEMMA ConditionsStep == ConditionsInv /\ (Conditions!Next \/ UNCHANGED watchVars) => ConditionsInv'
BY WatchTypesStep, ArmedStep, KeptStep DEF ConditionsInv

LEMMA ConditionsStart == Conditions!Init => ConditionsInv
<1> SUFFICES ASSUME Conditions!Init PROVE ConditionsInv
  OBVIOUS
<1>1. WatchTypes /\ Armed
  BY WatchNumbers DEF Conditions!Init, WatchTypes, Armed
<1>2. <<>> \in Prints /\ Len(<<>>) = 0
  BY DEF Prints
<1>3. Conditions!InWindow(<<>>, MaxWindow) = <<>>
  BY <1>2, WindowIs, FirstsFacts
<1>4. watchHistory = <<>> /\ watchKept = <<>> /\ watchPrint = Conditions!NoPrint
  BY DEF Conditions!Init
<1> QED
  BY <1>1, <1>2, <1>3, <1>4 DEF ConditionsInv, Kept

LEMMA ConditionsShow ==
  ConditionsInv => Conditions!TypeOK /\ Conditions!StoredIsArmed /\ Conditions!PruningUnseen
<1> SUFFICES ASSUME ConditionsInv
             PROVE  Conditions!TypeOK /\ Conditions!StoredIsArmed /\ Conditions!PruningUnseen
  OBVIOUS
<1>1. WatchTypes /\ Armed /\ Kept
  BY DEF ConditionsInv
<1>2. Conditions!TypeOK
  <2>1. \A i \in DOMAIN watchHistory : watchHistory[i] \in Conditions!AnyPrint
    BY <1>1 DEF Kept, Prints
  <2>2. \A c \in watchAlerts \union watchRows : c.kind \in Kinds
    BY <1>1 DEF Armed, Conditions!Condition
  <2>3. watchPrint # Conditions!NoPrint /\ watchHistory # <<>> => watchHistory[1].age <= MaxWindow
    BY <1>1 DEF Kept
  <2> QED
    BY <1>1, <2>1, <2>2, <2>3 DEF Conditions!TypeOK, WatchTypes
<1>3. ASSUME NEW c \in watchAlerts
      PROVE  Conditions!Hit(c, watchHistory, watchPrint) = Conditions!Hit(c, watchKept, watchPrint)
  <2>1. PICK k \in Kinds : c = Conditions!Condition(k)
    BY <1>1 DEF Armed
  <2>2. CASE k \in {"move", "volume_surge"}
    <3>1. c.window = Window[k]
      BY <2>1, <2>2 DEF Conditions!Condition
    <3>2. c.window \in Nat /\ c.window <= MaxWindow
      BY <3>1, WatchNumbers
    <3>3. Conditions!InWindow(watchKept, c.window) = Conditions!InWindow(watchHistory, c.window)
      <4>1. MaxWindow \in Nat /\ watchHistory \in Prints
        BY <1>1, WatchNumbers DEF Kept
      <4>2. Conditions!InWindow(Conditions!InWindow(watchHistory, MaxWindow), c.window)
              = Conditions!InWindow(watchHistory, c.window)
        BY <3>2, <4>1, WindowTwice
      <4> QED
        BY <1>1, <4>2 DEF Kept
    <3> QED
      BY <3>3, Zenon DEF Conditions!Hit, Conditions!Moved, Conditions!Surged
  <2>3. CASE k \notin {"move", "volume_surge"}
    <3>1. c.kind # "move" /\ c.kind # "volume_surge"
      BY <2>1, <2>3 DEF Conditions!Condition
    <3> QED
      BY <3>1, Zenon DEF Conditions!Hit
  <2> QED
    BY <2>2, <2>3
<1> QED
  BY <1>1, <1>2, <1>3 DEF Conditions!StoredIsArmed, Conditions!PruningUnseen, Armed

-----------------------------------------------------------------------------
(* What is listed is watched, and conditions see what they should. *)

\* Before the first look at a venue nothing is entered for it.
BriefSides ==
  /\ briefSession \subseteq Venues /\ chosen \subseteq Accounts
  /\ \A k \in Messages!Keys : briefOpen[k[2]] = "unknown" => last[k] = Messages!None

LEMMA BriefSidesStart == Messages!Init => BriefSides
BY DEF Messages!Init, BriefSides

LEMMA BriefSidesStep ==
  ASSUME BriefInv, BriefSides, Messages!Next \/ UNCHANGED briefVars
  PROVE  BriefSides'
<1>1. CASE Messages!Tick
  <2>1. /\ briefOpen' = [v \in Venues |-> Messages!Seen(v)]
        /\ UNCHANGED <<briefSession, chosen>>
    BY <1>1 DEF Messages!Tick
  <2>2. \A v \in Venues : briefOpen'[v] # "unknown"
    BY <2>1 DEF Messages!Seen
  <2> QED
    BY <2>1, <2>2, KeyParts DEF BriefSides
<1>2. CASE Messages!Passes
  <2>1. /\ last' = [k \in Messages!Keys |-> Messages!Aged(last[k])]
        /\ UNCHANGED <<briefSession, chosen, briefOpen>>
    BY <1>2 DEF Messages!Passes
  <2> QED
    BY <2>1 DEF BriefSides, Messages!Aged
<1>3. CASE Messages!Restart
  BY <1>3 DEF Messages!Restart, BriefSides
<1>4. CASE \E m \in queue : Messages!Send(m)
  BY <1>4 DEF Messages!Send, BriefSides
<1>5. CASE \E v \in Venues : Messages!Bell(v)
  BY <1>5 DEF Messages!Bell, BriefSides
<1>6. CASE \E a \in Accounts : Messages!Choose(a)
  BY <1>6 DEF Messages!Choose, BriefSides
<1>7. CASE \E a \in Accounts, c \in {Messages!Off, Messages!EdgesOnly} \union Every : Messages!Configure(a, c)
  BY <1>7 DEF Messages!Configure, BriefSides
<1>8. CASE UNCHANGED briefVars
  BY <1>8 DEF briefVars, BriefSides
<1> QED
  BY <1>1, <1>2, <1>3, <1>4, <1>5, <1>6, <1>7, <1>8 DEF Messages!Next

\* With resets, a step is a calm one in which no two accounts are reset at once.
LEMMA ResetsAreCalm ==
  ASSUME [Next]_vars
  PROVE  /\ part' = part
         /\ part = "resets" =>
              \/ /\ Deliveries!Calm
                 /\ \A a, b \in Accounts : resetting'[a] # "no" /\ resetting'[b] # "no" => a = b
              \/ UNCHANGED alertVars
BY DEF Next, vars, DeliverySteps, ResetSteps, PrintSteps, TickSteps, BriefingSteps

WholeInv ==
  /\ AlertInv /\ BriefInv /\ BriefSides /\ ConditionsInv
  /\ part = "resets" => WatchedInv

LEMMA WholeInvariance == Spec => []WholeInv
<1>1. Init => WholeInv
  BY AlertStart, BriefStart, BriefSidesStart, ConditionsStart, WatchedStart DEF Init, WholeInv
<1>2. ASSUME WholeInv, [Next]_vars PROVE WholeInv'
  <2>1. AlertInv' /\ BriefInv' /\ BriefSides' /\ ConditionsInv'
    BY <1>2, StepsOfOne, AlertStep, BriefStep, BriefSidesStep, ConditionsStep DEF WholeInv
  <2>2. part = "resets" => WatchedInv'
    BY <1>2, ResetsAreCalm, WatchedStep DEF WholeInv
  <2> QED
    BY <1>2, <2>1, <2>2, ResetsAreCalm DEF WholeInv
<1> QED
  BY <1>1, <1>2, PTL DEF Spec

\* create_alert, App::reset_account, alert_loop and Watcher, whatever the alerts, calls,
\* resets and prints, where no send or store fails and one account is reset at a time:
\* once all is quiet, what is listed as active is watched, but for a one-shot held back
\* for a digest; what a restart arms is what was stored; and an alert on moves or volumes
\* fires on a print exactly when it would with every print of its window at hand.
THEOREM ListedAlertsAreWatched == Spec => []WatchesTheSame
<1>1. WholeInv => WatchesTheSame
  <2> SUFFICES ASSUME WholeInv PROVE WatchesTheSame
    OBVIOUS
  <2>1. part = "resets" => Deliveries!TypeOK
    BY AlertsShow DEF WholeInv, FiringsKept
  <2>2. Conditions!TypeOK /\ Conditions!StoredIsArmed /\ Conditions!PruningUnseen
    BY ConditionsShow DEF WholeInv
  <2>3. Messages!TypeOK
    BY DEF WholeInv, BriefInv, BriefTypes, BriefSides, Messages!TypeOK
  <2>4. part = "resets" => Deliveries!ListedIsWatched
    BY ListedShows DEF WholeInv
  <2> QED
    BY <2>1, <2>2, <2>3, <2>4 DEF WatchesTheSame, TypesOK
<1>2. Spec => []WholeInv
  BY WholeInvariance
<1> QED
  BY <1>1, <1>2, PTL
=============================================================================
