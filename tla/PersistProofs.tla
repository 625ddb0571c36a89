---------------------------- MODULE PersistProofs ----------------------------
(***************************************************************************)
(* Persist's types, the generations of what is stored and the life of a    *)
(* stored order, proved for every value of the constants, whatever fails;  *)
(* then, provided that the database answers in the end, so that no entry   *)
(* of the journal is dropped or written twice, that what is stored is what *)
(* the broker had, and that a process which drained in time comes back     *)
(* with what it held when it was stopped.                                  *)
(***************************************************************************)
EXTENDS MCPersist, SumsProofs

Entries == OrderEntries \cup FillEntries \cup ConversionEntries
LedgerEntries == FillEntries \cup ConversionEntries

-----------------------------------------------------------------------------
(* Sequences: what the journal does to its queue. *)

\* The queue without its head.
LEMMA TailFacts ==
  ASSUME NEW S, NEW q \in Seq(S), q # <<>>
  PROVE  /\ Tail(q) \in Seq(S) /\ Len(Tail(q)) = Len(q) - 1
         /\ Head(q) = q[1] /\ Head(q) \in S /\ 1 \in DOMAIN q
         /\ \A k \in DOMAIN Tail(q) : k + 1 \in DOMAIN q /\ Tail(q)[k] = q[k + 1]
OBVIOUS

\* The queue with entries at its end.
LEMMA ConcatFacts ==
  ASSUME NEW S, NEW q \in Seq(S), NEW r \in Seq(S)
  PROVE  /\ q \o r \in Seq(S) /\ Len(q \o r) = Len(q) + Len(r)
         /\ \A k \in DOMAIN q : (q \o r)[k] = q[k]
         /\ \A k \in DOMAIN (q \o r) : k \notin DOMAIN q =>
              k - Len(q) \in DOMAIN r /\ (q \o r)[k] = r[k - Len(q)]
OBVIOUS

\* One or two entries are a sequence.
LEMMA ShortSequences ==
  ASSUME NEW S
  PROVE  /\ \A x \in S : /\ <<x>> \in Seq(S) /\ Len(<<x>>) = 1
                         /\ DOMAIN <<x>> = {1} /\ <<x>>[1] = x
         /\ \A x, y \in S : /\ <<x, y>> \in Seq(S) /\ DOMAIN <<x, y>> = {1, 2}
                            /\ <<x, y>>[1] = x /\ <<x, y>>[2] = y
OBVIOUS

\* A non-empty set of order ids has a greatest element.
LEMMA GreatestId ==
  ASSUME NEW S, S \subseteq OrderIds, S # {}
  PROVE  \E m \in S : \A k \in S : k <= m
<1> DEFINE T == {MaxOrders - k : k \in S}
<1>1. T \subseteq Nat /\ T # {}
  <2>1. ASSUME NEW k \in S PROVE MaxOrders - k \in Nat
    BY BoundAssumption DEF OrderIds
  <2> QED
    BY <2>1
<1>2. PICK t \in T : \A u \in T : t <= u
  <2> HIDE DEF T
  <2> QED
    BY <1>1, LeastNat
<1>3. PICK m \in S : t = MaxOrders - m
  BY <1>2
<1>4. ASSUME NEW k \in S PROVE k <= m
  <2>1. MaxOrders - m <= MaxOrders - k
    BY <1>2, <1>3
  <2>2. k \in Int /\ m \in Int /\ MaxOrders \in Int
    BY BoundAssumption DEF OrderIds
  <2> QED
    BY <2>1, <2>2
<1> QED
  BY <1>4

\* Restored numbering: no id from nextId on is stored.
LEMMA NextIdFacts ==
  ASSUME TypeOK
  PROVE  /\ NextIdAfterStored \in 1 .. MaxOrders + 1
         /\ \A o \in OrderIds : o >= NextIdAfterStored => store.rows[o] = NoOrder
<1> DEFINE S == {o \in OrderIds : store.rows[o] # NoOrder}
           Greatest(o) == o \in S /\ \A p \in S : p <= o
<1>1. CASE S = {}
  <2>1. NextIdAfterStored = 1
    BY <1>1 DEF NextIdAfterStored
  <2> QED
    BY <1>1, <2>1, BoundAssumption
<1>2. CASE S # {}
  <2>1. \E m \in S : \A k \in S : k <= m
    BY <1>2, GreatestId
  <2>2. PICK m \in OrderIds : /\ store.rows[m] # NoOrder
                              /\ \A p \in OrderIds : store.rows[p] # NoOrder => p <= m
    BY <2>1
  <2> DEFINE c == CHOOSE o \in OrderIds :
                    /\ store.rows[o] # NoOrder
                    /\ \A p \in OrderIds : store.rows[p] # NoOrder => p <= o
  <2>3. /\ c \in OrderIds /\ store.rows[c] # NoOrder
        /\ \A p \in OrderIds : store.rows[p] # NoOrder => p <= c
    BY <2>2
  <2>4. NextIdAfterStored = 1 + c
    BY <2>2 DEF NextIdAfterStored
  <2> HIDE DEF c
  <2>5. c \in 1 .. MaxOrders
    BY <2>3 DEF OrderIds
  <2>6. ASSUME NEW o \in OrderIds, o >= 1 + c PROVE store.rows[o] = NoOrder
    BY <2>3, <2>5, <2>6 DEF OrderIds
  <2>7. 1 + c \in 1 .. MaxOrders + 1
    BY <2>5, BoundAssumption
  <2> QED
    BY <2>4, <2>6, <2>7
<1> QED
  BY <1>1, <1>2

-----------------------------------------------------------------------------
(* Replaying the ledger. *)

\* What is replayed.
Portfolio == [cash : Int, units : Int, position : {"none", "held", "panic"}]

\* Replaying one entry.
LEMMA ApplyFillType ==
  ASSUME NEW p \in Portfolio, NEW e \in LedgerEntries
  PROVE  ApplyFill(p, e) \in Portfolio
<1>1. CASE e \in ConversionEntries
  BY <1>1 DEF ApplyFill, Portfolio, ConversionEntries
<1>2. CASE e \in FillEntries
  <2>1. e.type = "fill" /\ e.qty \in Nat
    BY <1>2 DEF FillEntries
  <2> QED
    BY <2>1 DEF ApplyFill, Portfolio
<1> QED
  BY <1>1, <1>2 DEF LedgerEntries

\* What an account starts with, and what an entry of the ledger makes of what account
\* a had in generation g.
NewPortfolio == [cash |-> Deposit, units |-> 0, position |-> "none"]
Replay(p, e, a, g) == IF e.account = a /\ e.generation = g THEN ApplyFill(p, e) ELSE p
\* p is what a had in g after each entry of ledger l.
IsReplay(p, l, a, g) ==
  /\ p \in [0 .. Len(l) -> Portfolio]
  /\ p[0] = NewPortfolio
  /\ \A k \in 1 .. Len(l) : p[k] = Replay(p[k - 1], l[k], a, g)

\* load_portfolio goes through the ledger entry by entry.
LEMMA LoadPortfolioSteps ==
  ASSUME NEW s, s.ledger \in Seq(LedgerEntries), NEW a, NEW g
  PROVE  \E p : IsReplay(p, s.ledger, a, g) /\ LoadPortfolio(s, a, g) = p[Len(s.ledger)]
<1> DEFINE n == Len(s.ledger)
           p0 == [cash |-> Deposit, units |-> 0, position |-> "none"]
           Mine(k) == s.ledger[k].account = a /\ s.ledger[k].generation = g
           F == [k \in 1 .. n |-> [p \in Portfolio |->
                   IF Mine(k) THEN ApplyFill(p, s.ledger[k]) ELSE p]]
           Eq(f) == f = [k \in 0 .. n |->
                      IF k = 0 THEN p0
                      ELSE IF Mine(k) THEN ApplyFill(f[k - 1], s.ledger[k]) ELSE f[k - 1]]
<1>1. n \in Nat /\ p0 \in Portfolio
  BY BoundAssumption DEF Portfolio
<1>2. F \in [1 .. n -> [Portfolio -> Portfolio]]
  <2>1. ASSUME NEW k \in 1 .. n, NEW p \in Portfolio
        PROVE  ApplyFill(p, s.ledger[k]) \in Portfolio
    BY <2>1, ApplyFillType
  <2> QED
    BY <2>1
<1>3. \E f : IsRecursion(f, n, Portfolio, p0, F)
  <2> HIDE DEF n, p0, F
  <2> QED
    BY <1>1, <1>2, RecursionExists
<1>4. PICK f : IsRecursion(f, n, Portfolio, p0, F)
  BY <1>3
<1>5. /\ f \in [0 .. n -> Portfolio] /\ f[0] = p0
      /\ \A k \in 1 .. n : f[k] = F[k][f[k - 1]]
  BY <1>4 DEF IsRecursion
<1>6. Eq(f)
  <2>1. ASSUME NEW k \in 1 .. n
        PROVE  f[k] = IF Mine(k) THEN ApplyFill(f[k - 1], s.ledger[k]) ELSE f[k - 1]
    <3>1. k - 1 \in 0 .. n /\ f[k - 1] \in Portfolio
      BY <1>1, <1>5
    <3> QED
      BY <1>5, <3>1
  <2> QED
    BY <1>1, <1>5, <2>1
<1> DEFINE p == CHOOSE x : Eq(x)
<1>7. Eq(p)
  BY <1>6
<1>8. LoadPortfolio(s, a, g) = p[n]
  BY DEF LoadPortfolio
<1> HIDE DEF p
<1>9. \A k \in 1 .. n : p[k] = IF Mine(k) THEN ApplyFill(p[k - 1], s.ledger[k]) ELSE p[k - 1]
  <2> SUFFICES ASSUME NEW k \in 1 .. n
               PROVE  p[k] = IF Mine(k) THEN ApplyFill(p[k - 1], s.ledger[k]) ELSE p[k - 1]
    OBVIOUS
  <2>1. k \in 0 .. n /\ k # 0
    BY <1>1
  <2> HIDE DEF n, p0, Mine
  <2> QED
    BY <1>7, <2>1
<1>10. p[0] = p0
  BY <1>1, <1>7
<1>11. \A k \in 0 .. n : p[k] \in Portfolio
  <2> DEFINE S == {k \in 0 .. n : p[k] \in Portfolio}
  <2>1. 0 \in S
    BY <1>1, <1>10
  <2>2. ASSUME NEW k \in 1 .. n, k - 1 \in S PROVE k \in S
    <3>1. s.ledger[k] \in LedgerEntries
      OBVIOUS
    <3>2. p[k - 1] \in Portfolio
      BY <2>2
    <3> QED
      BY <1>1, <1>9, <3>1, <3>2, ApplyFillType
  <2>3. \A k \in 0 .. n : k \in S
    <3> HIDE DEF S, n
    <3> QED
      BY <1>1, <2>1, <2>2, UpTo
  <2> QED
    BY <2>3
<1>12. p \in [0 .. n -> Portfolio]
  <2>1. p = [k \in 0 .. n |-> p[k]]
    BY <1>7, Zenon
  <2> HIDE DEF n
  <2> QED
    BY <1>11, <2>1
<1>13. \A k \in 1 .. n : p[k] = Replay(p[k - 1], s.ledger[k], a, g)
  BY <1>9 DEF Replay
<1>14. p[0] = NewPortfolio
  BY <1>10 DEF NewPortfolio
<1> QED
  BY <1>8, <1>12, <1>13, <1>14 DEF IsReplay

\* What load_portfolio returns is a portfolio.
LEMMA LoadPortfolioType ==
  ASSUME NEW s, s.ledger \in Seq(LedgerEntries), NEW a, NEW g
  PROVE  LoadPortfolio(s, a, g) \in Portfolio
<1>1. Len(s.ledger) \in 0 .. Len(s.ledger)
  OBVIOUS
<1> QED
  BY <1>1, LoadPortfolioSteps DEF IsReplay

-----------------------------------------------------------------------------
(* The inductive invariant. *)

\* y is a later state of the stored order x, or x itself.
Advances(x, y) ==
  /\ y.account = x.account /\ y.side = x.side /\ y.size = x.size
  /\ y.generation = x.generation
  /\ y.filled >= x.filled
  /\ x.status # "open" => y = x

\* The entries of the queue that are states of order o, and what they will store.
About(o) == {k \in DOMAIN queue : queue[k].type = "order" /\ queue[k].id = o}
Version(k) == RowOf(queue[k])

\* What would be stored of order o if it were journaled as `order` now.
VersionNow(o, order) == RowOf(OrderEntry(o, order))
\* x may be followed by that.
MayBecome(x, o, order) == x.status = "open" /\ Advances(x, VersionNow(o, order))

\* What is stored of an order, and what is queued behind it, only advances.
VersionsAdvance ==
  \A o \in OrderIds :
    /\ \A k \in About(o) : store.rows[o] # NoOrder => Advances(store.rows[o], Version(k))
    /\ \A k, l \in About(o) : k < l => Advances(Version(k), Version(l))

\* Whatever is stored or queued of order o is open and may become `order`.
AllMayBecome(o, order) ==
  /\ store.rows[o] # NoOrder => MayBecome(store.rows[o], o, order)
  /\ \A k \in About(o) : MayBecome(Version(k), o, order)
OpenMayAdvance == \A o \in OrderIds : IsOpen(o) => AllMayBecome(o, orders[o])

\* Ids from nextId on are used nowhere; a process that is down has no queue.
IdsUnused ==
  /\ up # "down" =>
       \A o \in OrderIds : o >= nextId =>
         orders[o] = NoOrder /\ store.rows[o] = NoOrder /\ About(o) = {}
  /\ up = "down" => queue = <<>> /\ \A o \in OrderIds : ~ IsOpen(o)

AccountOf(e) == IF e.type = "order" THEN e.order.account ELSE e.account
\* The store knows every generation that is stored, queued, in memory or on its way.
GenerationsKnown ==
  /\ \A a \in Accounts : generation[a] <= current[a]
  /\ \A k \in DOMAIN queue : queue[k].generation <= current[AccountOf(queue[k])]
  /\ \A r \in resets : r.generation <= current[r.account]
  /\ NoFutureGeneration

IInv == TypeOK /\ VersionsAdvance /\ OpenMayAdvance /\ IdsUnused /\ GenerationsKnown

\* Nothing advances to nothing: NoOrder is no row and no order.
LEMMA RecordFacts ==
  /\ \A x \in Order : x.status \in {"open", "filled", "cancelled"} /\ x # NoOrder
  /\ \A x \in Row : x.status \in {"open", "filled", "cancelled"} /\ x # NoOrder
  /\ NoOrder.status = "none"
  /\ \A e \in Entries : e.type = "order" <=> e \in OrderEntries
  /\ \A e \in Entries : e.type = "fill" <=> e \in FillEntries
  /\ \A e \in Entries : e.type = "conversion" <=> e \in ConversionEntries
  /\ \A e \in Entries : AccountOf(e) \in Accounts /\ e.generation \in Generations
  /\ \A e \in OrderEntries : e.id \in OrderIds /\ RowOf(e) \in Row /\ AccountOf(e) = e.order.account
                             /\ RowOf(e).account = e.order.account
                             /\ RowOf(e).generation = e.generation
BY DEF Order, Row, NoOrder, Entries, OrderEntries, FillEntries, ConversionEntries, AccountOf,
       RowOf

\* Advances is reflexive, and transitive from an open state.
LEMMA AdvancesFacts ==
  /\ \A x \in Row : Advances(x, x)
  /\ \A x, y, z \in Row : Advances(x, y) /\ Advances(y, z) /\ y.status = "open" => Advances(x, z)
<1>1. ASSUME NEW x \in Row PROVE Advances(x, x)
  BY DEF Advances, Row
<1>2. ASSUME NEW x \in Row, NEW y \in Row, NEW z \in Row, Advances(x, y), Advances(y, z),
             y.status = "open"
      PROVE  Advances(x, z)
  BY <1>2 DEF Advances, Row
<1> QED
  BY <1>1, <1>2

\* The journal's entries for an order are entries.
LEMMA EntryTypes ==
  ASSUME TypeOK, NEW o \in OrderIds, NEW order \in Order
  PROVE  /\ OrderEntry(o, order) \in OrderEntries
         /\ OrderEntry(o, order).type = "order" /\ OrderEntry(o, order).id = o
         /\ OrderEntry(o, order).generation = generation[order.account]
         /\ OrderEntry(o, order).order = order
         /\ \A q \in Nat : /\ FillEntry(o, order, q) \in FillEntries
                           /\ FillEntry(o, order, q).account = order.account
                           /\ FillEntry(o, order, q).generation = generation[order.account]
         /\ VersionNow(o, order) \in Row
         /\ VersionNow(o, order).status = order.status
<1>1. order.account \in Accounts /\ generation[order.account] \in Generations
  BY DEF TypeOK, Order
<1>2. OrderEntry(o, order) \in OrderEntries
  BY <1>1 DEF OrderEntry, OrderEntries
<1>3. ASSUME NEW q \in Nat PROVE FillEntry(o, order, q) \in FillEntries
  BY <1>1 DEF FillEntry, FillEntries, Order
<1>4. VersionNow(o, order) \in Row
  BY <1>2, RecordFacts DEF VersionNow
<1> QED
  BY <1>2, <1>3, <1>4 DEF OrderEntry, FillEntry, VersionNow, RowOf

-----------------------------------------------------------------------------
(* Calls of the broker: one order or none changes, its entries join the queue. *)

\* What Emit does to the queue's type and its elements.
LEMMA EmitFacts ==
  ASSUME TypeOK, NEW es \in Seq(Entries), Emit(es)
  PROVE  /\ queue' \in Seq(Entries)
         /\ \A k \in DOMAIN queue : k \in DOMAIN queue' /\ queue'[k] = queue[k]
         /\ \A k \in DOMAIN queue' : k \notin DOMAIN queue =>
              /\ k - Len(queue) \in DOMAIN es /\ queue'[k] = es[k - Len(queue)]
              /\ \A l \in DOMAIN queue : l < k
<1>1. queue \in Seq(Entries)
  BY DEF TypeOK, Entries
<1>2. CASE up = "serving"
  <2>1. queue' = queue \o es
    BY <1>2 DEF Emit
  <2> QED
    BY <1>1, <2>1
<1>3. CASE up # "serving"
  <2>1. queue' = queue
    BY <1>3 DEF Emit
  <2> QED
    BY <1>1, <2>1
<1> QED
  BY <1>2, <1>3

\* The entries of one execution: the order's, then perhaps its fill's.
LEMMA ExecutionEntriesFacts ==
  ASSUME TypeOK, NEW o \in OrderIds, NEW order \in Order, NEW q \in Nat
  PROVE  LET es == ExecutionEntries(o, order, q) IN
         /\ es \in Seq(Entries) /\ 1 \in DOMAIN es /\ es[1] = OrderEntry(o, order)
         /\ \A k \in DOMAIN es : k # 1 => es[k] = FillEntry(o, order, q)
<1>1. OrderEntry(o, order) \in Entries /\ FillEntry(o, order, q) \in Entries
  BY EntryTypes DEF Entries
<1>2. CASE q = 0
  BY <1>1, <1>2, ShortSequences DEF ExecutionEntries
<1>3. CASE q # 0
  BY <1>1, <1>3, ShortSequences DEF ExecutionEntries
<1> QED
  BY <1>2, <1>3

\* Order o becomes `order` and the call journals that first, then fills of it.
OrderCall(o, order, es) ==
  /\ BrokerCall
  /\ orders' = [orders EXCEPT ![o] = order]
  /\ Emit(es)
  /\ 1 \in DOMAIN es /\ es[1] = OrderEntry(o, order)
  /\ \A k \in DOMAIN es : k # 1 => es[k].type # "order" /\ AccountOf(es[k]) = order.account
                                   /\ es[k].generation = generation[order.account]

LEMMA OrderCallVersions ==
  ASSUME IInv, NEW o \in OrderIds, NEW order \in Order, NEW es \in Seq(Entries),
         OrderCall(o, order, es), AllMayBecome(o, order)
  PROVE  VersionsAdvance' /\ OpenMayAdvance' /\ GenerationsKnown'
<1>1. /\ TypeOK /\ Emit(es) /\ store' = store /\ generation' = generation
      /\ current' = current /\ resets' = resets
  BY DEF IInv, OrderCall, BrokerCall, disk
<1>2. /\ queue' \in Seq(Entries)
      /\ \A k \in DOMAIN queue : k \in DOMAIN queue' /\ queue'[k] = queue[k]
      /\ \A k \in DOMAIN queue' : k \notin DOMAIN queue =>
           /\ k - Len(queue) \in DOMAIN es /\ queue'[k] = es[k - Len(queue)]
           /\ \A l \in DOMAIN queue : l < k
  BY <1>1, EmitFacts
<1>3. Len(queue) \in Nat /\ DOMAIN queue = 1 .. Len(queue) /\ DOMAIN queue' = 1 .. Len(queue')
      /\ Len(queue') \in Nat
  BY <1>1, <1>2 DEF TypeOK
<1>4. ASSUME NEW p \in OrderIds, NEW k \in About(p)', k \notin About(p)
      PROVE  /\ p = o /\ k = Len(queue) + 1 /\ queue'[k] = OrderEntry(o, order)
             /\ Version(k)' = VersionNow(o, order)
  <2>1. k \in DOMAIN queue' /\ queue'[k].type = "order" /\ queue'[k].id = p
    BY <1>4 DEF About
  <2>2. k \notin DOMAIN queue
    BY <1>2, <1>4, <2>1 DEF About
  <2>3. k - Len(queue) \in DOMAIN es /\ queue'[k] = es[k - Len(queue)]
    BY <1>2, <2>1, <2>2
  <2>4. k - Len(queue) = 1
    BY <2>1, <2>3 DEF OrderCall
  <2>5. k = Len(queue) + 1
    BY <1>3, <2>1, <2>4
  <2>6. queue'[k] = OrderEntry(o, order)
    BY <2>3, <2>4 DEF OrderCall
  <2> QED
    BY <1>1, <2>1, <2>5, <2>6, EntryTypes DEF Version, VersionNow
<1>5. ASSUME NEW p \in OrderIds, NEW k \in About(p)
      PROVE  k \in About(p)' /\ Version(k)' = Version(k) /\ k <= Len(queue)
  BY <1>2, <1>3, <1>5 DEF About, Version
<1>6. VersionsAdvance'
  <2>1. ASSUME NEW p \in OrderIds, NEW k \in About(p)', store'.rows[p] # NoOrder
        PROVE  Advances(store'.rows[p], Version(k)')
    <3>1. CASE k \in About(p)
      BY <1>1, <1>5, <2>1, <3>1 DEF IInv, VersionsAdvance
    <3>2. CASE k \notin About(p)
      BY <1>1, <1>4, <2>1, <3>2 DEF AllMayBecome, MayBecome
    <3> QED
      BY <3>1, <3>2
  <2>2. ASSUME NEW p \in OrderIds, NEW k \in About(p)', NEW l \in About(p)', k < l
        PROVE  Advances(Version(k)', Version(l)')
    <3>1. CASE k \in About(p) /\ l \in About(p)
      BY <1>5, <2>2, <3>1 DEF IInv, VersionsAdvance
    <3>2. CASE k \in About(p) /\ l \notin About(p)
      BY <1>4, <1>5, <2>2, <3>2 DEF AllMayBecome, MayBecome
    <3>3. CASE k \notin About(p)
      <4>1. k = Len(queue) + 1
        BY <1>4, <3>3
      <4>2. l \in Nat
        BY <1>3, <2>2 DEF About
      <4>3. CASE l \in About(p)
        BY <1>3, <1>5, <2>2, <4>1, <4>2, <4>3
      <4>4. CASE l \notin About(p)
        BY <1>3, <1>4, <2>2, <4>1, <4>2, <4>4
      <4> QED
        BY <4>3, <4>4
    <3> QED
      BY <3>1, <3>2, <3>3
  <2> QED
    BY <2>1, <2>2 DEF VersionsAdvance
<1>7. OpenMayAdvance'
  <2>1. SUFFICES ASSUME NEW p \in OrderIds, IsOpen(p)' PROVE AllMayBecome(p, orders[p])'
    BY DEF OpenMayAdvance
  <2>2. \A q, r : VersionNow(q, r)' = VersionNow(q, r)
    BY <1>1 DEF VersionNow, OrderEntry
  <2>3. orders \in [OrderIds -> Order \cup {NoOrder}]
    BY <1>1 DEF TypeOK
  <2>4. CASE p = o
    <3>1. orders'[p] = order /\ order.status = "open"
      BY <2>1, <2>3, <2>4 DEF OrderCall, IsOpen
    <3>2. ASSUME NEW k \in About(p)' PROVE MayBecome(Version(k)', o, order)
      <4>1. CASE k \in About(p)
        BY <1>5, <2>4, <4>1 DEF AllMayBecome
      <4>2. CASE k \notin About(p)
        <5>1. Version(k)' = VersionNow(o, order)
          BY <1>4, <4>2
        <5> QED
          BY <1>1, <3>1, <5>1, EntryTypes, AdvancesFacts DEF MayBecome
      <4> QED
        BY <4>1, <4>2
    <3> QED
      BY <1>1, <2>2, <2>4, <3>1, <3>2 DEF AllMayBecome, MayBecome
  <2>5. CASE p # o
    <3>1. orders'[p] = orders[p] /\ IsOpen(p)
      BY <2>1, <2>3, <2>5 DEF OrderCall, IsOpen
    <3>2. AllMayBecome(p, orders[p])
      BY <3>1 DEF IInv, OpenMayAdvance
    <3>3. ASSUME NEW k \in About(p)' PROVE MayBecome(Version(k), p, orders[p]) /\ Version(k)' = Version(k)
      BY <1>4, <1>5, <2>5, <3>2 DEF AllMayBecome
    <3> QED
      BY <1>1, <2>2, <3>1, <3>2, <3>3 DEF AllMayBecome, MayBecome
  <2> QED
    BY <2>4, <2>5
<1>8. GenerationsKnown'
  <2>1. ASSUME NEW k \in DOMAIN queue'
        PROVE  queue'[k].generation <= current[AccountOf(queue'[k])]
    <3>1. CASE k \in DOMAIN queue
      BY <1>2, <3>1 DEF IInv, GenerationsKnown
    <3>2. CASE k \notin DOMAIN queue
      <4>1. k - Len(queue) \in DOMAIN es /\ queue'[k] = es[k - Len(queue)]
        BY <1>2, <3>2
      <4>2. /\ queue'[k].generation = generation[order.account]
            /\ AccountOf(queue'[k]) = order.account
        BY <1>1, <4>1, EntryTypes, RecordFacts DEF OrderCall
      <4>3. order.account \in Accounts
        BY DEF Order
      <4> QED
        BY <4>2, <4>3 DEF IInv, GenerationsKnown
    <3> QED
      BY <3>1, <3>2
  <2>2. NoFutureGeneration'
    BY <1>1 DEF IInv, GenerationsKnown, NoFutureGeneration
  <2>3. AccountOf(queue[1])' = AccountOf(queue'[1])
    BY DEF AccountOf
  <2> QED
    BY <1>1, <2>1, <2>2 DEF IInv, GenerationsKnown, AccountOf
<1> QED
  BY <1>6, <1>7, <1>8

LEMMA OrderCallIds ==
  ASSUME IInv, NEW o \in OrderIds, NEW order \in Order, NEW es \in Seq(Entries),
         OrderCall(o, order, es), nextId' \in Nat, nextId' >= nextId, o < nextId'
  PROVE  IdsUnused'
<1>1. TypeOK /\ Emit(es) /\ store' = store /\ up' # "down" /\ up # "down"
  BY DEF IInv, OrderCall, BrokerCall, disk
<1>2. ASSUME NEW p \in OrderIds, p >= nextId'
      PROVE  orders'[p] = NoOrder /\ store'.rows[p] = NoOrder /\ About(p)' = {}
  <2>1. p >= nextId /\ p # o
    BY <1>1, <1>2 DEF TypeOK, OrderIds
  <2>2. orders[p] = NoOrder /\ store.rows[p] = NoOrder /\ About(p) = {}
    BY <1>1, <2>1 DEF IInv, IdsUnused
  <2>3. orders'[p] = orders[p]
    BY <1>1, <2>1 DEF TypeOK, OrderCall
  <2>4. ASSUME NEW k \in About(p)' PROVE FALSE
    <3>1. k \in DOMAIN queue' /\ queue'[k].type = "order" /\ queue'[k].id = p
      BY <2>4 DEF About
    <3>2. k \notin DOMAIN queue
      BY <1>1, <2>2, <3>1, EmitFacts DEF About
    <3>3. k - Len(queue) \in DOMAIN es /\ queue'[k] = es[k - Len(queue)]
      BY <1>1, <3>1, <3>2, EmitFacts
    <3>4. queue'[k] = OrderEntry(o, order)
      BY <3>1, <3>3 DEF OrderCall
    <3> QED
      BY <1>1, <2>1, <3>1, <3>4, EntryTypes
  <2> QED
    BY <1>1, <2>2, <2>3, <2>4
<1> QED
  BY <1>1, <1>2 DEF IdsUnused

\* What a client asked for or a match found, booked.
LEMMA BookFillType ==
  ASSUME TypeOK, NEW a \in Accounts, NEW side, NEW q \in Nat, BookFill(a, side, q)
  PROVE  cash' \in [Accounts -> Int] /\ units' \in [Accounts -> Int]
BY DEF TypeOK, BookFill

LEMMA PlaceKeeps ==
  ASSUME IInv, NEW a \in Accounts, NEW side \in {"buy", "sell"}, NEW size \in Sizes,
         NEW rests \in BOOLEAN, NEW taken \in 0 .. size, Place(a, side, size, taken, rests)
  PROVE  IInv'
<1> DEFINE order == [account |-> a, side |-> side, size |-> size, filled |-> taken,
                     status |-> IF taken = size THEN "filled"
                                ELSE IF rests THEN "open" ELSE "cancelled"]
           es == ExecutionEntries(nextId, order, taken)
<1>1. TypeOK /\ size \in Nat /\ taken \in Nat
  BY BoundAssumption DEF IInv
<1>2. order \in Order
  BY <1>1 DEF Order
<1>3. nextId \in OrderIds /\ nextId' = nextId + 1 /\ up # "down" /\ BookFill(a, side, taken)
  BY <1>1 DEF Place, TypeOK, OrderIds, BrokerCall
<1>4. BrokerCall /\ orders' = [orders EXCEPT ![nextId] = order] /\ Emit(es)
  BY DEF Place
<1> HIDE DEF order
<1>5. /\ es \in Seq(Entries) /\ 1 \in DOMAIN es /\ es[1] = OrderEntry(nextId, order)
      /\ \A k \in DOMAIN es : k # 1 => es[k] = FillEntry(nextId, order, taken)
  BY <1>1, <1>2, <1>3, ExecutionEntriesFacts
<1>6. OrderCall(nextId, order, es)
  <2>1. FillEntry(nextId, order, taken) \in FillEntries
    BY <1>1, <1>2, <1>3, EntryTypes
  <2>2. /\ FillEntry(nextId, order, taken).type # "order"
        /\ AccountOf(FillEntry(nextId, order, taken)) = order.account
        /\ FillEntry(nextId, order, taken).generation = generation[order.account]
    BY DEF FillEntry, AccountOf
  <2> HIDE DEF es
  <2> QED
    BY <1>4, <1>5, <2>2 DEF OrderCall
<1>7. AllMayBecome(nextId, order)
  <2>1. nextId >= nextId
    BY <1>3 DEF OrderIds
  <2>2. store.rows[nextId] = NoOrder /\ About(nextId) = {}
    BY <1>3, <2>1 DEF IInv, IdsUnused
  <2> QED
    BY <2>2 DEF AllMayBecome
<1>8. VersionsAdvance' /\ OpenMayAdvance' /\ GenerationsKnown'
  <2> HIDE DEF es
  <2> QED
    BY <1>2, <1>3, <1>5, <1>6, <1>7, OrderCallVersions
<1>9. TypeOK'
  <2>1. queue' \in Seq(OrderEntries \cup FillEntries \cup ConversionEntries)
    BY <1>1, <1>4, <1>5, EmitFacts DEF Entries
  <2>2. orders' \in [OrderIds -> Order \cup {NoOrder}]
    BY <1>1, <1>2, <1>4 DEF TypeOK
  <2>3. nextId' \in 1 .. MaxOrders + 1
    BY <1>3, BoundAssumption DEF OrderIds
  <2>4. cash' \in [Accounts -> Int] /\ units' \in [Accounts -> Int]
    BY <1>1, <1>3, BookFillType
  <2> QED
    BY <1>1, <1>4, <2>1, <2>2, <2>3, <2>4 DEF TypeOK, BrokerCall, disk
<1>10. IdsUnused'
  <2>1. nextId < nextId' /\ nextId' >= nextId /\ nextId' \in Nat
    BY <1>3 DEF OrderIds
  <2> HIDE DEF es
  <2> QED
    BY <1>2, <1>3, <1>5, <1>6, <2>1, OrderCallIds
<1> QED
  BY <1>8, <1>9, <1>10 DEF IInv

\* A later state of an open order may follow whatever is stored or queued of it.
LEMMA OpenMayBecome ==
  ASSUME IInv, NEW o \in OrderIds, IsOpen(o), NEW order \in Order,
         order.account = orders[o].account, order.side = orders[o].side,
         order.size = orders[o].size, order.filled >= orders[o].filled
  PROVE  AllMayBecome(o, order) /\ orders[o] \in Order /\ nextId \in Nat /\ o < nextId
<1>1. TypeOK
  BY DEF IInv
<1>2. orders[o] \in Order
  BY <1>1, RecordFacts DEF TypeOK, IsOpen
<1>3. orders[o].status = "open"
  BY DEF IsOpen
<1>4. Advances(VersionNow(o, orders[o]), VersionNow(o, order))
  BY <1>3 DEF Advances, VersionNow, OrderEntry, RowOf
<1>5. /\ VersionNow(o, order) \in Row /\ VersionNow(o, orders[o]) \in Row
      /\ VersionNow(o, orders[o]).status = "open"
  BY <1>1, <1>2, <1>3, EntryTypes
<1>6. ASSUME NEW x \in Row, MayBecome(x, o, orders[o]) PROVE MayBecome(x, o, order)
  BY <1>4, <1>5, <1>6, AdvancesFacts DEF MayBecome
<1>7. store.rows[o] # NoOrder => store.rows[o] \in Row
  BY <1>1 DEF TypeOK
<1>8. ASSUME NEW k \in About(o) PROVE Version(k) \in Row
  <2>1. queue[k] \in OrderEntries
    BY <1>1, <1>8, RecordFacts DEF TypeOK, About, Entries
  <2> QED
    BY <2>1, RecordFacts DEF Version
<1>9. AllMayBecome(o, order)
  BY <1>6, <1>7, <1>8 DEF IInv, OpenMayAdvance, AllMayBecome
<1>10. nextId \in Nat /\ o < nextId
  <2>1. up # "down" /\ orders[o] # NoOrder
    BY <1>2, RecordFacts DEF IInv, IdsUnused
  <2>2. ~ (o >= nextId)
    BY <2>1 DEF IInv, IdsUnused
  <2> QED
    BY <1>1, <2>2 DEF TypeOK, OrderIds
<1> QED
  BY <1>2, <1>9, <1>10

\* A resting order is filled or cancelled.
LEMMA OrderCallKeeps ==
  ASSUME IInv, NEW o \in OrderIds, IsOpen(o), NEW order \in Order, NEW es \in Seq(Entries),
         OrderCall(o, order, es), order.account = orders[o].account,
         order.side = orders[o].side, order.size = orders[o].size,
         order.filled >= orders[o].filled, nextId' = nextId,
         cash' \in [Accounts -> Int], units' \in [Accounts -> Int]
  PROVE  IInv'
<1>1. TypeOK /\ Emit(es) /\ BrokerCall
  BY DEF IInv, OrderCall
<1>2. AllMayBecome(o, order) /\ nextId \in Nat /\ o < nextId
  BY OpenMayBecome
<1>3. VersionsAdvance' /\ OpenMayAdvance' /\ GenerationsKnown'
  BY <1>2, OrderCallVersions
<1>4. IdsUnused'
  BY <1>2, OrderCallIds
<1>5. TypeOK'
  <2>1. queue' \in Seq(OrderEntries \cup FillEntries \cup ConversionEntries)
    BY <1>1, EmitFacts DEF Entries
  <2>2. orders' \in [OrderIds -> Order \cup {NoOrder}]
    BY <1>1 DEF TypeOK, OrderCall
  <2> QED
    BY <1>1, <2>1, <2>2 DEF TypeOK, BrokerCall, disk
<1> QED
  BY <1>3, <1>4, <1>5 DEF IInv

LEMMA FillKeeps ==
  ASSUME IInv, NEW o \in OrderIds, NEW q \in Sizes, Fill(o, q)
  PROVE  IInv'
<1> DEFINE filled == orders[o].filled + q
           status == IF filled = orders[o].size THEN "filled" ELSE orders[o].status
           order == [orders[o] EXCEPT !.filled = filled, !.status = status]
           es == ExecutionEntries(o, order, q)
<1>1. TypeOK /\ IsOpen(o) /\ q \in Nat
  BY BoundAssumption DEF IInv, Fill
<1>2. orders[o] \in Order
  BY <1>1, RecordFacts DEF TypeOK, IsOpen
<1>3. /\ order \in Order /\ order.account = orders[o].account /\ order.side = orders[o].side
      /\ order.size = orders[o].size /\ order.filled >= orders[o].filled
  <2>1. filled \in Nat /\ filled >= orders[o].filled /\ status \in {"open", "filled", "cancelled"}
    BY <1>1, <1>2 DEF Order
  <2> HIDE DEF filled, status
  <2> QED
    BY <1>2, <2>1 DEF Order
<1>4. /\ BrokerCall /\ orders' = [orders EXCEPT ![o] = order] /\ Emit(es)
      /\ BookFill(order.account, order.side, q) /\ nextId' = nextId
  BY DEF Fill
<1> HIDE DEF order
<1>5. /\ es \in Seq(Entries) /\ 1 \in DOMAIN es /\ es[1] = OrderEntry(o, order)
      /\ \A k \in DOMAIN es : k # 1 => es[k] = FillEntry(o, order, q)
  BY <1>1, <1>3, ExecutionEntriesFacts
<1> HIDE DEF es
<1>6. OrderCall(o, order, es)
  <2>1. /\ FillEntry(o, order, q).type # "order"
        /\ AccountOf(FillEntry(o, order, q)) = order.account
        /\ FillEntry(o, order, q).generation = generation[order.account]
    BY DEF FillEntry, AccountOf
  <2> QED
    BY <1>4, <1>5, <2>1 DEF OrderCall
<1>7. cash' \in [Accounts -> Int] /\ units' \in [Accounts -> Int]
  <2>1. order.account \in Accounts
    BY <1>3 DEF Order
  <2> QED
    BY <1>1, <1>4, <2>1, BookFillType
<1> QED
  BY <1>1, <1>3, <1>4, <1>5, <1>6, <1>7, OrderCallKeeps

LEMMA CloseKeeps ==
  ASSUME IInv, NEW o \in OrderIds, Close(o)
  PROVE  IInv'
<1> DEFINE order == [orders[o] EXCEPT !.status = "cancelled"]
           es == <<OrderEntry(o, order)>>
<1>1. TypeOK /\ IsOpen(o)
  BY DEF IInv, Close
<1>2. orders[o] \in Order
  BY <1>1, RecordFacts DEF TypeOK, IsOpen
<1>3. /\ order \in Order /\ order.account = orders[o].account /\ order.side = orders[o].side
      /\ order.size = orders[o].size /\ order.filled >= orders[o].filled
  BY <1>2 DEF Order
<1>4. /\ BrokerCall /\ orders' = [orders EXCEPT ![o] = order] /\ Emit(es)
      /\ cash' = cash /\ units' = units /\ nextId' = nextId
  BY DEF Close
<1> HIDE DEF order
<1>5. es \in Seq(Entries) /\ DOMAIN es = {1} /\ es[1] = OrderEntry(o, order)
  BY <1>1, <1>3, EntryTypes, ShortSequences DEF Entries
<1> HIDE DEF es
<1>6. OrderCall(o, order, es)
  BY <1>4, <1>5 DEF OrderCall
<1>7. cash' \in [Accounts -> Int] /\ units' \in [Accounts -> Int]
  BY <1>1, <1>4 DEF TypeOK
<1> QED
  BY <1>1, <1>3, <1>4, <1>5, <1>6, <1>7, OrderCallKeeps

LEMMA ConvertKeeps ==
  ASSUME IInv, NEW a \in Accounts, Convert(a, 1)
  PROVE  IInv'
<1> DEFINE e == [type |-> "conversion", generation |-> generation[a], account |-> a,
                 amount |-> 1]
           es == <<e>>
<1>1. /\ TypeOK /\ BrokerCall /\ Emit(es) /\ orders' = orders /\ units' = units
      /\ nextId' = nextId /\ cash' = [cash EXCEPT ![a] = @ - 1]
  BY DEF IInv, Convert
<1>2. e \in ConversionEntries
  BY <1>1 DEF TypeOK, ConversionEntries
<1>3. e.type # "order" /\ AccountOf(e) = a /\ e.generation = generation[a]
  BY DEF AccountOf
<1> HIDE DEF e
<1>4. es \in Seq(Entries) /\ DOMAIN es = {1} /\ es[1] = e
  BY <1>2, ShortSequences DEF Entries
<1> HIDE DEF es
<1>5. /\ queue' \in Seq(Entries)
      /\ \A k \in DOMAIN queue : k \in DOMAIN queue' /\ queue'[k] = queue[k]
      /\ \A k \in DOMAIN queue' : k \notin DOMAIN queue => queue'[k] = e
  BY <1>1, <1>4, EmitFacts
<1>6. /\ up' = up /\ up # "down" /\ store' = store /\ generation' = generation
      /\ current' = current /\ resets' = resets
  BY <1>1 DEF BrokerCall, disk
<1>7. ASSUME NEW o \in OrderIds
      PROVE  About(o)' = About(o) /\ \A k \in About(o) : Version(k)' = Version(k)
  BY <1>3, <1>5 DEF About, Version
<1>8. VersionsAdvance'
  BY <1>6, <1>7 DEF IInv, VersionsAdvance
<1>9. OpenMayAdvance'
  BY <1>1, <1>6, <1>7 DEF IInv, OpenMayAdvance, AllMayBecome, MayBecome, VersionNow, OrderEntry,
     IsOpen
<1>10. IdsUnused'
  BY <1>1, <1>6, <1>7 DEF IInv, IdsUnused
<1>11. GenerationsKnown'
  <2>1. ASSUME NEW k \in DOMAIN queue'
        PROVE  queue'[k].generation <= current[AccountOf(queue'[k])]
    BY <1>3, <1>5 DEF IInv, GenerationsKnown
  <2>2. NoFutureGeneration'
    BY <1>6 DEF IInv, GenerationsKnown, NoFutureGeneration
  <2> QED
    BY <1>6, <2>1, <2>2 DEF IInv, GenerationsKnown, AccountOf
<1>12. TypeOK'
  <2>1. cash' \in [Accounts -> Int]
    BY <1>1 DEF TypeOK
  <2> QED
    BY <1>1, <1>5, <2>1 DEF TypeOK, BrokerCall, disk, Entries
<1> QED
  BY <1>8, <1>9, <1>10, <1>11, <1>12 DEF IInv

-----------------------------------------------------------------------------
(* The writer. *)

\* Rows are what their fields are.
LEMMA RowEquality ==
  ASSUME NEW x \in Row, NEW y \in Row, x.account = y.account, x.side = y.side,
         x.size = y.size, x.filled = y.filled, x.status = y.status,
         x.generation = y.generation
  PROVE  x = y
BY DEF Row

\* Committing the head of the queue stores that entry: an order's row becomes what
\* its entry says, though the upsert keeps the fields that identify it.
LEMMA CommitFacts ==
  ASSUME TypeOK, VersionsAdvance, queue # <<>>
  PROVE  LET e == Head(queue)
             s == Commit(store, e)
         IN  /\ s \in [rows : [OrderIds -> Row \cup {NoOrder}], ledger : Seq(LedgerEntries)]
             /\ \A o \in OrderIds : \/ s.rows[o] = store.rows[o]
                                    \/ 1 \in About(o) /\ s.rows[o] = Version(1)
             /\ \/ s.ledger = store.ledger
                \/ e \in LedgerEntries /\ s.ledger = Append(store.ledger, e)
<1> DEFINE e == Head(queue)
           s == Commit(store, e)
<1>1. queue \in Seq(Entries)
  BY DEF TypeOK, Entries
<1>2. e = queue[1] /\ e \in Entries /\ 1 \in DOMAIN queue
  BY <1>1, TailFacts
<1>3. /\ store.rows \in [OrderIds -> Row \cup {NoOrder}] /\ store.ledger \in Seq(LedgerEntries)
      /\ store \in [rows : [OrderIds -> Row \cup {NoOrder}], ledger : Seq(LedgerEntries)]
  BY DEF TypeOK, LedgerEntries
<1>4. CASE e.type = "order"
  <2>1. e \in OrderEntries /\ RowOf(e) \in Row /\ e.id \in OrderIds
    BY <1>2, <1>4, RecordFacts
  <2>2. 1 \in About(e.id) /\ Version(1) = RowOf(e)
    BY <1>2, <1>4 DEF About, Version
  <2> DEFINE old == store.rows[e.id]
             new == IF old = NoOrder THEN RowOf(e)
                    ELSE [old EXCEPT !.status = e.order.status, !.filled = e.order.filled]
  <2>3. s = [store EXCEPT !.rows[e.id] = new]
    BY <1>4 DEF Commit
  <2>4. new = Version(1)
    <3>1. CASE old = NoOrder
      BY <2>2, <3>1
    <3>2. CASE old # NoOrder
      <4>1. old \in Row
        BY <1>3, <2>1, <3>2
      <4>2. Advances(old, RowOf(e))
        BY <2>1, <2>2, <3>2 DEF VersionsAdvance
      <4>3. RowOf(e).status = e.order.status /\ RowOf(e).filled = e.order.filled
        BY DEF RowOf
      <4>4. e.order.status \in {"open", "filled", "cancelled"} /\ e.order.filled \in Nat
        BY <2>1, <4>3 DEF Row
      <4> DEFINE status == e.order.status
                 filled == e.order.filled
                 upsert == [old EXCEPT !.status = status, !.filled = filled]
      <4>5. /\ upsert \in Row /\ upsert.account = old.account /\ upsert.side = old.side
            /\ upsert.size = old.size /\ upsert.generation = old.generation
            /\ upsert.status = status /\ upsert.filled = filled
        <5> HIDE DEF status, filled, old, e
        <5>1. status \in {"open", "filled", "cancelled"} /\ filled \in Nat
          BY <4>4 DEF status, filled
        <5> QED
          BY <4>1, <5>1 DEF Row
      <4>6. upsert = RowOf(e)
        <5> HIDE DEF upsert
        <5> QED
          BY <2>1, <4>2, <4>3, <4>5, RowEquality DEF Advances
      <4> QED
        BY <2>2, <3>2, <4>6
    <3> QED
      BY <3>1, <3>2
  <2>5. new \in Row
    BY <2>1, <2>2, <2>4
  <2> HIDE DEF new, e
  <2>6. s \in [rows : [OrderIds -> Row \cup {NoOrder}], ledger : Seq(LedgerEntries)]
        /\ s.ledger = store.ledger /\ s.rows = [store.rows EXCEPT ![e.id] = new]
    BY <1>3, <2>1, <2>3, <2>5
  <2>7. ASSUME NEW o \in OrderIds
        PROVE  s.rows[o] = store.rows[o] \/ (1 \in About(o) /\ s.rows[o] = Version(1))
    BY <1>3, <2>2, <2>4, <2>6
  <2> QED
    BY <2>6, <2>7 DEF e
<1>5. CASE e.type # "order"
  <2>1. e \in LedgerEntries
    BY <1>2, <1>5, RecordFacts DEF Entries, LedgerEntries
  <2>2. s = [store EXCEPT !.ledger = Append(store.ledger, e)]
    BY <1>5 DEF Commit
  <2>3. Append(store.ledger, e) \in Seq(LedgerEntries)
    BY <1>3, <2>1
  <2>4. s.rows = store.rows /\ s.ledger = Append(store.ledger, e)
        /\ s \in [rows : [OrderIds -> Row \cup {NoOrder}], ledger : Seq(LedgerEntries)]
    BY <1>3, <2>2, <2>3
  <2> QED
    BY <2>1, <2>4
<1> QED
  BY <1>4, <1>5

\* Stored orders advance in a step.
RowsAdvance ==
  \A o \in OrderIds : store.rows[o] # NoOrder => Advances(store.rows[o], store'.rows[o])

\* A turn of the writer: the head is committed or not, and done with or not.
LEMMA WriterKeeps ==
  ASSUME IInv, WriterTurn, store' = store \/ store' = Commit(store, Head(queue)),
         queue' = queue \/ queue' = Tail(queue), attempt' \in 0 .. Attempts - 1
  PROVE  IInv' /\ RowsAdvance
<1> DEFINE d == IF queue' = queue THEN 0 ELSE 1
<1>1. /\ TypeOK /\ queue # <<>> /\ up # "down" /\ up' = up /\ orders' = orders
      /\ generation' = generation /\ current' = current /\ resets' = resets
      /\ nextId' = nextId /\ cash' = cash /\ units' = units /\ stops' = stops
  BY DEF IInv, WriterTurn, world
<1>2. queue \in Seq(Entries)
  BY <1>1 DEF TypeOK, Entries
<1>3. /\ queue' \in Seq(Entries) /\ d \in {0, 1}
      /\ \A k \in DOMAIN queue' : k + d \in DOMAIN queue /\ queue'[k] = queue[k + d]
  <2>1. CASE queue' = queue
    <3>1. d = 0
      BY <2>1
    <3> HIDE DEF d
    <3> QED
      BY <1>2, <2>1, <3>1
  <2>2. CASE queue' # queue
    <3>1. d = 1 /\ queue' = Tail(queue)
      BY <2>2
    <3> HIDE DEF d
    <3> QED
      BY <1>1, <1>2, <3>1, TailFacts
  <2> QED
    BY <2>1, <2>2
<1> HIDE DEF d
<1>4. ASSUME NEW o \in OrderIds, NEW k \in About(o)'
      PROVE  k \in Nat /\ k + d \in About(o) /\ Version(k)' = Version(k + d) /\ 1 <= k + d
  BY <1>2, <1>3, <1>4 DEF About, Version
<1>5. /\ store' \in [rows : [OrderIds -> Row \cup {NoOrder}], ledger : Seq(LedgerEntries)]
      /\ \A o \in OrderIds : \/ store'.rows[o] = store.rows[o]
                             \/ 1 \in About(o) /\ store'.rows[o] = Version(1)
      /\ \/ store'.ledger = store.ledger
         \/ /\ Head(queue) \in LedgerEntries
            /\ store'.ledger = Append(store.ledger, Head(queue))
  <2>1. CASE store' = store
    BY <1>1, <2>1 DEF TypeOK, LedgerEntries
  <2>2. CASE store' = Commit(store, Head(queue))
    BY <1>1, <2>2, CommitFacts DEF IInv
  <2> QED
    BY <2>1, <2>2
<1>6. ASSUME NEW o \in OrderIds, NEW k \in About(o) PROVE Version(k) \in Row
  <2>1. queue[k] \in OrderEntries
    BY <1>2, <1>6, RecordFacts DEF About
  <2> QED
    BY <2>1, RecordFacts DEF Version
<1>7. VersionsAdvance'
  <2>1. ASSUME NEW o \in OrderIds, NEW k \in About(o)', store'.rows[o] # NoOrder
        PROVE  Advances(store'.rows[o], Version(k)')
    <3>1. k + d \in About(o) /\ Version(k)' = Version(k + d) /\ 1 <= k + d /\ k \in Nat
      BY <1>4
    <3>2. CASE store'.rows[o] = store.rows[o]
      BY <2>1, <3>1, <3>2 DEF IInv, VersionsAdvance
    <3>3. CASE 1 \in About(o) /\ store'.rows[o] = Version(1)
      <4>1. CASE k + d = 1
        BY <1>6, <3>1, <3>3, <4>1, AdvancesFacts
      <4>2. CASE k + d # 1
        <5>1. 1 < k + d
          BY <1>3, <3>1, <4>2
        <5> QED
          BY <3>1, <3>3, <5>1 DEF IInv, VersionsAdvance
      <4> QED
        BY <4>1, <4>2
    <3> QED
      BY <1>5, <3>2, <3>3
  <2>2. ASSUME NEW o \in OrderIds, NEW k \in About(o)', NEW l \in About(o)', k < l
        PROVE  Advances(Version(k)', Version(l)')
    <3>1. /\ k + d \in About(o) /\ Version(k)' = Version(k + d) /\ k \in Nat
          /\ l + d \in About(o) /\ Version(l)' = Version(l + d) /\ l \in Nat
      BY <1>4
    <3>2. k + d < l + d
      BY <1>3, <2>2, <3>1
    <3> QED
      BY <3>1, <3>2 DEF IInv, VersionsAdvance
  <2> QED
    BY <2>1, <2>2 DEF VersionsAdvance
<1>8. OpenMayAdvance'
  <2>1. SUFFICES ASSUME NEW o \in OrderIds, IsOpen(o) PROVE AllMayBecome(o, orders[o])'
    BY <1>1 DEF OpenMayAdvance, IsOpen
  <2>2. AllMayBecome(o, orders[o])
    BY <2>1 DEF IInv, OpenMayAdvance
  <2>3. VersionNow(o, orders[o])' = VersionNow(o, orders[o])
    BY <1>1 DEF VersionNow, OrderEntry
  <2>4. store'.rows[o] # NoOrder => MayBecome(store'.rows[o], o, orders[o])
    BY <1>5, <2>2 DEF AllMayBecome
  <2>5. ASSUME NEW k \in About(o)' PROVE MayBecome(Version(k)', o, orders[o])
    BY <1>4, <2>2 DEF AllMayBecome
  <2> QED
    BY <1>1, <2>3, <2>4, <2>5 DEF AllMayBecome, MayBecome
<1>9. IdsUnused'
  <2>1. ASSUME NEW o \in OrderIds, o >= nextId
        PROVE  orders[o] = NoOrder /\ store'.rows[o] = NoOrder /\ About(o)' = {}
    <3>1. orders[o] = NoOrder /\ store.rows[o] = NoOrder /\ About(o) = {}
      BY <1>1, <2>1 DEF IInv, IdsUnused
    <3> QED
      BY <1>4, <1>5, <3>1
  <2> QED
    BY <1>1, <2>1 DEF IdsUnused
<1>10. Head(queue) = queue[1] /\ 1 \in DOMAIN queue
  BY <1>1, <1>2, TailFacts
<1>11. GenerationsKnown'
  <2>1. ASSUME NEW k \in DOMAIN queue'
        PROVE  queue'[k].generation <= current[AccountOf(queue'[k])]
    BY <1>3 DEF IInv, GenerationsKnown
  <2>2. ASSUME NEW o \in OrderIds, store'.rows[o] # NoOrder
        PROVE  store'.rows[o].generation <= current[store'.rows[o].account]
    <3>1. CASE store'.rows[o] = store.rows[o]
      BY <2>2, <3>1 DEF IInv, GenerationsKnown, NoFutureGeneration
    <3>2. CASE 1 \in About(o) /\ store'.rows[o] = Version(1)
      <4>1. queue[1] \in OrderEntries
        BY <1>2, <3>2, RecordFacts DEF About
      <4>2. /\ store'.rows[o].generation = queue[1].generation
            /\ store'.rows[o].account = AccountOf(queue[1])
        BY <3>2, <4>1, RecordFacts DEF Version
      <4> QED
        BY <1>10, <4>2 DEF IInv, GenerationsKnown
    <3> QED
      BY <1>5, <3>1, <3>2
  <2>3. ASSUME NEW k \in DOMAIN store'.ledger
        PROVE  store'.ledger[k].generation <= current[store'.ledger[k].account]
    <3>1. CASE store'.ledger = store.ledger
      BY <3>1 DEF IInv, GenerationsKnown, NoFutureGeneration
    <3>2. CASE Head(queue) \in LedgerEntries /\ store'.ledger = Append(store.ledger, Head(queue))
      <4>1. store.ledger \in Seq(LedgerEntries)
        BY <1>1 DEF TypeOK, LedgerEntries
      <4>2. CASE k \in DOMAIN store.ledger
        <5>1. store'.ledger[k] = store.ledger[k]
          BY <3>2, <4>1, <4>2
        <5> QED
          BY <4>2, <5>1 DEF IInv, GenerationsKnown, NoFutureGeneration
      <4>3. CASE k \notin DOMAIN store.ledger
        <5>1. store'.ledger[k] = queue[1]
          BY <1>10, <3>2, <4>1, <4>3
        <5>2. queue[1].account = AccountOf(queue[1])
          BY <1>10, <3>2 DEF AccountOf, LedgerEntries, FillEntries, ConversionEntries
        <5> QED
          BY <1>10, <5>1, <5>2 DEF IInv, GenerationsKnown
      <4> QED
        BY <4>2, <4>3
    <3> QED
      BY <1>5, <3>1, <3>2
  <2>4. NoFutureGeneration'
    BY <1>1, <2>2, <2>3 DEF NoFutureGeneration
  <2> QED
    BY <1>1, <2>1, <2>4 DEF IInv, GenerationsKnown, AccountOf
<1>12. TypeOK'
  BY <1>1, <1>3, <1>5 DEF TypeOK, Entries, LedgerEntries
<1>13. RowsAdvance
  <2>1. ASSUME NEW o \in OrderIds, store.rows[o] # NoOrder
        PROVE  Advances(store.rows[o], store'.rows[o])
    <3>1. store.rows[o] \in Row
      BY <1>1, <2>1 DEF TypeOK
    <3>2. CASE store'.rows[o] = store.rows[o]
      BY <3>1, <3>2, AdvancesFacts
    <3>3. CASE 1 \in About(o) /\ store'.rows[o] = Version(1)
      BY <2>1, <3>3 DEF IInv, VersionsAdvance
    <3> QED
      BY <1>5, <3>2, <3>3
  <2> QED
    BY <2>1 DEF RowsAdvance
<1> QED
  BY <1>7, <1>8, <1>9, <1>11, <1>12, <1>13 DEF IInv

-----------------------------------------------------------------------------
(* Resets, starts and stops. *)

\* The same queue is about the same orders.
LEMMA QueueUnchanged ==
  ASSUME queue' = queue
  PROVE  /\ \A o \in OrderIds : About(o)' = About(o)
         /\ \A k : Version(k)' = Version(k)
BY DEF About, Version

LEMMA ResetStoreKeeps ==
  ASSUME IInv, NEW a \in Accounts, ResetStore(a) \/ ResetOffline(a)
  PROVE  IInv'
<1>1. /\ TypeOK /\ UNCHANGED <<world, store, up, queue, attempt, stops>>
      /\ current[a] < MaxGeneration
      /\ current' = [current EXCEPT ![a] = @ + 1]
      /\ \/ resets' = resets
         \/ resets' = resets \cup {[account |-> a, generation |-> current[a] + 1]}
  BY DEF IInv, ResetStore, ResetOffline
<1>2. current' \in [Accounts -> Generations] /\ \A b \in Accounts : current[b] <= current'[b]
  BY <1>1, BoundAssumption DEF TypeOK, Generations
<1>3. current'[a] = current[a] + 1 /\ current[a] + 1 \in Generations
  BY <1>1, BoundAssumption DEF TypeOK, Generations
<1>4. TypeOK'
  <2>1. resets' \subseteq Reset
    BY <1>1, <1>3 DEF TypeOK, Reset
  <2> QED
    BY <1>1, <1>2, <2>1 DEF TypeOK, world
<1>5. VersionsAdvance' /\ OpenMayAdvance' /\ IdsUnused'
  BY <1>1, QueueUnchanged DEF IInv, VersionsAdvance, OpenMayAdvance, IdsUnused, AllMayBecome,
     MayBecome, VersionNow, OrderEntry, IsOpen, world
<1>6. ASSUME NEW g \in Generations, NEW b \in Accounts, g <= current[b]
      PROVE  g <= current'[b]
  BY <1>1, <1>2, <1>6 DEF TypeOK, Generations
<1>7. GenerationsKnown'
  <2>1. ASSUME NEW b \in Accounts PROVE generation'[b] <= current'[b]
    BY <1>1, <1>6 DEF IInv, GenerationsKnown, TypeOK, world
  <2>2. ASSUME NEW k \in DOMAIN queue
        PROVE  queue[k].generation <= current'[AccountOf(queue[k])]
    <3>1. queue[k] \in Entries
      BY <1>1 DEF TypeOK, Entries
    <3>2. AccountOf(queue[k]) \in Accounts /\ queue[k].generation \in Generations
      BY <3>1, RecordFacts
    <3> QED
      BY <1>6, <3>2 DEF IInv, GenerationsKnown
  <2>3. ASSUME NEW r \in resets' PROVE r.generation <= current'[r.account]
    <3>1. CASE r \in resets
      <4>1. r.account \in Accounts /\ r.generation \in Generations
        BY <1>1, <3>1 DEF TypeOK, Reset
      <4> QED
        BY <1>6, <3>1, <4>1 DEF IInv, GenerationsKnown
    <3>2. CASE r \notin resets
      <4>1. r = [account |-> a, generation |-> current[a] + 1]
        BY <1>1, <2>3, <3>2
      <4> QED
        BY <1>3, <4>1 DEF Generations
    <3> QED
      BY <3>1, <3>2
  <2>4. NoFutureGeneration'
    <3>1. ASSUME NEW o \in OrderIds, store.rows[o] # NoOrder
          PROVE  store.rows[o].generation <= current'[store.rows[o].account]
      <4>1. store.rows[o] \in Row
        BY <1>1, <3>1 DEF TypeOK
      <4>2. store.rows[o].account \in Accounts /\ store.rows[o].generation \in Generations
        BY <4>1 DEF Row
      <4> QED
        BY <1>6, <3>1, <4>2 DEF IInv, GenerationsKnown, NoFutureGeneration
    <3>2. ASSUME NEW k \in DOMAIN store.ledger
          PROVE  store.ledger[k].generation <= current'[store.ledger[k].account]
      <4>1. store.ledger[k] \in FillEntries \cup ConversionEntries
        BY <1>1 DEF TypeOK
      <4>2. store.ledger[k].account \in Accounts /\ store.ledger[k].generation \in Generations
        BY <4>1 DEF FillEntries, ConversionEntries
      <4> QED
        BY <1>6, <4>2 DEF IInv, GenerationsKnown, NoFutureGeneration
    <3> QED
      BY <1>1, <3>1, <3>2 DEF NoFutureGeneration
  <2> QED
    BY <1>1, <2>1, <2>2, <2>3, <2>4 DEF GenerationsKnown, AccountOf
<1> QED
  BY <1>4, <1>5, <1>7 DEF IInv

LEMMA ResetBrokerKeeps ==
  ASSUME IInv, NEW r \in resets, ResetBroker(r)
  PROVE  IInv'
<1>1. /\ TypeOK /\ UNCHANGED <<nextId, store, current, up, queue, attempt, stops>>
      /\ resets' = resets \ {r}
      /\ generation' = [generation EXCEPT ![r.account] = r.generation]
      /\ cash' = [cash EXCEPT ![r.account] = Deposit]
      /\ units' = [units EXCEPT ![r.account] = 0]
  BY DEF IInv, ResetBroker, disk
<1>2. r.account \in Accounts /\ r.generation \in Generations
  BY <1>1 DEF TypeOK, Reset
<1>3. /\ orders' \in [OrderIds -> Order \cup {NoOrder}]
      /\ \A o \in OrderIds :
           /\ orders[o] = NoOrder => orders'[o] = NoOrder
           /\ IsOpen(o)' => /\ IsOpen(o) /\ orders'[o] = orders[o] /\ orders[o] \in Order
                            /\ orders[o].account # r.account
  <2>1. ASSUME NEW o \in OrderIds
        PROVE  /\ orders'[o] \in Order \cup {NoOrder}
               /\ orders[o] = NoOrder => orders'[o] = NoOrder
               /\ IsOpen(o)' => /\ IsOpen(o) /\ orders'[o] = orders[o] /\ orders[o] \in Order
                                /\ orders[o].account # r.account
    <3>1. CASE IsOpen(o) /\ orders[o].account = r.account
      <4>1. orders'[o] = [orders[o] EXCEPT !.status = "cancelled"]
        BY <3>1 DEF ResetBroker
      <4>2. orders[o] \in Order
        BY <1>1, <3>1, RecordFacts DEF TypeOK, IsOpen
      <4>3. orders'[o] \in Order /\ orders'[o].status = "cancelled"
        BY <4>1, <4>2 DEF Order
      <4> QED
        BY <4>2, <4>3, RecordFacts DEF IsOpen
    <3>2. CASE ~ (IsOpen(o) /\ orders[o].account = r.account)
      <4>1. orders'[o] = orders[o] /\ IsOpen(o)' = IsOpen(o)
        BY <3>2 DEF ResetBroker, IsOpen
      <4>2. orders[o] \in Order \cup {NoOrder}
        BY <1>1 DEF TypeOK
      <4>3. IsOpen(o) => orders[o] \in Order
        BY <4>2, RecordFacts DEF IsOpen
      <4> QED
        BY <3>2, <4>1, <4>2, <4>3
    <3> QED
      BY <3>1, <3>2
  <2>2. orders' = [o \in OrderIds |-> orders'[o]]
    BY DEF ResetBroker
  <2> QED
    BY <2>1, <2>2
<1>4. TypeOK'
  <2>1. /\ cash' \in [Accounts -> Int] /\ units' \in [Accounts -> Int]
        /\ generation' \in [Accounts -> Generations] /\ resets' \subseteq Reset
    BY <1>1, <1>2, BoundAssumption DEF TypeOK
  <2> QED
    BY <1>1, <1>3, <2>1 DEF TypeOK
<1>5. VersionsAdvance'
  BY <1>1, QueueUnchanged DEF IInv, VersionsAdvance
<1>6. OpenMayAdvance'
  <2>1. SUFFICES ASSUME NEW o \in OrderIds, IsOpen(o)' PROVE AllMayBecome(o, orders[o])'
    BY DEF OpenMayAdvance
  <2>2. /\ IsOpen(o) /\ orders'[o] = orders[o]
        /\ orders[o].account \in Accounts /\ orders[o].account # r.account
    BY <1>3, <2>1 DEF Order
  <2>3. generation'[orders[o].account] = generation[orders[o].account]
    BY <1>1, <2>2 DEF TypeOK
  <2>4. VersionNow(o, orders[o])' = VersionNow(o, orders[o])
    BY <2>2, <2>3 DEF VersionNow, OrderEntry
  <2>5. AllMayBecome(o, orders[o])
    BY <2>2 DEF IInv, OpenMayAdvance
  <2> QED
    BY <1>1, <2>4, <2>5, QueueUnchanged DEF AllMayBecome, MayBecome
<1>7. IdsUnused'
  BY <1>1, <1>3, QueueUnchanged DEF IInv, IdsUnused
<1>8. GenerationsKnown'
  <2>1. ASSUME NEW a \in Accounts PROVE generation'[a] <= current[a]
    BY <1>1, <1>2 DEF IInv, GenerationsKnown, TypeOK
  <2> QED
    BY <1>1, <2>1 DEF IInv, GenerationsKnown, NoFutureGeneration, AccountOf
<1> QED
  BY <1>4, <1>5, <1>6, <1>7, <1>8 DEF IInv

LEMMA GoDownKeeps ==
  ASSUME IInv, GoDown, stops' \in 0 .. MaxStops
  PROVE  IInv'
<1>1. /\ TypeOK /\ up' = "down" /\ queue' = <<>> /\ attempt' = 0 /\ resets' = {}
      /\ store' = store /\ current' = current
      /\ orders' = [o \in OrderIds |-> NoOrder] /\ generation' = [a \in Accounts |-> 1]
      /\ cash' = [a \in Accounts |-> 0] /\ units' = [a \in Accounts |-> 0] /\ nextId' = 1
  BY DEF IInv, GoDown, BlankWorld, disk
<1>2. TypeOK'
  BY <1>1, BoundAssumption DEF TypeOK, Generations
<1>3. DOMAIN queue' = {} /\ \A o \in OrderIds : About(o)' = {} /\ ~ IsOpen(o)'
  BY <1>1, RecordFacts DEF About, IsOpen
<1>4. VersionsAdvance' /\ OpenMayAdvance'
  BY <1>3 DEF VersionsAdvance, OpenMayAdvance
<1>5. IdsUnused'
  BY <1>1, <1>3 DEF IdsUnused
<1>6. GenerationsKnown'
  <2>1. ASSUME NEW a \in Accounts PROVE generation'[a] <= current'[a]
    BY <1>1 DEF TypeOK, Generations
  <2> QED
    BY <1>1, <1>3, <2>1 DEF IInv, GenerationsKnown, NoFutureGeneration
<1> QED
  BY <1>2, <1>4, <1>5, <1>6 DEF IInv

LEMMA CloseJournalKeeps ==
  ASSUME IInv, CloseJournal
  PROVE  IInv'
<1>1. /\ TypeOK /\ up = "serving" /\ up' = "draining" /\ stops < MaxStops /\ stops' = stops + 1
      /\ UNCHANGED <<orders, cash, units, generation, nextId, store, current, queue, attempt, resets>>
  BY DEF IInv, CloseJournal, world, disk
<1>2. TypeOK'
  BY <1>1, BoundAssumption DEF TypeOK
<1>3. VersionsAdvance' /\ OpenMayAdvance' /\ IdsUnused'
  BY <1>1, QueueUnchanged DEF IInv, VersionsAdvance, OpenMayAdvance, IdsUnused, AllMayBecome,
     MayBecome, VersionNow, OrderEntry, IsOpen
<1>4. GenerationsKnown'
  BY <1>1 DEF IInv, GenerationsKnown, NoFutureGeneration, AccountOf
<1> QED
  BY <1>2, <1>3, <1>4 DEF IInv

LEMMA StartKeeps ==
  ASSUME IInv, Start
  PROVE  IInv'
<1> DEFINE restored(o) ==
             [account |-> store.rows[o].account, side |-> store.rows[o].side,
              size |-> store.rows[o].size, filled |-> store.rows[o].filled, status |-> "open"]
           loaded == [a \in Accounts |-> LoadPortfolio(store, a, current[a])]
<1>1. /\ TypeOK /\ up = "down" /\ up' = "serving"
      /\ store' = store /\ current' = current /\ queue' = queue /\ attempt' = attempt
      /\ resets' = resets /\ stops' = stops /\ generation' = current
      /\ cash' = [a \in Accounts |-> loaded[a].cash]
      /\ units' = [a \in Accounts |-> loaded[a].units]
      /\ nextId' = NextIdAfterStored
      /\ orders' = [o \in OrderIds |-> IF OpenRow(store, current, o) THEN restored(o) ELSE NoOrder]
  BY DEF IInv, Start, disk
<1>2. queue = <<>> /\ \A o \in OrderIds : About(o) = {}
  BY <1>1 DEF IInv, IdsUnused, About
<1>3. ASSUME NEW o \in OrderIds, OpenRow(store, current, o)
      PROVE  /\ store.rows[o] \in Row /\ restored(o) \in Order
             /\ store.rows[o].status = "open"
             /\ store.rows[o].generation = current[store.rows[o].account]
  <2>1. store.rows[o] \in Row
    BY <1>1, <1>3, RecordFacts DEF TypeOK, OpenRow
  <2> QED
    BY <1>3, <2>1 DEF OpenRow, Row, Order
<1>4. TypeOK'
  <2>1. orders' \in [OrderIds -> Order \cup {NoOrder}]
    <3> HIDE DEF restored
    <3> QED
      BY <1>1, <1>3
  <2>2. cash' \in [Accounts -> Int] /\ units' \in [Accounts -> Int]
    <3>1. ASSUME NEW a \in Accounts
          PROVE  loaded[a].cash \in Int /\ loaded[a].units \in Int
      <4>1. loaded[a] = LoadPortfolio(store, a, current[a])
        OBVIOUS
      <4>2. store.ledger \in Seq(LedgerEntries)
        BY <1>1 DEF TypeOK, LedgerEntries
      <4>3. LoadPortfolio(store, a, current[a]) \in Portfolio
        BY <4>2, LoadPortfolioType
      <4> HIDE DEF loaded
      <4> QED
        BY <4>1, <4>3 DEF Portfolio
    <3> HIDE DEF loaded
    <3> QED
      BY <1>1, <3>1
  <2>3. nextId' \in 1 .. MaxOrders + 1
    BY <1>1, NextIdFacts
  <2> QED
    BY <1>1, <2>1, <2>2, <2>3 DEF TypeOK
<1>5. VersionsAdvance'
  BY <1>1, <1>2, QueueUnchanged DEF VersionsAdvance
<1>6. OpenMayAdvance'
  <2>1. SUFFICES ASSUME NEW o \in OrderIds, IsOpen(o)' PROVE AllMayBecome(o, orders[o])'
    BY DEF OpenMayAdvance
  <2>2. OpenRow(store, current, o) /\ orders'[o] = restored(o)
    <3> HIDE DEF restored
    <3> QED
      BY <1>1, <2>1, RecordFacts DEF IsOpen
  <2>3. VersionNow(o, orders[o])' =
          [account |-> store.rows[o].account, side |-> store.rows[o].side,
           size |-> store.rows[o].size, filled |-> store.rows[o].filled, status |-> "open",
           generation |-> current[store.rows[o].account]]
    BY <1>1, <2>2 DEF VersionNow, OrderEntry, RowOf
  <2>4. MayBecome(store.rows[o], o, orders[o])'
    BY <1>1, <1>3, <2>2, <2>3 DEF MayBecome, Advances, Row
  <2> QED
    BY <1>1, <1>2, <2>4, QueueUnchanged DEF AllMayBecome
<1>7. IdsUnused'
  <2>1. ASSUME NEW o \in OrderIds, o >= nextId'
        PROVE  orders'[o] = NoOrder /\ store.rows[o] = NoOrder
    <3>1. store.rows[o] = NoOrder
      BY <1>1, <2>1, NextIdFacts
    <3>2. ~ OpenRow(store, current, o)
      BY <3>1, RecordFacts DEF OpenRow
    <3> QED
      BY <1>1, <3>1, <3>2
  <2> QED
    BY <1>1, <1>2, <2>1, QueueUnchanged DEF IdsUnused
<1>8. GenerationsKnown'
  <2>1. ASSUME NEW a \in Accounts PROVE generation'[a] <= current[a]
    BY <1>1 DEF TypeOK, Generations
  <2> QED
    BY <1>1, <2>1 DEF IInv, GenerationsKnown, NoFutureGeneration, AccountOf
<1> QED
  BY <1>4, <1>5, <1>6, <1>7, <1>8 DEF IInv

\* Only the writer writes rows.
LEMMA RowsStay ==
  ASSUME IInv, store' = store
  PROVE  RowsAdvance
BY AdvancesFacts DEF IInv, TypeOK, RowsAdvance

-----------------------------------------------------------------------------
(* The theorems. *)

\* The initial state satisfies the invariant.
THEOREM InitIInv == Init => IInv
<1> SUFFICES ASSUME Init PROVE IInv
  OBVIOUS
<1>1. TypeOK
  BY BoundAssumption DEF Init, TypeOK, Generations
<1>2. \A o \in OrderIds : About(o) = {} /\ ~ IsOpen(o)
  BY RecordFacts DEF Init, About, IsOpen
<1>3. VersionsAdvance /\ OpenMayAdvance /\ IdsUnused
  BY <1>2 DEF Init, VersionsAdvance, OpenMayAdvance, IdsUnused
<1>4. GenerationsKnown
  BY DEF Init, GenerationsKnown, NoFutureGeneration
<1> QED
  BY <1>1, <1>3, <1>4 DEF IInv

\* Every step keeps the invariant, and no step makes a stored order go back.
THEOREM NextIInv == IInv /\ [Next]_vars => IInv' /\ RowsAdvance
<1> SUFFICES ASSUME IInv, [Next]_vars PROVE IInv' /\ RowsAdvance
  OBVIOUS
<1>1. CASE Trading
  <2>1. store' = store
    <3>1. ASSUME NEW a, NEW side, NEW size, NEW rests, NEW taken, Place(a, side, size, taken, rests) PROVE BrokerCall
      BY <3>1 DEF Place
    <3>2. ASSUME NEW o, NEW q, Fill(o, q) PROVE BrokerCall
      BY <3>2 DEF Fill
    <3>3. ASSUME NEW o, Close(o) PROVE BrokerCall
      BY <3>3 DEF Close
    <3>4. ASSUME NEW a, Convert(a, 1) PROVE BrokerCall
      BY <3>4 DEF Convert
    <3>5. BrokerCall
      BY <1>1, <3>1, <3>2, <3>3, <3>4 DEF Trading
    <3> QED
      BY <3>5 DEF BrokerCall, disk
  <2>2. IInv'
    <3>1. ASSUME NEW a \in Accounts, NEW side \in {"buy", "sell"}, NEW size \in Sizes,
                 NEW rests \in BOOLEAN, NEW taken \in 0 .. size,
                 Place(a, side, size, taken, rests)
          PROVE  IInv'
      BY <3>1, PlaceKeeps
    <3>2. ASSUME NEW o \in OrderIds, NEW q \in Sizes, Fill(o, q) PROVE IInv'
      BY <3>2, FillKeeps
    <3>3. ASSUME NEW o \in OrderIds, Close(o) PROVE IInv'
      BY <3>3, CloseKeeps
    <3>4. ASSUME NEW a \in Accounts, Convert(a, 1) PROVE IInv'
      BY <3>4, ConvertKeeps
    <3> QED
      BY <1>1, <3>1, <3>2, <3>3, <3>4 DEF Trading
  <2> QED
    BY <2>1, <2>2, RowsStay
<1>2. CASE Writing
  <2>1. attempt \in 0 .. Attempts - 1 /\ Attempts \in Nat \ {0}
    BY BoundAssumption DEF IInv, TypeOK
  <2>2. /\ WriterTurn
        /\ store' = store \/ store' = Commit(store, Head(queue))
        /\ NextEntry \/ Retry
    BY <1>2 DEF Writing, Write, Refuse, LoseAck, Reject
  <2>3. (queue' = queue \/ queue' = Tail(queue)) /\ attempt' \in 0 .. Attempts - 1
    BY <2>1, <2>2 DEF NextEntry, Retry
  <2> QED
    BY <2>2, <2>3, WriterKeeps
<1>3. CASE Resetting
  <2>1. store' = store
    BY <1>3 DEF Resetting, ResetStore, ResetOffline, ResetBroker, disk
  <2>2. IInv'
    BY <1>3, ResetStoreKeeps, ResetBrokerKeeps DEF Resetting
  <2> QED
    BY <2>1, <2>2, RowsStay
<1>4. CASE Lifecycle
  <2>1. store' = store
    BY <1>4 DEF Lifecycle, CloseJournal, Drained, DrainTimeout, Crash, Start, GoDown, disk
  <2>2. stops \in 0 .. MaxStops /\ MaxStops \in Nat
    BY BoundAssumption DEF IInv, TypeOK
  <2>3. CASE CloseJournal
    BY <2>1, <2>3, CloseJournalKeeps, RowsStay
  <2>4. CASE Drained \/ DrainTimeout \/ Crash
    <3>1. GoDown /\ stops' \in 0 .. MaxStops
      BY <2>2, <2>4 DEF Drained, DrainTimeout, Crash
    <3> QED
      BY <2>1, <3>1, GoDownKeeps, RowsStay
  <2>5. CASE Start
    BY <2>1, <2>5, StartKeeps, RowsStay
  <2> QED
    BY <1>4, <2>3, <2>4, <2>5 DEF Lifecycle
<1>5. CASE UNCHANGED vars
  <2>1. IInv'
    BY <1>5, QueueUnchanged DEF vars, world, disk, IInv, TypeOK, VersionsAdvance, OpenMayAdvance,
       IdsUnused, GenerationsKnown, NoFutureGeneration, AllMayBecome, MayBecome, VersionNow,
       OrderEntry, IsOpen, AccountOf
  <2> QED
    BY <1>5, <2>1, RowsStay DEF vars, disk
<1> QED
  BY <1>1, <1>2, <1>3, <1>4, <1>5 DEF Next

\* The invariant holds in every reachable state.
THEOREM Invariance == Spec => []IInv
<1>1. IInv /\ [Next]_vars => IInv'
  BY NextIInv
<1> QED
  BY InitIInv, <1>1, PTL DEF Spec

\* Every variable keeps its type, whatever the writer and the database do.
THEOREM TypeCorrect == Spec => []TypeOK
<1>1. IInv => TypeOK
  BY DEF IInv
<1> QED
  BY Invariance, <1>1, PTL

\* Nothing is ever stored under a generation that is still to come.
THEOREM GenerationsStored == Spec => []NoFutureGeneration
<1>1. IInv => NoFutureGeneration
  BY DEF IInv, GenerationsKnown
<1> QED
  BY Invariance, <1>1, PTL

\* A stored order keeps its identity, never loses fills and never changes once closed:
\* not when entries are dropped, written twice, or lost in a crash.
THEOREM StoredOrdersAdvance == Spec => RowsOnlyAdvance
<1>1. IInv /\ [Next]_vars =>
        [\A o \in OrderIds :
           LET old == store.rows[o]
               new == store'.rows[o]
           IN  old # NoOrder =>
                 /\ new.account = old.account /\ new.side = old.side /\ new.size = old.size
                 /\ new.generation = old.generation
                 /\ new.filled >= old.filled
                 /\ old.status # "open" => new = old]_vars
  BY NextIInv DEF RowsAdvance, Advances
<1> QED
  BY Invariance, <1>1, PTL DEF Spec, RowsOnlyAdvance

-----------------------------------------------------------------------------
(* From here on no entry is dropped or written twice. *)

Tables == [rows : [OrderIds -> Row \cup {NoOrder}], ledger : Seq(LedgerEntries)]

-----------------------------------------------------------------------------
(* Writing a queue out. *)

\* What the tables are after the writer's turn with an entry.
Stored(s, e) == IF Violates(s, e) THEN s ELSE Commit(s, e)

\* The tables after each entry of a queue.
Written(st, q) ==
  LET s[k \in 0 .. Len(q)] ==
        IF k = 0 THEN st
        ELSE IF Violates(s[k - 1], q[k]) THEN s[k - 1] ELSE Commit(s[k - 1], q[k])
  IN  s

\* What an entry of its order makes of a row.
Upserted(row, order) == [row EXCEPT !.status = order.status, !.filled = order.filled]

\* An order's entry changes its row, the others are added to the ledger.
LEMMA StoredFacts ==
  ASSUME NEW s \in Tables, NEW e \in Entries
  PROVE  /\ Stored(s, e) \in Tables
         /\ e.type = "order" =>
              /\ Stored(s, e).ledger = s.ledger
              /\ \A o \in OrderIds : o # e.id => Stored(s, e).rows[o] = s.rows[o]
              /\ s.rows[e.id] = NoOrder => Stored(s, e).rows[e.id] = RowOf(e)
              /\ s.rows[e.id] # NoOrder =>
                   Stored(s, e).rows[e.id] = Upserted(s.rows[e.id], e.order)
         /\ e.type # "order" /\ (e.type = "fill" => s.rows[e.id] # NoOrder) =>
              /\ e \in LedgerEntries
              /\ Stored(s, e).ledger = Append(s.ledger, e) /\ Stored(s, e).rows = s.rows
<1>1. CASE e.type = "order"
  <2>1. e \in OrderEntries /\ RowOf(e) \in Row /\ e.id \in OrderIds
    BY <1>1, RecordFacts
  <2> DEFINE old == s.rows[e.id]
             upsert == [old EXCEPT !.status = e.order.status, !.filled = e.order.filled]
             new == IF old = NoOrder THEN RowOf(e) ELSE upsert
  <2>2. Stored(s, e) = [s EXCEPT !.rows[e.id] = new]
    BY <1>1 DEF Stored, Violates, Commit
  <2>3. new \in Row
    <3>1. CASE old = NoOrder
      BY <2>1, <3>1
    <3>2. CASE old # NoOrder
      <4>1. old \in Row
        BY <2>1, <3>2 DEF Tables
      <4>2. e.order.status \in {"open", "filled", "cancelled"} /\ e.order.filled \in Nat
        <5>1. RowOf(e).status = e.order.status /\ RowOf(e).filled = e.order.filled
          BY DEF RowOf
        <5> QED
          BY <2>1, <5>1 DEF Row
      <4>3. upsert \in Row
        BY <4>1, <4>2 DEF Row
      <4> QED
        BY <3>2, <4>3
    <3> QED
      BY <3>1, <3>2
  <2>4. /\ [s EXCEPT !.rows[e.id] = new].ledger = s.ledger
        /\ [s EXCEPT !.rows[e.id] = new].rows = [s.rows EXCEPT ![e.id] = new]
        /\ [s EXCEPT !.rows[e.id] = new] \in Tables
    <3> HIDE DEF new
    <3> QED
      BY <2>1, <2>3 DEF Tables
  <2>5. /\ Stored(s, e).rows = [s.rows EXCEPT ![e.id] = new] /\ Stored(s, e).ledger = s.ledger
        /\ Stored(s, e) \in Tables
    BY <2>2, <2>4
  <2>6. /\ Stored(s, e).rows[e.id] = new
        /\ \A o \in OrderIds : o # e.id => Stored(s, e).rows[o] = s.rows[o]
    <3> HIDE DEF new
    <3> QED
      BY <2>1, <2>5 DEF Tables
  <2> QED
    BY <1>1, <2>5, <2>6 DEF Upserted
<1>2. CASE e.type # "order"
  <2>1. e \in LedgerEntries
    BY <1>2, RecordFacts DEF Entries, LedgerEntries
  <2>2. CASE Violates(s, e)
    BY <1>2, <2>2 DEF Stored, Violates
  <2>3. CASE ~ Violates(s, e)
    <3>1. Stored(s, e) = [s EXCEPT !.ledger = Append(s.ledger, e)]
      BY <1>2, <2>3 DEF Stored, Commit
    <3>2. Append(s.ledger, e) \in Seq(LedgerEntries)
      BY <2>1 DEF Tables
    <3>3. /\ Stored(s, e).ledger = Append(s.ledger, e) /\ Stored(s, e).rows = s.rows
          /\ Stored(s, e) \in Tables
      BY <3>1, <3>2 DEF Tables
    <3> QED
      BY <1>2, <2>1, <3>3
  <2> QED
    BY <2>2, <2>3
<1> QED
  BY <1>1, <1>2

\* Written goes through the queue entry by entry.
LEMMA WrittenSteps ==
  ASSUME NEW st \in Tables, NEW q \in Seq(Entries)
  PROVE  /\ Written(st, q) \in [0 .. Len(q) -> Tables]
         /\ Written(st, q)[0] = st
         /\ \A k \in 1 .. Len(q) : Written(st, q)[k] = Stored(Written(st, q)[k - 1], q[k])
<1> DEFINE n == Len(q)
           F == [k \in 1 .. n |-> [x \in Tables |-> Stored(x, q[k])]]
           Eq(f) == f = [k \in 0 .. n |->
                      IF k = 0 THEN st
                      ELSE IF Violates(f[k - 1], q[k]) THEN f[k - 1] ELSE Commit(f[k - 1], q[k])]
<1>1. n \in Nat
  OBVIOUS
<1>2. F \in [1 .. n -> [Tables -> Tables]]
  <2>1. ASSUME NEW k \in 1 .. n, NEW x \in Tables PROVE Stored(x, q[k]) \in Tables
    <3>1. q[k] \in Entries
      OBVIOUS
    <3> QED
      BY <3>1, StoredFacts
  <2> QED
    BY <2>1
<1>3. PICK f : IsRecursion(f, n, Tables, st, F)
  <2> HIDE DEF n, F
  <2> QED
    BY <1>1, <1>2, RecursionExists
<1>4. /\ f \in [0 .. n -> Tables] /\ f[0] = st
      /\ \A k \in 1 .. n : f[k] = F[k][f[k - 1]]
  BY <1>3 DEF IsRecursion
<1>5. \A k \in 1 .. n : f[k] = Stored(f[k - 1], q[k])
  <2> SUFFICES ASSUME NEW k \in 1 .. n PROVE f[k] = Stored(f[k - 1], q[k])
    OBVIOUS
  <2>1. k - 1 \in 0 .. n /\ f[k - 1] \in Tables
    BY <1>1, <1>4
  <2> QED
    BY <1>4, <2>1
<1>6. Eq(f)
  <2>1. \A k \in 1 .. n :
          f[k] = IF Violates(f[k - 1], q[k]) THEN f[k - 1] ELSE Commit(f[k - 1], q[k])
    BY <1>5 DEF Stored
  <2> QED
    BY <1>1, <1>4, <2>1
<1> DEFINE w == CHOOSE x : Eq(x)
<1>7. Eq(w)
  BY <1>6
<1>8. Written(st, q) = w
  BY DEF Written
<1> HIDE DEF w
<1>9. /\ w[0] = st
      /\ \A k \in 1 .. n : w[k] = Stored(w[k - 1], q[k])
  <2>1. w[0] = st
    BY <1>1, <1>7
  <2>2. ASSUME NEW k \in 1 .. n PROVE w[k] = Stored(w[k - 1], q[k])
    <3>1. k \in 0 .. n /\ k # 0
      BY <1>1
    <3>2. w[k] = IF Violates(w[k - 1], q[k]) THEN w[k - 1] ELSE Commit(w[k - 1], q[k])
      <4> HIDE DEF n
      <4> QED
        BY <1>7, <3>1
    <3> QED
      BY <3>2 DEF Stored
  <2> QED
    BY <2>1, <2>2
<1>10. \A k \in 0 .. n : w[k] \in Tables
  <2> DEFINE S == {k \in 0 .. n : w[k] \in Tables}
  <2>1. 0 \in S
    BY <1>1, <1>9
  <2>2. ASSUME NEW k \in 1 .. n, k - 1 \in S PROVE k \in S
    <3>1. q[k] \in Entries /\ w[k - 1] \in Tables
      BY <2>2
    <3>2. Stored(w[k - 1], q[k]) \in Tables
      <4> HIDE DEF n
      <4> QED
        BY <3>1, StoredFacts
    <3>3. w[k] \in Tables
      BY <1>9, <3>2
    <3> QED
      BY <1>1, <3>3
  <2>3. \A k \in 0 .. n : k \in S
    <3> HIDE DEF S, n
    <3> QED
      BY <1>1, <2>1, <2>2, UpTo
  <2> QED
    BY <2>3
<1>11. w \in [0 .. n -> Tables]
  <2>1. w = [k \in 0 .. n |-> w[k]]
    BY <1>7, Zenon
  <2> HIDE DEF n
  <2> QED
    BY <1>10, <2>1
<1> QED
  BY <1>8, <1>9, <1>11

\* No other function of the indices does.
LEMMA WrittenUnique ==
  ASSUME NEW st \in Tables, NEW q \in Seq(Entries), NEW f, f[0] = st,
         \A k \in 1 .. Len(q) : f[k] = Stored(f[k - 1], q[k])
  PROVE  \A k \in 0 .. Len(q) : f[k] = Written(st, q)[k]
<1> DEFINE n == Len(q)
           w == Written(st, q)
           S == {k \in 0 .. n : f[k] = w[k]}
<1>1. n \in Nat /\ w[0] = st /\ \A k \in 1 .. n : w[k] = Stored(w[k - 1], q[k])
  BY WrittenSteps
<1>2. 0 \in S
  BY <1>1
<1>3. ASSUME NEW k \in 1 .. n, k - 1 \in S PROVE k \in S
  <2>1. f[k - 1] = w[k - 1]
    BY <1>3
  <2>2. f[k] = w[k]
    BY <1>1, <2>1
  <2> QED
    BY <1>1, <2>2
<1>4. \A k \in 0 .. n : k \in S
  <2> HIDE DEF S, n
  <2> QED
    BY <1>1, <1>2, <1>3, UpTo
<1> QED
  BY <1>4

\* Entries at the end of the queue change nothing of what comes before them.
LEMMA WrittenConcat ==
  ASSUME NEW st \in Tables, NEW q \in Seq(Entries), NEW es \in Seq(Entries)
  PROVE  /\ \A k \in 0 .. Len(q) : Written(st, q \o es)[k] = Written(st, q)[k]
         /\ \A j \in 1 .. Len(es) :
              Written(st, q \o es)[Len(q) + j] = Stored(Written(st, q \o es)[Len(q) + j - 1], es[j])
<1> DEFINE r == q \o es
           w == Written(st, r)
<1>1. /\ r \in Seq(Entries) /\ Len(r) = Len(q) + Len(es) /\ Len(q) \in Nat /\ Len(es) \in Nat
      /\ \A k \in 1 .. Len(q) : r[k] = q[k]
      /\ \A j \in 1 .. Len(es) : r[Len(q) + j] = es[j]
  OBVIOUS
<1> HIDE DEF r
<1>2. w[0] = st /\ \A k \in 1 .. Len(r) : w[k] = Stored(w[k - 1], r[k])
  BY <1>1, WrittenSteps
<1> HIDE DEF w
<1>3. \A k \in 1 .. Len(q) : w[k] = Stored(w[k - 1], q[k])
  BY <1>1, <1>2
<1>4. \A k \in 0 .. Len(q) : w[k] = Written(st, q)[k]
  BY <1>2, <1>3, WrittenUnique
<1>5. ASSUME NEW j \in 1 .. Len(es)
      PROVE  w[Len(q) + j] = Stored(w[Len(q) + j - 1], es[j])
  <2>1. Len(q) + j \in 1 .. Len(r)
    BY <1>1
  <2> QED
    BY <1>1, <1>2, <2>1
<1> QED
  BY <1>4, <1>5 DEF r, w

\* A turn of the writer takes the first of the tables away.
LEMMA WrittenTail ==
  ASSUME NEW st \in Tables, NEW q \in Seq(Entries), q # <<>>
  PROVE  /\ Tail(q) \in Seq(Entries) /\ Len(Tail(q)) = Len(q) - 1
         /\ Head(q) \in Entries /\ Stored(st, Head(q)) \in Tables
         /\ \A k \in 0 .. Len(q) - 1 :
              Written(Stored(st, Head(q)), Tail(q))[k] = Written(st, q)[k + 1]
<1> DEFINE w == Written(st, q)
           st1 == Stored(st, Head(q))
           t == Tail(q)
           n == Len(q) - 1
           f == [k \in 0 .. n |-> w[k + 1]]
<1>1. /\ t \in Seq(Entries) /\ Len(t) = n /\ Head(q) \in Entries /\ Head(q) = q[1]
      /\ n \in Nat /\ Len(q) = n + 1 /\ \A k \in 1 .. n : t[k] = q[k + 1]
  OBVIOUS
<1>2. st1 \in Tables
  BY <1>1, StoredFacts
<1>3. w[0] = st /\ \A k \in 1 .. Len(q) : w[k] = Stored(w[k - 1], q[k])
  BY WrittenSteps
<1> HIDE DEF w, n, t
<1>4. f[0] = st1
  BY <1>1, <1>3
<1>5. \A k \in 1 .. n : f[k] = Stored(f[k - 1], t[k])
  <2> SUFFICES ASSUME NEW k \in 1 .. n PROVE f[k] = Stored(f[k - 1], t[k])
    OBVIOUS
  <2>1. k + 1 \in 1 .. Len(q) /\ k + 1 - 1 = k /\ k - 1 \in 0 .. n /\ k - 1 + 1 = k /\ k \in 0 .. n
    BY <1>1
  <2>2. f[k] = w[k + 1] /\ f[k - 1] = w[k]
    BY <2>1
  <2>3. w[k + 1] = Stored(w[k + 1 - 1], q[k + 1]) /\ t[k] = q[k + 1]
    BY <1>1, <1>3, <2>1
  <2> QED
    BY <2>1, <2>2, <2>3
<1>6. \A k \in 0 .. n : f[k] = Written(st1, t)[k]
  <2> HIDE DEF f, st1
  <2>1. \A k \in 1 .. Len(t) : f[k] = Stored(f[k - 1], t[k])
    BY <1>1, <1>5
  <2>2. \A k \in 0 .. Len(t) : f[k] = Written(st1, t)[k]
    <3>1. t \in Seq(Entries)
      BY <1>1
    <3> QED
      BY <1>2, <1>4, <2>1, <3>1, WrittenUnique, Zenon
  <2> QED
    BY <1>1, <2>2
<1> QED
  BY <1>1, <1>2, <1>6 DEF w, n, t

-----------------------------------------------------------------------------
(* Replaying what is stored. *)

\* Replaying one entry more.
LEMMA LoadOneMore ==
  ASSUME NEW s, s.ledger \in Seq(LedgerEntries), NEW s1, s1.ledger \in Seq(LedgerEntries),
         Len(s1.ledger) = Len(s.ledger) + 1,
         \A k \in 1 .. Len(s.ledger) : s1.ledger[k] = s.ledger[k], NEW a, NEW g
  PROVE  LoadPortfolio(s1, a, g) =
           Replay(LoadPortfolio(s, a, g), s1.ledger[Len(s.ledger) + 1], a, g)
<1> DEFINE n == Len(s.ledger)
<1>1. n \in Nat /\ Len(s1.ledger) = n + 1 /\ \A k \in 1 .. n : s1.ledger[k] = s.ledger[k]
  OBVIOUS
<1>2. PICK p : IsReplay(p, s.ledger, a, g) /\ LoadPortfolio(s, a, g) = p[n]
  BY LoadPortfolioSteps
<1>3. PICK r : IsReplay(r, s1.ledger, a, g) /\ LoadPortfolio(s1, a, g) = r[Len(s1.ledger)]
  BY LoadPortfolioSteps
<1>4. \A k \in 0 .. n : r[k] = p[k]
  <2> DEFINE S == {k \in 0 .. n : r[k] = p[k]}
  <2>1. 0 \in S
    BY <1>1, <1>2, <1>3 DEF IsReplay
  <2>2. ASSUME NEW k \in 1 .. n, k - 1 \in S PROVE k \in S
    <3>1. k \in 1 .. Len(s1.ledger) /\ k \in 0 .. n
      BY <1>1
    <3>2. r[k] = Replay(r[k - 1], s1.ledger[k], a, g) /\ p[k] = Replay(p[k - 1], s.ledger[k], a, g)
      BY <1>2, <1>3, <3>1 DEF IsReplay
    <3>3. r[k - 1] = p[k - 1] /\ s1.ledger[k] = s.ledger[k]
      BY <1>1, <2>2
    <3> QED
      BY <3>1, <3>2, <3>3
  <2>3. \A k \in 0 .. n : k \in S
    <3> HIDE DEF S, n
    <3> QED
      BY <1>1, <2>1, <2>2, UpTo
  <2> QED
    BY <2>3
<1>5. r[n + 1] = Replay(r[n + 1 - 1], s1.ledger[n + 1], a, g)
  <2>1. n + 1 \in 1 .. Len(s1.ledger)
    BY <1>1
  <2> QED
    BY <1>3, <2>1 DEF IsReplay
<1>6. r[n + 1 - 1] = p[n]
  <2>1. n + 1 - 1 = n /\ n \in 0 .. n
    BY <1>1
  <2> QED
    BY <1>4, <2>1
<1> QED
  BY <1>1, <1>2, <1>3, <1>5, <1>6

\* The same, when that entry is appended.
LEMMA LoadAppend ==
  ASSUME NEW s, s.ledger \in Seq(LedgerEntries), NEW e \in LedgerEntries,
         NEW s1, s1.ledger = Append(s.ledger, e), NEW a, NEW g
  PROVE  LoadPortfolio(s1, a, g) = Replay(LoadPortfolio(s, a, g), e, a, g)
<1>1. /\ s1.ledger \in Seq(LedgerEntries) /\ Len(s1.ledger) = Len(s.ledger) + 1
      /\ \A k \in 1 .. Len(s.ledger) : s1.ledger[k] = s.ledger[k]
      /\ s1.ledger[Len(s.ledger) + 1] = e
  OBVIOUS
<1> QED
  BY <1>1, LoadOneMore, SMTT(15)

\* An account starts anew in a generation of which nothing is stored.
LEMMA LoadUntouched ==
  ASSUME NEW s, s.ledger \in Seq(LedgerEntries), NEW a, NEW g,
         \A k \in 1 .. Len(s.ledger) : ~ (s.ledger[k].account = a /\ s.ledger[k].generation = g)
  PROVE  LoadPortfolio(s, a, g) = NewPortfolio
<1> DEFINE n == Len(s.ledger)
<1>1. n \in Nat
  OBVIOUS
<1>2. PICK p : IsReplay(p, s.ledger, a, g) /\ LoadPortfolio(s, a, g) = p[n]
  BY LoadPortfolioSteps
<1> DEFINE S == {k \in 0 .. n : p[k] = NewPortfolio}
<1>3. 0 \in S
  BY <1>1, <1>2 DEF IsReplay
<1>4. ASSUME NEW k \in 1 .. n, k - 1 \in S PROVE k \in S
  BY <1>1, <1>2, <1>4 DEF Replay, IsReplay
<1>5. \A k \in 0 .. n : k \in S
  <2> HIDE DEF S, n
  <2> QED
    BY <1>1, <1>3, <1>4, UpTo
<1>6. n \in 0 .. n
  BY <1>1
<1> QED
  BY <1>2, <1>5, <1>6

\* What an entry does to balances: only to its own account's, in its own generation.
LEMMA ReplayFacts ==
  ASSUME NEW p \in Portfolio, NEW e \in LedgerEntries, NEW a, NEW g
  PROVE  /\ ~ (e.account = a /\ e.generation = g) => Replay(p, e, a, g) = p
         /\ e.account = a /\ e.generation = g /\ e.type = "conversion" =>
              /\ Replay(p, e, a, g).cash = p.cash - e.amount
              /\ Replay(p, e, a, g).units = p.units
         /\ e.account = a /\ e.generation = g /\ e.type # "conversion" /\ e.side = "buy" =>
              /\ Replay(p, e, a, g).cash = p.cash - e.qty
              /\ Replay(p, e, a, g).units = p.units + e.qty
         /\ e.account = a /\ e.generation = g /\ e.type # "conversion" /\ e.side # "buy" =>
              /\ Replay(p, e, a, g).cash = p.cash + e.qty
              /\ Replay(p, e, a, g).units = p.units - e.qty
BY DEF Replay, ApplyFill, Portfolio

-----------------------------------------------------------------------------
(* What stored orders still need. *)

\* What a row holds of a side of account a in generation g.
Held(row, a, g, side) ==
  IF row.status = "open" /\ row.account = a /\ row.generation = g /\ row.side = side
  THEN row.size - row.filled ELSE 0
Holdings(s, a, g, side) == [o \in OrderIds |-> Held(s.rows[o], a, g, side)]
Due(s, a, g, side) == Total(Holdings(s, a, g, side), MaxOrders)

\* No stored order is filled beyond its size.
Bounded(s) == \A o \in OrderIds : s.rows[o] # NoOrder => s.rows[o].filled <= s.rows[o].size

\* In every generation an account has what its open orders may need.
Covered(s) ==
  \A a \in Accounts, g \in Generations :
    /\ LoadPortfolio(s, a, g).cash >= Due(s, a, g, "buy")
    /\ LoadPortfolio(s, a, g).units >= Due(s, a, g, "sell")

Sound(s) == Bounded(s) /\ Covered(s)

\* What rows hold is a natural.
LEMMA HoldingsType ==
  ASSUME NEW s \in Tables, Bounded(s), NEW a, NEW g, NEW side
  PROVE  /\ Holdings(s, a, g, side) \in [1 .. MaxOrders -> Nat]
         /\ Due(s, a, g, side) \in Nat
         /\ \A o \in OrderIds : Holdings(s, a, g, side)[o] = Held(s.rows[o], a, g, side)
<1>1. ASSUME NEW o \in OrderIds PROVE Held(s.rows[o], a, g, side) \in Nat
  <2>1. CASE s.rows[o] = NoOrder
    BY <2>1 DEF Held, NoOrder
  <2>2. CASE s.rows[o] # NoOrder
    <3>1. s.rows[o] \in Row
      BY <2>2 DEF Tables
    <3>2. s.rows[o].size \in Nat /\ s.rows[o].filled \in Nat /\ s.rows[o].filled <= s.rows[o].size
      BY <2>2, <3>1 DEF Row, Bounded
    <3> QED
      BY <3>2 DEF Held
  <2> QED
    BY <2>1, <2>2
<1>2. Holdings(s, a, g, side) \in [1 .. MaxOrders -> Nat]
  BY <1>1 DEF Holdings, OrderIds
<1>3. Due(s, a, g, side) \in Nat
  BY <1>2, TotalType, BoundAssumption DEF Due
<1> QED
  BY <1>2, <1>3 DEF Holdings

\* When one row changes, what is due changes by what that row holds.
LEMMA DueOneRow ==
  ASSUME NEW s \in Tables, Bounded(s), NEW s1 \in Tables, Bounded(s1), NEW o \in OrderIds,
         \A p \in OrderIds : p # o => s1.rows[p] = s.rows[p], NEW a, NEW g, NEW side
  PROVE  /\ Due(s1, a, g, side) =
              Due(s, a, g, side) - Held(s.rows[o], a, g, side) + Held(s1.rows[o], a, g, side)
         /\ Held(s.rows[o], a, g, side) \in Nat /\ Held(s1.rows[o], a, g, side) \in Nat
<1> DEFINE f == Holdings(s, a, g, side)
           f1 == Holdings(s1, a, g, side)
<1>1. /\ f \in [1 .. MaxOrders -> Nat] /\ f1 \in [1 .. MaxOrders -> Nat]
      /\ \A p \in OrderIds : f[p] = Held(s.rows[p], a, g, side) /\ f1[p] = Held(s1.rows[p], a, g, side)
  BY HoldingsType
<1>2. \A p \in 1 .. MaxOrders : p # o => f1[p] = f[p]
  BY <1>1 DEF OrderIds
<1>3. o \in 1 .. MaxOrders
  BY DEF OrderIds
<1> HIDE DEF f, f1
<1>4. Total(f1, MaxOrders) = Total(f, MaxOrders) - f[o] + f1[o]
  BY <1>1, <1>2, <1>3, TotalUpdate, BoundAssumption
<1> QED
  BY <1>1, <1>3, <1>4 DEF Due, f, f1

\* Nothing is due of what is not stored.
LEMMA DueUntouched ==
  ASSUME NEW s \in Tables, Bounded(s), NEW a, NEW g, NEW side,
         \A o \in OrderIds :
           s.rows[o] # NoOrder => ~ (s.rows[o].account = a /\ s.rows[o].generation = g)
  PROVE  Due(s, a, g, side) = 0
<1>1. ASSUME NEW o \in OrderIds PROVE Held(s.rows[o], a, g, side) = 0
  BY <1>1 DEF Held, NoOrder
<1>2. /\ Holdings(s, a, g, side) \in [1 .. MaxOrders -> Nat]
      /\ \A o \in 1 .. MaxOrders : Holdings(s, a, g, side)[o] = 0
  BY <1>1, HoldingsType DEF OrderIds
<1> QED
  BY <1>2, TotalZero, BoundAssumption DEF Due

-----------------------------------------------------------------------------
(* The inductive invariant. *)

\* Nothing is stored of account a in generation g.
Untouched(s, a, g) ==
  /\ \A o \in OrderIds :
       s.rows[o] # NoOrder => ~ (s.rows[o].account = a /\ s.rows[o].generation = g)
  /\ \A k \in 1 .. Len(s.ledger) : ~ (s.ledger[k].account = a /\ s.ledger[k].generation = g)

\* Generations still to come: the store does not know them yet, or a reset that
\* opened one there has not reached the broker.
Ahead(a, g) == g > current[a] \/ [account |-> a, generation |-> g] \in resets

SameOrder(order, row) ==
  /\ order.account = row.account /\ order.side = row.side
  /\ order.size = row.size /\ order.filled = row.filled

\* The broker has what tables s say.
Agrees(s) ==
  /\ \A a \in Accounts :
       /\ cash[a] = LoadPortfolio(s, a, generation[a]).cash
       /\ units[a] = LoadPortfolio(s, a, generation[a]).units
  /\ \A o \in OrderIds :
       /\ IsOpen(o) <=> OpenRow(s, generation, o)
       /\ IsOpen(o) => SameOrder(orders[o], s.rows[o])
       /\ o >= nextId => s.rows[o] = NoOrder
  /\ \A a \in Accounts, g \in Generations :
       Ahead(a, g) => g # generation[a] /\ Untouched(s, a, g)

\* Wherever the journal is cut what is stored is sound, and written out it is what
\* the broker has; a process that is down resets nothing.
Durable ==
  /\ \A k \in 0 .. Len(queue) : Sound(Written(store, queue)[k])
  /\ up = "serving" => Agrees(Written(store, queue)[Len(queue)])
  /\ up = "down" => resets = {}

\* The tables once everything in the queue is written.
Last == Written(store, queue)[Len(queue)]

\* Last is WrittenOut, and tables like those before it.
LEMMA LastFacts ==
  ASSUME TypeOK
  PROVE  /\ Last \in Tables /\ Last = WrittenOut
         /\ store \in Tables /\ queue \in Seq(Entries) /\ Len(queue) \in Nat
         /\ \A k \in 0 .. Len(queue) : Written(store, queue)[k] \in Tables
         /\ Written(store, queue)[0] = store
<1>1. store \in Tables /\ queue \in Seq(Entries)
  BY DEF TypeOK, Tables, Entries, LedgerEntries
<1>2. Len(queue) \in Nat
  BY <1>1
<1>3. Written(store, queue) \in [0 .. Len(queue) -> Tables] /\ Written(store, queue)[0] = store
  BY <1>1, WrittenSteps
<1>4. \A k \in 0 .. Len(queue) : Written(store, queue)[k] \in Tables
  BY <1>3
<1>5. Last \in Tables
  BY <1>2, <1>4 DEF Last
<1>6. Last = WrittenOut
  BY DEF Last, Written, WrittenOut
<1> QED
  BY <1>1, <1>2, <1>3, <1>4, <1>5, <1>6

-----------------------------------------------------------------------------
(* Entries join the queue. *)

\* A step that leaves the queue, the tables and what Agrees speaks of as they are.
LEMMA SameQueue ==
  ASSUME Durable, queue' = queue, store' = store, up' # "serving", up' = "down" => resets' = {}
  PROVE  Durable'
BY DEF Durable

\* One entry joins it.
LEMMA OneEntry ==
  ASSUME TypeOK, Durable, up = "serving", up' = up, store' = store, NEW e \in Entries,
         queue' = queue \o <<e>>, NEW x, x = Stored(Last, e), Sound(x), Agrees(x)'
  PROVE  Durable'
<1> DEFINE n == Len(queue)
           w == Written(store, queue)
           v == Written(store, queue \o <<e>>)
<1>1. store \in Tables /\ queue \in Seq(Entries) /\ n \in Nat /\ <<e>> \in Seq(Entries)
  BY LastFacts
<1>2. 1 \in 1 .. Len(<<e>>) /\ <<e>>[1] = e /\ Len(queue \o <<e>>) = n + 1
  BY <1>1
<1>3. /\ \A k \in 0 .. n : v[k] = w[k]
      /\ v[n + 1] = Stored(v[n + 1 - 1], <<e>>[1])
  BY <1>1, <1>2, WrittenConcat
<1> HIDE DEF w, v
<1>4. v[n + 1] = x
  <2>1. n + 1 - 1 = n /\ n \in 0 .. n
    BY <1>1
  <2> QED
    BY <1>2, <1>3, <2>1 DEF Last, w
<1>5. \A k \in 0 .. n + 1 : Sound(v[k])
  <2> SUFFICES ASSUME NEW k \in 0 .. n + 1 PROVE Sound(v[k])
    OBVIOUS
  <2>1. CASE k \in 0 .. n
    BY <1>3, <2>1 DEF Durable, w
  <2>2. CASE k = n + 1
    BY <1>4, <2>2
  <2> QED
    BY <1>1, <2>1, <2>2
<1>6. Written(store', queue') = v /\ Len(queue') = n + 1
  BY <1>2 DEF v
<1> QED
  BY <1>4, <1>5, <1>6 DEF Durable

\* Two entries join it.
LEMMA TwoEntries ==
  ASSUME TypeOK, Durable, up = "serving", up' = up, store' = store, NEW e \in Entries,
         NEW d \in Entries, queue' = queue \o <<e, d>>, NEW x, x = Stored(Last, e), Sound(x),
         NEW y, y = Stored(x, d), Sound(y), Agrees(y)'
  PROVE  Durable'
<1> DEFINE n == Len(queue)
           w == Written(store, queue)
           es == <<e, d>>
           v == Written(store, queue \o es)
<1>1. store \in Tables /\ queue \in Seq(Entries) /\ n \in Nat /\ es \in Seq(Entries)
  BY LastFacts
<1>2. Len(es) = 2 /\ es[1] = e /\ es[2] = d /\ Len(queue \o es) = n + 2
  BY <1>1
<1>3. /\ \A k \in 0 .. n : v[k] = w[k]
      /\ \A j \in 1 .. 2 : v[n + j] = Stored(v[n + j - 1], es[j])
  BY <1>1, <1>2, WrittenConcat
<1> HIDE DEF w, v, es
<1>4. v[n + 1] = x
  <2>1. n + 1 - 1 = n /\ n \in 0 .. n /\ 1 \in 1 .. 2
    BY <1>1
  <2> QED
    BY <1>2, <1>3, <2>1 DEF Last, w
<1>5. v[n + 2] = y
  <2>1. n + 2 - 1 = n + 1 /\ 2 \in 1 .. 2
    BY <1>1
  <2> QED
    BY <1>2, <1>3, <1>4, <2>1
<1>6. \A k \in 0 .. n + 2 : Sound(v[k])
  <2> SUFFICES ASSUME NEW k \in 0 .. n + 2 PROVE Sound(v[k])
    OBVIOUS
  <2>1. CASE k \in 0 .. n
    BY <1>3, <2>1 DEF Durable, w
  <2>2. CASE k = n + 1
    BY <1>4, <2>2
  <2>3. CASE k = n + 2
    BY <1>5, <2>3
  <2> QED
    BY <1>1, <2>1, <2>2, <2>3
<1>7. Written(store', queue') = v /\ Len(queue') = n + 2
  BY <1>2 DEF v, es
<1> QED
  BY <1>5, <1>6, <1>7 DEF Durable

-----------------------------------------------------------------------------
(* What the broker promises is what is due. *)

\* An account's open orders hold what its rows hold in its generation.
LEMMA PromisedIsDue ==
  ASSUME NEW s \in Tables, Agrees(s), NEW a \in Accounts, NEW side
  PROVE  Promised(orders, {o \in OrderIds : IsOpen(o) /\ orders[o].account = a}, side)
           = Due(s, a, generation[a], side)
<1> DEFINE S == {o \in OrderIds : IsOpen(o) /\ orders[o].account = a}
           f == [o \in OrderIds |->
                   IF o \in S /\ orders[o].side = side THEN orders[o].size - orders[o].filled ELSE 0]
<1>1. ASSUME NEW o \in OrderIds PROVE f[o] = Held(s.rows[o], a, generation[a], side)
  <2>1. CASE IsOpen(o)
    <3>1. OpenRow(s, generation, o) /\ SameOrder(orders[o], s.rows[o])
      BY <2>1 DEF Agrees
    <3> QED
      BY <2>1, <3>1 DEF OpenRow, SameOrder, Held
  <2>2. CASE ~ IsOpen(o)
    <3>1. ~ OpenRow(s, generation, o)
      BY <2>2 DEF Agrees
    <3> QED
      BY <2>2, <3>1 DEF OpenRow, Held
  <2> QED
    BY <2>1, <2>2
<1>2. f = Holdings(s, a, generation[a], side)
  <2> HIDE DEF f
  <2>1. f = [o \in OrderIds |-> f[o]]
    BY DEF f
  <2> QED
    BY <1>1, <2>1 DEF Holdings
<1> QED
  BY <1>2 DEF Promised, Due

\* What would be restored promises what is due in the store's generation.
LEMMA StoredPromises ==
  ASSUME NEW s, NEW a \in Accounts, NEW side
  PROVE  Promised(s.rows, {o \in OrderIds : OpenRow(s, current, o) /\ s.rows[o].account = a}, side)
           = Due(s, a, current[a], side)
<1> DEFINE S == {o \in OrderIds : OpenRow(s, current, o) /\ s.rows[o].account = a}
           f == [o \in OrderIds |->
                   IF o \in S /\ s.rows[o].side = side THEN s.rows[o].size - s.rows[o].filled ELSE 0]
<1>1. ASSUME NEW o \in OrderIds PROVE f[o] = Held(s.rows[o], a, current[a], side)
  BY DEF OpenRow, Held
<1>2. f = Holdings(s, a, current[a], side)
  <2> HIDE DEF f
  <2>1. f = [o \in OrderIds |-> f[o]]
    BY DEF f
  <2> QED
    BY <1>1, <2>1 DEF Holdings
<1> QED
  BY <1>2 DEF Promised, Due

-----------------------------------------------------------------------------
(* An execution's entries in the store. *)

Balance(s, a, g, side) ==
  IF side = "buy" THEN LoadPortfolio(s, a, g).cash ELSE LoadPortfolio(s, a, g).units

\* An order is new to the tables, or an open one of them.
MayStore(s, o, order) ==
  \/ s.rows[o] = NoOrder
  \/ /\ IsOpen(o) /\ order.account = orders[o].account /\ order.side = orders[o].side
     /\ order.size = orders[o].size

\* What an order's entry leaves in the tables: the order, in the account's generation.
LEMMA OrderStored ==
  ASSUME TypeOK, NEW s \in Tables, Bounded(s), Agrees(s), NEW o \in OrderIds, NEW order \in Order,
         order.filled <= order.size, MayStore(s, o, order),
         NEW x, x = Stored(s, OrderEntry(o, order))
  PROVE  /\ OrderEntry(o, order) \in Entries
         /\ x \in Tables /\ x.ledger = s.ledger
         /\ \A p \in OrderIds : p # o => x.rows[p] = s.rows[p]
         /\ x.rows[o] \in Row /\ SameOrder(order, x.rows[o])
         /\ x.rows[o].status = order.status /\ x.rows[o].generation = generation[order.account]
         /\ s.rows[o] # NoOrder => /\ s.rows[o].account = order.account
                                   /\ s.rows[o].generation = generation[order.account]
                                   /\ s.rows[o].side = order.side /\ s.rows[o].size = order.size
                                   /\ s.rows[o].status = "open"
                                   /\ s.rows[o].filled = orders[o].filled
         /\ Bounded(x)
<1> DEFINE e == OrderEntry(o, order)
<1>1. /\ e \in Entries /\ e \in OrderEntries /\ e.type = "order" /\ e.id = o /\ e.order = order
      /\ e.generation = generation[order.account]
  BY EntryTypes DEF Entries
<1> HIDE DEF e
<1>2. /\ x \in Tables /\ x.ledger = s.ledger
      /\ \A p \in OrderIds : p # o => x.rows[p] = s.rows[p]
      /\ s.rows[o] = NoOrder => x.rows[o] = RowOf(e)
      /\ s.rows[o] # NoOrder => x.rows[o] = Upserted(s.rows[o], order)
  <2>1. x = Stored(s, e)
    BY DEF e
  <2> QED
    BY <1>1, <2>1, StoredFacts
<1>3. order.status \in {"open", "filled", "cancelled"} /\ order.filled \in Nat
  BY DEF Order
<1>4. /\ RowOf(e) \in Row /\ SameOrder(order, RowOf(e)) /\ RowOf(e).status = order.status
      /\ RowOf(e).generation = generation[order.account]
  BY <1>1, RecordFacts DEF RowOf, SameOrder
<1>5. CASE s.rows[o] = NoOrder
  <2>1. Bounded(x)
    BY <1>2, <1>4, <1>5 DEF Bounded, SameOrder
  <2> QED
    BY <1>1, <1>2, <1>4, <1>5, <2>1 DEF e
<1>6. CASE s.rows[o] # NoOrder
  <2> DEFINE old == s.rows[o]
             new == [old EXCEPT !.status = order.status, !.filled = order.filled]
  <2>1. /\ IsOpen(o) /\ order.account = orders[o].account /\ order.side = orders[o].side
        /\ order.size = orders[o].size
    BY <1>6 DEF MayStore
  <2>2. /\ old.status = "open" /\ old.generation = generation[old.account]
        /\ SameOrder(orders[o], old) /\ old \in Row
    BY <1>6, <2>1 DEF Agrees, OpenRow, Tables
  <2> HIDE DEF old
  <2>3. /\ new \in Row /\ new.account = old.account /\ new.side = old.side /\ new.size = old.size
        /\ new.generation = old.generation /\ new.status = order.status /\ new.filled = order.filled
    BY <1>3, <2>2 DEF Row
  <2>4. x.rows[o] = new
    BY <1>2, <1>6 DEF old, Upserted
  <2> HIDE DEF new
  <2>5. SameOrder(order, x.rows[o]) /\ x.rows[o].generation = generation[order.account]
    BY <2>1, <2>2, <2>3, <2>4 DEF SameOrder
  <2>6. Bounded(x)
    BY <1>2, <2>5 DEF Bounded, SameOrder
  <2>7. /\ old.account = order.account /\ old.generation = generation[order.account]
        /\ old.side = order.side /\ old.size = order.size /\ old.filled = orders[o].filled
    BY <2>1, <2>2 DEF SameOrder
  <2> QED
    BY <1>1, <1>2, <2>2, <2>3, <2>4, <2>5, <2>6, <2>7 DEF e, old
<1> QED
  BY <1>5, <1>6

\* An order's entry keeps every account covered that could pay what is due then.
LEMMA OrderSound ==
  ASSUME TypeOK, NEW s \in Tables, Sound(s), Agrees(s), NEW o \in OrderIds, NEW order \in Order,
         order.filled <= order.size, MayStore(s, o, order),
         NEW x, x = Stored(s, OrderEntry(o, order)),
         Due(x, order.account, generation[order.account], order.side)
           <= Balance(s, order.account, generation[order.account], order.side)
  PROVE  Sound(x)
<1> DEFINE a0 == order.account
           g0 == generation[order.account]
<1>1. /\ x \in Tables /\ x.ledger = s.ledger /\ Bounded(s) /\ Bounded(x)
      /\ \A p \in OrderIds : p # o => x.rows[p] = s.rows[p]
      /\ SameOrder(order, x.rows[o]) /\ x.rows[o].generation = g0
      /\ s.rows[o] # NoOrder => /\ s.rows[o].account = a0 /\ s.rows[o].generation = g0
                                /\ s.rows[o].side = order.side
  BY OrderStored DEF Sound
<1>2. ASSUME NEW a \in Accounts, NEW g \in Generations
      PROVE  LoadPortfolio(x, a, g) = LoadPortfolio(s, a, g)
  BY <1>1 DEF LoadPortfolio
<1>3. ASSUME NEW a \in Accounts, NEW g \in Generations, NEW side \in {"buy", "sell"}
      PROVE  Due(x, a, g, side) <= Balance(x, a, g, side)
  <2>1. Balance(x, a, g, side) = Balance(s, a, g, side) /\ Balance(s, a, g, side) \in Int
    <3>1. LoadPortfolio(s, a, g) \in Portfolio
      BY LoadPortfolioType DEF Tables
    <3> QED
      BY <1>2, <3>1 DEF Balance, Portfolio
  <2>2. Due(s, a, g, side) <= Balance(s, a, g, side) /\ Due(s, a, g, side) \in Nat
    <3>1. Due(s, a, g, side) \in Nat
      BY <1>1, HoldingsType
    <3> QED
      BY <3>1, <2>1 DEF Sound, Covered, Balance
  <2>3. CASE a = a0 /\ g = g0 /\ side = order.side
    BY <2>1, <2>3
  <2>4. CASE ~ (a = a0 /\ g = g0 /\ side = order.side)
    <3>1. Held(x.rows[o], a, g, side) = 0
      BY <1>1, <2>4 DEF Held, SameOrder
    <3>2. Held(s.rows[o], a, g, side) = 0
      BY <1>1, <2>4 DEF Held, NoOrder
    <3>3. Due(x, a, g, side) =
            Due(s, a, g, side) - Held(s.rows[o], a, g, side) + Held(x.rows[o], a, g, side)
      BY <1>1, DueOneRow
    <3> QED
      BY <2>1, <2>2, <3>1, <3>2, <3>3
  <2> QED
    BY <2>3, <2>4
<1>4. ASSUME NEW a \in Accounts, NEW g \in Generations
      PROVE  /\ LoadPortfolio(x, a, g).cash >= Due(x, a, g, "buy")
             /\ LoadPortfolio(x, a, g).units >= Due(x, a, g, "sell")
  <2>1. Due(x, a, g, "buy") <= Balance(x, a, g, "buy") /\ Due(x, a, g, "sell") <= Balance(x, a, g, "sell")
    BY <1>3
  <2>2. Due(x, a, g, "buy") \in Nat /\ Due(x, a, g, "sell") \in Nat
    BY <1>1, HoldingsType
  <2>3. LoadPortfolio(x, a, g) \in Portfolio
    BY <1>1, LoadPortfolioType DEF Tables
  <2> QED
    BY <2>1, <2>2, <2>3 DEF Balance, Portfolio
<1> QED
  BY <1>1, <1>4 DEF Sound, Covered

\* A fill's entry pays for the fill: its account is covered if it could.
LEMMA FillStored ==
  ASSUME TypeOK, NEW x \in Tables, Sound(x), NEW o \in OrderIds, x.rows[o] # NoOrder,
         NEW order \in Order, NEW q \in Nat, NEW y, y = Stored(x, FillEntry(o, order, q)),
         Due(x, order.account, generation[order.account], order.side) + q
           <= Balance(x, order.account, generation[order.account], order.side)
  PROVE  /\ FillEntry(o, order, q) \in Entries
         /\ y \in Tables /\ y.rows = x.rows /\ y.ledger = Append(x.ledger, FillEntry(o, order, q))
         /\ Sound(y)
         /\ \A a \in Accounts, g \in Generations :
              LET p == LoadPortfolio(x, a, g)
                  r == LoadPortfolio(y, a, g)
              IN  IF a = order.account /\ g = generation[order.account]
                  THEN IF order.side = "buy" THEN r.cash = p.cash - q /\ r.units = p.units + q
                                             ELSE r.cash = p.cash + q /\ r.units = p.units - q
                  ELSE r = p
<1> DEFINE e == FillEntry(o, order, q)
           a0 == order.account
           g0 == generation[order.account]
<1>1. /\ e \in FillEntries /\ e \in LedgerEntries /\ e \in Entries /\ e.type = "fill" /\ e.id = o
      /\ e.account = a0 /\ e.generation = g0 /\ e.side = order.side /\ e.qty = q
  BY EntryTypes DEF FillEntry, Entries, LedgerEntries
<1> HIDE DEF e
<1>2. y \in Tables /\ y.rows = x.rows /\ y.ledger = Append(x.ledger, e)
  <2>1. y = Stored(x, e)
    BY DEF e
  <2> QED
    BY <1>1, <2>1, StoredFacts
<1>3. ASSUME NEW a \in Accounts, NEW g \in Generations
      PROVE  /\ LoadPortfolio(x, a, g) \in Portfolio
             /\ LoadPortfolio(y, a, g) = Replay(LoadPortfolio(x, a, g), e, a, g)
             /\ Due(x, a, g, "buy") \in Nat /\ Due(x, a, g, "sell") \in Nat
             /\ \A side : Due(y, a, g, side) = Due(x, a, g, side)
  <2>1. x.ledger \in Seq(LedgerEntries)
    BY DEF Tables
  <2>2. LoadPortfolio(x, a, g) \in Portfolio
    BY <2>1, LoadPortfolioType
  <2>3. LoadPortfolio(y, a, g) = Replay(LoadPortfolio(x, a, g), e, a, g)
    BY <1>1, <1>2, <2>1, LoadAppend
  <2>4. Due(x, a, g, "buy") \in Nat /\ Due(x, a, g, "sell") \in Nat
    BY HoldingsType DEF Sound
  <2>5. \A side : Due(y, a, g, side) = Due(x, a, g, side)
    BY <1>2 DEF Due, Holdings
  <2> QED
    BY <2>2, <2>3, <2>4, <2>5
<1>4. ASSUME NEW a \in Accounts, NEW g \in Generations
      PROVE  LET p == LoadPortfolio(x, a, g)
                 r == LoadPortfolio(y, a, g)
             IN  IF a = a0 /\ g = g0
                 THEN IF order.side = "buy" THEN r.cash = p.cash - q /\ r.units = p.units + q
                                            ELSE r.cash = p.cash + q /\ r.units = p.units - q
                 ELSE r = p
  <2>1. CASE a = a0 /\ g = g0
    BY <1>1, <1>3, <2>1, ReplayFacts
  <2>2. CASE ~ (a = a0 /\ g = g0)
    BY <1>1, <1>3, <2>2, ReplayFacts
  <2> QED
    BY <2>1, <2>2
<1>5. ASSUME NEW a \in Accounts, NEW g \in Generations
      PROVE  /\ LoadPortfolio(y, a, g).cash >= Due(y, a, g, "buy")
             /\ LoadPortfolio(y, a, g).units >= Due(y, a, g, "sell")
  <2> DEFINE p == LoadPortfolio(x, a, g)
             r == LoadPortfolio(y, a, g)
  <2>1. /\ p.cash >= Due(x, a, g, "buy") /\ p.units >= Due(x, a, g, "sell")
        /\ p.cash \in Int /\ p.units \in Int
    BY <1>3 DEF Sound, Covered, Portfolio
  <2>2. /\ Due(y, a, g, "buy") = Due(x, a, g, "buy") /\ Due(y, a, g, "sell") = Due(x, a, g, "sell")
        /\ Due(x, a, g, "buy") \in Nat /\ Due(x, a, g, "sell") \in Nat
    BY <1>3
  <2>3. CASE a = a0 /\ g = g0 /\ order.side = "buy"
    <3>1. Due(x, a, g, "buy") + q <= p.cash
      BY <2>3 DEF Balance
    <3>2. r.cash = p.cash - q /\ r.units = p.units + q
      BY <1>4, <2>3
    <3> HIDE DEF p, r
    <3>3. r.cash >= Due(y, a, g, "buy") /\ r.units >= Due(y, a, g, "sell")
      BY <2>1, <2>2, <3>1, <3>2
    <3> QED
      BY <3>3 DEF r
  <2>4. CASE a = a0 /\ g = g0 /\ order.side # "buy"
    <3>1. Due(x, a, g, "sell") + q <= p.units
      <4>1. order.side = "sell"
        BY <2>4 DEF Order
      <4> QED
        BY <2>4, <4>1 DEF Balance
    <3>2. r.cash = p.cash + q /\ r.units = p.units - q
      BY <1>4, <2>4
    <3> HIDE DEF p, r
    <3>3. r.cash >= Due(y, a, g, "buy") /\ r.units >= Due(y, a, g, "sell")
      BY <2>1, <2>2, <3>1, <3>2
    <3> QED
      BY <3>3 DEF r
  <2>5. CASE ~ (a = a0 /\ g = g0)
    <3>1. r = p
      BY <1>4, <2>5
    <3> HIDE DEF p, r
    <3>2. r.cash >= Due(y, a, g, "buy") /\ r.units >= Due(y, a, g, "sell")
      BY <2>1, <2>2, <3>1
    <3> QED
      BY <3>2 DEF r
  <2> QED
    BY <2>3, <2>4, <2>5
<1>6. Sound(y)
  BY <1>2, <1>5 DEF Sound, Covered, Bounded
<1> QED
  BY <1>1, <1>2, <1>4, <1>6 DEF e

\* The broker has what the tables say when order o is in both as `order` now and
\* balances are those the tables give.
LEMMA AgreesAfter ==
  ASSUME TypeOK, NEW s \in Tables, Agrees(s), NEW o \in OrderIds, NEW order \in Order,
         NEW z \in Tables, \A p \in OrderIds : p # o => z.rows[p] = s.rows[p],
         SameOrder(order, z.rows[o]), z.rows[o].status = order.status,
         z.rows[o].generation = generation[order.account],
         \A k \in 1 .. Len(z.ledger) :
           \/ \E j \in 1 .. Len(s.ledger) : z.ledger[k] = s.ledger[j]
           \/ /\ z.ledger[k].account = order.account
              /\ z.ledger[k].generation = generation[order.account],
         orders' = [orders EXCEPT ![o] = order], nextId' \in Nat, nextId' >= nextId, o < nextId',
         generation' = generation, current' = current, resets' = resets,
         \A a \in Accounts : /\ cash'[a] = LoadPortfolio(z, a, generation[a]).cash
                             /\ units'[a] = LoadPortfolio(z, a, generation[a]).units
  PROVE  Agrees(z)'
<1>1. /\ orders'[o] = order
      /\ \A p \in OrderIds : p # o => orders'[p] = orders[p]
  BY DEF TypeOK
<1>2. ASSUME NEW p \in OrderIds
      PROVE  /\ (IsOpen(p) <=> OpenRow(z, generation, p))'
             /\ (IsOpen(p) => SameOrder(orders[p], z.rows[p]))'
             /\ p >= nextId' => z.rows[p] = NoOrder
  <2>1. CASE p = o
    BY <1>1, <2>1 DEF IsOpen, OpenRow, SameOrder, OrderIds
  <2>2. CASE p # o
    <3>1. orders'[p] = orders[p] /\ z.rows[p] = s.rows[p]
      BY <1>1, <2>2
    <3>2. /\ IsOpen(p) <=> OpenRow(s, generation, p)
          /\ IsOpen(p) => SameOrder(orders[p], s.rows[p])
          /\ p >= nextId => s.rows[p] = NoOrder
      BY DEF Agrees
    <3>3. p \in Nat /\ nextId \in Nat
      BY DEF OrderIds, TypeOK
    <3> QED
      BY <3>1, <3>2, <3>3 DEF IsOpen, OpenRow
  <2> QED
    BY <2>1, <2>2
<1>3. ASSUME NEW a \in Accounts, NEW g \in Generations, Ahead(a, g)
      PROVE  g # generation[a] /\ Untouched(z, a, g)
  <2>1. g # generation[a] /\ Untouched(s, a, g)
    BY <1>3 DEF Agrees
  <2>2. ASSUME NEW p \in OrderIds, z.rows[p] # NoOrder
        PROVE  ~ (z.rows[p].account = a /\ z.rows[p].generation = g)
    <3>1. CASE p = o
      BY <2>1, <3>1 DEF SameOrder
    <3>2. CASE p # o
      BY <2>1, <2>2, <3>2 DEF Untouched
    <3> QED
      BY <3>1, <3>2
  <2>3. ASSUME NEW k \in 1 .. Len(z.ledger)
        PROVE  ~ (z.ledger[k].account = a /\ z.ledger[k].generation = g)
    BY <2>1 DEF Untouched
  <2> QED
    BY <2>1, <2>2, <2>3 DEF Untouched
<1>4. \A a \in Accounts, g \in Generations : Ahead(a, g)' <=> Ahead(a, g)
  BY DEF Ahead
<1>5. \A a \in Accounts, g \in Generations :
        Ahead(a, g)' => g # generation'[a] /\ Untouched(z, a, g)
  BY <1>3, <1>4
<1> QED
  BY <1>2, <1>5 DEF Agrees

\* A sound table's balances and dues are numbers, each balance at least its due.
LEMMA SoundFacts ==
  ASSUME NEW s \in Tables, Sound(s), NEW a \in Accounts, NEW g \in Generations,
         NEW side \in {"buy", "sell"}
  PROVE  /\ LoadPortfolio(s, a, g).cash \in Int /\ LoadPortfolio(s, a, g).units \in Int
         /\ Balance(s, a, g, side) \in Int /\ Due(s, a, g, side) \in Nat
         /\ Due(s, a, g, side) <= Balance(s, a, g, side)
<1>1. LoadPortfolio(s, a, g) \in Portfolio
  BY LoadPortfolioType DEF Tables
<1>2. LoadPortfolio(s, a, g).cash \in Int /\ LoadPortfolio(s, a, g).units \in Int
  BY <1>1 DEF Portfolio
<1>3. Due(s, a, g, side) \in Nat
  BY HoldingsType DEF Sound
<1>4. Due(s, a, g, side) <= Balance(s, a, g, side)
  BY <1>2, <1>3 DEF Sound, Covered, Balance
<1> QED
  BY <1>2, <1>3, <1>4 DEF Balance

\* An execution that its account can pay, whatever else its open orders need, keeps
\* the journal sound: also between the order's entry and the fill's.
LEMMA ExecutionDurable ==
  ASSUME TypeOK, Durable, up = "serving", BrokerCall, NEW o \in OrderIds, NEW order \in Order,
         NEW q \in Nat, order.filled <= order.size, MayStore(Last, o, order),
         orders' = [orders EXCEPT ![o] = order], BookFill(order.account, order.side, q),
         Emit(ExecutionEntries(o, order, q)), nextId' \in Nat, nextId' >= nextId, o < nextId',
         NEW x, x = Stored(Last, OrderEntry(o, order)),
         Due(x, order.account, generation[order.account], order.side) + q
           <= Balance(Last, order.account, generation[order.account], order.side)
  PROVE  Durable'
<1> DEFINE a0 == order.account
           g0 == generation[order.account]
<1>1. PICK s : s = Last
  OBVIOUS
<1>2. s \in Tables /\ Sound(s) /\ Agrees(s) /\ Len(queue) \in Nat
  <2>1. s \in Tables /\ Len(queue) \in Nat
    BY <1>1, LastFacts
  <2>2. Len(queue) \in 0 .. Len(queue)
    BY <2>1
  <2> QED
    BY <1>1, <2>1, <2>2 DEF Durable, Last
<1>3. /\ a0 \in Accounts /\ g0 \in Generations /\ order.side \in {"buy", "sell"}
      /\ generation \in [Accounts -> Generations]
      /\ cash \in [Accounts -> Int] /\ units \in [Accounts -> Int]
  BY DEF TypeOK, Order
<1>4. /\ OrderEntry(o, order) \in Entries
      /\ x \in Tables /\ x.ledger = s.ledger
      /\ \A p \in OrderIds : p # o => x.rows[p] = s.rows[p]
      /\ x.rows[o] \in Row /\ SameOrder(order, x.rows[o])
      /\ x.rows[o].status = order.status /\ x.rows[o].generation = g0
      /\ Bounded(x)
  BY <1>1, <1>2, OrderStored DEF Sound
<1>5. \A a, g : LoadPortfolio(x, a, g) = LoadPortfolio(s, a, g)
  BY <1>4 DEF LoadPortfolio
<1>6. Balance(x, a0, g0, order.side) = Balance(s, a0, g0, order.side)
  BY <1>5 DEF Balance
<1>7. Due(x, a0, g0, order.side) \in Nat /\ Balance(s, a0, g0, order.side) \in Int
  BY <1>2, <1>3, <1>4, HoldingsType, SoundFacts
<1>8. Sound(x)
  <2>1. Due(x, a0, g0, order.side) <= Balance(s, a0, g0, order.side)
    BY <1>1, <1>7
  <2> QED
    BY <1>1, <1>2, <2>1, OrderSound
<1>9. /\ \A a \in Accounts : /\ cash[a] = LoadPortfolio(s, a, generation[a]).cash
                             /\ units[a] = LoadPortfolio(s, a, generation[a]).units
      /\ generation' = generation /\ current' = current /\ resets' = resets
      /\ store' = store /\ up' = up
  BY <1>2 DEF Agrees, BrokerCall, disk
<1>10. queue' = queue \o ExecutionEntries(o, order, q)
  BY DEF Emit
<1>11. /\ \A a \in Accounts : a # a0 => cash'[a] = cash[a] /\ units'[a] = units[a]
       /\ order.side = "buy" => cash'[a0] = cash[a0] - q /\ units'[a0] = units[a0] + q
       /\ order.side # "buy" => cash'[a0] = cash[a0] + q /\ units'[a0] = units[a0] - q
  BY <1>3 DEF BookFill
<1>12. CASE q = 0
  <2>1. queue' = queue \o <<OrderEntry(o, order)>>
    BY <1>10, <1>12 DEF ExecutionEntries
  <2>2. \A a \in Accounts : cash'[a] = cash[a] /\ units'[a] = units[a]
    BY <1>3, <1>11, <1>12
  <2>3. \A a \in Accounts : /\ cash'[a] = LoadPortfolio(x, a, generation[a]).cash
                            /\ units'[a] = LoadPortfolio(x, a, generation[a]).units
    BY <1>5, <1>9, <2>2
  <2>4. \A k \in 1 .. Len(x.ledger) : \E j \in 1 .. Len(s.ledger) : x.ledger[k] = s.ledger[j]
    BY <1>4
  <2>5. Agrees(x)'
    BY <1>2, <1>4, <1>9, <2>3, <2>4, AgreesAfter
  <2> QED
    BY <1>1, <1>4, <1>8, <1>9, <2>1, <2>5, OneEntry
<1>13. CASE q # 0
  <2> DEFINE d == FillEntry(o, order, q)
  <2>1. queue' = queue \o <<OrderEntry(o, order), d>>
    BY <1>10, <1>13 DEF ExecutionEntries
  <2>2. PICK y : y = Stored(x, d)
    OBVIOUS
  <2>3. x.rows[o] # NoOrder
    BY <1>4, RecordFacts
  <2>4. Due(x, a0, g0, order.side) + q <= Balance(x, a0, g0, order.side)
    BY <1>1, <1>6
  <2>5. /\ d \in Entries
        /\ y \in Tables /\ y.rows = x.rows /\ y.ledger = Append(x.ledger, d)
        /\ Sound(y)
        /\ \A a \in Accounts, g \in Generations :
             LET p == LoadPortfolio(x, a, g)
                 r == LoadPortfolio(y, a, g)
             IN  IF a = a0 /\ g = g0
                 THEN IF order.side = "buy" THEN r.cash = p.cash - q /\ r.units = p.units + q
                                            ELSE r.cash = p.cash + q /\ r.units = p.units - q
                 ELSE r = p
    BY <1>4, <1>8, <2>2, <2>3, <2>4, FillStored
  <2>6. \A a \in Accounts : /\ cash'[a] = LoadPortfolio(y, a, generation[a]).cash
                            /\ units'[a] = LoadPortfolio(y, a, generation[a]).units
    <3> SUFFICES ASSUME NEW a \in Accounts
                 PROVE  /\ cash'[a] = LoadPortfolio(y, a, generation[a]).cash
                        /\ units'[a] = LoadPortfolio(y, a, generation[a]).units
      OBVIOUS
    <3>1. /\ cash[a] = LoadPortfolio(x, a, generation[a]).cash
          /\ units[a] = LoadPortfolio(x, a, generation[a]).units
          /\ generation[a] \in Generations
      BY <1>3, <1>5, <1>9
    <3>2. CASE a = a0
      BY <1>11, <2>5, <3>1, <3>2
    <3>3. CASE a # a0
      BY <1>11, <2>5, <3>1, <3>3
    <3> QED
      BY <3>2, <3>3
  <2>7. /\ d.account = a0 /\ d.generation = g0
    BY DEF FillEntry
  <2> HIDE DEF d
  <2>8. \A k \in 1 .. Len(y.ledger) :
           \/ \E j \in 1 .. Len(s.ledger) : y.ledger[k] = s.ledger[j]
           \/ y.ledger[k].account = a0 /\ y.ledger[k].generation = g0
    <3>1. s.ledger \in Seq(LedgerEntries) /\ y.ledger = Append(s.ledger, d)
      BY <1>2, <1>4, <2>5 DEF Tables
    <3>2. \A k \in 1 .. Len(y.ledger) :
             (k \in 1 .. Len(s.ledger) /\ y.ledger[k] = s.ledger[k]) \/ y.ledger[k] = d
      BY <3>1
    <3> QED
      BY <2>7, <3>2
  <2>9. Agrees(y)'
    <3>1. /\ \A p \in OrderIds : p # o => y.rows[p] = s.rows[p]
          /\ SameOrder(order, y.rows[o]) /\ y.rows[o].status = order.status
          /\ y.rows[o].generation = g0
      BY <1>4, <2>5
    <3> QED
      BY <1>2, <1>9, <2>5, <2>6, <2>8, <3>1, AgreesAfter
  <2> QED
    BY <1>1, <1>4, <1>8, <1>9, <2>1, <2>2, <2>5, <2>9, OneEntry, TwoEntries
<1> QED
  BY <1>12, <1>13

-----------------------------------------------------------------------------
(* The broker's calls. *)

\* A draining broker's calls are not journaled.
LEMMA DrainingDurable ==
  ASSUME Durable, BrokerCall, up # "serving", NEW es, Emit(es)
  PROVE  Durable'
<1>1. queue' = queue /\ store' = store /\ up' = up /\ up # "down"
  BY DEF Emit, BrokerCall, disk
<1> QED
  BY <1>1, SameQueue

\* What is due when order o is stored: what was due without it, and what it needs now.
LEMMA DueAfter ==
  ASSUME TypeOK, Durable, up = "serving", NEW o \in OrderIds, NEW order \in Order,
         order.filled <= order.size, MayStore(Last, o, order),
         NEW x, x = Stored(Last, OrderEntry(o, order))
  PROVE  LET a0 == order.account
             g0 == generation[order.account]
             due == Due(Last, a0, g0, order.side)
             balance == Balance(Last, a0, g0, order.side)
         IN  /\ due \in Nat /\ balance \in Int /\ due <= balance
             /\ balance = IF order.side = "buy" THEN cash[a0] ELSE units[a0]
             /\ Available(a0, order.side) = balance - due
             /\ Due(x, a0, g0, order.side) =
                  due - (IF Last.rows[o] = NoOrder THEN 0 ELSE order.size - orders[o].filled)
                      + (IF order.status = "open" THEN order.size - order.filled ELSE 0)
<1> DEFINE a0 == order.account
           g0 == generation[order.account]
<1>1. PICK s : s = Last
  OBVIOUS
<1>2. s \in Tables /\ Sound(s) /\ Agrees(s)
  <2>1. s \in Tables /\ Len(queue) \in Nat
    BY <1>1, LastFacts
  <2>2. Len(queue) \in 0 .. Len(queue)
    BY <2>1
  <2> QED
    BY <1>1, <2>1, <2>2 DEF Durable, Last
<1>3. a0 \in Accounts /\ g0 \in Generations /\ order.side \in {"buy", "sell"}
  BY DEF TypeOK, Order
<1>4. /\ Due(s, a0, g0, order.side) \in Nat /\ Balance(s, a0, g0, order.side) \in Int
      /\ Due(s, a0, g0, order.side) <= Balance(s, a0, g0, order.side)
  BY <1>2, <1>3, SoundFacts
<1>5. /\ Balance(s, a0, g0, order.side) = IF order.side = "buy" THEN cash[a0] ELSE units[a0]
      /\ Available(a0, order.side) =
           Balance(s, a0, g0, order.side) - Due(s, a0, g0, order.side)
  <2>1. Balance(s, a0, g0, order.side) = IF order.side = "buy" THEN cash[a0] ELSE units[a0]
    BY <1>2, <1>3 DEF Agrees, Balance
  <2>2. Promised(orders, {p \in OrderIds : IsOpen(p) /\ orders[p].account = a0}, order.side)
          = Due(s, a0, g0, order.side)
    BY <1>2, <1>3, PromisedIsDue
  <2> QED
    BY <2>1, <2>2 DEF Available
<1>6. /\ x \in Tables /\ Bounded(s) /\ Bounded(x)
      /\ \A p \in OrderIds : p # o => x.rows[p] = s.rows[p]
      /\ SameOrder(order, x.rows[o])
      /\ x.rows[o].status = order.status /\ x.rows[o].generation = g0
      /\ s.rows[o] # NoOrder =>
           /\ s.rows[o].account = a0 /\ s.rows[o].generation = g0
           /\ s.rows[o].side = order.side /\ s.rows[o].size = order.size
           /\ s.rows[o].status = "open" /\ s.rows[o].filled = orders[o].filled
  <2>1. MayStore(s, o, order) /\ x = Stored(s, OrderEntry(o, order)) /\ Bounded(s)
    BY <1>1, <1>2 DEF Sound
  <2> QED
    BY <1>2, <2>1, OrderStored
<1>7. Due(x, a0, g0, order.side) =
        Due(s, a0, g0, order.side) - Held(s.rows[o], a0, g0, order.side)
          + Held(x.rows[o], a0, g0, order.side)
  BY <1>2, <1>6, DueOneRow
<1>8. Held(x.rows[o], a0, g0, order.side) =
        IF order.status = "open" THEN order.size - order.filled ELSE 0
  BY <1>6 DEF Held, SameOrder
<1>9. Held(s.rows[o], a0, g0, order.side) =
        IF s.rows[o] = NoOrder THEN 0 ELSE order.size - orders[o].filled
  BY <1>6 DEF Held, NoOrder
<1> QED
  BY <1>1, <1>4, <1>5, <1>7, <1>8, <1>9

\* A placed order is paid out of what was available.
LEMMA PlaceDurable ==
  ASSUME IInv, Durable, NEW a \in Accounts, NEW side \in {"buy", "sell"}, NEW size \in Sizes,
         NEW rests \in BOOLEAN, NEW taken \in 0 .. size, Place(a, side, size, taken, rests)
  PROVE  Durable'
<1> DEFINE order == [account |-> a, side |-> side, size |-> size, filled |-> taken,
                     status |-> IF taken = size THEN "filled"
                                ELSE IF rests THEN "open" ELSE "cancelled"]
           es == ExecutionEntries(nextId, order, taken)
<1>1. TypeOK /\ size \in Nat /\ taken \in Nat /\ taken <= size
  BY BoundAssumption DEF IInv
<1>2. /\ order \in Order /\ order.account = a /\ order.side = side /\ order.size = size
      /\ order.filled = taken
  BY <1>1 DEF Order
<1>3. /\ nextId \in OrderIds /\ nextId \in Nat /\ nextId' \in Nat /\ nextId' >= nextId
      /\ nextId < nextId' /\ BookFill(a, side, taken)
      /\ size <= Available(a, side)
  BY <1>1 DEF Place, TypeOK, OrderIds, BrokerCall
<1>4. BrokerCall /\ orders' = [orders EXCEPT ![nextId] = order] /\ Emit(es)
  BY DEF Place
<1> HIDE DEF order
<1>5. CASE up # "serving"
  BY <1>4, <1>5, DrainingDurable
<1>6. CASE up = "serving"
  <2>1. Last.rows[nextId] = NoOrder
    <3>1. Agrees(Last)
      BY <1>6 DEF Durable, Last
    <3> QED
      BY <1>3, <3>1 DEF Agrees
  <2>2. MayStore(Last, nextId, order)
    BY <2>1 DEF MayStore
  <2>3. PICK x : x = Stored(Last, OrderEntry(nextId, order))
    OBVIOUS
  <2>4. Due(x, a, generation[a], side) + taken <= Balance(Last, a, generation[a], side)
    <3> DEFINE due == Due(Last, a, generation[a], side)
               balance == Balance(Last, a, generation[a], side)
               after == Due(x, a, generation[a], side)
    <3>1. /\ due \in Nat /\ balance \in Int /\ Available(a, side) = balance - due
          /\ after = due + (IF order.status = "open" THEN size - taken ELSE 0)
      BY <1>1, <1>2, <1>3, <1>6, <2>1, <2>2, <2>3, DueAfter
    <3> HIDE DEF due, balance, after
    <3>2. after + taken <= balance
      BY <1>1, <1>3, <3>1
    <3> QED
      BY <3>2 DEF balance, after
  <2> QED
    BY <1>1, <1>2, <1>3, <1>4, <1>6, <2>2, <2>3, <2>4, ExecutionDurable
<1> QED
  BY <1>5, <1>6

\* What an open order needs of its tables: it is open there too.
LEMMA OpenStored ==
  ASSUME TypeOK, Durable, up = "serving", NEW o \in OrderIds, IsOpen(o)
  PROVE  /\ orders[o] \in Order /\ Last.rows[o] # NoOrder
         /\ orders[o].filled \in Nat /\ orders[o].size \in Nat
         /\ orders[o].filled <= orders[o].size
         /\ nextId \in Nat /\ o < nextId
<1>1. orders[o] \in Order
  BY RecordFacts DEF TypeOK, IsOpen
<1>2. Agrees(Last) /\ Sound(Last)
  <2>1. Len(queue) \in 0 .. Len(queue)
    BY LastFacts
  <2> QED
    BY <2>1 DEF Durable, Last
<1>3. /\ Last.rows[o] # NoOrder /\ SameOrder(orders[o], Last.rows[o])
  <2>1. OpenRow(Last, generation, o) /\ SameOrder(orders[o], Last.rows[o])
    BY <1>2 DEF Agrees
  <2> QED
    BY <2>1, RecordFacts DEF OpenRow
<1>4. Last.rows[o].filled <= Last.rows[o].size
  BY <1>2, <1>3 DEF Sound, Bounded
<1>5. orders[o].filled <= orders[o].size
  BY <1>3, <1>4 DEF SameOrder
<1>6. ~ (o >= nextId)
  BY <1>2, <1>3 DEF Agrees
<1>7. nextId \in Nat /\ o \in Nat
  BY DEF TypeOK, OrderIds
<1> QED
  BY <1>1, <1>3, <1>5, <1>6, <1>7 DEF Order

\* A fill takes what its order held.
LEMMA FillDurable ==
  ASSUME IInv, Durable, NEW o \in OrderIds, NEW q \in Sizes, Fill(o, q)
  PROVE  Durable'
<1> DEFINE filled == orders[o].filled + q
           status == IF filled = orders[o].size THEN "filled" ELSE orders[o].status
           order == [orders[o] EXCEPT !.filled = filled, !.status = status]
           es == ExecutionEntries(o, order, q)
<1>1. TypeOK /\ q \in Nat /\ IsOpen(o)
  BY BoundAssumption DEF IInv, Fill
<1>2. /\ BrokerCall /\ orders' = [orders EXCEPT ![o] = order] /\ Emit(es)
      /\ q <= orders[o].size - orders[o].filled /\ nextId' = nextId
      /\ BookFill(order.account, order.side, q)
  BY DEF Fill
<1>3. CASE up # "serving"
  BY <1>2, <1>3, DrainingDurable
<1>4. CASE up = "serving"
  <2>1. /\ orders[o] \in Order /\ Last.rows[o] # NoOrder
        /\ orders[o].filled \in Nat /\ orders[o].size \in Nat
        /\ orders[o].filled <= orders[o].size
        /\ nextId \in Nat /\ o < nextId
    BY <1>1, <1>4, OpenStored
  <2>2. /\ order \in Order /\ order.account = orders[o].account
        /\ order.side = orders[o].side /\ order.size = orders[o].size
        /\ order.filled = orders[o].filled + q /\ order.filled <= order.size
        /\ order.status # "open" => order.filled = order.size
    <3>1. /\ filled \in Nat /\ filled <= orders[o].size
          /\ status \in {"open", "filled", "cancelled"}
          /\ status # "open" => filled = orders[o].size
      BY <1>1, <1>2, <2>1 DEF IsOpen
    <3> HIDE DEF filled, status
    <3>2. /\ order \in Order /\ order.account = orders[o].account
          /\ order.side = orders[o].side /\ order.size = orders[o].size
          /\ order.filled = filled /\ order.status = status
      BY <2>1, <3>1 DEF Order
    <3> QED
      BY <3>1, <3>2 DEF filled
  <2> HIDE DEF order
  <2>3. MayStore(Last, o, order)
    BY <1>1, <2>2 DEF MayStore
  <2>4. PICK x : x = Stored(Last, OrderEntry(o, order))
    OBVIOUS
  <2>5. Due(x, order.account, generation[order.account], order.side) + q
          <= Balance(Last, order.account, generation[order.account], order.side)
    <3> DEFINE due == Due(Last, order.account, generation[order.account], order.side)
               balance == Balance(Last, order.account, generation[order.account], order.side)
               after == Due(x, order.account, generation[order.account], order.side)
    <3>1. /\ due \in Nat /\ balance \in Int /\ due <= balance
          /\ after = due - (order.size - orders[o].filled)
                       + (IF order.status = "open" THEN order.size - order.filled ELSE 0)
      BY <1>1, <1>4, <2>1, <2>2, <2>3, <2>4, DueAfter
    <3> HIDE DEF due, balance, after
    <3>2. after + q <= balance
      BY <1>1, <2>1, <2>2, <3>1
    <3> QED
      BY <3>2 DEF balance, after
  <2>6. nextId' \in Nat /\ nextId' >= nextId /\ o < nextId'
    BY <1>2, <2>1
  <2> QED
    BY <1>1, <1>2, <1>4, <2>2, <2>3, <2>4, <2>5, <2>6, ExecutionDurable
<1> QED
  BY <1>3, <1>4

\* Closing an order changes no balance and frees what it held.
LEMMA CloseDurable ==
  ASSUME IInv, Durable, NEW o \in OrderIds, Close(o)
  PROVE  Durable'
<1> DEFINE order == [orders[o] EXCEPT !.status = "cancelled"]
<1>1. TypeOK /\ IsOpen(o)
  BY DEF IInv, Close
<1>2. /\ BrokerCall /\ orders' = [orders EXCEPT ![o] = order] /\ Emit(<<OrderEntry(o, order)>>)
      /\ nextId' = nextId /\ cash' = cash /\ units' = units
  BY DEF Close
<1>3. CASE up # "serving"
  BY <1>2, <1>3, DrainingDurable
<1>4. CASE up = "serving"
  <2>1. /\ orders[o] \in Order /\ Last.rows[o] # NoOrder
        /\ orders[o].filled \in Nat /\ orders[o].size \in Nat
        /\ orders[o].filled <= orders[o].size
        /\ nextId \in Nat /\ o < nextId
    BY <1>1, <1>4, OpenStored
  <2>2. /\ order \in Order /\ order.account = orders[o].account
        /\ order.side = orders[o].side /\ order.size = orders[o].size
        /\ order.filled = orders[o].filled /\ order.filled <= order.size
        /\ order.status = "cancelled"
    BY <2>1 DEF Order
  <2> HIDE DEF order
  <2>3. MayStore(Last, o, order)
    BY <1>1, <2>2 DEF MayStore
  <2>4. PICK x : x = Stored(Last, OrderEntry(o, order))
    OBVIOUS
  <2>5. Due(x, order.account, generation[order.account], order.side) + 0
          <= Balance(Last, order.account, generation[order.account], order.side)
    <3> DEFINE due == Due(Last, order.account, generation[order.account], order.side)
               balance == Balance(Last, order.account, generation[order.account], order.side)
               after == Due(x, order.account, generation[order.account], order.side)
    <3>1. /\ due \in Nat /\ balance \in Int /\ due <= balance
          /\ after = due - (order.size - orders[o].filled) + 0
      BY <1>1, <1>4, <2>1, <2>2, <2>3, <2>4, DueAfter
    <3> HIDE DEF due, balance, after
    <3>2. after + 0 <= balance
      BY <2>1, <2>2, <3>1
    <3> QED
      BY <3>2 DEF balance, after
  <2>6. nextId' \in Nat /\ nextId' >= nextId /\ o < nextId'
    BY <1>2, <2>1
  <2>7. Emit(ExecutionEntries(o, order, 0))
    BY <1>2 DEF ExecutionEntries
  <2>8. BookFill(order.account, order.side, 0)
    <3>1. /\ cash \in [Accounts -> Int] /\ units \in [Accounts -> Int]
          /\ order.account \in Accounts
      BY <1>1, <2>2 DEF TypeOK, Order
    <3> QED
      BY <1>2, <3>1 DEF BookFill
  <2> QED
    BY <1>1, <1>2, <1>4, <2>2, <2>3, <2>4, <2>5, <2>6, <2>7, <2>8, ExecutionDurable
<1> QED
  BY <1>3, <1>4

\* The broker has what the tables say when only account a's balances change.
LEMMA AgreesLedger ==
  ASSUME TypeOK, NEW s \in Tables, Agrees(s), NEW e \in LedgerEntries,
         e.generation = generation[e.account],
         NEW z \in Tables, z.rows = s.rows, z.ledger = Append(s.ledger, e),
         orders' = orders, nextId' = nextId, generation' = generation, current' = current,
         resets' = resets,
         \A a \in Accounts : /\ cash'[a] = LoadPortfolio(z, a, generation[a]).cash
                             /\ units'[a] = LoadPortfolio(z, a, generation[a]).units
  PROVE  Agrees(z)'
<1>1. ASSUME NEW a \in Accounts, NEW g \in Generations, Ahead(a, g)'
      PROVE  g # generation[a] /\ Untouched(z, a, g)
  <2>1. g # generation[a] /\ Untouched(s, a, g)
    BY <1>1 DEF Agrees, Ahead
  <2>2. s.ledger \in Seq(LedgerEntries)
    BY DEF Tables
  <2>3. ASSUME NEW k \in 1 .. Len(z.ledger)
        PROVE  ~ (z.ledger[k].account = a /\ z.ledger[k].generation = g)
    <3>1. (k \in 1 .. Len(s.ledger) /\ z.ledger[k] = s.ledger[k]) \/ z.ledger[k] = e
      BY <2>2
    <3> QED
      BY <2>1, <3>1 DEF Untouched
  <2> QED
    BY <2>1, <2>3 DEF Untouched
<1>2. \A p \in OrderIds : /\ (IsOpen(p) <=> OpenRow(z, generation, p))'
                          /\ (IsOpen(p) => SameOrder(orders[p], z.rows[p]))'
                          /\ p >= nextId' => z.rows[p] = NoOrder
  BY DEF Agrees, IsOpen, OpenRow
<1> QED
  BY <1>1, <1>2 DEF Agrees

\* Converted cash is no cash that open orders need.
LEMMA ConvertDurable ==
  ASSUME IInv, Durable, NEW a \in Accounts, Convert(a, 1)
  PROVE  Durable'
<1> DEFINE g0 == generation[a]
           e == [type |-> "conversion", generation |-> g0, account |-> a, amount |-> 1]
<1>1. TypeOK /\ BrokerCall /\ Emit(<<e>>) /\ 1 <= Available(a, "buy")
      /\ cash' = [cash EXCEPT ![a] = @ - 1] /\ orders' = orders /\ units' = units
      /\ nextId' = nextId
  BY DEF IInv, Convert
<1>2. /\ g0 \in Generations /\ e.type = "conversion" /\ e.account = a /\ e.generation = g0
      /\ e.amount = 1 /\ e \in Entries /\ e \in LedgerEntries
  BY <1>1 DEF TypeOK, Entries, LedgerEntries, ConversionEntries
<1> HIDE DEF e
<1>3. CASE up # "serving"
  BY <1>1, <1>3, DrainingDurable
<1>4. CASE up = "serving"
  <2>1. PICK s : s = Last
    OBVIOUS
  <2>2. s \in Tables /\ Sound(s) /\ Agrees(s)
    <3>1. s \in Tables /\ Len(queue) \in Nat
      BY <1>1, <2>1, LastFacts
    <3>2. Len(queue) \in 0 .. Len(queue)
      BY <3>1
    <3> QED
      BY <1>4, <2>1, <3>1, <3>2 DEF Durable, Last
  <2>3. PICK x : x = Stored(s, e)
    OBVIOUS
  <2>4. x \in Tables /\ x.rows = s.rows /\ x.ledger = Append(s.ledger, e)
    BY <1>2, <2>2, <2>3, StoredFacts
  <2>5. ASSUME NEW b \in Accounts, NEW g \in Generations
        PROVE  /\ LoadPortfolio(s, b, g).cash \in Int /\ LoadPortfolio(s, b, g).units \in Int
               /\ LoadPortfolio(x, b, g).units = LoadPortfolio(s, b, g).units
               /\ LoadPortfolio(x, b, g).cash =
                    IF b = a /\ g = g0 THEN LoadPortfolio(s, b, g).cash - 1
                                       ELSE LoadPortfolio(s, b, g).cash
    <3>1. s.ledger \in Seq(LedgerEntries)
      BY <2>2 DEF Tables
    <3>2. LoadPortfolio(s, b, g) \in Portfolio
      BY <3>1, LoadPortfolioType
    <3>3. LoadPortfolio(x, b, g) = Replay(LoadPortfolio(s, b, g), e, b, g)
      BY <1>2, <2>4, <3>1, LoadAppend
    <3>4. LoadPortfolio(s, b, g).cash \in Int /\ LoadPortfolio(s, b, g).units \in Int
      BY <3>2 DEF Portfolio
    <3>5. CASE b = a /\ g = g0
      <4>1. e.account = b /\ e.generation = g
        BY <1>2, <3>5
      <4> QED
        BY <1>2, <3>2, <3>3, <3>4, <3>5, <4>1, ReplayFacts
    <3>6. CASE ~ (b = a /\ g = g0)
      <4>1. ~ (e.account = b /\ e.generation = g)
        BY <1>2, <3>6
      <4> QED
        BY <1>2, <3>2, <3>3, <3>4, <3>6, <4>1, ReplayFacts
    <3> QED
      BY <3>5, <3>6
  <2>6. Sound(x)
    <3>1. ASSUME NEW b \in Accounts, NEW g \in Generations
          PROVE  /\ LoadPortfolio(x, b, g).cash >= Due(x, b, g, "buy")
                 /\ LoadPortfolio(x, b, g).units >= Due(x, b, g, "sell")
      <4>1. \A side : Due(x, b, g, side) = Due(s, b, g, side)
        BY <2>4 DEF Due, Holdings
      <4>2. /\ LoadPortfolio(s, b, g).cash >= Due(s, b, g, "buy")
            /\ LoadPortfolio(s, b, g).units >= Due(s, b, g, "sell")
            /\ Due(s, b, g, "buy") \in Nat
        BY <2>2, HoldingsType DEF Sound, Covered
      <4>3. CASE b = a /\ g = g0
        <5>1. Promised(orders, {o \in OrderIds : IsOpen(o) /\ orders[o].account = a}, "buy")
                = Due(s, a, g0, "buy")
          BY <2>2, PromisedIsDue
        <5>2. cash[a] = LoadPortfolio(s, a, g0).cash
          BY <2>2 DEF Agrees
        <5>3. 1 <= LoadPortfolio(s, a, g0).cash - Due(s, a, g0, "buy")
          BY <1>1, <5>1, <5>2 DEF Available
        <5>4. LoadPortfolio(x, b, g).cash >= Due(s, b, g, "buy")
          BY <2>5, <4>2, <4>3, <5>3
        <5> QED
          BY <2>5, <4>1, <4>2, <5>4
      <4>4. CASE ~ (b = a /\ g = g0)
        BY <2>5, <4>1, <4>2, <4>4
      <4> QED
        BY <4>3, <4>4
    <3> QED
      BY <2>2, <2>4, <3>1 DEF Sound, Covered, Bounded
  <2>7. /\ generation' = generation /\ current' = current /\ resets' = resets
        /\ store' = store /\ up' = up /\ queue' = queue \o <<e>>
    BY <1>1, <1>4 DEF BrokerCall, disk, Emit
  <2>8. \A b \in Accounts : /\ cash'[b] = LoadPortfolio(x, b, generation[b]).cash
                            /\ units'[b] = LoadPortfolio(x, b, generation[b]).units
    <3> SUFFICES ASSUME NEW b \in Accounts
                 PROVE  /\ cash'[b] = LoadPortfolio(x, b, generation[b]).cash
                        /\ units'[b] = LoadPortfolio(x, b, generation[b]).units
      OBVIOUS
    <3>1. /\ cash[b] = LoadPortfolio(s, b, generation[b]).cash
          /\ units[b] = LoadPortfolio(s, b, generation[b]).units
          /\ generation[b] \in Generations
      BY <1>1, <2>2 DEF Agrees, TypeOK
    <3>2. cash'[b] = IF b = a THEN cash[b] - 1 ELSE cash[b]
      BY <1>1 DEF TypeOK
    <3> QED
      BY <1>1, <2>5, <3>1, <3>2
  <2>9. Agrees(x)'
    BY <1>1, <1>2, <2>2, <2>4, <2>7, <2>8, AgreesLedger
  <2> QED
    BY <1>1, <1>2, <1>4, <2>1, <2>3, <2>6, <2>7, <2>9, OneEntry
<1> QED
  BY <1>3, <1>4

-----------------------------------------------------------------------------
(* The writer. *)

\* The writer takes the head of the queue to the tables, or leaves everything: it drops
\* an entry only after ATTEMPTS refusals of an outage, and repeats one only if an answer
\* is lost.
LEMMA WritingDurable ==
  ASSUME IInv, Durable, Failures \subseteq {"refused"}, Writing
  PROVE  Durable'
<1>1. /\ TypeOK /\ queue # <<>> /\ up # "down" /\ up' = up /\ orders' = orders
      /\ generation' = generation /\ current' = current /\ resets' = resets
      /\ nextId' = nextId /\ cash' = cash /\ units' = units
  BY DEF IInv, Writing, Write, Refuse, LoseAck, Reject, WriterTurn, world
<1>2. "outage" \notin Failures /\ "lost_ack" \notin Failures
  OBVIOUS
<1>3. ASSUME NEW z, Agrees(z) PROVE Agrees(z)'
  BY <1>1, <1>3 DEF Agrees, IsOpen, OpenRow, Ahead
<1>4. \/ queue' = queue /\ store' = store
      \/ queue' = Tail(queue) /\ store' = Stored(store, Head(queue))
  <2>1. CASE Write
    BY <2>1 DEF Write, NextEntry, Stored
  <2>2. CASE Refuse
    BY <1>2, <2>2 DEF Refuse, Retry
  <2>3. CASE LoseAck
    BY <1>2, <2>3 DEF LoseAck
  <2>4. CASE Reject
    BY <2>4 DEF Reject, NextEntry, Stored
  <2> QED
    BY <2>1, <2>2, <2>3, <2>4 DEF Writing
<1>5. CASE queue' = queue /\ store' = store
  <2>1. Written(store, queue)' = Written(store, queue) /\ Len(queue') = Len(queue)
    BY <1>5
  <2>2. up' = "serving" => Agrees(Written(store, queue)[Len(queue)])'
    <3>1. PICK z : z = Written(store, queue)[Len(queue)]
      OBVIOUS
    <3>2. up' = "serving" => Agrees(z)'
      BY <1>1, <1>3, <3>1 DEF Durable
    <3>3. z = (Written(store, queue)[Len(queue)])'
      BY <2>1, <3>1
    <3> QED
      BY <3>2, <3>3 DEF Agrees, OpenRow, Untouched
  <2> QED
    BY <1>1, <2>1, <2>2 DEF Durable
<1>6. CASE queue' = Tail(queue) /\ store' = Stored(store, Head(queue))
  <2> DEFINE n == Len(queue)
             w == Written(store, queue)
             w1 == Written(store', queue')
  <2>1. store \in Tables /\ queue \in Seq(Entries) /\ n \in Nat
    BY <1>1, LastFacts
  <2>2. Len(queue') = n - 1 /\ \A k \in 0 .. n - 1 : w1[k] = w[k + 1]
    BY <1>1, <1>6, <2>1, WrittenTail
  <2>3. n - 1 \in Nat
    BY <1>1, <2>1
  <2>4. w1[Len(queue')] = w[n]
    <3>1. n - 1 \in 0 .. n - 1 /\ n - 1 + 1 = n
      BY <2>3
    <3> HIDE DEF n, w, w1
    <3> QED
      BY <2>2, <3>1
  <2>5. \A k \in 0 .. n - 1 : Sound(w1[k])
    <3> SUFFICES ASSUME NEW k \in 0 .. n - 1 PROVE Sound(w1[k])
      OBVIOUS
    <3>1. k + 1 \in 0 .. n
      BY <2>3
    <3>2. Sound(w[k + 1])
      BY <3>1 DEF Durable
    <3> HIDE DEF n, w, w1
    <3> QED
      BY <2>2, <3>2
  <2>6. PICK z : z = w[n]
    OBVIOUS
  <2>7. up' = "serving" => Agrees(z)'
    BY <1>1, <1>3, <2>6 DEF Durable
  <2>8. (Written(store, queue)[Len(queue)])' = z
    BY <2>4, <2>6
  <2>9. up' = "serving" => Agrees(Written(store, queue)[Len(queue)])'
    BY <2>7, <2>8 DEF Agrees, OpenRow, Untouched
  <2>10. (\A k \in 0 .. Len(queue) : Sound(Written(store, queue)[k]))'
    <3>1. \A k \in 0 .. Len(queue') : Sound(w1[k])
      BY <2>2, <2>5
    <3> QED
      BY <3>1 DEF Sound, Bounded, Covered
  <2> QED
    BY <1>1, <2>9, <2>10 DEF Durable
<1> QED
  BY <1>4, <1>5, <1>6

-----------------------------------------------------------------------------
(* Resets, starts and stops. *)

\* A step that leaves queue and tables alone keeps Durable if the broker still has what
\* they say.
LEMMA StepBesideQueue ==
  ASSUME Durable, queue' = queue, store' = store, NEW z, z = Last,
         up' = "serving" => Agrees(z)', up' = "down" => resets' = {}
  PROVE  Durable'
<1>1. Written(store, queue)' = Written(store, queue) /\ Len(queue') = Len(queue)
  OBVIOUS
<1>2. z = (Written(store, queue)[Len(queue)])'
  BY <1>1 DEF Last
<1>3. up' = "serving" => Agrees(Written(store, queue)[Len(queue)])'
  BY <1>2 DEF Agrees, OpenRow, Untouched
<1>4. (\A k \in 0 .. Len(queue) : Sound(Written(store, queue)[k]))'
  <2>1. \A k \in 0 .. Len(queue') : Sound(Written(store', queue')[k])
    BY <1>1 DEF Durable
  <2> QED
    BY <2>1 DEF Sound, Bounded, Covered
<1> QED
  BY <1>3, <1>4 DEF Durable

\* A generation the store opens was ahead before: no entry is of it.
LEMMA ResetStoreDurable ==
  ASSUME IInv, Durable, NEW a \in Accounts, ResetStore(a) \/ ResetOffline(a)
  PROVE  Durable'
<1>1. /\ TypeOK /\ current[a] \in Generations
      /\ UNCHANGED <<orders, cash, units, generation, nextId, store, up, queue>>
      /\ current' = [current EXCEPT ![a] = @ + 1]
      /\ resets' = resets \/ resets' = resets \cup {[account |-> a, generation |-> current[a] + 1]}
      /\ up = "down" => resets' = resets
  BY DEF IInv, TypeOK, ResetStore, ResetOffline, world
<1>2. PICK z : z = Last
  OBVIOUS
<1>3. up' = "serving" => Agrees(z)'
  <2> SUFFICES ASSUME up' = "serving" PROVE Agrees(z)'
    OBVIOUS
  <2>1. Agrees(z)
    BY <1>1, <1>2 DEF Durable, Last
  <2>2. ASSUME NEW b \in Accounts, NEW g \in Generations, Ahead(b, g)' PROVE Ahead(b, g)
    <3>1. current[b] \in Nat /\ g \in Nat /\ current'[b] \in Nat
      BY <1>1 DEF TypeOK, Generations
    <3>2. current'[b] >= current[b]
      BY <1>1 DEF TypeOK, Generations
    <3>3. CASE g > current'[b]
      BY <3>1, <3>2, <3>3 DEF Ahead
    <3>4. CASE [account |-> b, generation |-> g] \in resets'
      <4>1. CASE [account |-> b, generation |-> g] \in resets
        BY <4>1 DEF Ahead
      <4>2. CASE [account |-> b, generation |-> g] = [account |-> a, generation |-> current[a] + 1]
        <5>1. b = a /\ g = current[a] + 1
          BY <4>2
        <5> QED
          BY <3>1, <5>1 DEF Ahead
      <4> QED
        BY <1>1, <3>4, <4>1, <4>2
    <3> QED
      BY <2>2, <3>3, <3>4 DEF Ahead
  <2> QED
    BY <1>1, <2>1, <2>2 DEF Agrees, IsOpen, OpenRow
<1> QED
  BY <1>1, <1>2, <1>3, StepBesideQueue DEF Durable

\* A reset reaches a broker none of whose entries is of the new generation.
LEMMA ResetBrokerDurable ==
  ASSUME IInv, Durable, NEW r \in resets, ResetBroker(r)
  PROVE  Durable'
<1> DEFINE a0 == r.account
           g0 == r.generation
<1>1. /\ TypeOK /\ UNCHANGED <<nextId, store, current, up, queue>>
      /\ resets' = resets \ {r}
      /\ generation' = [generation EXCEPT ![a0] = g0]
      /\ cash' = [cash EXCEPT ![a0] = Deposit] /\ units' = [units EXCEPT ![a0] = 0]
  BY DEF IInv, ResetBroker, disk
<1>2. /\ a0 \in Accounts /\ g0 \in Generations /\ r = [account |-> a0, generation |-> g0]
      /\ g0 <= current[a0]
  BY <1>1 DEF IInv, GenerationsKnown, TypeOK, Reset
<1>3. PICK z : z = Last
  OBVIOUS
<1>4. up # "down"
  BY DEF Durable
<1>5. up' = "serving" => Agrees(z)'
  <2> SUFFICES ASSUME up' = "serving" PROVE Agrees(z)'
    OBVIOUS
  <2>1. Agrees(z) /\ z \in Tables
    BY <1>1, <1>3, LastFacts DEF Durable, Last
  <2>2. Ahead(a0, g0) /\ Untouched(z, a0, g0)
    <3>1. Ahead(a0, g0)
      BY <1>2 DEF Ahead
    <3> QED
      BY <1>2, <2>1, <3>1 DEF Agrees
  <2>3. \A b \in Accounts : /\ cash'[b] = LoadPortfolio(z, b, generation'[b]).cash
                            /\ units'[b] = LoadPortfolio(z, b, generation'[b]).units
    <3> SUFFICES ASSUME NEW b \in Accounts
                 PROVE  /\ cash'[b] = LoadPortfolio(z, b, generation'[b]).cash
                        /\ units'[b] = LoadPortfolio(z, b, generation'[b]).units
      OBVIOUS
    <3>1. CASE b = a0
      <4>1. LoadPortfolio(z, a0, g0) = NewPortfolio
        BY <2>1, <2>2, LoadUntouched DEF Tables, Untouched
      <4>2. cash'[b] = Deposit /\ units'[b] = 0 /\ generation'[b] = g0
        BY <1>1, <1>2, <3>1 DEF TypeOK
      <4> QED
        BY <3>1, <4>1, <4>2 DEF NewPortfolio
    <3>2. CASE b # a0
      <4>1. cash'[b] = cash[b] /\ units'[b] = units[b] /\ generation'[b] = generation[b]
        BY <1>1, <1>2, <3>2 DEF TypeOK
      <4> QED
        BY <2>1, <4>1 DEF Agrees
    <3> QED
      BY <3>1, <3>2
  <2>4. ASSUME NEW o \in OrderIds
        PROVE  /\ (IsOpen(o) <=> OpenRow(z, generation, o))'
               /\ (IsOpen(o) => SameOrder(orders[o], z.rows[o]))'
               /\ o >= nextId' => z.rows[o] = NoOrder
    <3>1. /\ IsOpen(o) <=> OpenRow(z, generation, o)
          /\ IsOpen(o) => SameOrder(orders[o], z.rows[o])
          /\ o >= nextId => z.rows[o] = NoOrder
      BY <2>1 DEF Agrees
    <3>2. z.rows[o].status = "open" => z.rows[o] \in Row
      BY <2>1, RecordFacts DEF Tables
    <3>3. CASE IsOpen(o) /\ orders[o].account = a0
      <4>1. orders'[o] = [orders[o] EXCEPT !.status = "cancelled"] /\ orders[o] \in Order
        BY <1>1, <3>3, RecordFacts DEF ResetBroker, TypeOK, IsOpen
      <4>2. ~ IsOpen(o)'
        BY <4>1 DEF IsOpen, Order
      <4>3. z.rows[o] \in Row /\ z.rows[o].account = a0 /\ z.rows[o].status = "open"
        BY <3>1, <3>2, <3>3 DEF OpenRow, SameOrder
      <4>4. z.rows[o].generation # g0
        BY <2>2, <4>3, RecordFacts DEF Untouched
      <4>5. generation'[a0] = g0
        BY <1>1, <1>2 DEF TypeOK
      <4> QED
        BY <1>1, <3>1, <4>2, <4>3, <4>4, <4>5 DEF OpenRow
    <3>4. CASE ~ (IsOpen(o) /\ orders[o].account = a0)
      <4>1. orders'[o] = orders[o]
        BY <3>4 DEF ResetBroker
      <4>2. CASE z.rows[o].status = "open" /\ z.rows[o].account = a0
        <5>1. z.rows[o].generation # g0
          BY <2>2, <3>2, <4>2, RecordFacts DEF Untouched
        <5>2. generation'[a0] = g0
          BY <1>1, <1>2 DEF TypeOK
        <5>3. ~ IsOpen(o)
          BY <3>1, <3>4, <4>2 DEF SameOrder
        <5> QED
          BY <1>1, <3>1, <4>1, <4>2, <5>1, <5>2, <5>3 DEF IsOpen, OpenRow
      <4>3. CASE z.rows[o].status = "open" /\ z.rows[o].account # a0
        <5>1. generation'[z.rows[o].account] = generation[z.rows[o].account]
          BY <1>1, <1>2, <3>2, <4>3 DEF TypeOK, Row
        <5> QED
          BY <1>1, <3>1, <4>1, <4>3, <5>1 DEF IsOpen, OpenRow
      <4>4. CASE z.rows[o].status # "open"
        BY <1>1, <3>1, <4>1, <4>4 DEF IsOpen, OpenRow
      <4> QED
        BY <4>2, <4>3, <4>4
    <3> QED
      BY <3>3, <3>4
  <2>5. ASSUME NEW b \in Accounts, NEW g \in Generations, Ahead(b, g)'
        PROVE  g # generation'[b] /\ Untouched(z, b, g)
    <3>1. Ahead(b, g)
      BY <1>1, <2>5 DEF Ahead
    <3>2. g # generation[b] /\ Untouched(z, b, g)
      BY <2>1, <3>1 DEF Agrees
    <3>3. CASE b = a0
      <4>1. current[a0] \in Nat /\ g \in Nat /\ g0 \in Nat
        BY <1>1, <1>2 DEF TypeOK, Generations
      <4>2. g # g0
        BY <1>1, <1>2, <2>5, <3>3, <4>1 DEF Ahead
      <4> QED
        BY <1>1, <1>2, <3>2, <3>3, <4>2 DEF TypeOK
    <3>4. CASE b # a0
      BY <1>1, <1>2, <3>2, <3>4 DEF TypeOK
    <3> QED
      BY <3>3, <3>4
  <2> QED
    BY <2>3, <2>4, <2>5 DEF Agrees
<1> QED
  BY <1>1, <1>3, <1>4, <1>5, StepBesideQueue

\* What is stored when the process stops is sound, with nothing more to write.
LEMMA GoDownDurable ==
  ASSUME IInv, Durable, GoDown
  PROVE  Durable'
<1>1. TypeOK /\ up' = "down" /\ queue' = <<>> /\ resets' = {} /\ store' = store
  BY DEF IInv, GoDown, disk
<1>2. store \in Tables /\ Len(queue) \in Nat /\ Written(store, queue)[0] = store
  BY <1>1, LastFacts
<1>3. Sound(store)
  <2>1. 0 \in 0 .. Len(queue)
    BY <1>2
  <2>2. Sound(Written(store, queue)[0])
    BY <2>1 DEF Durable
  <2> QED
    BY <1>2, <2>2
<1>4. Len(<<>>) = 0 /\ Written(store, <<>>)[0] = store
  <2>1. <<>> \in Seq(Entries)
    OBVIOUS
  <2> QED
    BY <1>2, <2>1, WrittenSteps
<1>5. \A k \in 0 .. Len(queue') : Sound(Written(store', queue')[k])
  BY <1>1, <1>3, <1>4
<1>6. (\A k \in 0 .. Len(queue) : Sound(Written(store, queue)[k]))'
  BY <1>5 DEF Sound, Bounded, Covered
<1> QED
  BY <1>1, <1>6 DEF Durable

\* A start loads what is stored.
LEMMA StartDurable ==
  ASSUME IInv, Durable, Start
  PROVE  Durable'
<1> DEFINE restored(o) ==
             [account |-> store.rows[o].account, side |-> store.rows[o].side,
              size |-> store.rows[o].size, filled |-> store.rows[o].filled, status |-> "open"]
<1>1. /\ TypeOK /\ up = "down" /\ up' = "serving" /\ queue = <<>> /\ resets = {}
      /\ store' = store /\ current' = current /\ queue' = queue /\ resets' = resets
      /\ generation' = current /\ nextId' = NextIdAfterStored
      /\ orders' = [o \in OrderIds |-> IF OpenRow(store, current, o) THEN restored(o) ELSE NoOrder]
      /\ \A a \in Accounts : /\ cash'[a] = LoadPortfolio(store, a, current[a]).cash
                             /\ units'[a] = LoadPortfolio(store, a, current[a]).units
  BY DEF IInv, IdsUnused, Durable, Start, disk
<1>2. PICK z : z = store
  OBVIOUS
<1>3. z = Last
  BY <1>1, <1>2, LastFacts DEF Last
<1>4. Agrees(z)'
  <2>1. ASSUME NEW o \in OrderIds
        PROVE  /\ (IsOpen(o) <=> OpenRow(z, generation, o))'
               /\ (IsOpen(o) => SameOrder(orders[o], z.rows[o]))'
               /\ o >= nextId' => z.rows[o] = NoOrder
    <3>1. OpenRow(z, generation, o)' <=> OpenRow(store, current, o)
      BY <1>1, <1>2 DEF OpenRow
    <3>2. CASE OpenRow(store, current, o)
      <4>1. orders'[o] = restored(o)
        BY <1>1, <3>2
      <4>2. IsOpen(o)' /\ SameOrder(orders[o], z.rows[o])'
        BY <1>2, <4>1 DEF IsOpen, SameOrder
      <4> QED
        BY <1>1, <1>2, <3>1, <3>2, <4>2, NextIdFacts
    <3>3. CASE ~ OpenRow(store, current, o)
      <4>1. orders'[o] = NoOrder
        BY <1>1, <3>3
      <4> QED
        BY <1>1, <1>2, <3>1, <3>3, <4>1, NextIdFacts, RecordFacts DEF IsOpen
    <3> QED
      BY <3>2, <3>3
  <2>2. ASSUME NEW a \in Accounts, NEW g \in Generations, Ahead(a, g)'
        PROVE  g # generation'[a] /\ Untouched(z, a, g)
    <3>1. g > current[a] /\ current[a] \in Nat /\ g \in Nat
      BY <1>1, <2>2 DEF Ahead, TypeOK, Generations
    <3>2. ASSUME NEW o \in OrderIds, z.rows[o] # NoOrder
          PROVE  ~ (z.rows[o].account = a /\ z.rows[o].generation = g)
      <4>1. z.rows[o].generation <= current[z.rows[o].account]
        BY <1>2, <3>2 DEF IInv, GenerationsKnown, NoFutureGeneration
      <4> QED
        BY <3>1, <4>1
    <3>3. ASSUME NEW k \in 1 .. Len(z.ledger)
          PROVE  ~ (z.ledger[k].account = a /\ z.ledger[k].generation = g)
      <4>1. k \in DOMAIN store.ledger
        BY <1>1, <1>2 DEF TypeOK
      <4>2. z.ledger[k].generation <= current[z.ledger[k].account]
        BY <1>2, <4>1 DEF IInv, GenerationsKnown, NoFutureGeneration
      <4> QED
        BY <3>1, <4>2
    <3> QED
      BY <1>1, <3>1, <3>2, <3>3 DEF Untouched
  <2>3. \A a \in Accounts : /\ cash'[a] = LoadPortfolio(z, a, generation'[a]).cash
                            /\ units'[a] = LoadPortfolio(z, a, generation'[a]).units
    BY <1>1, <1>2
  <2> QED
    BY <2>1, <2>2, <2>3 DEF Agrees
<1> QED
  BY <1>1, <1>3, <1>4, StepBesideQueue

-----------------------------------------------------------------------------
(* The theorems. *)

\* Nothing is stored, queued or open.
LEMMA InitDurable ==
  ASSUME Init
  PROVE  Durable
<1>1. TypeOK /\ queue = <<>> /\ resets = {} /\ up = "serving"
  BY InitIInv DEF Init, IInv
<1>2. PICK z : z = store
  OBVIOUS
<1>3. z \in Tables /\ z = Written(store, queue)[0] /\ Len(queue) = 0
  BY <1>1, <1>2, LastFacts
<1>4. /\ \A o \in OrderIds : z.rows[o] = NoOrder
      /\ z.ledger = <<>>
  BY <1>2 DEF Init
<1>5. Bounded(z) /\ \A a \in Accounts, g \in Generations : Untouched(z, a, g)
  BY <1>4 DEF Bounded, Untouched
<1>6. ASSUME NEW a \in Accounts, NEW g \in Generations
      PROVE  /\ LoadPortfolio(z, a, g) = NewPortfolio
             /\ Due(z, a, g, "buy") = 0 /\ Due(z, a, g, "sell") = 0
  BY <1>3, <1>4, <1>5, LoadUntouched, DueUntouched DEF Tables, Untouched
<1>7. Sound(z)
  BY <1>5, <1>6, BoundAssumption DEF Sound, Covered, NewPortfolio
<1>8. Agrees(z)
  <2>1. ASSUME NEW a \in Accounts
        PROVE  /\ cash[a] = LoadPortfolio(z, a, generation[a]).cash
               /\ units[a] = LoadPortfolio(z, a, generation[a]).units
    <3>1. generation[a] \in Generations /\ cash[a] = Deposit /\ units[a] = 0
      BY <1>1 DEF Init, TypeOK
    <3> QED
      BY <1>6, <3>1 DEF NewPortfolio
  <2>2. \A o \in OrderIds : ~ IsOpen(o) /\ ~ OpenRow(z, generation, o)
    BY <1>4, RecordFacts DEF Init, IsOpen, OpenRow
  <2>3. ASSUME NEW a \in Accounts, NEW g \in Generations, Ahead(a, g) PROVE g # generation[a]
    BY <1>1, <2>3 DEF Init, Ahead, Generations
  <2> QED
    BY <1>4, <1>5, <2>1, <2>2, <2>3 DEF Agrees
<1> QED
  BY <1>1, <1>3, <1>7, <1>8 DEF Durable

\* Every step keeps it when the database answers in the end.
THEOREM NextDurable ==
  Failures \subseteq {"refused"} /\ IInv /\ Durable /\ [Next]_vars => Durable'
<1> SUFFICES ASSUME Failures \subseteq {"refused"}, IInv, Durable, [Next]_vars PROVE Durable'
  OBVIOUS
<1>1. CASE Trading
  <2>1. ASSUME NEW a \in Accounts, NEW side \in {"buy", "sell"}, NEW size \in Sizes,
               NEW rests \in BOOLEAN, NEW taken \in 0 .. size,
               Place(a, side, size, taken, rests)
        PROVE  Durable'
    BY <2>1, PlaceDurable
  <2>2. ASSUME NEW o \in OrderIds, NEW q \in Sizes, Fill(o, q) PROVE Durable'
    BY <2>2, FillDurable
  <2>3. ASSUME NEW o \in OrderIds, Close(o) PROVE Durable'
    BY <2>3, CloseDurable
  <2>4. ASSUME NEW a \in Accounts, Convert(a, 1) PROVE Durable'
    BY <2>4, ConvertDurable
  <2> QED
    BY <1>1, <2>1, <2>2, <2>3, <2>4 DEF Trading
<1>2. CASE Writing
  BY <1>2, WritingDurable
<1>3. CASE Resetting
  BY <1>3, ResetStoreDurable, ResetBrokerDurable DEF Resetting
<1>4. CASE Lifecycle
  <2>1. CASE CloseJournal
    <3>1. queue' = queue /\ store' = store /\ up' = "draining"
      BY <2>1 DEF CloseJournal, disk
    <3> QED
      BY <3>1, SameQueue
  <2>2. CASE Drained \/ DrainTimeout \/ Crash
    BY <2>2, GoDownDurable DEF Drained, DrainTimeout, Crash
  <2>3. CASE Start
    BY <2>3, StartDurable
  <2> QED
    BY <1>4, <2>1, <2>2, <2>3 DEF Lifecycle
<1>5. CASE UNCHANGED vars
  <2>1. PICK z : z = Last
    OBVIOUS
  <2>2. UNCHANGED <<orders, cash, units, generation, nextId, up, queue, resets, store, current>>
    BY <1>5 DEF vars, world, disk
  <2>3. up' = "serving" => Agrees(z)'
    BY <2>1, <2>2 DEF Durable, Last, Agrees, IsOpen, OpenRow, Ahead
  <2> QED
    BY <2>1, <2>2, <2>3, StepBesideQueue DEF Durable
<1> QED
  BY <1>1, <1>2, <1>3, <1>4, <1>5 DEF Next

\* Wherever the journal is cut, and once it is written out, the tables keep what the
\* broker had: in every reachable state.
THEOREM DurableInvariance ==
  ASSUME Failures \subseteq {"refused"}
  PROVE  Spec => [](IInv /\ Durable)
<1>1. Init => IInv /\ Durable
  BY InitIInv, InitDurable
<1>2. (IInv /\ Durable) /\ [Next]_vars => (IInv /\ Durable)'
  BY NextIInv, NextDurable
<1> QED
  BY <1>1, <1>2, PTL DEF Spec

\* What the broker has in memory is what the store will have once the queue is written:
\* no call, reset, restart or refused write makes them part.
THEOREM MemoryIsStored ==
  ASSUME Failures \subseteq {"refused"}
  PROVE  Spec => []StoreCatchesUp
<1>1. IInv /\ Durable => StoreCatchesUp
  <2> SUFFICES ASSUME IInv, Durable, up = "serving"
               PROVE  /\ \A a \in Accounts :
                           /\ cash[a] = LoadPortfolio(Last, a, generation[a]).cash
                           /\ units[a] = LoadPortfolio(Last, a, generation[a]).units
                      /\ \A o \in OrderIds :
                           /\ IsOpen(o) <=> OpenRow(Last, generation, o)
                           /\ IsOpen(o) => orders[o].filled = Last.rows[o].filled
    BY LastFacts DEF StoreCatchesUp, IInv
  <2> QED
    BY DEF Durable, Last, Agrees, SameOrder
<1> QED
  BY <1>1, DurableInvariance, PTL

\* A crash at any time leaves tables from which no account is restored with open orders
\* it cannot pay.
THEOREM CrashIsSafe ==
  ASSUME Failures \subseteq {"refused"}
  PROVE  Spec => []CrashSafe
<1>1. IInv /\ Durable => CrashSafe
  <2> SUFFICES ASSUME IInv, Durable PROVE CrashSafe
    OBVIOUS
  <2>1. TypeOK /\ store \in Tables /\ Len(queue) \in Nat /\ Written(store, queue)[0] = store
    BY LastFacts DEF IInv
  <2>2. 0 \in 0 .. Len(queue)
    BY <2>1
  <2>3. Covered(store)
    BY <2>1, <2>2 DEF Durable, Sound
  <2>4. ASSUME NEW a \in Accounts
        PROVE  LET p == LoadPortfolio(store, a, current[a])
                   open == {o \in OrderIds : OpenRow(store, current, o) /\ store.rows[o].account = a}
               IN  /\ p.cash >= Promised(store.rows, open, "buy")
                   /\ p.units >= Promised(store.rows, open, "sell")
    <3>1. current[a] \in Generations
      BY <2>1 DEF TypeOK
    <3> QED
      BY <2>3, <3>1, StoredPromises DEF Covered
  <2> QED
    BY <2>4 DEF CrashSafe
<1> QED
  BY <1>1, DurableInvariance, PTL

-----------------------------------------------------------------------------
(* What a stopped and drained process held. *)

\* Tables s say of the time the journal was closed what memory held then.
KeptIn(s) ==
  /\ kept.generation \in [Accounts -> Generations]
  /\ \A a \in Accounts :
       /\ kept.cash[a] = LoadPortfolio(s, a, kept.generation[a]).cash
       /\ kept.units[a] = LoadPortfolio(s, a, kept.generation[a]).units
  /\ \A o \in OrderIds :
       /\ kept.orders[o] \in Order \cup {NoOrder}
       /\ kept.orders[o].status = "open" <=> OpenRow(s, kept.generation, o)
       /\ kept.orders[o].status = "open" => SameOrder(kept.orders[o], s.rows[o])

KeptStored == kept.held => up # "serving" /\ KeptIn(Last)

\* The writer's turns change the tables, and not what they will be.
LEMMA WriterLast ==
  ASSUME TypeOK, Failures \subseteq {"refused"}, Writing
  PROVE  Last' = Last /\ up' = up
<1>1. queue # <<>> /\ up' = up
  BY DEF Writing, Write, Refuse, LoseAck, Reject, WriterTurn
<1>2. \/ queue' = queue /\ store' = store
      \/ queue' = Tail(queue) /\ store' = Stored(store, Head(queue))
  <2>1. CASE Write
    BY <2>1 DEF Write, NextEntry, Stored
  <2>2. CASE Refuse
    BY <2>2 DEF Refuse, Retry
  <2>3. CASE LoseAck
    BY <2>3 DEF LoseAck
  <2>4. CASE Reject
    BY <2>4 DEF Reject, NextEntry, Stored
  <2> QED
    BY <2>1, <2>2, <2>3, <2>4 DEF Writing
<1>3. CASE queue' = queue /\ store' = store
  BY <1>1, <1>3 DEF Last
<1>4. CASE queue' = Tail(queue) /\ store' = Stored(store, Head(queue))
  <2> DEFINE n == Len(queue)
             w == Written(store, queue)
             w1 == Written(store', queue')
  <2>1. store \in Tables /\ queue \in Seq(Entries) /\ n \in Nat
    BY LastFacts
  <2>2. Len(queue') = n - 1 /\ \A k \in 0 .. n - 1 : w1[k] = w[k + 1]
    BY <1>1, <1>4, <2>1, WrittenTail
  <2>3. n - 1 \in 0 .. n - 1 /\ n - 1 + 1 = n
    BY <1>1, <2>1
  <2>4. w1[Len(queue')] = w[n]
    <3> HIDE DEF n, w, w1
    <3> QED
      BY <2>2, <2>3
  <2> QED
    BY <1>1, <2>4 DEF Last
<1> QED
  BY <1>2, <1>3, <1>4

\* Once the journal is closed the calls of the broker and the resets leave the queue alone.
LEMMA ClosedLast ==
  ASSUME up # "serving", Trading \/ Resetting
  PROVE  Last' = Last /\ up' = up
<1>1. queue' = queue /\ store' = store /\ up' = up
  <2>1. CASE Trading
    <3>1. BrokerCall /\ \E es : Emit(es)
      <4>1. ASSUME NEW a \in Accounts, NEW side \in {"buy", "sell"}, NEW size \in Sizes,
                   NEW rests \in BOOLEAN, NEW taken \in 0 .. size,
                   Place(a, side, size, taken, rests)
            PROVE  BrokerCall /\ \E es : Emit(es)
        BY <4>1 DEF Place
      <4>2. ASSUME NEW o \in OrderIds, NEW q \in Sizes, Fill(o, q)
            PROVE  BrokerCall /\ \E es : Emit(es)
        BY <4>2 DEF Fill
      <4>3. ASSUME NEW o \in OrderIds, Close(o) PROVE BrokerCall /\ \E es : Emit(es)
        BY <4>3 DEF Close
      <4>4. ASSUME NEW a \in Accounts, Convert(a, 1) PROVE BrokerCall /\ \E es : Emit(es)
        BY <4>4 DEF Convert
      <4> QED
        BY <2>1, <4>1, <4>2, <4>3, <4>4 DEF Trading
    <3> QED
      BY <3>1 DEF BrokerCall, Emit, disk
  <2>2. CASE Resetting
    BY <2>2 DEF Resetting, ResetStore, ResetOffline, ResetBroker, disk
  <2> QED
    BY <2>1, <2>2
<1> QED
  BY <1>1 DEF Last

\* When the journal is closed the tables will be what memory holds.
LEMMA CloseKeepsMemory ==
  ASSUME IInv, Durable, CloseJournal, kept' = Memory
  PROVE  KeptStored'
<1>1. /\ TypeOK /\ up = "serving" /\ up' = "draining" /\ queue' = queue /\ store' = store
  BY DEF IInv, CloseJournal, disk
<1>2. /\ kept'.cash = cash /\ kept'.units = units /\ kept'.orders = orders
      /\ kept'.generation = generation
  BY DEF Memory
<1>3. PICK z : z = Last
  OBVIOUS
<1>4. Agrees(z)
  BY <1>1, <1>3 DEF Durable, Last
<1>5. Last' = z
  BY <1>1, <1>3 DEF Last
<1>6. generation \in [Accounts -> Generations] /\ orders \in [OrderIds -> Order \cup {NoOrder}]
  BY <1>1 DEF TypeOK
<1>7. KeptIn(z)'
  <2>1. \A a \in Accounts :
          /\ kept'.cash[a] = LoadPortfolio(z, a, kept'.generation[a]).cash
          /\ kept'.units[a] = LoadPortfolio(z, a, kept'.generation[a]).units
    BY <1>2, <1>4 DEF Agrees
  <2>2. \A o \in OrderIds :
          /\ kept'.orders[o] \in Order \cup {NoOrder}
          /\ kept'.orders[o].status = "open" <=> OpenRow(z, kept'.generation, o)
          /\ kept'.orders[o].status = "open" => SameOrder(kept'.orders[o], z.rows[o])
    BY <1>2, <1>4, <1>6 DEF Agrees, IsOpen
  <2> QED
    BY <1>2, <1>6, <2>1, <2>2 DEF KeptIn
<1> QED
  BY <1>1, <1>5, <1>7 DEF KeptStored, KeptIn

\* It stays so until the process that drained starts again.
LEMMA KeptStep ==
  ASSUME Failures \subseteq {"refused"}, IInv, Durable, KeptStored, [HNext]_hvars
  PROVE  KeptStored'
<1>1. TypeOK
  BY DEF IInv
<1>2. ASSUME kept' = kept, Last' = Last, up # "serving" => up' # "serving" PROVE KeptStored'
  BY <1>2 DEF KeptStored, KeptIn
<1>3. ASSUME ~ kept'.held PROVE KeptStored'
  BY <1>3 DEF KeptStored
<1>4. CASE (Trading \/ Resetting) /\ UNCHANGED kept
  <2>1. CASE up = "serving"
    BY <1>3, <1>4, <2>1 DEF KeptStored
  <2>2. CASE up # "serving"
    BY <1>2, <1>4, <2>2, ClosedLast
  <2> QED
    BY <2>1, <2>2
<1>5. CASE Writing /\ UNCHANGED kept
  BY <1>1, <1>2, <1>5, WriterLast
<1>6. CASE Drained /\ UNCHANGED kept
  <2>1. queue' = queue /\ store' = store /\ up' = "down"
    BY <1>6 DEF Drained, GoDown, disk
  <2> QED
    BY <1>2, <1>6, <2>1 DEF Last
<1>7. CASE CloseJournal /\ kept' = Memory
  BY <1>7, CloseKeepsMemory
<1>8. CASE kept' = NotKept
  BY <1>3, <1>8 DEF NotKept
<1>9. CASE UNCHANGED hvars
  <2>1. queue' = queue /\ store' = store /\ up' = up /\ kept' = kept
    BY <1>9 DEF hvars, vars, disk
  <2> QED
    BY <1>2, <2>1 DEF Last
<1> QED
  BY <1>4, <1>5, <1>6, <1>7, <1>8, <1>9 DEF HNext

\* The history watches, it changes nothing.
LEMMA HistoryWatches ==
  /\ HInit => Init
  /\ [HNext]_hvars => [Next]_vars
<1>1. HInit => Init
  BY DEF HInit
<1>2. HNext => Next
  BY DEF HNext, Next, Lifecycle
<1>3. UNCHANGED hvars => UNCHANGED vars
  BY DEF hvars
<1> QED
  BY <1>1, <1>2, <1>3

\* Orders are what their fields say.
LEMMA OrderEquality ==
  ASSUME NEW x \in Order, NEW y \in Order, x.account = y.account, x.side = y.side,
         x.size = y.size, x.filled = y.filled, x.status = y.status
  PROVE  x = y
BY DEF Order

\* What a start restores is what was kept.
LEMMA StartRestores ==
  ASSUME IInv, KeptStored, up = "down", Start, kept.held, NEW a \in Accounts,
         current[a] = kept.generation[a]
  PROVE  /\ cash'[a] = kept.cash[a] /\ units'[a] = kept.units[a]
         /\ \A o \in OrderIds :
              LET before == kept.orders[o]
                  after == orders'[o]
                  mine == before.status = "open" /\ before.account = a
              IN  (mine \/ (after.status = "open" /\ after.account = a)) => after = before
<1> DEFINE restored(o) ==
             [account |-> store.rows[o].account, side |-> store.rows[o].side,
              size |-> store.rows[o].size, filled |-> store.rows[o].filled, status |-> "open"]
<1>1. /\ TypeOK /\ queue = <<>> /\ KeptIn(Last)
      /\ orders' = [o \in OrderIds |-> IF OpenRow(store, current, o) THEN restored(o) ELSE NoOrder]
      /\ \A b \in Accounts : /\ cash'[b] = LoadPortfolio(store, b, current[b]).cash
                             /\ units'[b] = LoadPortfolio(store, b, current[b]).units
  BY DEF IInv, IdsUnused, KeptStored, Start
<1>2. Last = store
  BY <1>1, LastFacts DEF Last
<1>3. KeptIn(store)
  BY <1>1, <1>2
<1>4. cash'[a] = kept.cash[a] /\ units'[a] = kept.units[a]
  BY <1>1, <1>3 DEF KeptIn
<1>5. ASSUME NEW o \in OrderIds,
             \/ kept.orders[o].status = "open" /\ kept.orders[o].account = a
             \/ orders'[o].status = "open" /\ orders'[o].account = a
      PROVE  orders'[o] = kept.orders[o]
  <2>1. orders'[o] = IF OpenRow(store, current, o) THEN restored(o) ELSE NoOrder
    BY <1>1
  <2>2. /\ kept.orders[o].status = "open" <=> OpenRow(store, kept.generation, o)
        /\ kept.orders[o].status = "open" => SameOrder(kept.orders[o], store.rows[o])
        /\ kept.orders[o] \in Order \cup {NoOrder}
    BY <1>3 DEF KeptIn
  <2>3. store.rows[o].account = a
    <3>1. CASE kept.orders[o].status = "open" /\ kept.orders[o].account = a
      BY <2>2, <3>1 DEF SameOrder
    <3>2. CASE orders'[o].status = "open" /\ orders'[o].account = a
      BY <2>1, <3>2, RecordFacts
    <3> QED
      BY <1>5, <3>1, <3>2
  <2>4. OpenRow(store, current, o) <=> OpenRow(store, kept.generation, o)
    BY <2>3 DEF OpenRow
  <2>5. OpenRow(store, current, o) /\ kept.orders[o].status = "open"
    <3>1. CASE kept.orders[o].status = "open"
      BY <2>2, <2>4, <3>1
    <3>2. CASE orders'[o].status = "open"
      BY <2>1, <2>2, <2>4, <3>2, RecordFacts
    <3> QED
      BY <1>5, <3>1, <3>2
  <2>6. store.rows[o] \in Row
    BY <1>1, <2>5, RecordFacts DEF TypeOK, OpenRow
  <2>7. restored(o) \in Order /\ restored(o).status = "open" /\ SameOrder(restored(o), store.rows[o])
    BY <2>6 DEF Row, Order, SameOrder
  <2>8. kept.orders[o] \in Order /\ SameOrder(kept.orders[o], store.rows[o])
    BY <2>2, <2>5, RecordFacts
  <2>9. restored(o) = kept.orders[o]
    <3> HIDE DEF restored
    <3> QED
      BY <2>5, <2>7, <2>8, OrderEquality DEF SameOrder
  <2> QED
    BY <2>1, <2>5, <2>9
<1> QED
  BY <1>4, <1>5

\* A process that was stopped and whose writer ended in time comes back with what it held
\* when it was stopped, for every account that was not reset since (drain, restore).
THEOREM DrainedComesBack ==
  ASSUME Failures \subseteq {"refused"}
  PROVE  HSpec => DrainedIsRestored
<1> DEFINE Inv == IInv /\ Durable /\ KeptStored
<1>1. HInit => Inv
  <2> SUFFICES ASSUME HInit PROVE Inv
    OBVIOUS
  <2>1. Init /\ ~ kept.held
    BY DEF HInit, NotKept
  <2> QED
    BY <2>1, InitIInv, InitDurable DEF KeptStored
<1>2. Inv /\ [HNext]_hvars => Inv'
  BY NextIInv, NextDurable, KeptStep, HistoryWatches
<1>3. Inv /\ [HNext]_hvars =>
        [up = "down" /\ up' = "serving" /\ kept.held =>
           \A a \in Accounts : current[a] = kept.generation[a] =>
             /\ cash'[a] = kept.cash[a] /\ units'[a] = kept.units[a]
             /\ \A o \in OrderIds :
                  LET before == kept.orders[o]
                      after == orders'[o]
                      mine == before.status = "open" /\ before.account = a
                  IN  (mine \/ (after.status = "open" /\ after.account = a)) => after = before]_hvars
  <2> SUFFICES ASSUME Inv, [HNext]_hvars, up = "down", up' = "serving", kept.held
               PROVE  Start
    BY StartRestores
  <2>1. CASE HNext
    BY <2>1 DEF HNext, Trading, Place, Fill, Close, Convert, BrokerCall, Writing, Write, Refuse,
       LoseAck, Reject, WriterTurn, Resetting, ResetStore, ResetOffline, ResetBroker, Drained,
       CloseJournal, DrainTimeout, Crash, GoDown
  <2>2. CASE UNCHANGED hvars
    BY <2>2 DEF hvars, vars
  <2> QED
    BY <2>1, <2>2
<1> QED
  BY <1>1, <1>2, <1>3, PTL DEF HSpec, DrainedIsRestored
=============================================================================
