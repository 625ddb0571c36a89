---------------------------- MODULE BrokerProofs ----------------------------
(***************************************************************************)
(* What the runs of Broker check on small instances, proved for every      *)
(* value of its constants. First lemmas about the operators Broker is      *)
(* built from: fees and reservations, the walk through the shadow book,    *)
(* the lists of resting orders, and the sums of what open orders hold.     *)
(* Then the inductive invariant IInv: one lemma per action, or per part    *)
(* that several actions share, shows that it is preserved.                 *)
(* Then what Broker journals: which step writes which entries, that they   *)
(* account for every change of cash, units and orders, that executions     *)
(* keep to what was ordered, and that conversions never gain. And what     *)
(* prints and books execute: best price first, no more than was traded, no *)
(* displayed unit twice.                                                   *)
(***************************************************************************)
EXTENDS Broker, SumsProofs, SequenceTheorems

-----------------------------------------------------------------------------
(* Arithmetic. *)

\* A product of naturals is a natural and grows with its factors.
LEMMA Products ==
  \A x, y, z \in Nat : x * y \in Nat /\ (y >= z => x * y >= x * z)
<1>1. \A x, y \in Nat : x * y \in Nat
  OBVIOUS
<1>2. ASSUME NEW x \in Nat, NEW y \in Nat, NEW z \in Nat, y >= z PROVE x * y >= x * z
  <2>1. y - z \in Nat
    BY <1>2
  <2>2. x * (y - z) \in Nat
    BY <1>1, <2>1
  <2>3. x * (y - z) = x * y - x * z
    OBVIOUS
  <2>4. x * y \in Nat /\ x * z \in Nat
    BY <1>1
  <2> QED
    BY <2>2, <2>3, <2>4
<1> QED
  BY <1>1, <1>2

\* Dividing a natural and multiplying back never gives more.
LEMMA Quotients ==
  ASSUME NEW x \in Nat, NEW d \in Nat \ {0}
  PROVE  x \div d \in Nat /\ (x \div d) * d \in Nat /\ (x \div d) * d <= x
<1> DEFINE q == x \div d
<1>1. q \in Int
  OBVIOUS
<1>2. x = q * d + (x % d) /\ x % d \in 0 .. (d - 1)
  OBVIOUS
<1> HIDE DEF q
<1>3. q \in Nat
  <2>1. SUFFICES ASSUME q <= -1 PROVE FALSE
    BY <1>1
  <2>2. (-1 - q) * d \in Nat
    <3>1. -1 - q \in Nat /\ d \in Nat
      BY <1>1, <2>1
    <3> QED
      BY <3>1, Products
  <2>3. (-1 - q) * d = - d - q * d /\ q * d \in Int
    BY <1>1
  <2> QED
    BY <1>2, <2>2, <2>3
<1>4. q * d \in Nat
  BY <1>3, Products
<1> QED
  BY <1>2, <1>3, <1>4 DEF q

\* Least is one of its arguments and at most the other.
LEMMA LeastFacts ==
  \A x, y \in Nat : Least(x, y) \in Nat /\ Least(x, y) <= x /\ Least(x, y) <= y
BY DEF Least

\* Pos clips a negative number to 0.
LEMMA PosFacts ==
  \A x \in Int : Pos(x) \in Nat /\ (x >= 0 => Pos(x) = x)
BY DEF Pos
-----------------------------------------------------------------------------
(* Fees: what is reserved covers what is charged. *)

\* The reserved commission is a natural and no schedule charges more: it is the
\* least upper bound of the table's commissions.
LEMMA ReserveCommissionIsMax ==
  /\ ReserveCommission \in Nat
  /\ \A k \in 1 .. Len(Schedules) : Schedules[k].commission <= ReserveCommission
<1> DEFINE N == 1 .. Len(Schedules)
           C == {c \in Nat : \A k \in N : Schedules[k].commission <= c}
<1>1. /\ 1 \in N
      /\ \A k \in N : Schedules[k].commission \in Nat /\ Schedules[k].commission <= FeeBase
  <2>1. ASSUME NEW k \in N
        PROVE  Schedules[k].commission \in Nat /\ Schedules[k].commission <= FeeBase
    <3>1. /\ Schedules[k].commission \in Nat /\ Schedules[k].sellFee \in Nat
          /\ Schedules[k].sellTax \in Nat
          /\ Schedules[k].commission + Schedules[k].sellFee + Schedules[k].sellTax <= FeeBase
          /\ FeeBase \in Nat
      BY FeeAssumption
    <3> QED
      BY <3>1
  <2>2. Len(Schedules) \in Nat \ {0}
    BY FeeAssumption
  <2> QED
    BY <2>1, <2>2
<1>2. FeeBase \in C
  BY <1>1, FeeAssumption
<1>3. PICK m \in C : \A c \in C : m <= c
  <2>1. C \subseteq Nat /\ C # {}
    BY <1>2
  <2> HIDE DEF C
  <2> QED
    BY <2>1, LeastNat
<1>4. \E k \in N : Schedules[k].commission = m
  <2> SUFFICES ASSUME \A k \in N : Schedules[k].commission # m PROVE FALSE
    OBVIOUS
  <2>1. \A k \in N : Schedules[k].commission <= m - 1 /\ m - 1 \in Nat
    BY <1>1, <1>3
  <2>2. m - 1 \in C
    BY <1>1, <2>1
  <2> QED
    BY <1>3, <2>2
<1>5. m \in 0 .. FeeBase
  BY <1>2, <1>3, FeeAssumption
<1>6. ReserveCommission \in 0 .. FeeBase /\ \A k \in N : Schedules[k].commission <= ReserveCommission
  BY <1>3, <1>4, <1>5 DEF ReserveCommission
<1> QED
  BY <1>6

\* A truncated charge is a natural and at most the exact one.
LEMMA TruncatedFacts ==
  ASSUME NEW n \in Nat, NEW rate \in Nat
  PROVE  Truncated(n, rate) \in Nat /\ Truncated(n, rate) <= n * rate
<1>1. n * rate \in Nat
  BY Products
<1>2. FeeBase \in Nat \ {0}
  BY FeeAssumption
<1> DEFINE x == n * rate
<1>3. Truncated(n, rate) = (x \div FeeBase) * FeeBase
  BY DEF Truncated
<1> HIDE DEF x
<1>4. (x \div FeeBase) * FeeBase \in Nat /\ (x \div FeeBase) * FeeBase <= x
  BY <1>1, <1>2, Quotients DEF x
<1> QED
  BY <1>3, <1>4 DEF x

\* The fee of a buy, whatever schedule is in force, is at most what the reserved
\* commission makes of its notional; a sale never costs more than it brings.
LEMMA CashLegFacts ==
  ASSUME schedule \in 1 .. Len(Schedules), NEW n \in Nat
  PROVE  /\ CashLeg("buy", n) \in Int
         /\ CashLeg("buy", n) <= 0
         /\ - CashLeg("buy", n) <= n * (FeeBase + ReserveCommission)
         /\ CashLeg("sell", n) \in Nat
<1> DEFINE com == Rates.commission
           fee == Rates.sellFee
           tax == Rates.sellTax
<1>1. com \in Nat /\ fee \in Nat /\ tax \in Nat /\ com + fee + tax <= FeeBase /\ FeeBase \in Nat
  BY FeeAssumption DEF Rates
<1>2. com <= ReserveCommission /\ ReserveCommission \in Nat
  BY ReserveCommissionIsMax DEF Rates
<1>3. CashLeg("buy", n) = - (FeeBase * n + Truncated(n, com))
  <2>1. Truncated(n, com + 0) = Truncated(n, com)
    BY <1>1
  <2>2. Truncated(n, com) \in Nat
    BY <1>1, TruncatedFacts
  <2>3. FeeBase * n \in Nat
    BY <1>1, Products
  <2> QED
    BY <2>1, <2>2, <2>3 DEF CashLeg, Fee, Tax
<1>4. CashLeg("sell", n) = FeeBase * n - Truncated(n, com + fee) - Truncated(n, tax)
  BY DEF CashLeg, Fee, Tax
<1> HIDE DEF com, fee, tax
<1>5. Truncated(n, com) \in Nat /\ Truncated(n, com) <= n * com
  BY <1>1, TruncatedFacts
<1>6. /\ Truncated(n, com + fee) \in Nat /\ Truncated(n, com + fee) <= n * (com + fee)
      /\ Truncated(n, tax) \in Nat /\ Truncated(n, tax) <= n * tax
  <2>1. com + fee \in Nat
    BY <1>1
  <2> QED
    BY <1>1, <2>1, TruncatedFacts
<1>7. FeeBase * n \in Nat /\ n * com \in Nat /\ n * com <= n * ReserveCommission
      /\ n * ReserveCommission \in Nat
  BY <1>1, <1>2, Products
<1>8. n * (FeeBase + ReserveCommission) = FeeBase * n + n * ReserveCommission
  BY <1>1, <1>2
<1>9. n * (com + fee) + n * tax <= FeeBase * n
  <2>1. n * (com + fee) + n * tax = n * (com + fee + tax)
    BY <1>1
  <2>2. n * (com + fee + tax) <= n * FeeBase
    BY <1>1, Products
  <2> QED
    BY <1>1, <2>1, <2>2
<1>10. n * (com + fee) \in Nat /\ n * tax \in Nat
  BY <1>1, Products
<1>11. CashLeg("sell", n) \in Nat
  BY <1>4, <1>6, <1>7, <1>9, <1>10
<1> QED
  BY <1>3, <1>5, <1>7, <1>8, <1>11

\* Filling q units of a resting buy at its limit costs no more than their
\* reservation releases.
LEMMA ReservationCovers ==
  ASSUME schedule \in 1 .. Len(Schedules), NEW q \in Nat, NEW limit \in Nat
  PROVE  /\ BuyReservePerUnit(limit) \in Nat
         /\ q * limit \in Nat
         /\ BuyReservePerUnit(limit) * q \in Nat
         /\ - CashLeg("buy", q * limit) <= BuyReservePerUnit(limit) * q
<1> DEFINE f == FeeBase + ReserveCommission
<1>1. f \in Nat
  BY FeeAssumption, ReserveCommissionIsMax
<1>2. BuyReservePerUnit(limit) = limit * f
  BY DEF BuyReservePerUnit
<1>3. q * limit \in Nat /\ limit * f \in Nat
  BY <1>1, Products
<1>4. (limit * f) * q \in Nat
  BY <1>3, Products
<1>5. (limit * f) * q = (q * limit) * f
  <2> HIDE DEF f
  <2> QED
    BY <1>1
<1>6. - CashLeg("buy", q * limit) <= (q * limit) * f
  BY <1>3, CashLegFacts
<1> QED
  BY <1>2, <1>3, <1>4, <1>5, <1>6
-----------------------------------------------------------------------------
(* The walk through the shadow book. *)

\* A shifted price is a positive tick and a displayed level is a natural.
LEMMA BookFacts ==
  ASSUME TypeOK, NEW i \in Instruments, NEW p \in Prices
  PROVE  /\ Shift(i, p) \in Nat \ {0}
         /\ \A side \in Sides : Shown(i, side, p) \in Nat
<1>1. offset[i] \in Int /\ p \in Int
  BY SizeAssumption DEF TypeOK, Prices
<1>2. Shift(i, p) \in Nat \ {0}
  BY <1>1 DEF Shift
<1>3. ASSUME NEW side \in Sides PROVE Shown(i, side, p) \in Nat
  <2>1. book[i][side][p] \in Nat /\ depletion[i][side][p] \in Nat
    BY DEF TypeOK, Levels
  <2> QED
    BY <2>1, PosFacts DEF Shown
<1> QED
  BY <1>2, <1>3

\* What is taken at a level is covered by the budget that is left.
LEMMA LevelTakeFacts ==
  ASSUME TypeOK, NEW i \in Instruments, NEW taker \in Sides,
         NEW unit \in {"qty", "notional"}, NEW bound, NEW k \in 1 .. MaxPrice, NEW budget \in Nat
  PROVE  LET take == LevelTake(i, taker, unit, bound, k, budget)
             price == Shift(i, Ranked(taker, k))
         IN  /\ take \in Nat /\ price \in Nat
             /\ take <= Shown(i, Opposite(taker), Ranked(taker, k))
             /\ unit = "qty" => take <= budget
             /\ unit = "notional" =>
                  /\ take * price * (FeeBase + Rates.commission) \in Nat
                  /\ take * price * (FeeBase + Rates.commission) <= budget
<1> DEFINE take == LevelTake(i, taker, unit, bound, k, budget)
           p == Ranked(taker, k)
           price == Shift(i, p)
           f == FeeBase + Rates.commission
           d == price * f
           most == IF unit = "qty" THEN budget ELSE ((budget \div d) \div Step) * Step
<1>1. p \in Prices
  BY SizeAssumption DEF Ranked, Prices
<1>2. price \in Nat \ {0} /\ Shown(i, Opposite(taker), p) \in Nat
  BY <1>1, BookFacts DEF Opposite, Sides
<1>3. f \in Nat \ {0}
  <2>1. Rates.commission \in Nat /\ FeeBase \in Nat \ {0}
    BY FeeAssumption DEF TypeOK, Rates
  <2> QED
    BY <2>1
<1>4. d \in Nat \ {0}
  <2> HIDE DEF price, f
  <2> QED
    BY <1>2, <1>3
<1>5. take = IF Worse(taker, price, bound) THEN 0 ELSE Least(Shown(i, Opposite(taker), p), most)
  BY DEF LevelTake
<1> HIDE DEF take, p, price, f
<1>6. most \in Nat /\ (unit = "qty" => most = budget) /\ (unit = "notional" => most <= budget \div d)
  <2> HIDE DEF d
  <2>1. CASE unit = "qty"
    BY <2>1
  <2>2. CASE unit = "notional"
    <3>1. budget \div d \in Nat
      BY <1>4, Quotients
    <3> DEFINE x == budget \div d
    <3>2. most = (x \div Step) * Step
      BY <2>2
    <3> HIDE DEF x, most
    <3>3. (x \div Step) * Step \in Nat /\ (x \div Step) * Step <= x
      BY <3>1, SizeAssumption, Quotients DEF x
    <3> QED
      BY <2>2, <3>2, <3>3 DEF x
  <2> QED
    BY <2>1, <2>2
<1> HIDE DEF most
<1>7. take \in Nat /\ take <= most /\ take <= Shown(i, Opposite(taker), p)
  <2>1. Least(Shown(i, Opposite(taker), p), most) \in Nat
        /\ Least(Shown(i, Opposite(taker), p), most) <= most
        /\ Least(Shown(i, Opposite(taker), p), most) <= Shown(i, Opposite(taker), p)
    BY <1>2, <1>6, LeastFacts
  <2>2. Shown(i, Opposite(taker), p) \in Nat
    BY <1>2
  <2> QED
    BY <1>5, <1>6, <2>1, <2>2
<1>8. ASSUME unit = "notional" PROVE take * price * f \in Nat /\ take * price * f <= budget
  <2>1. take * price * f = d * take
    BY <1>2, <1>3, <1>7 DEF d
  <2> HIDE DEF d
  <2>2. budget \div d \in Nat /\ (budget \div d) * d <= budget /\ (budget \div d) * d \in Nat
    BY <1>4, Quotients
  <2>3. take <= budget \div d
    BY <1>6, <1>7, <1>8, <2>2
  <2>4. d * take <= d * (budget \div d) /\ d * take \in Nat
    BY <1>4, <1>7, <2>2, <2>3, Products
  <2>5. d * (budget \div d) = (budget \div d) * d
    BY <1>4, <2>2
  <2> QED
    BY <2>1, <2>2, <2>4, <2>5
<1> QED
  BY <1>2, <1>6, <1>7, <1>8 DEF take, price, p, f

\* The walk as steps: where it starts, and what taking at one level adds.
LEMMA WalkSteps ==
  ASSUME TypeOK, NEW i \in Instruments, NEW taker \in Sides,
         NEW unit \in {"qty", "notional"}, NEW size \in Nat, NEW bound
  PROVE  LET w == Walk(i, taker, unit, size, bound) IN
         /\ w \in [0 .. MaxPrice -> [budget : Nat, qty : Nat, notional : Nat]]
         /\ w[0].budget = IF unit = "qty" THEN size ELSE size * FeeBase
         /\ w[0].qty = 0 /\ w[0].notional = 0
         /\ \A k \in 1 .. MaxPrice :
              LET take == LevelTake(i, taker, unit, bound, k, w[k - 1].budget)
                  price == Shift(i, Ranked(taker, k))
              IN  /\ take \in Nat
                  /\ w[k].budget = w[k - 1].budget -
                       (IF unit = "qty" THEN take ELSE take * price * (FeeBase + Rates.commission))
                  /\ w[k].qty = w[k - 1].qty + take
                  /\ w[k].notional = w[k - 1].notional + take * price
<1> DEFINE X == [budget : Nat, qty : Nat, notional : Nat]
           f == FeeBase + Rates.commission
           take(k, x) == LevelTake(i, taker, unit, bound, k, x.budget)
           price(k) == Shift(i, Ranked(taker, k))
           next(k, x) ==
             [budget |-> x.budget -
                (IF unit = "qty" THEN take(k, x) ELSE take(k, x) * price(k) * f),
              qty |-> x.qty + take(k, x),
              notional |-> x.notional + take(k, x) * price(k)]
           x0 == [budget |-> IF unit = "qty" THEN size ELSE size * FeeBase,
                  qty |-> 0, notional |-> 0]
           F == [k \in 1 .. MaxPrice |-> [x \in X |-> next(k, x)]]
           Eq(w) == w = [k \in 0 .. MaxPrice |-> IF k = 0 THEN x0 ELSE next(k, w[k - 1])]
<1>1. ASSUME NEW k \in 1 .. MaxPrice, NEW x \in X
      PROVE  next(k, x) \in X /\ take(k, x) \in Nat
  <2>1. x.budget \in Nat /\ x.qty \in Nat /\ x.notional \in Nat
    OBVIOUS
  <2>2. /\ take(k, x) \in Nat /\ price(k) \in Nat
        /\ unit = "qty" => take(k, x) <= x.budget
        /\ unit = "notional" =>
             take(k, x) * price(k) * f \in Nat /\ take(k, x) * price(k) * f <= x.budget
    BY <2>1, LevelTakeFacts
  <2> HIDE DEF take, price, f
  <2>3. take(k, x) * price(k) \in Nat
    BY <2>2, Products
  <2>4. x.budget - (IF unit = "qty" THEN take(k, x) ELSE take(k, x) * price(k) * f) \in Nat
    BY <2>1, <2>2
  <2> QED
    BY <2>1, <2>2, <2>3, <2>4
<1>2. x0 \in X
  <2>1. size * FeeBase \in Nat
    BY Products, FeeAssumption
  <2> QED
    BY <2>1
<1>3. MaxPrice \in Nat
  BY SizeAssumption
<1>4. F \in [1 .. MaxPrice -> [X -> X]]
  <2> HIDE DEF X, next
  <2> QED
    BY <1>1
<1>5. PICK r : IsRecursion(r, MaxPrice, X, x0, F)
  <2> HIDE DEF X, x0, F
  <2> QED
    BY <1>2, <1>3, <1>4, RecursionExists
<1>6. Eq(r)
  <2>1. \A k \in 1 .. MaxPrice : r[k] = next(k, r[k - 1])
    <3> SUFFICES ASSUME NEW k \in 1 .. MaxPrice PROVE r[k] = next(k, r[k - 1])
      OBVIOUS
    <3>1. r[k - 1] \in X
      <4>1. k - 1 \in 0 .. MaxPrice
        BY <1>3
      <4> HIDE DEF X
      <4> QED
        BY <1>5, <4>1 DEF IsRecursion
    <3> HIDE DEF X, next
    <3> QED
      BY <1>5, <3>1 DEF IsRecursion
  <2> HIDE DEF X, next, x0, F
  <2> QED
    BY <1>5, <2>1 DEF IsRecursion
<1> DEFINE w == Walk(i, taker, unit, size, bound)
<1>7. Eq(w)
  <2>1. w = CHOOSE s : Eq(s)
    BY DEF Walk
  <2> HIDE DEF w, Eq
  <2> QED
    BY <1>6, <2>1
<1> HIDE DEF w
<1>8. /\ w[0] = x0
      /\ \A k \in 1 .. MaxPrice : w[k] = next(k, w[k - 1])
  <2> HIDE DEF X, next, x0, F
  <2>1. 0 \in 0 .. MaxPrice
    BY <1>3
  <2>2. ASSUME NEW k \in 1 .. MaxPrice PROVE w[k] = next(k, w[k - 1])
    <3>1. k \in 0 .. MaxPrice /\ k # 0
      OBVIOUS
    <3> QED
      BY <1>7, <3>1
  <2> QED
    BY <1>7, <2>1, <2>2
<1>9. \A k \in 0 .. MaxPrice : w[k] \in X
  <2> DEFINE S == {k \in 0 .. MaxPrice : w[k] \in X}
  <2> HIDE DEF X, next, x0
  <2>1. 0 \in S
    BY <1>2, <1>3, <1>8
  <2>2. ASSUME NEW k \in 1 .. MaxPrice, k - 1 \in S PROVE k \in S
    BY <1>1, <1>8, <2>2
  <2> HIDE DEF S
  <2>3. \A k \in 0 .. MaxPrice : k \in S
    BY <1>3, <2>1, <2>2, UpTo
  <2> QED
    BY <2>3 DEF S
<1>10. w \in [0 .. MaxPrice -> X]
  <2> HIDE DEF X, next, x0
  <2> QED
    BY <1>7, <1>9
<1>11. ASSUME NEW k \in 1 .. MaxPrice
       PROVE  /\ take(k, w[k - 1]) \in Nat
              /\ w[k].budget = w[k - 1].budget -
                   (IF unit = "qty" THEN take(k, w[k - 1]) ELSE take(k, w[k - 1]) * price(k) * f)
              /\ w[k].qty = w[k - 1].qty + take(k, w[k - 1])
              /\ w[k].notional = w[k - 1].notional + take(k, w[k - 1]) * price(k)
  <2>1. k - 1 \in 0 .. MaxPrice
    BY <1>3
  <2>2. w[k] = next(k, w[k - 1]) /\ w[k - 1] \in X
    BY <1>8, <1>9, <2>1
  <2>3. take(k, w[k - 1]) \in Nat
    <3> HIDE DEF X, next, take
    <3> QED
      BY <1>1, <2>2
  <2> HIDE DEF take, price, f
  <2> QED
    BY <2>2, <2>3
<1>12. /\ w[0].budget = IF unit = "qty" THEN size ELSE size * FeeBase
       /\ w[0].qty = 0 /\ w[0].notional = 0
  BY <1>8
<1> QED
  BY <1>10, <1>11, <1>12 DEF w

\* What is taken never decreases and the budget is never overdrawn, so an order
\* never gets more than its size.
LEMMA WalkFacts ==
  ASSUME TypeOK, NEW i \in Instruments, NEW taker \in Sides,
         NEW unit \in {"qty", "notional"}, NEW size \in Nat, NEW bound
  PROVE  LET w == Walk(i, taker, unit, size, bound) IN
         /\ w \in [0 .. MaxPrice -> [budget : Nat, qty : Nat, notional : Nat]]
         /\ \A k \in 1 .. MaxPrice : w[k - 1].qty <= w[k].qty
         /\ unit = "qty" => w[MaxPrice].qty <= size
<1> DEFINE w == Walk(i, taker, unit, size, bound)
           take(k) == LevelTake(i, taker, unit, bound, k, w[k - 1].budget)
<1>1. MaxPrice \in Nat
  BY SizeAssumption
<1>2. /\ w \in [0 .. MaxPrice -> [budget : Nat, qty : Nat, notional : Nat]]
      /\ w[0].budget = (IF unit = "qty" THEN size ELSE size * FeeBase) /\ w[0].qty = 0
      /\ \A k \in 1 .. MaxPrice :
           /\ take(k) \in Nat /\ w[k].qty = w[k - 1].qty + take(k)
           /\ unit = "qty" => w[k].budget = w[k - 1].budget - take(k)
  BY WalkSteps
<1> HIDE DEF w, take
<1>3. \A k \in 0 .. MaxPrice : w[k].budget \in Nat /\ w[k].qty \in Nat
  BY <1>2
<1>4. ASSUME NEW k \in 1 .. MaxPrice PROVE k - 1 \in 0 .. MaxPrice /\ k \in 0 .. MaxPrice
  BY <1>1
<1>5. ASSUME NEW k \in 1 .. MaxPrice PROVE w[k - 1].qty <= w[k].qty
  BY <1>2, <1>3, <1>4
<1>6. ASSUME unit = "qty" PROVE w[MaxPrice].qty <= size
  <2> DEFINE S == {k \in 0 .. MaxPrice : w[k].budget + w[k].qty = size}
  <2>1. 0 \in S
    BY <1>1, <1>2, <1>6
  <2>2. ASSUME NEW k \in 1 .. MaxPrice, k - 1 \in S PROVE k \in S
    <3>1. w[k].qty = w[k - 1].qty + take(k) /\ w[k].budget = w[k - 1].budget - take(k)
          /\ take(k) \in Nat /\ w[k - 1].budget + w[k - 1].qty = size
      BY <1>2, <1>6, <2>2
    <3> QED
      BY <1>3, <1>4, <3>1
  <2> HIDE DEF S
  <2>3. \A k \in 0 .. MaxPrice : k \in S
    BY <1>1, <2>1, <2>2, UpTo
  <2>4. MaxPrice \in 0 .. MaxPrice
    BY <1>1
  <2> QED
    BY <1>3, <2>3, <2>4 DEF S
<1> QED
  BY <1>2, <1>5, <1>6 DEF w

\* The notional of a walk: within a cash budget it leaves room for the commission,
\* and at a limit it is no worse than the limit for every unit taken.
LEMMA WalkMoney ==
  ASSUME TypeOK, NEW i \in Instruments, NEW taker \in Sides,
         NEW unit \in {"qty", "notional"}, NEW size \in Nat, NEW bound
  PROVE  LET all == Walk(i, taker, unit, size, bound)[MaxPrice] IN
         /\ unit = "notional" =>
              all.notional * (FeeBase + Rates.commission) <= size * FeeBase
         /\ \A limit \in Nat : bound = 200 * limit =>
              /\ taker = "buy" => all.notional <= all.qty * limit
              /\ taker = "sell" => all.notional >= all.qty * limit
<1> DEFINE w == Walk(i, taker, unit, size, bound)
           take(k) == LevelTake(i, taker, unit, bound, k, w[k - 1].budget)
           price(k) == Shift(i, Ranked(taker, k))
           f == FeeBase + Rates.commission
<1>1. MaxPrice \in Nat /\ f \in Nat /\ size * FeeBase \in Nat
  <2>1. Rates.commission \in Nat /\ FeeBase \in Nat
    BY FeeAssumption DEF TypeOK, Rates
  <2> QED
    BY <2>1, SizeAssumption, Products
<1>2. /\ w \in [0 .. MaxPrice -> [budget : Nat, qty : Nat, notional : Nat]]
      /\ w[0].budget = (IF unit = "qty" THEN size ELSE size * FeeBase)
      /\ w[0].qty = 0 /\ w[0].notional = 0
      /\ \A k \in 1 .. MaxPrice :
           /\ take(k) \in Nat
           /\ w[k].budget = w[k - 1].budget -
                (IF unit = "qty" THEN take(k) ELSE take(k) * price(k) * f)
           /\ w[k].qty = w[k - 1].qty + take(k)
           /\ w[k].notional = w[k - 1].notional + take(k) * price(k)
  BY WalkSteps
<1>3. ASSUME NEW k \in 1 .. MaxPrice
      PROVE  /\ price(k) \in Nat
             /\ \A limit \in Nat : bound = 200 * limit /\ take(k) > 0 =>
                  /\ taker = "buy" => price(k) <= limit
                  /\ taker = "sell" => price(k) >= limit
  <2> DEFINE p == Ranked(taker, k)
  <2>1. p \in Prices
    BY SizeAssumption DEF Ranked, Prices
  <2>2. Shift(i, p) \in Nat
    BY <2>1, BookFacts
  <2> DEFINE most == IF unit = "qty" THEN w[k - 1].budget
               ELSE ((w[k - 1].budget \div (Shift(i, p) * f)) \div Step) * Step
  <2>3. take(k) = IF Worse(taker, Shift(i, p), bound) THEN 0
                  ELSE Least(Shown(i, Opposite(taker), p), most)
    BY DEF LevelTake
  <2> HIDE DEF take, most, p
  <2>4. take(k) > 0 => ~ Worse(taker, Shift(i, p), bound)
    BY <2>3
  <2> QED
    BY <2>2, <2>4 DEF Worse, p
<1> HIDE DEF w, take, price, f
<1>4. \A k \in 0 .. MaxPrice : w[k].budget \in Nat /\ w[k].qty \in Nat /\ w[k].notional \in Nat
  BY <1>2
<1>5. ASSUME NEW k \in 1 .. MaxPrice
      PROVE  /\ k - 1 \in 0 .. MaxPrice /\ k \in 0 .. MaxPrice
             /\ take(k) \in Nat /\ take(k) * price(k) \in Nat
             /\ w[k].qty = w[k - 1].qty + take(k)
             /\ w[k].notional = w[k - 1].notional + take(k) * price(k)
  <2>1. take(k) * price(k) \in Nat
    BY <1>2, <1>3, Products
  <2> QED
    BY <1>1, <1>2, <2>1
<1>6. MaxPrice \in 0 .. MaxPrice
  BY <1>1
<1>7. ASSUME unit = "notional" PROVE w[MaxPrice].notional * f <= size * FeeBase
  <2> DEFINE S == {k \in 0 .. MaxPrice : w[k].budget + w[k].notional * f = size * FeeBase}
  <2>1. 0 \in S
    <3>1. w[0].notional * f = 0
      BY <1>1, <1>2
    <3> QED
      BY <1>1, <1>2, <1>7, <3>1
  <2>2. ASSUME NEW k \in 1 .. MaxPrice, k - 1 \in S PROVE k \in S
    <3> DEFINE n == w[k - 1].notional
               t == take(k) * price(k)
    <3>1. n \in Nat /\ t \in Nat
      BY <1>4, <1>5
    <3>2. w[k].budget = w[k - 1].budget - t * f /\ w[k].notional = n + t
      BY <1>2, <1>5, <1>7
    <3>3. w[k - 1].budget \in Nat /\ w[k - 1].budget + n * f = size * FeeBase
      BY <1>4, <1>5, <2>2
    <3> HIDE DEF n, t
    <3>4. (n + t) * f = n * f + t * f /\ n * f \in Nat /\ t * f \in Nat
      BY <1>1, <3>1
    <3>5. w[k].budget + w[k].notional * f = size * FeeBase
      BY <1>1, <3>2, <3>3, <3>4
    <3> QED
      BY <1>5, <3>5
  <2> HIDE DEF S
  <2>3. MaxPrice \in S
    BY <1>1, <1>6, <2>1, <2>2, UpTo
  <2>4. w[MaxPrice].notional * f \in Nat
    BY <1>1, <1>4, <1>6, Products
  <2> QED
    BY <1>1, <1>4, <1>6, <2>3, <2>4 DEF S
<1>8. ASSUME NEW limit \in Nat, bound = 200 * limit
      PROVE  /\ taker = "buy" => w[MaxPrice].notional <= w[MaxPrice].qty * limit
             /\ taker = "sell" => w[MaxPrice].notional >= w[MaxPrice].qty * limit
  <2> DEFINE Good(x) == /\ taker = "buy" => x.notional <= x.qty * limit
                        /\ taker = "sell" => x.notional >= x.qty * limit
             S == {k \in 0 .. MaxPrice : Good(w[k])}
  <2>1. 0 \in S
    <3>1. w[0].notional = 0 /\ w[0].qty * limit = 0
      BY <1>2
    <3> QED
      BY <1>1, <3>1
  <2>2. ASSUME NEW k \in 1 .. MaxPrice, k - 1 \in S PROVE k \in S
    <3>1. /\ taker = "buy" => take(k) * price(k) <= take(k) * limit
          /\ taker = "sell" => take(k) * price(k) >= take(k) * limit
      <4>1. CASE take(k) = 0
        <5>1. 0 * price(k) = 0 /\ 0 * limit = 0
          BY <1>3
        <5> QED
          BY <4>1, <5>1
      <4>2. CASE take(k) > 0
        BY <1>3, <1>5, <1>8, <4>2, Products
      <4> QED
        BY <1>5, <4>1, <4>2
    <3>2. (w[k - 1].qty + take(k)) * limit = w[k - 1].qty * limit + take(k) * limit
      BY <1>4, <1>5
    <3>3. w[k - 1].qty * limit \in Nat /\ take(k) * limit \in Nat
      BY <1>4, <1>5, Products
    <3>4. Good(w[k - 1])
      BY <2>2
    <3>5. w[k].qty * limit = w[k - 1].qty * limit + take(k) * limit
      BY <1>5, <3>2
    <3>6. Good(w[k])
      BY <1>4, <1>5, <3>1, <3>3, <3>4, <3>5
    <3> QED
      BY <1>5, <3>6
  <2> HIDE DEF S
  <2>3. MaxPrice \in S
    BY <1>1, <1>6, <2>1, <2>2, UpTo
  <2> QED
    BY <2>3 DEF S
<1> QED
  BY <1>7, <1>8 DEF w, f

\* Depletion stays a natural when a walk consumes levels.
LEMMA ConsumeFacts ==
  ASSUME TypeOK, NEW i \in Instruments, NEW taker \in Sides,
         NEW unit \in {"qty", "notional"}, NEW size \in Nat, NEW bound
  PROVE  Consume(i, taker, Walk(i, taker, unit, size, bound)) \in [Instruments -> Levels]
<1> DEFINE w == Walk(i, taker, unit, size, bound)
           side == Opposite(taker)
           row == [p \in Prices |-> depletion[i][side][p]
                     + w[Ranked(taker, p)].qty - w[Ranked(taker, p) - 1].qty]
<1>1. /\ w \in [0 .. MaxPrice -> [budget : Nat, qty : Nat, notional : Nat]]
      /\ \A k \in 1 .. MaxPrice : w[k - 1].qty <= w[k].qty
  BY WalkFacts
<1> HIDE DEF w
<1>2. side \in Sides
  BY DEF Opposite, Sides
<1>3. ASSUME NEW p \in Prices
      PROVE  depletion[i][side][p] + w[Ranked(taker, p)].qty - w[Ranked(taker, p) - 1].qty \in Nat
  <2> DEFINE k == Ranked(taker, p)
  <2>1. k \in 1 .. MaxPrice /\ k \in 0 .. MaxPrice /\ k - 1 \in 0 .. MaxPrice
    BY SizeAssumption DEF Ranked, Prices
  <2> HIDE DEF k
  <2>2. depletion[i][side][p] \in Nat
    BY <1>2 DEF TypeOK, Levels
  <2>3. w[k].qty \in Nat /\ w[k - 1].qty \in Nat /\ w[k - 1].qty <= w[k].qty
    BY <1>1, <2>1
  <2> QED
    BY <2>2, <2>3 DEF k
<1>4. row \in [Prices -> Nat]
  BY <1>3
<1>5. depletion[i] \in Levels
  BY DEF TypeOK
<1>6. [depletion[i] EXCEPT ![side] = row] \in Levels
  <2> HIDE DEF row
  <2> QED
    BY <1>2, <1>4, <1>5 DEF Levels
<1>7. Consume(i, taker, w) = [depletion EXCEPT ![i] = [depletion[i] EXCEPT ![side] = row]]
  BY DEF Consume
<1> HIDE DEF row
<1> QED
  BY <1>6, <1>7 DEF TypeOK, w

\* A level that shows x and is taken y <= x from shows x - y, also when more of
\* it was used up before than the book now has.
LEMMA StillShown ==
  ASSUME NEW b \in Nat, NEW d \in Nat, NEW y \in Nat, y <= Pos(b - d)
  PROVE  Pos(b - (d + y)) = Pos(b - d) - y
BY DEF Pos

\* A level that a walk took from shows that much less; all others show the same.
LEMMA LevelsUsedUp ==
  ASSUME TypeOK, NEW i \in Instruments, NEW taker \in Sides,
         NEW unit \in {"qty", "notional"}, NEW size \in Nat, NEW bound, book' = book,
         depletion' = Consume(i, taker, Walk(i, taker, unit, size, bound))
  PROVE  LET w == Walk(i, taker, unit, size, bound)
             side == Opposite(taker)
         IN  /\ \A p \in Prices :
                  LET used == w[Ranked(taker, p)].qty - w[Ranked(taker, p) - 1].qty
                  IN  /\ used \in Nat /\ Shown(i, side, p) \in Nat
                      /\ Shown(i, side, p)' = Shown(i, side, p) - used /\ used <= Shown(i, side, p)
                      /\ Shown(i, taker, p)' = Shown(i, taker, p)
             /\ \A h \in Instruments \ {i} : depletion'[h] = depletion[h]
<1> DEFINE w == Walk(i, taker, unit, size, bound)
           side == Opposite(taker)
           d == [p \in Prices |-> w[Ranked(taker, p)].qty - w[Ranked(taker, p) - 1].qty]
<1>1. /\ w \in [0 .. MaxPrice -> [budget : Nat, qty : Nat, notional : Nat]] /\ w[0].qty = 0
      /\ \A k \in 1 .. MaxPrice :
           LET take == LevelTake(i, taker, unit, bound, k, w[k - 1].budget)
           IN  take \in Nat /\ w[k].qty = w[k - 1].qty + take
  BY WalkSteps
<1>2. /\ \A p \in Prices : depletion'[i][side][p] = depletion[i][side][p]
                               + w[Ranked(taker, p)].qty - w[Ranked(taker, p) - 1].qty
      /\ depletion'[i][taker] = depletion[i][taker]
      /\ \A h \in Instruments \ {i} : depletion'[h] = depletion[h]
  <2> HIDE DEF w
  <2> QED
    BY DEF Consume, TypeOK, Levels, Opposite, Sides, w
<1> HIDE DEF w
<1>3. ASSUME NEW p \in Prices
      PROVE  /\ Ranked(taker, p) \in 1 .. MaxPrice /\ Ranked(taker, Ranked(taker, p)) = p
             /\ Ranked(taker, p) \in 0 .. MaxPrice /\ Ranked(taker, p) - 1 \in 0 .. MaxPrice
  BY SizeAssumption DEF Ranked, Prices
<1>4. ASSUME NEW p \in Prices
      PROVE  /\ d[p] \in Nat /\ Shown(i, side, p) \in Nat
             /\ Shown(i, side, p)' = Shown(i, side, p) - d[p] /\ d[p] <= Shown(i, side, p)
             /\ Shown(i, taker, p)' = Shown(i, taker, p)
  <2> DEFINE k == Ranked(taker, p)
             take == LevelTake(i, taker, unit, bound, k, w[k - 1].budget)
  <2>1. k \in 1 .. MaxPrice /\ k \in 0 .. MaxPrice /\ k - 1 \in 0 .. MaxPrice /\ Ranked(taker, k) = p
    BY <1>3
  <2> HIDE DEF k
  <2>2. w[k - 1].qty \in Nat /\ w[k - 1].budget \in Nat
    BY <1>1, <2>1
  <2>3. take \in Nat /\ take <= Shown(i, side, p)
    BY <2>1, <2>2, LevelTakeFacts
  <2>4. d[p] = w[k].qty - w[k - 1].qty /\ w[k].qty = w[k - 1].qty + take
    BY <1>1, <2>1 DEF k
  <2> HIDE DEF take, d
  <2>5. d[p] = take
    BY <2>2, <2>3, <2>4
  <2>6. side \in Sides /\ side # taker
    BY DEF Opposite, Sides
  <2>7. book[i][side][p] \in Nat /\ depletion[i][side][p] \in Nat
    BY <2>6 DEF TypeOK, Levels
  <2>8. depletion'[i][side][p] = depletion[i][side][p] + take
    <3>1. depletion'[i][side][p] = depletion[i][side][p] + w[k].qty - w[k - 1].qty
      BY <1>2 DEF k
    <3> QED
      BY <2>2, <2>3, <2>4, <2>7, <3>1
  <2>9. Shown(i, side, p) = Pos(book[i][side][p] - depletion[i][side][p])
    BY DEF Shown
  <2>10. Shown(i, side, p)' = Pos(book[i][side][p] - (depletion[i][side][p] + take))
    BY <2>8 DEF Shown
  <2>11. Shown(i, side, p) \in Nat
    BY <2>6, BookFacts
  <2>12. Shown(i, taker, p)' = Shown(i, taker, p)
    BY <1>2 DEF Shown
  <2> QED
    BY <2>3, <2>5, <2>7, <2>9, <2>10, <2>11, <2>12, StillShown
<1> QED
  BY <1>2, <1>4 DEF w

\* What a walk takes is what the book of its instrument shows less afterwards.
LEMMA UsedUp ==
  ASSUME TypeOK, NEW i \in Instruments, NEW taker \in Sides,
         NEW unit \in {"qty", "notional"}, NEW size \in Nat, NEW bound, book' = book,
         depletion' = Consume(i, taker, Walk(i, taker, unit, size, bound)),
         NEW j \in Instruments
  PROVE  ShownQty(j) - ShownQty(j)' =
           IF j = i THEN Walk(i, taker, unit, size, bound)[MaxPrice].qty ELSE 0
<1> DEFINE w == Walk(i, taker, unit, size, bound)
           side == Opposite(taker)
           f == [p \in Prices |-> Shown(i, "buy", p) + Shown(i, "sell", p)]
           g == [p \in Prices |-> Shown(i, "buy", p)' + Shown(i, "sell", p)']
           r == [k \in 0 .. MaxPrice |-> w[k].qty]
           d == [p \in Prices |-> w[Ranked(taker, p)].qty - w[Ranked(taker, p) - 1].qty]
<1>1. /\ w \in [0 .. MaxPrice -> [budget : Nat, qty : Nat, notional : Nat]] /\ w[0].qty = 0
      /\ \A k \in 1 .. MaxPrice :
           LET take == LevelTake(i, taker, unit, bound, k, w[k - 1].budget)
           IN  take \in Nat /\ w[k].qty = w[k - 1].qty + take
  BY WalkSteps
<1>2. \A h \in Instruments \ {i} : depletion'[h] = depletion[h]
  BY LevelsUsedUp
<1>3. ASSUME NEW p \in Prices
      PROVE  /\ Ranked(taker, p) \in 1 .. MaxPrice /\ Ranked(taker, Ranked(taker, p)) = p
             /\ Ranked(taker, p) \in 0 .. MaxPrice /\ Ranked(taker, p) - 1 \in 0 .. MaxPrice
  BY SizeAssumption DEF Ranked, Prices
<1>4. ASSUME NEW p \in Prices
      PROVE  /\ d[p] \in Nat /\ Shown(i, side, p) \in Nat
             /\ Shown(i, side, p)' = Shown(i, side, p) - d[p] /\ d[p] <= Shown(i, side, p)
             /\ Shown(i, taker, p)' = Shown(i, taker, p)
  BY LevelsUsedUp
<1> HIDE DEF w
<1>5. /\ d \in [1 .. MaxPrice -> Nat] /\ f \in [1 .. MaxPrice -> Nat]
      /\ g \in [1 .. MaxPrice -> Nat] /\ \A p \in 1 .. MaxPrice : f[p] = g[p] + d[p]
  <2>1. ASSUME NEW p \in Prices PROVE d[p] \in Nat /\ f[p] \in Nat /\ g[p] \in Nat /\ f[p] = g[p] + d[p]
    <3>1. Shown(i, "buy", p) \in Nat /\ Shown(i, "sell", p) \in Nat
      BY BookFacts DEF Sides
    <3>2. f[p] = Shown(i, "buy", p) + Shown(i, "sell", p)
          /\ g[p] = Shown(i, "buy", p)' + Shown(i, "sell", p)'
      OBVIOUS
    <3>3. \/ taker = "buy" /\ side = "sell"
          \/ taker = "sell" /\ side = "buy"
      BY DEF Opposite, Sides
    <3> HIDE DEF f, g, d, side
    <3> QED
      BY <1>4, <3>1, <3>2, <3>3
  <2>2. DOMAIN d = 1 .. MaxPrice /\ DOMAIN f = 1 .. MaxPrice /\ DOMAIN g = 1 .. MaxPrice
    BY DEF Prices
  <2> QED
    BY <2>1 DEF Prices
<1>6. Total(d, MaxPrice) = w[MaxPrice].qty
  <2>1. r \in [0 .. MaxPrice -> Nat] /\ \A k \in 0 .. MaxPrice : r[k] = w[k].qty
    BY <1>1
  <2>2. MaxPrice \in Nat /\ 0 \in 0 .. MaxPrice /\ MaxPrice \in 0 .. MaxPrice
    BY SizeAssumption
  <2>3. \A p \in 1 .. MaxPrice : d[p] = r[Ranked(taker, p)] - r[Ranked(taker, p) - 1]
    BY <1>3, <2>1 DEF Prices
  <2> HIDE DEF r, d
  <2>4. Total(d, MaxPrice) = r[MaxPrice] - r[0]
    <3>1. CASE taker = "buy"
      <4>1. \A p \in 1 .. MaxPrice : d[p] = r[p] - r[p - 1]
        BY <2>3, <3>1 DEF Ranked
      <4> QED
        BY <1>5, <2>1, <2>2, <4>1, TotalRise
    <3>2. CASE taker # "buy"
      <4>1. \A p \in 1 .. MaxPrice : d[p] = r[MaxPrice + 1 - p] - r[MaxPrice + 1 - p - 1]
        <5> SUFFICES ASSUME NEW p \in 1 .. MaxPrice
                     PROVE  d[p] = r[MaxPrice + 1 - p] - r[MaxPrice + 1 - p - 1]
          OBVIOUS
        <5>1. Ranked(taker, p) = MaxPrice + 1 - p
          BY <3>2 DEF Ranked
        <5>2. d[p] = r[Ranked(taker, p)] - r[Ranked(taker, p) - 1]
          BY <2>3
        <5> QED
          BY <2>2, <5>1, <5>2
      <4> QED
        BY <1>5, <2>1, <2>2, <4>1, TotalRiseBackwards
    <3> QED
      BY <3>1, <3>2
  <2>5. r[MaxPrice] = w[MaxPrice].qty /\ r[0] = 0 /\ r[MaxPrice] \in Nat
    BY <1>1, <2>1, <2>2
  <2> QED
    BY <2>4, <2>5
<1>7. CASE j = i
  <2>1. MaxPrice \in Nat
    BY SizeAssumption
  <2>2. Total(f, MaxPrice) = Total(g, MaxPrice) + Total(d, MaxPrice)
    <3> HIDE DEF f, g, d
    <3> QED
      BY <1>5, <2>1, TotalSum
  <2>3. Total(f, MaxPrice) \in Nat /\ Total(g, MaxPrice) \in Nat /\ Total(d, MaxPrice) \in Nat
    <3> HIDE DEF f, g, d
    <3> QED
      BY <1>5, <2>1, TotalType
  <2>4. ShownQty(j) = Total(f, MaxPrice) /\ ShownQty(j)' = Total(g, MaxPrice)
    BY <1>7 DEF ShownQty
  <2> HIDE DEF f, g, d
  <2> QED
    BY <1>6, <1>7, <2>2, <2>3, <2>4 DEF w
<1>8. CASE j # i
  <2>1. \A s, p : Shown(j, s, p)' = Shown(j, s, p)
    BY <1>2, <1>8 DEF Shown
  <2>2. ShownQty(j)' = ShownQty(j)
    BY <2>1 DEF ShownQty
  <2>3. ShownQty(j) \in Nat
    <3> DEFINE h == [p \in Prices |-> Shown(j, "buy", p) + Shown(j, "sell", p)]
    <3>1. h \in [1 .. MaxPrice -> Nat]
      BY BookFacts DEF Sides, Prices
    <3> QED
      BY <3>1, SizeAssumption, TotalType DEF ShownQty
  <2> QED
    BY <1>8, <2>2, <2>3
<1> QED
  BY <1>7, <1>8
-----------------------------------------------------------------------------
(* Lists of resting orders. *)

\* The elements of a sequence.
Elements(s) == {s[k] : k \in 1 .. Len(s)}

\* Append adds an element, Head is one and Tail adds none.
LEMMA ElementsFacts ==
  ASSUME NEW T, NEW s \in Seq(T)
  PROVE  /\ \A e \in T : \A x : x \in Elements(Append(s, e)) <=> x \in Elements(s) \/ x = e
         /\ s # <<>> => /\ Head(s) \in T /\ Head(s) \in Elements(s)
                        /\ Tail(s) \in Seq(T)
                        /\ \A x \in Elements(Tail(s)) : x \in Elements(s)
<1>1. ASSUME NEW e \in T, NEW x
      PROVE  x \in Elements(Append(s, e)) <=> x \in Elements(s) \/ x = e
  <2>1. /\ Len(s) \in Nat /\ Len(Append(s, e)) = Len(s) + 1
        /\ \A k \in 1 .. Len(s) : Append(s, e)[k] = s[k]
        /\ Append(s, e)[Len(s) + 1] = e
    OBVIOUS
  <2>2. \A k \in 1 .. Len(s) + 1 : k \in 1 .. Len(s) \/ k = Len(s) + 1
    BY <2>1
  <2>3. 1 .. Len(s) \subseteq 1 .. Len(s) + 1 /\ Len(s) + 1 \in 1 .. Len(s) + 1
    BY <2>1
  <2> QED
    BY <2>1, <2>2, <2>3 DEF Elements
<1>2. ASSUME s # <<>>
      PROVE  /\ Head(s) \in T /\ Head(s) \in Elements(s)
             /\ Tail(s) \in Seq(T)
             /\ \A x \in Elements(Tail(s)) : x \in Elements(s)
  <2>1. Len(s) \in Nat /\ 1 \in 1 .. Len(s) /\ Head(s) = s[1] /\ Head(s) \in T /\ Tail(s) \in Seq(T)
    BY <1>2
  <2>2. /\ Len(Tail(s)) = Len(s) - 1
        /\ \A k \in 1 .. Len(Tail(s)) : Tail(s)[k] = s[k + 1] /\ k + 1 \in 1 .. Len(s)
    BY <1>2
  <2> QED
    BY <2>1, <2>2 DEF Elements
<1> QED
  BY <1>1, <1>2

\* What the recursion of Keep(s, S) has kept of the first k elements, for each k.
LEMMA KeptSteps ==
  ASSUME NEW T, NEW s \in Seq(T), NEW S
  PROVE  \E kept :
           /\ kept[0] = <<>>
           /\ \A k \in 1 .. Len(s) :
                kept[k] = IF s[k] \in S THEN Append(kept[k - 1], s[k]) ELSE kept[k - 1]
           /\ Keep(s, S) = kept[Len(s)]
<1> DEFINE n == Len(s)
           next(k, x) == IF s[k] \in S THEN Append(x, s[k]) ELSE x
           F == [k \in 1 .. n |-> [x \in Seq(T) |-> next(k, x)]]
           Eq(r) == r = [k \in 0 .. n |-> IF k = 0 THEN <<>> ELSE next(k, r[k - 1])]
<1>1. n \in Nat /\ \A k \in 1 .. n : s[k] \in T
  OBVIOUS
<1>2. ASSUME NEW k \in 1 .. n, NEW x \in Seq(T) PROVE next(k, x) \in Seq(T)
  BY <1>1
<1>3. F \in [1 .. n -> [Seq(T) -> Seq(T)]] /\ <<>> \in Seq(T)
  <2> HIDE DEF next, n
  <2> QED
    BY <1>2
<1>4. PICK r : IsRecursion(r, n, Seq(T), <<>>, F)
  <2> HIDE DEF F, n
  <2> QED
    BY <1>1, <1>3, RecursionExists
<1>5. /\ r \in [0 .. n -> Seq(T)] /\ r[0] = <<>>
      /\ \A k \in 1 .. n : r[k] = next(k, r[k - 1])
  <2>1. ASSUME NEW k \in 1 .. n PROVE r[k] = next(k, r[k - 1])
    <3>1. k - 1 \in 0 .. n
      BY <1>1
    <3> HIDE DEF next, n
    <3> QED
      BY <1>4, <3>1 DEF IsRecursion
  <2> HIDE DEF next, n
  <2> QED
    BY <1>4, <2>1 DEF IsRecursion
<1>6. Eq(r)
  <2> HIDE DEF next, n
  <2> QED
    BY <1>5
<1> DEFINE kept == CHOOSE t : Eq(t)
<1>7. Eq(kept)
  <2> HIDE DEF Eq
  <2> QED
    BY <1>6
<1>8. Keep(s, S) = kept[n]
  BY DEF Keep
<1> HIDE DEF kept
<1>9. kept[0] = <<>> /\ \A k \in 1 .. n : kept[k] = next(k, kept[k - 1])
  <2>1. 0 \in 0 .. n
    BY <1>1
  <2>2. ASSUME NEW k \in 1 .. n PROVE kept[k] = next(k, kept[k - 1])
    <3>1. k \in 0 .. n /\ k # 0
      OBVIOUS
    <3> HIDE DEF next, n
    <3> QED
      BY <1>7, <3>1
  <2> HIDE DEF next, n
  <2> QED
    BY <1>7, <2>1, <2>2
<1> QED
  BY <1>8, <1>9

\* Keep(s, S) lists exactly the elements of s that are in S.
LEMMA KeepFacts ==
  ASSUME NEW T, NEW s \in Seq(T), NEW S
  PROVE  /\ Keep(s, S) \in Seq(T)
         /\ \A x : x \in Elements(Keep(s, S)) <=> x \in Elements(s) /\ x \in S
<1> DEFINE n == Len(s)
           next(k, x) == IF s[k] \in S THEN Append(x, s[k]) ELSE x
<1>1. n \in Nat /\ \A k \in 1 .. n : s[k] \in T
  OBVIOUS
<1>2. PICK kept : /\ kept[0] = <<>>
                  /\ \A k \in 1 .. n : kept[k] = next(k, kept[k - 1])
                  /\ Keep(s, S) = kept[n]
  BY KeptSteps
<1> DEFINE Good(k) ==
      /\ kept[k] \in Seq(T)
      /\ \A x : x \in Elements(kept[k]) <=> x \in S /\ \E j \in 1 .. k : s[j] = x
<1> HIDE DEF n
<1>3. \A k \in 0 .. n : Good(k)
  <2> DEFINE G == {k \in 0 .. n : Good(k)}
  <2>1. 0 \in G
    <3>1. Elements(<<>>) = {}
      BY DEF Elements
    <3>2. <<>> \in Seq(T) /\ 1 .. 0 = {}
      OBVIOUS
    <3>3. Good(0)
      BY <1>2, <3>1, <3>2
    <3> HIDE DEF Good
    <3> QED
      BY <1>1, <3>3
  <2>2. ASSUME NEW k \in 1 .. n, k - 1 \in G PROVE k \in G
    <3>1. Good(k - 1) /\ kept[k] = next(k, kept[k - 1]) /\ s[k] \in T
      BY <1>1, <1>2, <2>2
    <3>2. \A x : (\E j \in 1 .. k : s[j] = x) <=> (\E j \in 1 .. k - 1 : s[j] = x) \/ s[k] = x
      <4>1. 1 .. k = (1 .. k - 1) \cup {k}
        BY <1>1
      <4> QED
        BY <4>1
    <3>3. CASE s[k] \in S
      <4>1. kept[k] = Append(kept[k - 1], s[k])
        BY <3>1, <3>3
      <4>2. kept[k] \in Seq(T)
        BY <3>1, <4>1
      <4>3. \A x : x \in Elements(kept[k]) <=> x \in Elements(kept[k - 1]) \/ x = s[k]
        BY <3>1, <4>1, ElementsFacts
      <4>4. \A x : x \in Elements(kept[k]) <=>
                   (x \in S /\ \E j \in 1 .. k - 1 : s[j] = x) \/ x = s[k]
        BY <3>1, <4>3
      <4> QED
        BY <3>2, <3>3, <4>2, <4>4
    <3>4. CASE s[k] \notin S
      <4>1. kept[k] = kept[k - 1]
        BY <3>1, <3>4
      <4> QED
        BY <3>1, <3>2, <3>4, <4>1
    <3>5. Good(k)
      BY <3>3, <3>4
    <3>6. k \in 0 .. n
      BY <1>1
    <3> HIDE DEF Good
    <3> QED
      BY <3>5, <3>6
  <2> HIDE DEF G
  <2>3. \A k \in 0 .. n : k \in G
    BY <1>1, <2>1, <2>2, UpTo
  <2> HIDE DEF Good
  <2> QED
    BY <2>3 DEF G
<1>4. Good(n)
  <2>1. n \in 0 .. n
    BY <1>1
  <2> HIDE DEF Good
  <2> QED
    BY <1>3, <2>1
<1>5. \A x : x \in Elements(s) <=> \E j \in 1 .. n : s[j] = x
  BY DEF Elements, n
<1> QED
  BY <1>2, <1>4, <1>5

\* No element twice.
Once(s) == \A j, k \in 1 .. Len(s) : s[j] = s[k] => j = k

\* What is appended to a sequence without repetition must not be in it.
LEMMA AppendOnce ==
  ASSUME NEW T, NEW s \in Seq(T), NEW x \in T, Once(s), x \notin Elements(s)
  PROVE  Once(Append(s, x))
<1> DEFINE t == Append(s, x)
           n == Len(s)
<1>1. n \in Nat /\ Len(t) = n + 1 /\ t[n + 1] = x /\ \A k \in 1 .. n : t[k] = s[k]
  OBVIOUS
<1>2. \A k \in 1 .. n : s[k] # x
  BY DEF Elements
<1> HIDE DEF t, n
<1>3. ASSUME NEW j \in 1 .. n + 1, NEW k \in 1 .. n + 1, t[j] = t[k] PROVE j = k
  <2>1. CASE j \in 1 .. n /\ k \in 1 .. n
    BY <1>1, <1>3, <2>1 DEF Once, n
  <2>2. CASE j = n + 1 /\ k \in 1 .. n
    BY <1>1, <1>2, <1>3, <2>2
  <2>3. CASE j \in 1 .. n /\ k = n + 1
    BY <1>1, <1>2, <1>3, <2>3
  <2> QED
    BY <1>1, <2>1, <2>2, <2>3
<1>4. Once(t)
  BY <1>1, <1>3 DEF Once
<1> QED
  BY <1>4 DEF t

\* Taking elements out of a list repeats none.
LEMMA KeepOnce ==
  ASSUME NEW T, NEW s \in Seq(T), NEW S, Once(s)
  PROVE  Once(Keep(s, S))
<1> DEFINE n == Len(s)
           next(k, x) == IF s[k] \in S THEN Append(x, s[k]) ELSE x
<1>1. n \in Nat /\ \A k \in 1 .. n : s[k] \in T
  OBVIOUS
<1>2. PICK kept : /\ kept[0] = <<>>
                  /\ \A k \in 1 .. n : kept[k] = next(k, kept[k - 1])
                  /\ Keep(s, S) = kept[n]
  BY KeptSteps
<1> DEFINE Good(k) ==
      /\ kept[k] \in Seq(T) /\ Once(kept[k])
      /\ \A x \in Elements(kept[k]) : \E j \in 1 .. k : s[j] = x
<1>3. \A j, k \in 1 .. n : s[j] = s[k] => j = k
  BY DEF Once
<1> HIDE DEF n
<1>4. \A k \in 0 .. n : Good(k)
  <2> DEFINE G == {k \in 0 .. n : Good(k)}
  <2>1. 0 \in G
    <3>1. Elements(<<>>) = {} /\ Once(<<>>)
      BY DEF Elements, Once
    <3>2. <<>> \in Seq(T)
      OBVIOUS
    <3>3. Good(0)
      BY <1>2, <3>1, <3>2
    <3> HIDE DEF Good
    <3> QED
      BY <1>1, <3>3
  <2>2. ASSUME NEW k \in 1 .. n, k - 1 \in G PROVE k \in G
    <3>1. Good(k - 1) /\ kept[k] = next(k, kept[k - 1]) /\ s[k] \in T
      BY <1>1, <1>2, <2>2
    <3>2. 1 .. k - 1 \subseteq 1 .. k /\ 1 .. k - 1 \subseteq 1 .. n /\ k \in 1 .. k /\ k \notin 1 .. k - 1
      BY <1>1
    <3>3. CASE s[k] \in S
      <4>1. kept[k] = Append(kept[k - 1], s[k])
        BY <3>1, <3>3
      <4>2. kept[k] \in Seq(T)
        BY <3>1, <4>1
      <4>3. \A x : x \in Elements(kept[k]) <=> x \in Elements(kept[k - 1]) \/ x = s[k]
        BY <3>1, <4>1, ElementsFacts
      <4>4. s[k] \notin Elements(kept[k - 1])
        BY <1>3, <3>1, <3>2
      <4>5. Once(kept[k])
        BY <3>1, <4>1, <4>4, AppendOnce
      <4>6. \A x \in Elements(kept[k]) : \E j \in 1 .. k : s[j] = x
        BY <3>1, <3>2, <4>3
      <4> QED
        BY <4>2, <4>5, <4>6
    <3>4. CASE s[k] \notin S
      <4>1. kept[k] = kept[k - 1]
        BY <3>1, <3>4
      <4> QED
        BY <3>1, <3>2, <4>1
    <3>5. Good(k)
      BY <3>3, <3>4
    <3>6. k \in 0 .. n
      BY <1>1
    <3> HIDE DEF Good
    <3> QED
      BY <3>5, <3>6
  <2> HIDE DEF G
  <2>3. \A k \in 0 .. n : k \in G
    BY <1>1, <2>1, <2>2, UpTo
  <2> HIDE DEF Good
  <2> QED
    BY <2>3 DEF G
<1>5. Good(n)
  <2>1. n \in 0 .. n
    BY <1>1
  <2> HIDE DEF Good
  <2> QED
    BY <1>4, <2>1
<1> QED
  BY <1>2, <1>5

\* Taking elements out of a list leaves the others in their order.
LEMMA KeepOrder ==
  ASSUME NEW T, NEW s \in Seq(T), NEW S
  PROVE  \A a, b \in 1 .. Len(Keep(s, S)) : a < b =>
           \E c, d \in 1 .. Len(s) : c < d /\ s[c] = Keep(s, S)[a] /\ s[d] = Keep(s, S)[b]
<1> DEFINE n == Len(s)
           next(k, x) == IF s[k] \in S THEN Append(x, s[k]) ELSE x
<1>1. n \in Nat /\ \A k \in 1 .. n : s[k] \in T
  OBVIOUS
<1>2. PICK kept : /\ kept[0] = <<>>
                  /\ \A k \in 1 .. n : kept[k] = next(k, kept[k - 1])
                  /\ Keep(s, S) = kept[n]
  BY KeptSteps
<1> DEFINE Ordered(k, x) ==
             \A a, b \in 1 .. Len(x) : a < b =>
               \E c, d \in 1 .. k : c < d /\ s[c] = x[a] /\ s[d] = x[b]
           Has(k, x) == \A a \in 1 .. Len(x) : \E j \in 1 .. k : s[j] = x[a]
           Good(k) == kept[k] \in Seq(T) /\ Has(k, kept[k]) /\ Ordered(k, kept[k])
<1> HIDE DEF n
<1>3. \A k \in 0 .. n : Good(k)
  <2> DEFINE G == {k \in 0 .. n : Good(k)}
  <2>1. 0 \in G
    <3>1. <<>> \in Seq(T) /\ 1 .. Len(<<>>) = {}
      OBVIOUS
    <3>2. Good(0)
      BY <1>2, <3>1
    <3> HIDE DEF Good
    <3> QED
      BY <1>1, <3>2
  <2>2. ASSUME NEW k \in 1 .. n, k - 1 \in G PROVE k \in G
    <3>1. Good(k - 1) /\ kept[k] = next(k, kept[k - 1]) /\ s[k] \in T
      BY <1>1, <1>2, <2>2
    <3>2. 1 .. k - 1 \subseteq 1 .. k /\ k \in 1 .. k /\ \A j \in 1 .. k - 1 : j < k
      BY <1>1
    <3>3. CASE s[k] \in S
      <4> DEFINE x == kept[k - 1]
                 y == kept[k]
                 m == Len(x)
      <4>1. x \in Seq(T) /\ y = Append(x, s[k])
        BY <3>1, <3>3
      <4>2. /\ y \in Seq(T) /\ m \in Nat /\ Len(y) = m + 1 /\ y[m + 1] = s[k]
            /\ \A a \in 1 .. m : y[a] = x[a]
        BY <3>1, <4>1
      <4>3. /\ \A a \in 1 .. m : \E j \in 1 .. k - 1 : s[j] = x[a]
            /\ \A a, b \in 1 .. m : a < b =>
                 \E c, d \in 1 .. k - 1 : c < d /\ s[c] = x[a] /\ s[d] = x[b]
        BY <3>1
      <4> HIDE DEF x, y, m
      <4>4. ASSUME NEW a \in 1 .. m + 1 PROVE \E j \in 1 .. k : s[j] = y[a]
        <5>1. CASE a \in 1 .. m
          <6>1. PICK j \in 1 .. k - 1 : s[j] = x[a]
            BY <4>3, <5>1
          <6>2. y[a] = x[a] /\ j \in 1 .. k
            BY <3>2, <4>2, <5>1
          <6> QED
            BY <6>1, <6>2
        <5>2. CASE a = m + 1
          BY <3>2, <4>2, <5>2
        <5> QED
          BY <4>2, <5>1, <5>2
      <4>5. ASSUME NEW a \in 1 .. m + 1, NEW b \in 1 .. m + 1, a < b
            PROVE  \E c, d \in 1 .. k : c < d /\ s[c] = y[a] /\ s[d] = y[b]
        <5>1. a \in 1 .. m
          BY <4>2, <4>5
        <5>2. CASE b \in 1 .. m
          <6>1. PICK c \in 1 .. k - 1, d \in 1 .. k - 1 : c < d /\ s[c] = x[a] /\ s[d] = x[b]
            BY <4>3, <4>5, <5>1, <5>2
          <6> QED
            BY <3>2, <4>2, <5>1, <5>2, <6>1
        <5>3. CASE b = m + 1
          <6>1. PICK c \in 1 .. k - 1 : s[c] = x[a]
            BY <4>3, <5>1
          <6>2. c < k /\ c \in 1 .. k
            BY <3>2
          <6> QED
            BY <3>2, <4>2, <5>1, <5>3, <6>1, <6>2
        <5> QED
          BY <4>2, <5>2, <5>3
      <4>6. Len(y) = m + 1 /\ y \in Seq(T)
        BY <4>2
      <4>7. 1 .. Len(y) = 1 .. m + 1
        BY <4>6
      <4>8. Has(k, y)
        <5> SUFFICES ASSUME NEW a \in 1 .. Len(y) PROVE \E j \in 1 .. k : s[j] = y[a]
          OBVIOUS
        <5>1. a \in 1 .. m + 1
          BY <4>7, Zenon
        <5> QED
          BY <4>4, <5>1, Zenon
      <4>9. Ordered(k, y)
        <5> SUFFICES ASSUME NEW a \in 1 .. Len(y), NEW b \in 1 .. Len(y), a < b
                     PROVE  \E c, d \in 1 .. k : c < d /\ s[c] = y[a] /\ s[d] = y[b]
          OBVIOUS
        <5>1. a \in 1 .. m + 1 /\ b \in 1 .. m + 1
          BY <4>7, Zenon
        <5> QED
          BY <4>5, <5>1, Zenon
      <4> HIDE DEF Has, Ordered
      <4> QED
        BY <4>6, <4>8, <4>9 DEF y
    <3>4. CASE s[k] \notin S
      <4> DEFINE x == kept[k - 1]
      <4>1. kept[k] = x /\ x \in Seq(T) /\ Has(k - 1, x) /\ Ordered(k - 1, x)
        BY <3>1, <3>4
      <4> HIDE DEF x
      <4>2. Has(k, x)
        BY <3>2, <4>1
      <4>3. Ordered(k, x)
        <5> SUFFICES ASSUME NEW a \in 1 .. Len(x), NEW b \in 1 .. Len(x), a < b
                     PROVE  \E c, d \in 1 .. k : c < d /\ s[c] = x[a] /\ s[d] = x[b]
          OBVIOUS
        <5>1. PICK c \in 1 .. k - 1, d \in 1 .. k - 1 : c < d /\ s[c] = x[a] /\ s[d] = x[b]
          BY <4>1
        <5> QED
          BY <3>2, <5>1
      <4> HIDE DEF Has, Ordered
      <4> QED
        BY <4>1, <4>2, <4>3
    <3>5. Good(k)
      BY <3>3, <3>4
    <3>6. k \in 0 .. n
      BY <1>1
    <3> HIDE DEF Good
    <3> QED
      BY <3>5, <3>6
  <2> HIDE DEF G
  <2>3. \A k \in 0 .. n : k \in G
    BY <1>1, <2>1, <2>2, UpTo
  <2> HIDE DEF Good
  <2> QED
    BY <2>3 DEF G
<1>4. Good(n)
  <2>1. n \in 0 .. n
    BY <1>1
  <2> HIDE DEF Good
  <2> QED
    BY <1>3, <2>1
<1> QED
  BY <1>2, <1>4 DEF n
-----------------------------------------------------------------------------
(* What open orders hold. *)

\* The fields of an order that exists have the types of its request.
LEMMA OrderFacts ==
  ASSUME TypeOK, NEW o \in OrderIds
  PROVE  /\ IsOpen(o) => orders[o] # NoOrder
         /\ orders[o] # NoOrder =>
              /\ orders[o] \in Order
              /\ orders[o].req \in Request /\ orders[o].account \in Accounts
              /\ orders[o].filled \in Nat /\ orders[o].req.size \in Nat
              /\ orders[o].req.inst \in Instruments /\ orders[o].req.side \in Sides
              /\ orders[o].req.limit \in Nat /\ Cur(o) \in Currencies
<1>1. orders[o] \in Order \cup {NoOrder}
  BY DEF TypeOK
<1>2. IsOpen(o) => orders[o] # NoOrder
  BY DEF IsOpen, NoOrder
<1>3. ASSUME orders[o] # NoOrder
      PROVE  /\ orders[o] \in Order
             /\ orders[o].req \in Request /\ orders[o].account \in Accounts
             /\ orders[o].filled \in Nat
    BY <1>1, <1>3 DEF Order
<1>4. ASSUME NEW r \in Request
      PROVE  /\ r.size \in Nat /\ r.inst \in Instruments /\ r.side \in Sides
             /\ r.limit \in Nat /\ CurrencyOf[r.inst] \in Currencies
  BY InstrumentAssumption DEF Request, Sides
<1> QED
  BY <1>2, <1>3, <1>4 DEF Cur

\* What every order holds of an account's cash or units is a natural.
HeldTyped ==
  \A a \in Accounts :
    /\ \A c \in Currencies : HeldCash(a, c) \in [1 .. MaxOrders -> Nat]
    /\ \A i \in Instruments : HeldQty(a, i) \in [1 .. MaxOrders -> Nat]

\* It is one in every state of the right type, before and after a step.
LEMMA HeldFacts == TypeOK => HeldTyped
<1> SUFFICES ASSUME TypeOK, NEW a \in Accounts
             PROVE  /\ \A c \in Currencies : HeldCash(a, c) \in [1 .. MaxOrders -> Nat]
                    /\ \A i \in Instruments : HeldQty(a, i) \in [1 .. MaxOrders -> Nat]
  BY DEF HeldTyped
<1>1. ASSUME NEW c \in Currencies PROVE HeldCash(a, c) \in [1 .. MaxOrders -> Nat]
  <2>1. ASSUME NEW o \in OrderIds, orders[o] # NoOrder
        PROVE  BuyReservePerUnit(orders[o].req.limit) * left[o] \in Nat
    <3>1. orders[o].req.limit \in Nat /\ left[o] \in Nat
      BY <2>1, OrderFacts DEF TypeOK
    <3> QED
      BY <3>1, ReservationCovers DEF TypeOK
  <2> QED
    BY <2>1 DEF HeldCash, OrderIds
<1>2. ASSUME NEW i \in Instruments PROVE HeldQty(a, i) \in [1 .. MaxOrders -> Nat]
  BY DEF HeldQty, OrderIds, TypeOK
<1> QED
  BY <1>1, <1>2

\* HeldFacts about the next state.
LEMMA HeldFactsNext == TypeOK' => HeldTyped'
BY HeldFacts, PTL

\* An order that does not rest, or that no longer exists, holds nothing: a change
\* of such orders leaves what accounts hold as it is.
LEMMA HeldUnchanged ==
  ASSUME TypeOK, orders' \in [OrderIds -> Order \cup {NoOrder}], left' = left,
         \A o \in OrderIds : left[o] > 0 =>
           /\ orders[o] # NoOrder /\ orders'[o] # NoOrder
           /\ orders'[o].req = orders[o].req /\ orders'[o].account = orders[o].account
  PROVE  \A a \in Accounts : /\ \A c \in Currencies : HeldCash(a, c)' = HeldCash(a, c)
                             /\ \A i \in Instruments : HeldQty(a, i)' = HeldQty(a, i)
<1>1. ASSUME NEW o \in OrderIds, orders[o] # NoOrder, left[o] = 0
      PROVE  BuyReservePerUnit(orders[o].req.limit) * left[o] = 0
  <2>1. orders[o].req.limit \in Nat
    BY <1>1, OrderFacts
  <2>2. BuyReservePerUnit(orders[o].req.limit) \in Nat
    BY <2>1, ReservationCovers DEF TypeOK
  <2> QED
    BY <1>1, <2>2
<1>2. ASSUME NEW o \in OrderIds, orders'[o] # NoOrder, left[o] = 0
      PROVE  BuyReservePerUnit(orders'[o].req.limit) * left[o] = 0
  <2>1. orders'[o].req.limit \in Nat
    <3>1. orders'[o] \in Order
      BY <1>2
    <3> QED
      BY <3>1 DEF Order, Request
  <2>2. BuyReservePerUnit(orders'[o].req.limit) \in Nat
    BY <2>1, ReservationCovers DEF TypeOK
  <2> QED
    BY <1>2, <2>2
<1>3. \A o \in OrderIds : left[o] \in Nat /\ left'[o] = left[o]
  BY DEF TypeOK
<1>4. ASSUME NEW a \in Accounts, NEW c \in Currencies PROVE HeldCash(a, c)' = HeldCash(a, c)
  <2>1. ASSUME NEW o \in OrderIds, left[o] = 0 PROVE HeldCash(a, c)'[o] = HeldCash(a, c)[o]
    BY <1>1, <1>2, <1>3, <2>1 DEF HeldCash
  <2>2. ASSUME NEW o \in OrderIds, left[o] > 0 PROVE HeldCash(a, c)'[o] = HeldCash(a, c)[o]
    BY <1>3, <2>2 DEF HeldCash, Cur, BuyReservePerUnit
  <2>3. \A o \in OrderIds : HeldCash(a, c)'[o] = HeldCash(a, c)[o]
    BY <1>3, <2>1, <2>2
  <2> QED
    BY <2>3 DEF HeldCash
<1>5. ASSUME NEW a \in Accounts, NEW i \in Instruments PROVE HeldQty(a, i)' = HeldQty(a, i)
  <2>1. \A o \in OrderIds : HeldQty(a, i)'[o] = HeldQty(a, i)[o]
    BY <1>3 DEF HeldQty
  <2> QED
    BY <2>1 DEF HeldQty
<1> QED
  BY <1>4, <1>5

\* Such a step keeps ReservationsMatch when it leaves the reservations alone too.
LEMMA NothingChanges ==
  ASSUME TypeOK, TypeOK', ReservationsMatch, UNCHANGED <<reserved, held, left>>,
         \A o \in OrderIds : left[o] > 0 =>
           /\ orders[o] # NoOrder /\ orders'[o] # NoOrder
           /\ orders'[o].req = orders[o].req /\ orders'[o].account = orders[o].account
  PROVE  ReservationsMatch'
<1>1. \A a \in Accounts : /\ \A c \in Currencies : HeldCash(a, c)' = HeldCash(a, c)
                          /\ \A i \in Instruments : HeldQty(a, i)' = HeldQty(a, i)
  <2>1. orders' \in [OrderIds -> Order \cup {NoOrder}]
    BY DEF TypeOK
  <2> QED
    BY <2>1, HeldUnchanged
<1>2. reserved' = reserved /\ held' = held
  OBVIOUS
<1>3. ASSUME NEW a \in Accounts, NEW c \in Currencies
      PROVE  reserved'[a][c] = Total(HeldCash(a, c)', MaxOrders)
  <2>1. reserved[a][c] = Total(HeldCash(a, c), MaxOrders)
    BY DEF ReservationsMatch
  <2> QED
    BY <1>1, <1>2, <2>1
<1>4. ASSUME NEW a \in Accounts, NEW i \in Instruments
      PROVE  held'[a][i] = Total(HeldQty(a, i)', MaxOrders)
  <2>1. held[a][i] = Total(HeldQty(a, i), MaxOrders)
    BY DEF ReservationsMatch
  <2> QED
    BY <1>1, <1>2, <2>1
<1> QED
  BY <1>3, <1>4 DEF ReservationsMatch

\* A step that gives one order another remainder, or adds it, changes the sums by
\* what that order holds more or less.
LEMMA OneOrderChanges ==
  ASSUME TypeOK, TypeOK', NEW o \in OrderIds, orders'[o] # NoOrder,
         orders[o] = NoOrder => left[o] = 0,
         orders[o] # NoOrder =>
           orders'[o].req = orders[o].req /\ orders'[o].account = orders[o].account,
         \A p \in OrderIds \ {o} : orders'[p] = orders[p] /\ left'[p] = left[p]
  PROVE  LET a == orders'[o].account
             req == orders'[o].req
             unit == BuyReservePerUnit(req.limit)
         IN  /\ \A b \in Accounts, c \in Currencies :
                  Total(HeldCash(b, c)', MaxOrders) =
                    IF req.side = "buy" /\ b = a /\ c = CurrencyOf[req.inst]
                    THEN Total(HeldCash(b, c), MaxOrders) - unit * left[o] + unit * left'[o]
                    ELSE Total(HeldCash(b, c), MaxOrders)
             /\ req.side = "buy" =>
                  unit * left[o] <= Total(HeldCash(a, CurrencyOf[req.inst]), MaxOrders)
             /\ \A b \in Accounts, i \in Instruments :
                  Total(HeldQty(b, i)', MaxOrders) =
                    IF req.side = "sell" /\ b = a /\ i = req.inst
                    THEN Total(HeldQty(b, i), MaxOrders) - left[o] + left'[o]
                    ELSE Total(HeldQty(b, i), MaxOrders)
             /\ req.side = "sell" => left[o] <= Total(HeldQty(a, req.inst), MaxOrders)
<1> DEFINE a == orders'[o].account
           req == orders'[o].req
           unit == BuyReservePerUnit(req.limit)
           cur == CurrencyOf[req.inst]
<1>1. /\ a \in Accounts /\ req.side \in Sides /\ req.inst \in Instruments
      /\ req.limit \in Nat /\ cur \in Currencies
  <2>1. orders'[o] \in Order
    BY DEF TypeOK
  <2> QED
    BY <2>1, InstrumentAssumption DEF Order, Request, Sides
<1>2. left[o] \in Nat /\ left'[o] \in Nat
  BY DEF TypeOK
<1>3. unit \in Nat /\ unit * left[o] \in Nat /\ unit * left'[o] \in Nat
  <2>1. unit \in Nat
    BY <1>1, ReservationCovers DEF TypeOK
  <2> HIDE DEF unit
  <2> QED
    BY <1>2, <2>1, Products
<1>4. HeldTyped /\ HeldTyped'
  BY HeldFacts, HeldFactsNext
<1>5. MaxOrders \in Nat /\ o \in 1 .. MaxOrders
  BY SizeAssumption DEF OrderIds
<1>6. ASSUME NEW b \in Accounts, NEW c \in Currencies
      PROVE  /\ HeldCash(b, c)[o] =
                  IF req.side = "buy" /\ b = a /\ c = cur THEN unit * left[o] ELSE 0
             /\ HeldCash(b, c)'[o] =
                  IF req.side = "buy" /\ b = a /\ c = cur THEN unit * left'[o] ELSE 0
             /\ \A p \in 1 .. MaxOrders : p # o => HeldCash(b, c)'[p] = HeldCash(b, c)[p]
  <2>1. CASE orders[o] = NoOrder
    <3>1. unit * left[o] = 0
      <4> HIDE DEF unit
      <4> QED
        BY <1>3, <2>1
    <3> QED
      BY <2>1, <3>1 DEF HeldCash, Cur, OrderIds
  <2>2. CASE orders[o] # NoOrder
    BY <2>2 DEF HeldCash, Cur, OrderIds
  <2> QED
    BY <2>1, <2>2
<1>7. ASSUME NEW b \in Accounts, NEW i \in Instruments
      PROVE  /\ HeldQty(b, i)[o] =
                  IF req.side = "sell" /\ b = a /\ i = req.inst THEN left[o] ELSE 0
             /\ HeldQty(b, i)'[o] =
                  IF req.side = "sell" /\ b = a /\ i = req.inst THEN left'[o] ELSE 0
             /\ \A p \in 1 .. MaxOrders : p # o => HeldQty(b, i)'[p] = HeldQty(b, i)[p]
  <2>1. CASE orders[o] = NoOrder
    BY <2>1 DEF HeldQty, OrderIds
  <2>2. CASE orders[o] # NoOrder
    BY <2>2 DEF HeldQty, OrderIds
  <2> QED
    BY <2>1, <2>2
<1> HIDE DEF a, req, unit, cur
<1>8. ASSUME NEW b \in Accounts, NEW c \in Currencies
      PROVE  Total(HeldCash(b, c)', MaxOrders) =
               IF req.side = "buy" /\ b = a /\ c = cur
               THEN Total(HeldCash(b, c), MaxOrders) - unit * left[o] + unit * left'[o]
               ELSE Total(HeldCash(b, c), MaxOrders)
  <2> DEFINE f == HeldCash(b, c)
             g == HeldCash(b, c)'
  <2>1. f \in [1 .. MaxOrders -> Nat] /\ g \in [1 .. MaxOrders -> Nat]
    BY <1>4 DEF HeldTyped
  <2>2. \A p \in 1 .. MaxOrders : p # o => g[p] = f[p]
    BY <1>6
  <2> HIDE DEF f, g
  <2>3. Total(g, MaxOrders) = Total(f, MaxOrders) - f[o] + g[o]
    BY <1>5, <2>1, <2>2, TotalUpdate
  <2>4. Total(f, MaxOrders) \in Nat
    BY <1>5, <2>1, TotalType
  <2> QED
    BY <1>6, <2>3, <2>4 DEF f, g
<1>9. ASSUME NEW b \in Accounts, NEW i \in Instruments
      PROVE  Total(HeldQty(b, i)', MaxOrders) =
               IF req.side = "sell" /\ b = a /\ i = req.inst
               THEN Total(HeldQty(b, i), MaxOrders) - left[o] + left'[o]
               ELSE Total(HeldQty(b, i), MaxOrders)
  <2> DEFINE f == HeldQty(b, i)
             g == HeldQty(b, i)'
  <2>1. f \in [1 .. MaxOrders -> Nat] /\ g \in [1 .. MaxOrders -> Nat]
    BY <1>4 DEF HeldTyped
  <2>2. \A p \in 1 .. MaxOrders : p # o => g[p] = f[p]
    BY <1>7
  <2> HIDE DEF f, g
  <2>3. Total(g, MaxOrders) = Total(f, MaxOrders) - f[o] + g[o]
    BY <1>5, <2>1, <2>2, TotalUpdate
  <2>4. Total(f, MaxOrders) \in Nat
    BY <1>5, <2>1, TotalType
  <2> QED
    BY <1>7, <2>3, <2>4 DEF f, g
<1>10. req.side = "buy" => unit * left[o] <= Total(HeldCash(a, cur), MaxOrders)
  <2>1. HeldCash(a, cur) \in [1 .. MaxOrders -> Nat]
    BY <1>1, <1>4 DEF HeldTyped
  <2>2. HeldCash(a, cur)[o] <= Total(HeldCash(a, cur), MaxOrders)
    BY <1>5, <2>1, TotalBound
  <2> QED
    BY <1>1, <1>6, <2>2
<1>11. req.side = "sell" => left[o] <= Total(HeldQty(a, req.inst), MaxOrders)
  <2>1. HeldQty(a, req.inst) \in [1 .. MaxOrders -> Nat]
    BY <1>1, <1>4 DEF HeldTyped
  <2>2. HeldQty(a, req.inst)[o] <= Total(HeldQty(a, req.inst), MaxOrders)
    BY <1>5, <2>1, TotalBound
  <2> QED
    BY <1>1, <1>7, <2>2
<1> QED
  BY <1>8, <1>9, <1>10, <1>11 DEF a, req, unit, cur

-----------------------------------------------------------------------------
(* The invariant. *)

\* TypeOK in two halves: what fills and cancels change, and the rest.
PortfolioTypes ==
  /\ cash \in [Accounts -> [Currencies -> Int]]
  /\ reserved \in [Accounts -> [Currencies -> Nat]]
  /\ qty \in [Accounts -> [Instruments -> Int]]
  /\ held \in [Accounts -> [Instruments -> Nat]]
  /\ generation \in [Accounts -> 1 .. MaxGeneration + 1]
  /\ orders \in [OrderIds -> Order \cup {NoOrder}]
  /\ nextId \in 1 .. MaxOrders + 1
  /\ resting \in [Instruments -> Seq(OrderIds)]
  /\ left \in [OrderIds -> Nat]
MarketTypes ==
  /\ ahead \in [OrderIds -> Nat]
  /\ book \in [Instruments -> Levels]
  /\ fresh \in [Instruments -> BOOLEAN]
  /\ offset \in [Instruments -> Int]
  /\ depletion \in [Instruments -> Levels]
  /\ open \in [Instruments -> BOOLEAN]
  /\ schedule \in 1 .. Len(Schedules)
  /\ pass \in {Idle} \cup BookPass \cup TradePass \cup ExpirePass

\* Ids that were not handed out yet belong to no order.
UnusedIds == \A o \in OrderIds : o >= nextId => orders[o] = NoOrder

\* A loop has an order to visit, and visits orders that exist.
ToVisit ==
  IF pass.kind = "expire" THEN pass.ids
  ELSE IF pass.kind \in {"book", "trade"} THEN Elements(pass.todo) ELSE {}
PassOK ==
  /\ pass.kind \in {"book", "trade"} => pass.todo # <<>>
  /\ \A o \in ToVisit : o \in OrderIds /\ orders[o] # NoOrder

\* The inductive invariant, without and with the loop in progress. The sums of
\* ReservationsMatch are what makes NoOverdraft inductive: what an order holds is
\* part of what its account has reserved.
BooksOK ==
  TypeOK /\ OpenOrdersRest /\ ReservationsMatch /\ NoOverdraft /\ UnusedIds
IInv == BooksOK /\ PassOK

\* RestingIds is the set of a list's elements.
LEMMA RestingIdsFacts ==
  /\ \A i \in Instruments : RestingIds(i) = Elements(resting[i])
  /\ \A i \in Instruments : RestingIds(i)' = Elements(resting'[i])
BY DEF RestingIds, Elements

\* Whatever is open has a remainder; whatever is not open has none.
LEMMA RemainderFacts ==
  ASSUME BooksOK, NEW o \in OrderIds
  PROVE  /\ left[o] \in Nat
         /\ left[o] > 0 <=> IsOpen(o)
         /\ orders[o] = NoOrder => left[o] = 0
<1>1. left[o] \in Nat
  BY DEF BooksOK, TypeOK
<1>2. IsOpen(o) => left[o] > 0
  BY DEF BooksOK, OpenOrdersRest
<1>3. ~ IsOpen(o) => left[o] = 0
  BY DEF BooksOK, OpenOrdersRest
<1>4. orders[o] = NoOrder => ~ IsOpen(o)
  BY OrderFacts DEF BooksOK
<1> QED
  BY <1>1, <1>2, <1>3, <1>4

\* release gives back exactly what q units of an order held.
LEMMA ReleaseFacts ==
  ASSUME BooksOK, TypeOK', NEW o \in OrderIds, NEW q \in Nat, q <= left[o],
         orders[o] # NoOrder, orders'[o] # NoOrder,
         orders'[o].req = orders[o].req, orders'[o].account = orders[o].account,
         \A p \in OrderIds \ {o} : orders'[p] = orders[p] /\ left'[p] = left[p],
         left'[o] = left[o] - q, Release(o, q)
  PROVE  LET a == orders[o].account
             req == orders[o].req
         IN  /\ ReservationsMatch'
             /\ \A b \in Accounts, c \in Currencies :
                  reserved'[b][c] =
                    IF req.side = "buy" /\ b = a /\ c = CurrencyOf[req.inst]
                    THEN reserved[b][c] - BuyReservePerUnit(req.limit) * q ELSE reserved[b][c]
             /\ \A b \in Accounts, i \in Instruments :
                  held'[b][i] =
                    IF req.side = "sell" /\ b = a /\ i = req.inst
                    THEN held[b][i] - q ELSE held[b][i]
<1> DEFINE a == orders[o].account
           req == orders[o].req
           unit == BuyReservePerUnit(req.limit)
           cur == CurrencyOf[req.inst]
<1>1. /\ a \in Accounts /\ req.side \in Sides /\ req.inst \in Instruments
      /\ req.limit \in Nat /\ cur \in Currencies
  BY OrderFacts DEF BooksOK, Cur
<1>2. unit \in Nat /\ left[o] \in Nat
  BY <1>1, ReservationCovers DEF BooksOK, TypeOK
<1>3. /\ unit * q \in Nat /\ unit * q <= unit * left[o] /\ unit * left[o] \in Nat
      /\ unit * (left[o] - q) = unit * left[o] - unit * q
  <2> HIDE DEF unit
  <2>1. unit * q \in Nat /\ unit * q <= unit * left[o] /\ unit * left[o] \in Nat
    BY <1>2, Products
  <2>2. unit * (left[o] - q) = unit * left[o] - unit * q
    BY <1>2
  <2> QED
    BY <2>1, <2>2
<1>4. /\ \A b \in Accounts, c \in Currencies :
           Total(HeldCash(b, c)', MaxOrders) =
             IF req.side = "buy" /\ b = a /\ c = cur
             THEN Total(HeldCash(b, c), MaxOrders) - unit * left[o] + unit * left'[o]
             ELSE Total(HeldCash(b, c), MaxOrders)
      /\ req.side = "buy" => unit * left[o] <= Total(HeldCash(a, cur), MaxOrders)
      /\ \A b \in Accounts, i \in Instruments :
           Total(HeldQty(b, i)', MaxOrders) =
             IF req.side = "sell" /\ b = a /\ i = req.inst
             THEN Total(HeldQty(b, i), MaxOrders) - left[o] + left'[o]
             ELSE Total(HeldQty(b, i), MaxOrders)
      /\ req.side = "sell" => left[o] <= Total(HeldQty(a, req.inst), MaxOrders)
  <2>1. TypeOK /\ (orders[o] = NoOrder => left[o] = 0)
    BY DEF BooksOK
  <2> QED
    BY <2>1, OneOrderChanges
<1>5. /\ \A b \in Accounts, c \in Currencies :
           reserved[b][c] = Total(HeldCash(b, c), MaxOrders) /\ reserved[b][c] \in Nat
      /\ \A b \in Accounts, i \in Instruments :
           held[b][i] = Total(HeldQty(b, i), MaxOrders) /\ held[b][i] \in Nat
  BY DEF BooksOK, ReservationsMatch, TypeOK
<1>6. CASE req.side = "buy"
  <2>1. reserved' = [reserved EXCEPT ![a][cur] = Pos(@ - unit * q)] /\ held' = held
    BY <1>6 DEF Release
  <2> HIDE DEF a, req, unit, cur
  <2>2. Pos(reserved[a][cur] - unit * q) = reserved[a][cur] - unit * q
    BY <1>1, <1>3, <1>4, <1>5, <1>6, PosFacts
  <2>3. \A b \in Accounts, c \in Currencies :
          reserved'[b][c] = IF b = a /\ c = cur THEN reserved[b][c] - unit * q ELSE reserved[b][c]
    <3>1. reserved \in [Accounts -> [Currencies -> Nat]]
      BY DEF BooksOK, TypeOK
    <3> QED
      BY <1>1, <2>1, <2>2, <3>1
  <2>4. ReservationsMatch'
    BY <1>1, <1>3, <1>4, <1>5, <1>6, <2>1, <2>3 DEF ReservationsMatch
  <2> QED
    BY <1>6, <2>1, <2>3, <2>4 DEF a, req, unit, cur
<1>7. CASE req.side = "sell"
  <2>1. held' = [held EXCEPT ![a][req.inst] = Pos(@ - q)] /\ reserved' = reserved
    BY <1>7 DEF Release
  <2> HIDE DEF a, req, unit, cur
  <2>2. Pos(held[a][req.inst] - q) = held[a][req.inst] - q
    BY <1>1, <1>2, <1>4, <1>5, <1>7, PosFacts
  <2>3. \A b \in Accounts, i \in Instruments :
          held'[b][i] = IF b = a /\ i = req.inst THEN held[b][i] - q ELSE held[b][i]
    <3>1. held \in [Accounts -> [Instruments -> Nat]]
      BY DEF BooksOK, TypeOK
    <3> QED
      BY <1>1, <2>1, <2>2, <3>1
  <2>4. ReservationsMatch'
    BY <1>1, <1>2, <1>4, <1>5, <1>7, <2>1, <2>3 DEF ReservationsMatch
  <2> QED
    BY <1>7, <2>1, <2>3, <2>4 DEF a, req, unit, cur
<1> QED
  BY <1>1, <1>6, <1>7 DEF Sides

\* Cash and units stay covered when a fill of q resting units pays no more than
\* what its reservation releases.
LEMMA FillIsCovered ==
  ASSUME BooksOK, NEW o \in OrderIds, NEW q \in Nat, orders[o] # NoOrder
  PROVE  LET req == orders[o].req
             n == q * req.limit
         IN  /\ n \in Nat
             /\ CashLeg(req.side, n) \in Int
             /\ req.side = "buy" => - CashLeg(req.side, n) <= BuyReservePerUnit(req.limit) * q
             /\ req.side = "sell" => CashLeg(req.side, n) >= 0
<1>1. orders[o].req.limit \in Nat /\ orders[o].req.side \in Sides
  BY OrderFacts DEF BooksOK
<1>2. schedule \in 1 .. Len(Schedules)
  BY DEF BooksOK, TypeOK
<1>3. q * orders[o].req.limit \in Nat
  BY <1>1, Products
<1>4. /\ CashLeg("buy", q * orders[o].req.limit) \in Int
      /\ CashLeg("sell", q * orders[o].req.limit) \in Nat
  BY <1>2, <1>3, CashLegFacts
<1>5. - CashLeg("buy", q * orders[o].req.limit) <= BuyReservePerUnit(orders[o].req.limit) * q
  BY <1>1, <1>2, ReservationCovers
<1> QED
  BY <1>1, <1>3, <1>4, <1>5 DEF Sides

\* An order whose status, or whose fill and status, are replaced.
LEMMA OrderUpdate ==
  ASSUME NEW x \in Order, NEW status, NEW n
  PROVE  /\ [x EXCEPT !.status = status] =
              [req |-> x.req, account |-> x.account, status |-> status, filled |-> x.filled]
         /\ [x EXCEPT !.filled = n, !.status = status] =
              [req |-> x.req, account |-> x.account, status |-> status, filled |-> n]
<1>1. PICK r \in Request, a \in Accounts, s \in Statuses, m \in Nat :
        x = [req |-> r, account |-> a, status |-> s, filled |-> m]
  BY DEF Order
<1>2. [x EXCEPT !.status = status] = [req |-> r, account |-> a, status |-> status, filled |-> m]
  BY <1>1
<1>3. [x EXCEPT !.filled = n] = [req |-> r, account |-> a, status |-> s, filled |-> n]
  BY <1>1
<1>4. [x EXCEPT !.filled = n, !.status = status] =
        [req |-> r, account |-> a, status |-> status, filled |-> n]
  <2>1. [x EXCEPT !.filled = n, !.status = status] = [[x EXCEPT !.filled = n] EXCEPT !.status = status]
    OBVIOUS
  <2>2. [[req |-> r, account |-> a, status |-> s, filled |-> n] EXCEPT !.status = status] =
          [req |-> r, account |-> a, status |-> status, filled |-> n]
    OBVIOUS
  <2> QED
    BY <1>3, <2>1, <2>2
<1> QED
  BY <1>1, <1>2, <1>4

\* A fill of a resting order preserves the invariant.
LEMMA MakerFillKeeps ==
  ASSUME BooksOK, MarketTypes', NEW o \in OrderIds, NEW q \in Nat, q > 0, q <= left[o],
         MakerFill(o, q)
  PROVE  BooksOK' /\ \A p \in OrderIds : orders[p] # NoOrder => orders'[p] # NoOrder
<1> DEFINE a == orders[o].account
           req == orders[o].req
           i == req.inst
           cur == CurrencyOf[i]
           leg == CashLeg(req.side, q * req.limit)
           unit == BuyReservePerUnit(req.limit)
           status == IF left[o] = q THEN "filled" ELSE "open"
           filled == [req |-> req, account |-> a, status |-> status,
                      filled |-> orders[o].filled + q]
<1>1. TypeOK /\ left[o] \in Nat /\ IsOpen(o) /\ orders[o] # NoOrder
  BY RemainderFacts, OrderFacts DEF BooksOK
<1>2. /\ orders[o] \in Order /\ req \in Request /\ a \in Accounts
      /\ orders[o].filled \in Nat /\ req.size \in Nat
      /\ i \in Instruments /\ req.side \in Sides /\ req.limit \in Nat /\ cur \in Currencies
  BY <1>1, OrderFacts DEF Cur
<1>3. left[o] = req.size - orders[o].filled
  BY <1>1 DEF BooksOK, OpenOrdersRest
<1>4. orders' = [orders EXCEPT ![o] = filled]
  <2>1. orders' = [orders EXCEPT ![o].filled = @ + q, ![o].status = status]
    BY DEF MakerFill
  <2>2. [orders[o] EXCEPT !.filled = @ + q, !.status = status] = filled
    BY <1>2, OrderUpdate, ZenonT(30)
  <2>3. orders \in [OrderIds -> Order \cup {NoOrder}]
    BY <1>1 DEF TypeOK
  <2> HIDE DEF status, filled, a, req
  <2>4. orders' = [orders EXCEPT ![o] = [orders[o] EXCEPT !.filled = @ + q, !.status = status]]
    BY <2>1, <2>3
  <2> QED
    BY <2>2, <2>4
<1>5. filled \in Order /\ filled # NoOrder
  <2>1. filled \in Order
    BY <1>2 DEF Order, Statuses
  <2>2. filled # NoOrder
    BY DEF NoOrder
  <2> QED
    BY <2>1, <2>2
<1>6. /\ orders'[o] = filled
      /\ \A p \in OrderIds \ {o} : orders'[p] = orders[p]
      /\ orders' \in [OrderIds -> Order \cup {NoOrder}]
  <2> HIDE DEF filled
  <2> QED
    BY <1>1, <1>4, <1>5 DEF TypeOK
<1>7. /\ left' = [left EXCEPT ![o] = left[o] - q]
      /\ cash' = [cash EXCEPT ![a][cur] = @ + leg]
      /\ qty' = [qty EXCEPT ![a][i] = @ + QtyLeg(req.side, q)]
      /\ resting' = [resting EXCEPT ![i] =
                       IF left[o] = q THEN Keep(resting[i], OrderIds \ {o}) ELSE resting[i]]
      /\ Release(o, q)
      /\ generation' = generation /\ nextId' = nextId
  BY DEF MakerFill, Settle
<1>8. leg \in Int /\ (req.side = "buy" => - leg <= unit * q) /\ (req.side = "sell" => leg >= 0)
  BY <1>1, FillIsCovered
<1>9. unit \in Nat /\ unit * q \in Nat
  BY <1>1, <1>2, ReservationCovers DEF TypeOK
<1>10. /\ left' \in [OrderIds -> Nat] /\ left'[o] = left[o] - q
       /\ \A p \in OrderIds \ {o} : left'[p] = left[p]
  BY <1>1, <1>7 DEF TypeOK
<1> HIDE DEF leg, unit
<1>11. /\ cash' \in [Accounts -> [Currencies -> Int]]
       /\ \A b \in Accounts, c \in Currencies :
            cash'[b][c] = IF b = a /\ c = cur THEN cash[b][c] + leg ELSE cash[b][c]
  <2>1. cash \in [Accounts -> [Currencies -> Int]]
    BY <1>1 DEF TypeOK
  <2> HIDE DEF a, cur
  <2> QED
    BY <1>2, <1>7, <1>8, <2>1
<1>12. QtyLeg(req.side, q) = IF req.side = "buy" THEN q ELSE - q
  BY DEF QtyLeg
<1>13. /\ qty' \in [Accounts -> [Instruments -> Int]]
       /\ \A b \in Accounts, j \in Instruments :
            qty'[b][j] = IF b = a /\ j = i
                         THEN IF req.side = "buy" THEN qty[b][j] + q ELSE qty[b][j] - q
                         ELSE qty[b][j]
  <2>1. qty \in [Accounts -> [Instruments -> Int]]
    BY <1>1 DEF TypeOK
  <2> HIDE DEF a, i, req
  <2>2. QtyLeg(req.side, q) \in Int
    BY <1>12
  <2> QED
    BY <1>2, <1>7, <1>12, <2>1, <2>2
<1>14. /\ reserved' \in [Accounts -> [Currencies -> Nat]]
       /\ held' \in [Accounts -> [Instruments -> Nat]]
  <2>1. reserved \in [Accounts -> [Currencies -> Nat]] /\ held \in [Accounts -> [Instruments -> Nat]]
    BY <1>1 DEF TypeOK
  <2>2. /\ req.side = "buy" =>
             reserved' = [reserved EXCEPT ![a][cur] = Pos(@ - unit * q)] /\ held' = held
        /\ req.side # "buy" =>
             held' = [held EXCEPT ![a][i] = Pos(@ - q)] /\ reserved' = reserved
    BY <1>7 DEF Release, unit
  <2> HIDE DEF a, cur, i, req
  <2>3. Pos(reserved[a][cur] - unit * q) \in Nat /\ Pos(held[a][i] - q) \in Nat
    BY <1>2, <1>9, <2>1, PosFacts
  <2>4. CASE req.side = "buy"
    BY <1>2, <2>1, <2>2, <2>3, <2>4
  <2>5. CASE req.side # "buy"
    <3>1. held' = [held EXCEPT ![a] = [held[a] EXCEPT ![i] = Pos(held[a][i] - q)]]
      BY <2>2, <2>5
    <3>2. held[a] \in [Instruments -> Nat]
      BY <1>2, <2>1
    <3>3. [held[a] EXCEPT ![i] = Pos(held[a][i] - q)] \in [Instruments -> Nat]
      BY <2>3, <3>2
    <3>4. held' \in [Accounts -> [Instruments -> Nat]]
      BY <2>1, <3>1, <3>3
    <3> QED
      BY <2>1, <2>2, <2>5, <3>4
  <2> QED
    BY <2>4, <2>5
<1>15. resting' \in [Instruments -> Seq(OrderIds)]
  <2>1. resting \in [Instruments -> Seq(OrderIds)]
    BY <1>1 DEF TypeOK
  <2>2. Keep(resting[i], OrderIds \ {o}) \in Seq(OrderIds)
    BY <1>2, <2>1, KeepFacts
  <2> HIDE DEF i
  <2> QED
    BY <1>7, <2>1, <2>2
<1>16. TypeOK'
  <2>1. generation' \in [Accounts -> 1 .. MaxGeneration + 1] /\ nextId' \in 1 .. MaxOrders + 1
    BY <1>1, <1>7 DEF TypeOK
  <2> QED
    BY <1>6, <1>10, <1>11, <1>13, <1>14, <1>15, <2>1 DEF TypeOK, MarketTypes
<1>17. /\ ReservationsMatch'
       /\ \A b \in Accounts, c \in Currencies :
            reserved'[b][c] = IF req.side = "buy" /\ b = a /\ c = cur
                              THEN reserved[b][c] - unit * q ELSE reserved[b][c]
       /\ \A b \in Accounts, j \in Instruments :
            held'[b][j] = IF req.side = "sell" /\ b = a /\ j = i
                          THEN held[b][j] - q ELSE held[b][j]
  <2>1. orders'[o].req = orders[o].req /\ orders'[o].account = orders[o].account
    BY <1>6
  <2>2. orders'[o] # NoOrder
    BY <1>5, <1>6
  <2> QED
    BY <1>1, <1>6, <1>7, <1>10, <1>16, <2>1, <2>2, ReleaseFacts DEF unit
<1>18. NoOverdraft'
  <2>1. ASSUME NEW b \in Accounts, NEW c \in Currencies PROVE cash'[b][c] - reserved'[b][c] >= 0
    <3>1. cash[b][c] \in Int /\ reserved[b][c] \in Nat /\ cash[b][c] - reserved[b][c] >= 0
      BY <1>1 DEF TypeOK, BooksOK, NoOverdraft
    <3> HIDE DEF a, cur, req
    <3> QED
      BY <1>2, <1>8, <1>9, <1>11, <1>17, <3>1 DEF Sides
  <2>2. ASSUME NEW b \in Accounts, NEW j \in Instruments PROVE qty'[b][j] - held'[b][j] >= 0
    <3>1. qty[b][j] \in Int /\ held[b][j] \in Nat /\ qty[b][j] - held[b][j] >= 0
      BY <1>1 DEF TypeOK, BooksOK, NoOverdraft
    <3> HIDE DEF a, i, req
    <3> QED
      BY <1>2, <1>13, <1>17, <3>1 DEF Sides
  <2> QED
    BY <2>1, <2>2 DEF NoOverdraft
<1>19. OpenOrdersRest'
  <2> SUFFICES ASSUME NEW p \in OrderIds
               PROVE  /\ left'[p] = IF IsOpen(p)' THEN orders'[p].req.size - orders'[p].filled ELSE 0
                      /\ IsOpen(p)' => left'[p] > 0
                      /\ \A j \in Instruments :
                           p \in RestingIds(j)' <=> IsOpen(p)' /\ orders'[p].req.inst = j
    BY DEF OpenOrdersRest
  <2>1. /\ left[p] = IF IsOpen(p) THEN orders[p].req.size - orders[p].filled ELSE 0
        /\ IsOpen(p) => left[p] > 0
        /\ \A j \in Instruments : p \in RestingIds(j) <=> IsOpen(p) /\ orders[p].req.inst = j
    BY DEF BooksOK, OpenOrdersRest
  <2>2. resting \in [Instruments -> Seq(OrderIds)]
    BY <1>1 DEF TypeOK
  <2>3. \A j \in Instruments : p \in RestingIds(j)' <=>
          p \in RestingIds(j) /\ (j = i /\ left[o] = q => p # o)
    <3>1. p \in Elements(Keep(resting[i], OrderIds \ {o})) <=> p \in Elements(resting[i]) /\ p # o
      BY <1>2, <2>2, KeepFacts
    <3> HIDE DEF i
    <3> QED
      BY <1>2, <1>7, <2>2, <3>1, RestingIdsFacts
  <2>4. CASE p = o
    <3>1. IsOpen(o)' <=> left[o] # q
      BY <1>6 DEF IsOpen
    <3>2. orders'[o].req.size - orders'[o].filled = left[o] - q /\ orders'[o].req.inst = i
      BY <1>2, <1>3, <1>6
    <3> HIDE DEF filled, i
    <3>3. \A j \in Instruments : o \in RestingIds(j)' <=> left[o] # q /\ j = i
      BY <1>1, <2>1, <2>3, <2>4 DEF i
    <3> QED
      BY <1>1, <1>10, <2>4, <3>1, <3>2, <3>3
  <2>5. CASE p # o
    <3>1. orders'[p] = orders[p] /\ left'[p] = left[p] /\ (IsOpen(p)' <=> IsOpen(p))
      BY <1>6, <1>10, <2>5 DEF IsOpen
    <3> QED
      BY <2>1, <2>3, <2>5, <3>1
  <2> QED
    BY <2>4, <2>5
<1>20. UnusedIds'
  <2>1. \A p \in OrderIds : p >= nextId => orders[p] = NoOrder
    BY DEF BooksOK, UnusedIds
  <2> QED
    BY <1>1, <1>6, <1>7, <2>1 DEF UnusedIds
<1>21. \A p \in OrderIds : orders[p] # NoOrder => orders'[p] # NoOrder
  BY <1>5, <1>6
<1> QED
  BY <1>16, <1>17, <1>18, <1>19, <1>20, <1>21 DEF BooksOK

\* Cancelling or expiring an order preserves the invariant.
LEMMA CloseOrderKeeps ==
  ASSUME BooksOK, MarketTypes', NEW o \in OrderIds, orders[o] # NoOrder,
         NEW status \in {"cancelled", "expired"}, CloseOrder(o, status)
  PROVE  BooksOK' /\ \A p \in OrderIds : orders[p] # NoOrder => orders'[p] # NoOrder
<1> DEFINE a == orders[o].account
           req == orders[o].req
           i == req.inst
           cur == CurrencyOf[i]
           unit == BuyReservePerUnit(req.limit)
           closed == [req |-> req, account |-> a, status |-> status, filled |-> orders[o].filled]
<1>1. TypeOK /\ left[o] \in Nat /\ (left[o] > 0 <=> IsOpen(o))
  BY RemainderFacts DEF BooksOK
<1>2. /\ orders[o] \in Order /\ req \in Request /\ a \in Accounts
      /\ orders[o].filled \in Nat /\ req.size \in Nat
      /\ i \in Instruments /\ req.side \in Sides /\ req.limit \in Nat /\ cur \in Currencies
  BY <1>1, OrderFacts DEF Cur
<1>3. (IF o \in RestingIds(i) THEN left[o] ELSE 0) = left[o]
  <2>1. o \in RestingIds(i) <=> IsOpen(o)
    BY <1>2 DEF BooksOK, OpenOrdersRest
  <2> QED
    BY <1>1, <2>1
<1>4. /\ resting' = [resting EXCEPT ![i] = Keep(resting[i], OrderIds \ {o})]
      /\ left' = [left EXCEPT ![o] = 0]
      /\ Release(o, left[o])
      /\ cash' = cash /\ qty' = qty /\ generation' = generation /\ nextId' = nextId
  BY <1>3 DEF CloseOrder
<1>5. orders' = [orders EXCEPT ![o] = closed]
  <2>1. orders' = [orders EXCEPT ![o].status = status]
    BY DEF CloseOrder
  <2>2. [orders[o] EXCEPT !.status = status] = closed
    BY <1>2, OrderUpdate
  <2>3. orders \in [OrderIds -> Order \cup {NoOrder}]
    BY <1>1 DEF TypeOK
  <2> HIDE DEF closed
  <2> QED
    BY <2>1, <2>2, <2>3
<1>6. closed \in Order /\ closed # NoOrder
  <2>1. closed \in Order
    BY <1>2 DEF Order, Statuses
  <2>2. closed # NoOrder
    BY DEF NoOrder
  <2> QED
    BY <2>1, <2>2
<1>7. /\ orders'[o] = closed
      /\ \A p \in OrderIds \ {o} : orders'[p] = orders[p]
      /\ orders' \in [OrderIds -> Order \cup {NoOrder}]
  <2> HIDE DEF closed
  <2> QED
    BY <1>1, <1>5, <1>6 DEF TypeOK
<1>8. /\ left' \in [OrderIds -> Nat] /\ left'[o] = 0
      /\ \A p \in OrderIds \ {o} : left'[p] = left[p]
  BY <1>1, <1>4 DEF TypeOK
<1>9. unit \in Nat /\ unit * left[o] \in Nat
  BY <1>1, <1>2, ReservationCovers DEF TypeOK
<1> HIDE DEF unit
<1>10. /\ reserved' \in [Accounts -> [Currencies -> Nat]]
       /\ held' \in [Accounts -> [Instruments -> Nat]]
  <2>1. reserved \in [Accounts -> [Currencies -> Nat]] /\ held \in [Accounts -> [Instruments -> Nat]]
    BY <1>1 DEF TypeOK
  <2>2. /\ req.side = "buy" =>
             reserved' = [reserved EXCEPT ![a][cur] = Pos(@ - unit * left[o])] /\ held' = held
        /\ req.side # "buy" =>
             held' = [held EXCEPT ![a][i] = Pos(@ - left[o])] /\ reserved' = reserved
    BY <1>4 DEF Release, unit
  <2> HIDE DEF a, cur, i, req
  <2>3. Pos(reserved[a][cur] - unit * left[o]) \in Nat /\ Pos(held[a][i] - left[o]) \in Nat
    BY <1>1, <1>2, <1>9, <2>1, PosFacts
  <2>4. CASE req.side = "buy"
    BY <1>2, <2>1, <2>2, <2>3, <2>4
  <2>5. CASE req.side # "buy"
    <3>1. held' = [held EXCEPT ![a] = [held[a] EXCEPT ![i] = Pos(held[a][i] - left[o])]]
      BY <2>2, <2>5
    <3>2. held[a] \in [Instruments -> Nat]
      BY <1>2, <2>1
    <3>3. [held[a] EXCEPT ![i] = Pos(held[a][i] - left[o])] \in [Instruments -> Nat]
      BY <2>3, <3>2
    <3>4. held' \in [Accounts -> [Instruments -> Nat]]
      BY <2>1, <3>1, <3>3
    <3> QED
      BY <2>1, <2>2, <2>5, <3>4
  <2> QED
    BY <2>4, <2>5
<1>11. resting' \in [Instruments -> Seq(OrderIds)]
  <2>1. resting \in [Instruments -> Seq(OrderIds)]
    BY <1>1 DEF TypeOK
  <2>2. Keep(resting[i], OrderIds \ {o}) \in Seq(OrderIds)
    BY <1>2, <2>1, KeepFacts
  <2> HIDE DEF i
  <2> QED
    BY <1>4, <2>1, <2>2
<1>12. TypeOK'
  BY <1>1, <1>4, <1>7, <1>8, <1>10, <1>11 DEF TypeOK, MarketTypes
<1>13. /\ ReservationsMatch'
       /\ \A b \in Accounts, c \in Currencies :
            reserved'[b][c] = IF req.side = "buy" /\ b = a /\ c = cur
                              THEN reserved[b][c] - unit * left[o] ELSE reserved[b][c]
       /\ \A b \in Accounts, j \in Instruments :
            held'[b][j] = IF req.side = "sell" /\ b = a /\ j = i
                          THEN held[b][j] - left[o] ELSE held[b][j]
  <2>1. orders'[o].req = orders[o].req /\ orders'[o].account = orders[o].account
    BY <1>7
  <2>2. orders'[o] # NoOrder
    BY <1>6, <1>7
  <2>3. left'[o] = left[o] - left[o] /\ left[o] <= left[o]
    BY <1>1, <1>8
  <2> QED
    BY <1>1, <1>4, <1>7, <1>8, <1>12, <2>1, <2>2, <2>3, ReleaseFacts DEF unit
<1>14. NoOverdraft'
  <2>1. ASSUME NEW b \in Accounts, NEW c \in Currencies PROVE cash'[b][c] - reserved'[b][c] >= 0
    <3>1. cash[b][c] \in Int /\ reserved[b][c] \in Nat /\ cash[b][c] - reserved[b][c] >= 0
      BY <1>1 DEF TypeOK, BooksOK, NoOverdraft
    <3> HIDE DEF a, cur, req
    <3> QED
      BY <1>4, <1>9, <1>13, <3>1
  <2>2. ASSUME NEW b \in Accounts, NEW j \in Instruments PROVE qty'[b][j] - held'[b][j] >= 0
    <3>1. qty[b][j] \in Int /\ held[b][j] \in Nat /\ qty[b][j] - held[b][j] >= 0
      BY <1>1 DEF TypeOK, BooksOK, NoOverdraft
    <3> HIDE DEF a, i, req
    <3> QED
      BY <1>1, <1>4, <1>13, <3>1
  <2> QED
    BY <2>1, <2>2 DEF NoOverdraft
<1>15. OpenOrdersRest'
  <2> SUFFICES ASSUME NEW p \in OrderIds
               PROVE  /\ left'[p] = IF IsOpen(p)' THEN orders'[p].req.size - orders'[p].filled ELSE 0
                      /\ IsOpen(p)' => left'[p] > 0
                      /\ \A j \in Instruments :
                           p \in RestingIds(j)' <=> IsOpen(p)' /\ orders'[p].req.inst = j
    BY DEF OpenOrdersRest
  <2>1. /\ left[p] = IF IsOpen(p) THEN orders[p].req.size - orders[p].filled ELSE 0
        /\ IsOpen(p) => left[p] > 0
        /\ \A j \in Instruments : p \in RestingIds(j) <=> IsOpen(p) /\ orders[p].req.inst = j
    BY DEF BooksOK, OpenOrdersRest
  <2>2. resting \in [Instruments -> Seq(OrderIds)]
    BY <1>1 DEF TypeOK
  <2>3. \A j \in Instruments : p \in RestingIds(j)' <=> p \in RestingIds(j) /\ (j = i => p # o)
    <3>1. p \in Elements(Keep(resting[i], OrderIds \ {o})) <=> p \in Elements(resting[i]) /\ p # o
      BY <1>2, <2>2, KeepFacts
    <3> HIDE DEF i
    <3> QED
      BY <1>2, <1>4, <2>2, <3>1, RestingIdsFacts
  <2>4. CASE p = o
    <3>1. ~ IsOpen(o)'
      BY <1>7 DEF IsOpen
    <3> QED
      BY <1>8, <2>1, <2>3, <2>4, <3>1
  <2>5. CASE p # o
    <3>1. orders'[p] = orders[p] /\ left'[p] = left[p] /\ (IsOpen(p)' <=> IsOpen(p))
      BY <1>7, <1>8, <2>5 DEF IsOpen
    <3> QED
      BY <2>1, <2>3, <2>5, <3>1
  <2> QED
    BY <2>4, <2>5
<1>16. UnusedIds'
  <2>1. \A p \in OrderIds : p >= nextId => orders[p] = NoOrder
    BY DEF BooksOK, UnusedIds
  <2> QED
    BY <1>4, <1>7, <2>1 DEF UnusedIds
<1>17. \A p \in OrderIds : orders[p] # NoOrder => orders'[p] # NoOrder
  BY <1>6, <1>7
<1> QED
  BY <1>12, <1>13, <1>14, <1>15, <1>16, <1>17 DEF BooksOK

\* A step that leaves portfolios, orders and lists alone preserves the invariant,
\* whatever it does to the market: reservations do not depend on the market.
LEMMA BooksKept ==
  ASSUME BooksOK, MarketTypes', UNCHANGED <<accountVars, orders, nextId, resting, left>>
  PROVE  BooksOK' /\ \A p \in OrderIds : orders[p] # NoOrder => orders'[p] # NoOrder
<1>1. /\ cash' = cash /\ reserved' = reserved /\ qty' = qty /\ held' = held
      /\ generation' = generation /\ orders' = orders /\ nextId' = nextId
      /\ resting' = resting /\ left' = left
  BY DEF accountVars
<1>2. TypeOK'
  BY <1>1 DEF BooksOK, TypeOK, MarketTypes
<1>3. NoOverdraft'
  BY <1>1 DEF BooksOK, NoOverdraft
<1>4. OpenOrdersRest'
  BY <1>1 DEF BooksOK, OpenOrdersRest, IsOpen, RestingIds
<1>5. UnusedIds'
  BY <1>1 DEF BooksOK, UnusedIds
<1>6. ReservationsMatch'
  <2>1. ASSUME NEW a \in Accounts, NEW c \in Currencies PROVE HeldCash(a, c)' = HeldCash(a, c)
    BY <1>1 DEF HeldCash, Cur
  <2>2. ASSUME NEW a \in Accounts, NEW i \in Instruments PROVE HeldQty(a, i)' = HeldQty(a, i)
    BY <1>1 DEF HeldQty
  <2> QED
    BY <1>1, <2>1, <2>2 DEF BooksOK, ReservationsMatch
<1> QED
  BY <1>1, <1>2, <1>3, <1>4, <1>5, <1>6 DEF BooksOK
-----------------------------------------------------------------------------
(* The loops. *)

\* The kind of a pass tells which loop's state it is.
LEMMA PassFacts ==
  ASSUME TypeOK
  PROVE  /\ pass.kind = "book" => pass \in BookPass
         /\ pass.kind = "trade" => pass \in TradePass
         /\ pass.kind = "expire" => pass \in ExpirePass
         /\ pass = Idle => pass.kind = "idle"
BY DEF TypeOK, Idle, BookPass, TradePass, ExpirePass

\* When no loop runs there is nothing to visit.
LEMMA IdlePassOK ==
  ASSUME pass' = Idle
  PROVE  PassOK'
BY DEF PassOK, ToVisit, Idle

\* A visit is of an order that exists; what is left to visit was to be visited.
LEMMA NextOrderFacts ==
  ASSUME IInv, pass.kind \in {"book", "trade"}
  PROVE  /\ Head(pass.todo) \in OrderIds /\ orders[Head(pass.todo)] # NoOrder
         /\ \/ NextOrder = Idle
            \/ /\ NextOrder = [pass EXCEPT !.todo = Tail(pass.todo)]
               /\ Tail(pass.todo) \in Seq(OrderIds) /\ Tail(pass.todo) # <<>>
               /\ \A o \in Elements(Tail(pass.todo)) : o \in OrderIds /\ orders[o] # NoOrder
<1>1. pass.todo \in Seq(OrderIds)
  <2>1. TypeOK
    BY DEF IInv, BooksOK
  <2> QED
    BY <2>1, PassFacts DEF BookPass, TradePass
<1>2. /\ pass.todo # <<>>
      /\ \A o \in Elements(pass.todo) : o \in OrderIds /\ orders[o] # NoOrder
  BY DEF IInv, PassOK, ToVisit
<1> DEFINE s == pass.todo
<1> HIDE DEF s
<1>3. /\ Head(s) \in Elements(s) /\ Tail(s) \in Seq(OrderIds)
      /\ \A o \in Elements(Tail(s)) : o \in Elements(s)
  BY <1>1, <1>2, ElementsFacts DEF s
<1>4. Len(s) # 1 => Tail(s) # <<>>
  <2>1. s \in Seq(OrderIds) /\ s # <<>>
    BY <1>1, <1>2 DEF s
  <2>2. Len(s) \in Nat /\ Len(Tail(s)) = Len(s) - 1
    BY <2>1
  <2>3. ASSUME Tail(s) = <<>> PROVE Len(s) = 1
    <3>1. Len(<<>>) = 0
      OBVIOUS
    <3>2. Len(Tail(s)) = 0
      BY <2>3, <3>1, Zenon
    <3> QED
      BY <2>2, <3>2
  <2> QED
    BY <2>3
<1>5. NextOrder = IF Len(s) = 1 THEN Idle ELSE [pass EXCEPT !.todo = Tail(s)]
  BY DEF NextOrder, s
<1> QED
  BY <1>2, <1>3, <1>4, <1>5 DEF s

\* One round of on_book's loop.
LEMMA BookStepKeeps ==
  ASSUME IInv, BookStep
  PROVE  IInv'
<1> DEFINE o == Head(pass.todo)
           req == orders[o].req
           walk == Walk(pass.inst, req.side, "qty", left[o], 200 * req.limit)
           q == walk[MaxPrice].qty
<1>1. BooksOK /\ TypeOK /\ pass.kind = "book" /\ pass \in BookPass
  BY PassFacts DEF BookStep, IInv, BooksOK
<1>2. /\ o \in OrderIds /\ orders[o] # NoOrder
      /\ \/ NextOrder = Idle
         \/ /\ NextOrder = [pass EXCEPT !.todo = Tail(pass.todo)]
            /\ Tail(pass.todo) \in Seq(OrderIds) /\ Tail(pass.todo) # <<>>
            /\ \A p \in Elements(Tail(pass.todo)) : p \in OrderIds /\ orders[p] # NoOrder
  BY <1>1, NextOrderFacts
<1>3. /\ pass.inst \in Instruments /\ left[o] \in Nat /\ req.side \in Sides
  BY <1>1, <1>2, OrderFacts DEF BookPass, TypeOK
<1>4. q \in Nat /\ q <= left[o]
  <2>1. MaxPrice \in 0 .. MaxPrice
    BY SizeAssumption
  <2>2. /\ walk \in [0 .. MaxPrice -> [budget : Nat, qty : Nat, notional : Nat]]
        /\ walk[MaxPrice].qty <= left[o]
    BY <1>1, <1>3, WalkFacts
  <2> HIDE DEF walk
  <2> QED
    BY <2>1, <2>2
<1>5. Consume(pass.inst, req.side, walk) \in [Instruments -> Levels]
  BY <1>1, <1>3, ConsumeFacts
<1>6. /\ \/ /\ q = 0
            /\ NoFill
            /\ ahead' = ahead /\ depletion' = depletion
         \/ /\ q > 0
            /\ MakerFill(o, q)
            /\ depletion' = Consume(pass.inst, req.side, walk)
            /\ ahead' = IF q = left[o] THEN [ahead EXCEPT ![o] = 0] ELSE ahead
      /\ pass' = NextOrder /\ offset' = offset
      /\ book' = book /\ fresh' = fresh /\ open' = open /\ schedule' = schedule
  BY DEF BookStep, marketVars
<1>7. pass' \in {Idle} \cup BookPass
  BY <1>1, <1>2, <1>6 DEF BookPass
<1> HIDE DEF o, req, walk, q
<1>8. MarketTypes'
  <2>1. ahead' \in [OrderIds -> Nat] /\ depletion' \in [Instruments -> Levels]
    BY <1>1, <1>2, <1>5, <1>6 DEF TypeOK
  <2> QED
    BY <1>1, <1>6, <1>7, <2>1 DEF TypeOK, MarketTypes
<1>9. BooksOK' /\ \A p \in OrderIds : orders[p] # NoOrder => orders'[p] # NoOrder
  <2>1. CASE q = 0
    BY <1>1, <1>6, <1>8, <2>1, BooksKept DEF NoFill
  <2>2. CASE q > 0
    BY <1>1, <1>2, <1>4, <1>6, <1>8, <2>2, MakerFillKeeps
  <2> QED
    BY <1>4, <2>1, <2>2
<1>10. PassOK'
  <2>1. CASE pass' = Idle
    BY <2>1, IdlePassOK
  <2>2. CASE pass' # Idle
    <3>1. pass'.kind = "book" /\ pass'.todo = Tail(pass.todo)
      BY <1>1, <1>2, <1>6, <2>2 DEF BookPass
    <3>2. Tail(pass.todo) # <<>>
          /\ \A p \in Elements(Tail(pass.todo)) : p \in OrderIds /\ orders'[p] # NoOrder
      BY <1>2, <1>6, <1>9, <2>2
    <3> QED
      BY <3>1, <3>2 DEF PassOK, ToVisit, Elements
  <2> QED
    BY <2>1, <2>2
<1> QED
  BY <1>9, <1>10 DEF IInv

\* One round of on_trade's loop.
LEMMA TradeStepKeeps ==
  ASSUME IInv, TradeStep
  PROVE  IInv'
<1> DEFINE o == Head(pass.todo)
           req == orders[o].req
           side == req.side
           q == OrderTakes(o)
<1>1. BooksOK /\ TypeOK /\ pass.kind = "trade" /\ pass \in TradePass
  BY PassFacts DEF TradeStep, IInv, BooksOK
<1>2. /\ o \in OrderIds /\ orders[o] # NoOrder
      /\ \/ NextOrder = Idle
         \/ /\ NextOrder = [pass EXCEPT !.todo = Tail(pass.todo)]
            /\ Tail(pass.todo) \in Seq(OrderIds) /\ Tail(pass.todo) # <<>>
            /\ \A p \in Elements(Tail(pass.todo)) : p \in OrderIds /\ orders[p] # NoOrder
  BY <1>1, NextOrderFacts
<1>3. /\ left[o] \in Nat /\ side \in Sides /\ ahead[o] \in Nat /\ pass.avail[side] \in Nat
      /\ pass.avail \in [Sides -> Nat]
  BY <1>1, <1>2, OrderFacts DEF TradePass, TypeOK
<1>4. QueueTakes(o) \in Nat /\ QueueTakes(o) <= ahead[o] /\ QueueTakes(o) <= pass.avail[side]
  <2>1. /\ Least(ahead[o], pass.avail[side]) \in Nat
        /\ Least(ahead[o], pass.avail[side]) <= ahead[o]
        /\ Least(ahead[o], pass.avail[side]) <= pass.avail[side]
    BY <1>3, LeastFacts
  <2>2. QueueTakes(o) = IF pass.price = req.limit THEN Least(ahead[o], pass.avail[side]) ELSE 0
    BY DEF QueueTakes
  <2> HIDE DEF o, req, side
  <2> QED
    BY <1>3, <2>1, <2>2
<1>5. q \in Nat /\ q <= left[o] /\ q <= pass.avail[side] - QueueTakes(o)
  <2>1. pass.avail[side] - QueueTakes(o) \in Nat
    BY <1>3, <1>4
  <2>2. /\ Least(left[o], pass.avail[side] - QueueTakes(o)) \in Nat
        /\ Least(left[o], pass.avail[side] - QueueTakes(o)) <= left[o]
        /\ Least(left[o], pass.avail[side] - QueueTakes(o)) <= pass.avail[side] - QueueTakes(o)
    BY <1>3, <2>1, LeastFacts
  <2>3. q = IF Through(req) \/ pass.price = req.limit
            THEN Least(left[o], pass.avail[side] - QueueTakes(o)) ELSE 0
    BY DEF OrderTakes
  <2> HIDE DEF o, req, side, q
  <2> QED
    BY <1>3, <2>1, <2>2, <2>3
<1>6. pass.avail[side] - Drawn(o) \in Nat
  BY <1>3, <1>4, <1>5 DEF Drawn
<1>7. /\ ahead' = [ahead EXCEPT ![o] = IF q = left[o] THEN 0 ELSE @ - QueueTakes(o)]
      /\ (q = 0 /\ NoFill) \/ (q > 0 /\ MakerFill(o, q))
      /\ pass' = IF NextOrder = Idle THEN Idle
                 ELSE [NextOrder EXCEPT !.avail[side] = @ - Drawn(o)]
      /\ offset' = offset /\ depletion' = depletion
      /\ book' = book /\ fresh' = fresh /\ open' = open /\ schedule' = schedule
  BY DEF TradeStep, shadowVars, marketVars
<1> HIDE DEF o, req, side, q
<1>8. pass' \in {Idle} \cup TradePass /\
      (pass' # Idle => pass'.kind = "trade" /\ pass'.todo = Tail(pass.todo) /\ NextOrder # Idle)
  <2>1. CASE NextOrder = Idle
    BY <1>7, <2>1
  <2>2. CASE NextOrder # Idle
    <3> DEFINE n == NextOrder
               avail == [pass.avail EXCEPT ![side] = @ - Drawn(o)]
    <3>1. n \in TradePass /\ n.todo = Tail(pass.todo) /\ n.avail = pass.avail /\ n.kind = "trade"
      BY <1>1, <1>2, <2>2 DEF TradePass
    <3>2. avail \in [Sides -> Nat]
      BY <1>3, <1>6
    <3> HIDE DEF n
    <3>3. pass' = [n EXCEPT !.avail = avail]
      BY <1>3, <1>7, <2>2, <3>1 DEF n
    <3> HIDE DEF avail
    <3>4. pass' \in TradePass /\ pass'.todo = n.todo /\ pass'.kind = "trade"
      BY <3>1, <3>2, <3>3 DEF TradePass
    <3> QED
      BY <2>2, <3>1, <3>4
  <2> QED
    BY <2>1, <2>2
<1>9. MarketTypes'
  <2>1. ahead' \in [OrderIds -> Nat]
    <3>1. ahead[o] - QueueTakes(o) \in Nat
      BY <1>3, <1>4
    <3> QED
      BY <1>1, <1>2, <1>7, <3>1 DEF TypeOK
  <2> QED
    BY <1>1, <1>7, <1>8, <2>1 DEF TypeOK, MarketTypes
<1>10. BooksOK' /\ \A p \in OrderIds : orders[p] # NoOrder => orders'[p] # NoOrder
  <2>1. CASE q = 0 /\ NoFill
    BY <1>1, <1>9, <2>1, BooksKept DEF NoFill
  <2>2. CASE q > 0 /\ MakerFill(o, q)
    BY <1>1, <1>2, <1>5, <1>9, <2>2, MakerFillKeeps
  <2> QED
    BY <1>7, <2>1, <2>2
<1>11. PassOK'
  <2>1. CASE pass' = Idle
    BY <2>1, IdlePassOK
  <2>2. CASE pass' # Idle
    <3>1. pass'.kind = "trade" /\ pass'.todo = Tail(pass.todo)
      BY <1>8, <2>2
    <3>2. Tail(pass.todo) # <<>>
          /\ \A p \in Elements(Tail(pass.todo)) : p \in OrderIds /\ orders'[p] # NoOrder
      BY <1>2, <1>8, <1>10, <2>2
    <3> QED
      BY <3>1, <3>2 DEF PassOK, ToVisit, Elements
  <2> QED
    BY <2>1, <2>2
<1> QED
  BY <1>10, <1>11 DEF IInv

\* One round of expire_day_orders' loop.
LEMMA ExpireStepKeeps ==
  ASSUME IInv, ExpireStep
  PROVE  IInv'
<1>1. BooksOK /\ TypeOK /\ pass.kind = "expire" /\ pass \in ExpirePass
  BY PassFacts DEF ExpireStep, IInv, BooksOK
<1>2. PICK o \in pass.ids :
        /\ CloseOrder(o, "expired")
        /\ pass' = IF pass.ids = {o} THEN Idle ELSE [pass EXCEPT !.ids = @ \ {o}]
  BY DEF ExpireStep
<1>3. \A p \in pass.ids : p \in OrderIds /\ orders[p] # NoOrder
  BY <1>1 DEF IInv, PassOK, ToVisit
<1>4. /\ offset' = offset /\ depletion' = depletion
      /\ book' = book /\ fresh' = fresh /\ open' = open /\ schedule' = schedule
  BY DEF ExpireStep, shadowVars, marketVars
<1>5. pass' \in {Idle} \cup ExpirePass
      /\ (pass' # Idle => pass'.kind = "expire" /\ pass'.ids = pass.ids \ {o})
  BY <1>1, <1>2 DEF ExpirePass
<1>6. MarketTypes'
  <2>1. ahead' \in [OrderIds -> Nat]
    BY <1>1, <1>2, <1>3 DEF CloseOrder, TypeOK
  <2> QED
    BY <1>1, <1>4, <1>5, <2>1 DEF TypeOK, MarketTypes
<1>7. BooksOK' /\ \A p \in OrderIds : orders[p] # NoOrder => orders'[p] # NoOrder
  BY <1>1, <1>2, <1>3, <1>6, CloseOrderKeeps
<1>8. PassOK'
  <2>1. CASE pass' = Idle
    BY <2>1, IdlePassOK
  <2>2. CASE pass' # Idle
    BY <1>3, <1>5, <1>7, <2>2 DEF PassOK, ToVisit
  <2> QED
    BY <2>1, <2>2
<1> QED
  BY <1>7, <1>8 DEF IInv
-----------------------------------------------------------------------------
(* Events of the market and of time. *)

\* The orders a list names are open, so they exist.
LEMMA ListedOrdersExist ==
  ASSUME BooksOK, NEW i \in Instruments
  PROVE  /\ resting[i] \in Seq(OrderIds)
         /\ \A o \in Elements(resting[i]) : o \in OrderIds /\ orders[o] # NoOrder
<1>1. resting[i] \in Seq(OrderIds)
  BY DEF BooksOK, TypeOK
<1>2. ASSUME NEW o \in Elements(resting[i]) PROVE o \in OrderIds /\ orders[o] # NoOrder
  <2>1. o \in OrderIds
    BY <1>1 DEF Elements
  <2>2. o \in RestingIds(i)
    BY RestingIdsFacts
  <2>3. IsOpen(o)
    BY <2>1, <2>2 DEF BooksOK, OpenOrdersRest
  <2> QED
    BY <2>1, <2>3, OrderFacts DEF BooksOK
<1> QED
  BY <1>1, <1>2

\* A new book, which may start the loop over the resting orders.
LEMMA OnBookKeeps ==
  ASSUME IInv, NEW i \in Instruments, NEW b \in Books, OnBook(i, b)
  PROVE  IInv'
<1>1. BooksOK /\ TypeOK /\ b \in Levels
  BY SizeAssumption DEF IInv, BooksOK
<1>2. /\ book' = [book EXCEPT ![i] = b] /\ fresh' = [fresh EXCEPT ![i] = TRUE]
      /\ offset' = offset /\ depletion' = depletion /\ open' = open /\ schedule' = schedule
      /\ ahead' = ahead
      /\ UNCHANGED <<accountVars, orders, nextId, resting, left>>
      /\ pass' = IF open[i] /\ resting[i] # <<>>
                 THEN [kind |-> "book", inst |-> i, todo |-> resting[i]] ELSE Idle
  BY DEF OnBook, orderVars, shadowVars
<1>3. /\ resting[i] \in Seq(OrderIds)
      /\ \A o \in Elements(resting[i]) : o \in OrderIds /\ orders[o] # NoOrder
  BY <1>1, ListedOrdersExist
<1>4. pass' \in {Idle} \cup BookPass
  BY <1>2, <1>3 DEF BookPass
<1>5. MarketTypes'
  BY <1>1, <1>2, <1>4 DEF TypeOK, MarketTypes
<1>6. BooksOK' /\ \A p \in OrderIds : orders[p] # NoOrder => orders'[p] # NoOrder
  BY <1>1, <1>2, <1>5, BooksKept
<1>7. PassOK'
  <2>1. CASE pass' = Idle
    BY <2>1, IdlePassOK
  <2>2. CASE pass' # Idle
    <3>1. pass'.kind = "book" /\ pass'.todo = resting[i] /\ resting[i] # <<>>
      BY <1>2, <2>2
    <3> QED
      BY <1>3, <1>6, <3>1 DEF PassOK, ToVisit, Elements
  <2> QED
    BY <2>1, <2>2
<1> QED
  BY <1>6, <1>7 DEF IInv

\* Sorting a list keeps its elements.
LEMMA SortedFacts ==
  ASSUME BooksOK, NEW i \in Instruments, NEW p \in Sortings(i)
  PROVE  LET sorted == [k \in DOMAIN resting[i] |-> resting[i][p[k]]]
         IN  /\ sorted \in Seq(OrderIds)
             /\ resting[i] # <<>> => sorted # <<>>
             /\ Elements(sorted) = Elements(resting[i])
<1> DEFINE s == resting[i]
           n == Len(s)
           sorted == [k \in 1 .. n |-> s[p[k]]]
<1>1. s \in Seq(OrderIds)
  BY DEF BooksOK, TypeOK
<1>2. n \in Nat /\ DOMAIN s = 1 .. n /\ \A k \in 1 .. n : s[k] \in OrderIds
  BY <1>1
<1>3. p \in [1 .. n -> 1 .. n] /\ \A j \in 1 .. n : \E k \in 1 .. n : p[k] = j
  BY <1>2 DEF Sortings
<1>4. (s # <<>> => n # 0) /\ sorted = [k \in DOMAIN s |-> s[p[k]]]
  BY <1>1, <1>2
<1> HIDE DEF s, n
<1>5. sorted \in Seq(OrderIds) /\ Len(sorted) = n
  BY <1>2, <1>3
<1>6. Elements(sorted) = Elements(s)
  <2>1. \A x : x \in Elements(sorted) <=> \E k \in 1 .. n : s[p[k]] = x
    BY <1>5 DEF Elements
  <2>2. \A x : x \in Elements(s) <=> \E k \in 1 .. n : s[k] = x
    BY DEF Elements, n
  <2> HIDE DEF sorted
  <2> QED
    BY <1>3, <2>1, <2>2
<1>7. n # 0 => sorted # <<>>
  <2>1. Len(<<>>) = 0
    OBVIOUS
  <2> HIDE DEF sorted
  <2> QED
    BY <1>5, <2>1, Zenon
<1> QED
  BY <1>4, <1>5, <1>6, <1>7 DEF s

\* A print, which sorts the list and starts the loop over it.
LEMMA OnTradeKeeps ==
  ASSUME IInv, NEW i \in Instruments, NEW t \in Prints, OnTrade(i, t)
  PROVE  IInv'
<1>1. BooksOK /\ TypeOK /\ t.price \in Prices /\ t.qty \in Nat \ {0}
  BY SizeAssumption DEF IInv, BooksOK
<1>2. PICK p \in Sortings(i) :
        resting' = [resting EXCEPT ![i] = [k \in DOMAIN @ |-> @[p[k]]]]
  BY DEF OnTrade
<1> DEFINE sorted == [k \in DOMAIN resting[i] |-> resting[i][p[k]]]
           before == [o \in OrderIds |-> IF orders[o] = NoOrder THEN 0 ELSE orders[o].filled]
           avail == [s \in Sides |-> t.qty]
           price == Shift(i, t.price)
<1>3. /\ sorted \in Seq(OrderIds) /\ sorted # <<>>
      /\ Elements(sorted) = Elements(resting[i])
  <2>1. resting[i] # <<>>
    BY DEF OnTrade
  <2> QED
    BY <1>1, <2>1, SortedFacts
<1>4. resting' = [resting EXCEPT ![i] = sorted]
  BY <1>2
<1> HIDE DEF sorted
<1>5. /\ resting' \in [Instruments -> Seq(OrderIds)]
      /\ \A j \in Instruments : Elements(resting'[j]) = Elements(resting[j])
      /\ resting'[i] = sorted
  BY <1>1, <1>3, <1>4 DEF TypeOK
<1>6. /\ cash' = cash /\ reserved' = reserved /\ qty' = qty /\ held' = held
      /\ generation' = generation /\ orders' = orders /\ nextId' = nextId /\ left' = left
      /\ ahead' = ahead /\ offset' = offset /\ depletion' = depletion
      /\ book' = book /\ fresh' = fresh /\ open' = open /\ schedule' = schedule
      /\ pass' = [kind |-> "trade", inst |-> i, price |-> price, todo |-> sorted,
                  avail |-> avail, print |-> t.qty, before |-> before]
  BY <1>5 DEF OnTrade, accountVars, shadowVars, marketVars
<1>7. pass' \in TradePass
  <2>1. price \in Nat \ {0}
    BY <1>1, BookFacts
  <2>2. before \in [OrderIds -> Nat]
    BY <1>1, OrderFacts
  <2>3. avail \in [Sides -> Nat]
    BY <1>1
  <2> HIDE DEF before, avail, price
  <2> QED
    BY <1>1, <1>3, <1>6, <2>1, <2>2, <2>3 DEF TradePass
<1>8. TypeOK'
  BY <1>1, <1>5, <1>6, <1>7 DEF TypeOK
<1>9. OpenOrdersRest'
  <2>1. \A j \in Instruments : RestingIds(j)' = RestingIds(j)
    BY <1>5, RestingIdsFacts
  <2> QED
    BY <1>1, <1>6, <2>1 DEF BooksOK, OpenOrdersRest, IsOpen
<1>10. NoOverdraft' /\ UnusedIds'
  BY <1>1, <1>6 DEF BooksOK, NoOverdraft, UnusedIds
<1>11. ReservationsMatch'
  <2>1. \A o \in OrderIds : left[o] > 0 => orders[o] # NoOrder
    BY <1>1, RemainderFacts
  <2> QED
    BY <1>1, <1>6, <1>8, <2>1, NothingChanges DEF BooksOK
<1>12. PassOK'
  <2>1. \A o \in Elements(resting[i]) : o \in OrderIds /\ orders'[o] # NoOrder
    BY <1>1, <1>6, ListedOrdersExist
  <2>2. pass'.kind = "trade" /\ pass'.todo = sorted
    BY <1>6
  <2> QED
    BY <1>3, <2>1, <2>2 DEF PassOK, ToVisit, Elements
<1> QED
  BY <1>8, <1>9, <1>10, <1>11, <1>12 DEF IInv, BooksOK

\* Halving a natural leaves a natural.
LEMMA Halves == \A x \in Nat : x \div 2 \in Nat
OBVIOUS

\* Time: decay, staleness, sessions and fee schedules.
LEMMA TimeKeeps ==
  ASSUME IInv, Time
  PROVE  IInv'
<1>1. BooksOK /\ TypeOK
  BY DEF IInv, BooksOK
<1>2. Passing /\ ahead' = ahead
      /\ UNCHANGED <<accountVars, orders, nextId, resting, left>> /\ pass' = Idle /\ pass = Idle
  BY DEF Time, Decay, Stale, Session, NextSchedule, Passing, orderVars
<1>3. MarketTypes'
  <2>1. ASSUME NEW i \in Instruments, Decay(i) PROVE MarketTypes'
    <3>1. PICK all \in BOOLEAN :
            /\ depletion' = [depletion EXCEPT ![i] =
                 [s \in Sides |-> [p \in Prices |-> IF all THEN 0 ELSE @[s][p] \div 2]]]
            /\ offset' = [offset EXCEPT ![i] =
                 IF all \/ @ = 0 THEN 0 ELSE IF @ > 0 THEN @ - 1 ELSE @ + 1]
      BY <2>1 DEF Decay
    <3> DEFINE row == [s \in Sides |-> [p \in Prices |->
                         IF all THEN 0 ELSE depletion[i][s][p] \div 2]]
               off == IF all \/ offset[i] = 0 THEN 0
                      ELSE IF offset[i] > 0 THEN offset[i] - 1 ELSE offset[i] + 1
    <3>2. row \in Levels
      <4>1. \A s \in Sides, p \in Prices : depletion[i][s][p] \div 2 \in Nat
        BY <1>1, Halves DEF TypeOK, Levels
      <4> QED
        BY <4>1 DEF Levels
    <3>3. off \in Int
      BY <1>1 DEF TypeOK
    <3>4. depletion' = [depletion EXCEPT ![i] = row] /\ offset' = [offset EXCEPT ![i] = off]
      BY <3>1
    <3> HIDE DEF row, off
    <3>5. depletion' \in [Instruments -> Levels] /\ offset' \in [Instruments -> Int]
      BY <1>1, <3>2, <3>3, <3>4 DEF TypeOK
    <3>6. book' = book /\ fresh' = fresh /\ open' = open /\ schedule' = schedule
      BY <2>1 DEF Decay, marketVars
    <3> QED
      BY <1>1, <1>2, <3>5, <3>6 DEF TypeOK, MarketTypes
  <2>2. ASSUME NEW i \in Instruments, Stale(i) \/ Session(i) PROVE MarketTypes'
    <3>1. /\ offset' = offset /\ depletion' = depletion /\ book' = book /\ schedule' = schedule
          /\ \/ fresh' = [fresh EXCEPT ![i] = FALSE] /\ open' = open
             \/ open' = [open EXCEPT ![i] = ~ open[i]] /\ fresh' = fresh
      BY <2>2 DEF Stale, Session, shadowVars
    <3>2. (~ open[i]) \in BOOLEAN
      BY <1>1 DEF TypeOK
    <3>3. fresh' \in [Instruments -> BOOLEAN] /\ open' \in [Instruments -> BOOLEAN]
      BY <1>1, <3>1, <3>2 DEF TypeOK
    <3> QED
      BY <1>1, <1>2, <3>1, <3>3 DEF TypeOK, MarketTypes
  <2>3. ASSUME NextSchedule PROVE MarketTypes'
    <3>1. schedule' \in 1 .. Len(Schedules)
      BY <1>1, <2>3, FeeAssumption DEF NextSchedule, TypeOK
    <3>2. /\ offset' = offset /\ depletion' = depletion /\ book' = book
          /\ fresh' = fresh /\ open' = open
      BY <2>3 DEF NextSchedule, shadowVars
    <3> QED
      BY <1>1, <1>2, <3>1, <3>2 DEF TypeOK, MarketTypes
  <2> QED
    BY <2>1, <2>2, <2>3 DEF Time
<1>4. BooksOK'
  BY <1>1, <1>2, <1>3, BooksKept
<1>5. PassOK'
  BY <1>2, IdlePassOK
<1> QED
  BY <1>4, <1>5 DEF IInv

\* The timer's call, which starts the loop over the due orders.
LEMMA ExpireKeeps ==
  ASSUME IInv, Expire
  PROVE  IInv'
<1>1. BooksOK /\ TypeOK
  BY DEF IInv, BooksOK
<1>2. /\ offset' = offset /\ depletion' = depletion /\ ahead' = ahead
      /\ book' = book /\ fresh' = fresh /\ open' = open /\ schedule' = schedule
      /\ UNCHANGED <<accountVars, orders, nextId, resting, left>>
      /\ pass' = [kind |-> "expire", ids |-> DayOrdersDue]
  BY DEF Expire, orderVars, shadowVars, marketVars
<1>3. DayOrdersDue \subseteq OrderIds /\ \A o \in DayOrdersDue : orders[o] # NoOrder
  BY <1>1, OrderFacts DEF DayOrdersDue
<1>4. pass' \in ExpirePass
  BY <1>2, <1>3 DEF ExpirePass
<1>5. MarketTypes'
  BY <1>1, <1>2, <1>4 DEF TypeOK, MarketTypes
<1>6. BooksOK' /\ \A p \in OrderIds : orders[p] # NoOrder => orders'[p] # NoOrder
  BY <1>1, <1>2, <1>5, BooksKept
<1>7. PassOK'
  BY <1>2, <1>3, <1>6 DEF PassOK, ToVisit
<1> QED
  BY <1>6, <1>7 DEF IInv
-----------------------------------------------------------------------------
(* Calls of clients. *)

\* A cancel closes the order.
LEMMA CancelKeeps ==
  ASSUME IInv, NEW o \in OrderIds, Cancel(o)
  PROVE  IInv'
<1>1. BooksOK /\ TypeOK /\ orders[o] # NoOrder
  BY OrderFacts DEF IInv, BooksOK, Cancel
<1>2. /\ CloseOrder(o, "cancelled") /\ pass' = pass /\ pass = Idle
      /\ offset' = offset /\ depletion' = depletion
      /\ book' = book /\ fresh' = fresh /\ open' = open /\ schedule' = schedule
  BY DEF Cancel, shadowVars, marketVars
<1>3. MarketTypes'
  <2>1. ahead' \in [OrderIds -> Nat]
    BY <1>1, <1>2 DEF CloseOrder, TypeOK
  <2> QED
    BY <1>1, <1>2, <2>1 DEF TypeOK, MarketTypes
<1>4. BooksOK'
  BY <1>1, <1>2, <1>3, CloseOrderKeeps
<1> QED
  BY <1>2, <1>4, IdlePassOK DEF IInv

\* A conversion takes only available cash from one currency and adds to another.
LEMMA ConvertKeeps ==
  ASSUME IInv, NEW a \in Accounts, NEW v \in Conversions, Convert(a, v)
  PROVE  IInv'
<1> DEFINE debit == v.amount * FeeBase
           credit == Credit(v) * FeeBase
<1>1. BooksOK /\ TypeOK
  BY DEF IInv, BooksOK
<1>2. /\ v.from \in Currencies /\ v.to \in Currencies /\ v.from # v.to
      /\ v.amount \in Nat /\ v.rate \in Nat \ {0} /\ v.spread \in 0 .. 99
  BY ConversionAssumption DEF Convert
<1>3. FeeBase \in Nat /\ debit \in Nat /\ debit <= cash[a][v.from] - reserved[a][v.from]
  <2>1. FeeBase \in Nat
    BY FeeAssumption
  <2> QED
    BY <1>2, <2>1, Products DEF Convert, AvailableCash
<1>4. credit \in Nat
  <2>1. PriceOf(v.from, v.rate) \in Nat /\ PriceOf(v.to, v.rate) \in Nat \ {0}
    BY <1>2 DEF PriceOf
  <2> DEFINE x == v.amount * PriceOf(v.from, v.rate) * (100 - v.spread)
             d == 100 * PriceOf(v.to, v.rate)
  <2>2. v.amount * PriceOf(v.from, v.rate) \in Nat /\ 100 - v.spread \in Nat
    BY <1>2, <2>1, Products
  <2>3. x \in Nat /\ d \in Nat \ {0}
    BY <2>1, <2>2, Products
  <2>4. Credit(v) = x \div d
    BY DEF Credit
  <2> HIDE DEF x, d
  <2>5. Credit(v) \in Nat
    BY <2>3, <2>4, Quotients
  <2> QED
    BY <1>3, <2>5, Products
<1>5. /\ cash' = [cash EXCEPT ![a][v.from] = @ - debit, ![a][v.to] = @ + credit]
      /\ reserved' = reserved /\ qty' = qty /\ held' = held
      /\ generation' = generation /\ orders' = orders /\ nextId' = nextId
      /\ resting' = resting /\ left' = left /\ ahead' = ahead
      /\ offset' = offset /\ depletion' = depletion
      /\ book' = book /\ fresh' = fresh /\ open' = open /\ schedule' = schedule
      /\ pass' = pass /\ pass = Idle
  BY DEF Convert, orderVars, shadowVars, marketVars
<1> HIDE DEF debit, credit
<1>6. /\ cash' \in [Accounts -> [Currencies -> Int]]
      /\ \A b \in Accounts, c \in Currencies :
           cash'[b][c] = IF b # a THEN cash[b][c]
                         ELSE IF c = v.from THEN cash[b][c] - debit
                         ELSE IF c = v.to THEN cash[b][c] + credit ELSE cash[b][c]
  <2>1. cash \in [Accounts -> [Currencies -> Int]]
    BY <1>1 DEF TypeOK
  <2>2. cash[a][v.from] - debit \in Int /\ cash[a][v.to] + credit \in Int
    BY <1>2, <1>3, <1>4, <2>1
  <2> DEFINE spent == cash[a][v.from] - debit
             earned == cash[a][v.to] + credit
             once == [cash EXCEPT ![a][v.from] = spent]
  <2>3. once \in [Accounts -> [Currencies -> Int]]
        /\ \A b \in Accounts, c \in Currencies :
             once[b][c] = IF b = a /\ c = v.from THEN cash[b][c] - debit ELSE cash[b][c]
    BY <1>2, <2>1, <2>2
  <2>4. cash' = [once EXCEPT ![a][v.to] = earned]
    <3>1. cash' = [cash EXCEPT ![a][v.from] = spent, ![a][v.to] = earned]
      BY <1>5
    <3> HIDE DEF spent, earned
    <3> QED
      BY <3>1
  <2> HIDE DEF once
  <2> QED
    BY <1>2, <1>4, <2>1, <2>3, <2>4
<1>7. TypeOK'
  BY <1>1, <1>5, <1>6 DEF TypeOK
<1>8. NoOverdraft'
  <2>1. ASSUME NEW b \in Accounts, NEW c \in Currencies PROVE cash'[b][c] - reserved'[b][c] >= 0
    <3>1. cash[b][c] \in Int /\ reserved[b][c] \in Nat /\ cash[b][c] - reserved[b][c] >= 0
      BY <1>1 DEF TypeOK, BooksOK, NoOverdraft
    <3> QED
      BY <1>2, <1>3, <1>4, <1>5, <1>6, <3>1
  <2> QED
    BY <1>1, <1>5, <2>1 DEF BooksOK, NoOverdraft
<1>9. OpenOrdersRest' /\ UnusedIds'
  BY <1>1, <1>5 DEF BooksOK, OpenOrdersRest, IsOpen, RestingIds, UnusedIds
<1>10. ReservationsMatch'
  <2>1. \A o \in OrderIds : left[o] > 0 => orders[o] # NoOrder
    BY <1>1, RemainderFacts
  <2> QED
    BY <1>1, <1>5, <1>7, <2>1, NothingChanges DEF BooksOK
<1> QED
  BY <1>5, <1>7, <1>8, <1>9, <1>10, IdlePassOK DEF IInv, BooksOK
-----------------------------------------------------------------------------
(* Restarts and resets. *)

\* The lists a restart may choose are sequences of order ids.
LEMMA RestoredLists ==
  ASSUME NEW s \in UNION {[1 .. n -> OrderIds] : n \in 0 .. MaxOrders}
  PROVE  s \in Seq(OrderIds) /\ DOMAIN s = 1 .. Len(s)
<1>1. PICK n \in 0 .. MaxOrders : s \in [1 .. n -> OrderIds]
  OBVIOUS
<1>2. n \in Nat
  BY SizeAssumption
<1> QED
  BY <1>1, <1>2

\* A restart rebuilds the same remainders and reservations.
LEMMA RestartFacts ==
  ASSUME BooksOK, Restart
  PROVE  /\ left' = left /\ reserved' = reserved /\ held' = held
         /\ \A o \in OrderIds : IsOpen(o)' <=> IsOpen(o)
         /\ \A i \in Instruments : RestingIds(i)' = RestingIds(i)
<1>1. TypeOK
  BY DEF BooksOK
<1>2. /\ orders' = [o \in OrderIds |-> IF IsOpen(o) THEN orders[o] ELSE NoOrder]
      /\ orders' \in [OrderIds -> Order \cup {NoOrder}]
  BY <1>1 DEF Restart, TypeOK
<1>3. \A o \in OrderIds : IsOpen(o)' <=> IsOpen(o)
  BY <1>2 DEF IsOpen, NoOrder
<1>4. left' = left
  <2>1. left' = [o \in OrderIds |-> IF IsOpen(o) THEN orders[o].req.size - orders[o].filled ELSE 0]
    BY DEF Restart
  <2>2. \A o \in OrderIds :
          left[o] = IF IsOpen(o) THEN orders[o].req.size - orders[o].filled ELSE 0
    BY DEF BooksOK, OpenOrdersRest
  <2> QED
    BY <1>1, <2>1, <2>2 DEF TypeOK
<1>5. \A a \in Accounts : /\ \A c \in Currencies : HeldCash(a, c)' = HeldCash(a, c)
                          /\ \A i \in Instruments : HeldQty(a, i)' = HeldQty(a, i)
  <2>1. \A o \in OrderIds : left[o] > 0 => IsOpen(o) /\ orders[o] # NoOrder /\ orders'[o] = orders[o]
    BY <1>2, RemainderFacts
  <2> QED
    BY <1>1, <1>2, <1>4, <2>1, HeldUnchanged
<1>6. reserved' = reserved
  <2>1. reserved' = [a \in Accounts |-> [c \in Currencies |-> Total(HeldCash(a, c)', MaxOrders)]]
    BY DEF Restart
  <2>2. \A a \in Accounts, c \in Currencies : reserved[a][c] = Total(HeldCash(a, c)', MaxOrders)
    BY <1>5 DEF BooksOK, ReservationsMatch
  <2>3. reserved \in [Accounts -> [Currencies -> Nat]]
    BY <1>1 DEF TypeOK
  <2> QED
    BY <2>1, <2>2, <2>3
<1>7. held' = held
  <2>1. held' = [a \in Accounts |-> [i \in Instruments |-> Total(HeldQty(a, i)', MaxOrders)]]
    BY DEF Restart
  <2>2. \A a \in Accounts, i \in Instruments : held[a][i] = Total(HeldQty(a, i)', MaxOrders)
    BY <1>5 DEF BooksOK, ReservationsMatch
  <2>3. held \in [Accounts -> [Instruments -> Nat]]
    BY <1>1 DEF TypeOK
  <2> QED
    BY <2>1, <2>2, <2>3
<1>8. ASSUME NEW i \in Instruments PROVE RestingIds(i)' = RestingIds(i)
  <2>1. /\ resting'[i] \in Seq(OrderIds) /\ DOMAIN resting'[i] = 1 .. Len(resting'[i])
        /\ resting[i] \in Seq(OrderIds)
    <3>1. resting'[i] \in UNION {[1 .. n -> OrderIds] : n \in 0 .. MaxOrders}
      BY DEF Restart
    <3>2. resting[i] \in Seq(OrderIds)
      BY <1>1 DEF TypeOK
    <3> QED
      BY <3>1, <3>2, RestoredLists
  <2>2. \A o \in OrderIds : o \in RestingIds(i)' <=> IsOpen(o) /\ orders[o].req.inst = i
    <3>1. \A o \in OrderIds :
            Restored(i, o) <=> \E k \in DOMAIN resting'[i] : resting'[i][k] = o
      BY DEF Restart
    <3> QED
      BY <2>1, <3>1 DEF Restored, RestingIds
  <2>3. \A o \in OrderIds : o \in RestingIds(i) <=> IsOpen(o) /\ orders[o].req.inst = i
    BY DEF BooksOK, OpenOrdersRest
  <2>4. RestingIds(i) \subseteq OrderIds /\ RestingIds(i)' \subseteq OrderIds
    BY <2>1 DEF RestingIds
  <2> QED
    BY <2>2, <2>3, <2>4
<1> QED
  BY <1>3, <1>4, <1>6, <1>7, <1>8

\* A restart preserves the invariant.
LEMMA RestartKeeps ==
  ASSUME IInv, Restart
  PROVE  IInv'
<1>1. BooksOK /\ TypeOK
  BY DEF IInv, BooksOK
<1>2. /\ left' = left /\ reserved' = reserved /\ held' = held
      /\ \A o \in OrderIds : IsOpen(o)' <=> IsOpen(o)
      /\ \A i \in Instruments : RestingIds(i)' = RestingIds(i)
  BY <1>1, RestartFacts
<1>3. /\ cash' = cash /\ qty' = qty /\ generation' = generation /\ nextId' = nextId
      /\ open' = open /\ schedule' = schedule /\ pass' = pass /\ pass = Idle
      /\ ahead' = [o \in OrderIds |-> 0]
      /\ book' = [i \in Instruments |-> EmptyLevels]
      /\ fresh' = [i \in Instruments |-> FALSE]
      /\ offset' = [i \in Instruments |-> 0]
      /\ depletion' = [i \in Instruments |-> EmptyLevels]
  BY DEF Restart
<1>4. /\ \A o \in OrderIds : orders'[o] = IF IsOpen(o) THEN orders[o] ELSE NoOrder
      /\ orders' \in [OrderIds -> Order \cup {NoOrder}]
  BY <1>1 DEF Restart, TypeOK
<1>5. resting' \in [Instruments -> Seq(OrderIds)]
  <2>1. resting' \in [Instruments -> UNION {[1 .. n -> OrderIds] : n \in 0 .. MaxOrders}]
    BY DEF Restart
  <2> QED
    BY <2>1, RestoredLists
<1>6. TypeOK'
  <2>1. EmptyLevels \in Levels
    BY DEF EmptyLevels, Levels
  <2> QED
    BY <1>1, <1>2, <1>3, <1>4, <1>5, <2>1 DEF TypeOK
<1>7. OpenOrdersRest'
  BY <1>1, <1>2, <1>4 DEF BooksOK, OpenOrdersRest
<1>8. NoOverdraft' /\ UnusedIds'
  BY <1>1, <1>2, <1>3, <1>4 DEF BooksOK, NoOverdraft, UnusedIds
<1>9. ReservationsMatch'
  <2>1. \A o \in OrderIds : left[o] > 0 => orders[o] # NoOrder /\ orders'[o] = orders[o]
    BY <1>1, <1>4, RemainderFacts, OrderFacts
  <2> QED
    BY <1>1, <1>2, <1>6, <2>1, NothingChanges DEF BooksOK
<1> QED
  BY <1>3, <1>6, <1>7, <1>8, <1>9, IdlePassOK DEF IInv, BooksOK

\* An account that is reset has nothing reserved and no order that rests; the
\* others keep theirs.
LEMMA ResetKeeps ==
  ASSUME IInv, NEW a \in Accounts, Reset(a)
  PROVE  IInv'
<1> DEFINE mine == {o \in OrderIds : IsOpen(o) /\ orders[o].account = a}
<1>1. BooksOK /\ TypeOK
  BY DEF IInv, BooksOK
<1>2. /\ pass = Idle /\ pass' = pass /\ nextId' = nextId
      /\ orders' = [o \in OrderIds |->
           IF o \in mine THEN [orders[o] EXCEPT !.status = "cancelled"] ELSE orders[o]]
      /\ resting' = [i \in Instruments |-> Keep(resting[i], OrderIds \ mine)]
      /\ left' = [o \in OrderIds |-> IF o \in mine THEN 0 ELSE left[o]]
      /\ ahead' = [o \in OrderIds |-> IF o \in mine THEN 0 ELSE ahead[o]]
      /\ cash' = [cash EXCEPT ![a] = InitialCash]
      /\ reserved' = [reserved EXCEPT ![a] = [c \in Currencies |-> 0]]
      /\ qty' = [qty EXCEPT ![a] = [i \in Instruments |-> 0]]
      /\ held' = [held EXCEPT ![a] = [i \in Instruments |-> 0]]
      /\ generation' = [generation EXCEPT ![a] = @ + 1]
      /\ generation[a] < MaxGeneration
  BY DEF Reset
<1>3. /\ offset' = offset /\ depletion' = depletion
      /\ book' = book /\ fresh' = fresh /\ open' = open /\ schedule' = schedule
  BY DEF Reset, shadowVars, marketVars
<1>4. \A o \in mine : orders[o] # NoOrder /\ orders[o] \in Order /\ orders[o].account = a
  BY <1>1, OrderFacts
<1>5. /\ \A o \in mine : /\ orders'[o] \in Order /\ orders'[o].status = "cancelled"
                         /\ orders'[o].account = a /\ orders'[o].req = orders[o].req
      /\ \A o \in OrderIds \ mine : orders'[o] = orders[o]
  <2>1. ASSUME NEW o \in mine
        PROVE  /\ orders'[o] \in Order /\ orders'[o].status = "cancelled"
               /\ orders'[o].account = a /\ orders'[o].req = orders[o].req
    <3>1. orders'[o] = [orders[o] EXCEPT !.status = "cancelled"]
      BY <1>2
    <3>2. orders[o] \in Order /\ orders[o].account = a
      BY <1>4
    <3> DEFINE x == orders[o]
    <3> HIDE DEF x
    <3>3. /\ [x EXCEPT !.status = "cancelled"] \in Order
          /\ [x EXCEPT !.status = "cancelled"].status = "cancelled"
          /\ [x EXCEPT !.status = "cancelled"].account = x.account
          /\ [x EXCEPT !.status = "cancelled"].req = x.req
      BY <3>2 DEF x, Order, Statuses
    <3> QED
      BY <3>1, <3>2, <3>3 DEF x
  <2>2. ASSUME NEW o \in OrderIds \ mine PROVE orders'[o] = orders[o]
    <3> HIDE DEF mine
    <3> QED
      BY <1>2
  <2> QED
    BY <2>1, <2>2
<1>6. orders' \in [OrderIds -> Order \cup {NoOrder}]
  <2>1. \A o \in OrderIds : orders'[o] \in Order \cup {NoOrder}
    <3> HIDE DEF mine
    <3> QED
      BY <1>1, <1>5 DEF TypeOK
  <2> HIDE DEF mine
  <2> QED
    BY <1>2, <2>1
<1>7. /\ \A o \in mine : ~ IsOpen(o)' /\ orders'[o] # NoOrder
      /\ \A o \in OrderIds \ mine : IsOpen(o)' <=> IsOpen(o)
  <2> HIDE DEF mine
  <2> QED
    BY <1>5 DEF IsOpen, NoOrder
<1>8. \A o \in OrderIds : o \in mine <=> IsOpen(o) /\ orders[o].account = a
  OBVIOUS
<1> HIDE DEF mine
<1>9. \A o \in OrderIds : left'[o] = IF o \in mine THEN 0 ELSE left[o]
  BY <1>2
<1>10. \A i \in Instruments :
         /\ resting'[i] \in Seq(OrderIds)
         /\ \A o \in OrderIds : o \in RestingIds(i)' <=> o \in RestingIds(i) /\ o \notin mine
  <2> SUFFICES ASSUME NEW i \in Instruments
               PROVE  /\ resting'[i] \in Seq(OrderIds)
                      /\ \A o \in OrderIds :
                           o \in RestingIds(i)' <=> o \in RestingIds(i) /\ o \notin mine
    OBVIOUS
  <2>1. resting[i] \in Seq(OrderIds) /\ resting'[i] = Keep(resting[i], OrderIds \ mine)
    BY <1>1, <1>2 DEF TypeOK
  <2>2. /\ Keep(resting[i], OrderIds \ mine) \in Seq(OrderIds)
        /\ \A x : x \in Elements(Keep(resting[i], OrderIds \ mine)) <=>
                    x \in Elements(resting[i]) /\ x \in OrderIds \ mine
    BY <2>1, KeepFacts
  <2> QED
    BY <2>1, <2>2, RestingIdsFacts
<1>11. TypeOK'
  <2>1. /\ left' \in [OrderIds -> Nat] /\ ahead' \in [OrderIds -> Nat]
        /\ resting' \in [Instruments -> Seq(OrderIds)]
    BY <1>1, <1>2, <1>10 DEF TypeOK
  <2>2. InitialCash \in [Currencies -> Int]
    <3>1. \A c \in Currencies : Deposits[c] * FeeBase \in Nat
      BY SizeAssumption, FeeAssumption, Products
    <3> QED
      BY <3>1 DEF InitialCash
  <2>3. generation' \in [Accounts -> 1 .. MaxGeneration + 1]
    BY <1>1, <1>2, SizeAssumption, SMTT(15) DEF TypeOK
  <2>4. /\ cash' \in [Accounts -> [Currencies -> Int]]
        /\ reserved' \in [Accounts -> [Currencies -> Nat]]
        /\ qty' \in [Accounts -> [Instruments -> Int]]
        /\ held' \in [Accounts -> [Instruments -> Nat]]
    BY <1>1, <1>2, <2>2 DEF TypeOK
  <2> QED
    BY <1>1, <1>2, <1>3, <1>6, <2>1, <2>3, <2>4 DEF TypeOK
<1>12. NoOverdraft'
  <2>1. \A c \in Currencies : InitialCash[c] \in Nat
    BY SizeAssumption, FeeAssumption, Products DEF InitialCash
  <2>2. ASSUME NEW b \in Accounts, NEW c \in Currencies PROVE cash'[b][c] - reserved'[b][c] >= 0
    <3>1. CASE b = a
      BY <1>1, <1>2, <2>1, <3>1 DEF TypeOK
    <3>2. CASE b # a
      BY <1>1, <1>2, <3>2 DEF TypeOK, BooksOK, NoOverdraft
    <3> QED
      BY <3>1, <3>2
  <2>3. ASSUME NEW b \in Accounts, NEW i \in Instruments PROVE qty'[b][i] - held'[b][i] >= 0
    <3>1. CASE b = a
      BY <1>1, <1>2, <3>1 DEF TypeOK
    <3>2. CASE b # a
      BY <1>1, <1>2, <3>2 DEF TypeOK, BooksOK, NoOverdraft
    <3> QED
      BY <3>1, <3>2
  <2> QED
    BY <2>2, <2>3 DEF NoOverdraft
<1>13. OpenOrdersRest'
  <2> SUFFICES ASSUME NEW p \in OrderIds
               PROVE  /\ left'[p] = IF IsOpen(p)' THEN orders'[p].req.size - orders'[p].filled ELSE 0
                      /\ IsOpen(p)' => left'[p] > 0
                      /\ \A j \in Instruments :
                           p \in RestingIds(j)' <=> IsOpen(p)' /\ orders'[p].req.inst = j
    BY DEF OpenOrdersRest
  <2>1. /\ left[p] = IF IsOpen(p) THEN orders[p].req.size - orders[p].filled ELSE 0
        /\ IsOpen(p) => left[p] > 0
        /\ \A j \in Instruments : p \in RestingIds(j) <=> IsOpen(p) /\ orders[p].req.inst = j
    BY <1>1 DEF BooksOK, OpenOrdersRest
  <2>2. CASE p \in mine
    BY <1>7, <1>9, <1>10, <2>2
  <2>3. CASE p \notin mine
    BY <1>5, <1>7, <1>9, <1>10, <2>1, <2>3
  <2> QED
    BY <2>2, <2>3
<1>14. UnusedIds'
  <2>1. \A o \in OrderIds : o >= nextId => orders[o] = NoOrder /\ o \notin mine
    BY <1>1, <1>4 DEF BooksOK, UnusedIds
  <2> QED
    BY <1>2, <1>5, <2>1 DEF UnusedIds
<1>15. HeldTyped /\ HeldTyped' /\ MaxOrders \in Nat
  BY <1>1, <1>11, HeldFacts, HeldFactsNext, SizeAssumption
\* What rests afterwards is of other accounts, as it was.
<1>16. \A o \in OrderIds : orders'[o] # NoOrder /\ orders'[o].account = a => left'[o] = 0
  <2> SUFFICES ASSUME NEW o \in OrderIds, orders'[o] # NoOrder, orders'[o].account = a, o \notin mine
               PROVE  left[o] = 0
    BY <1>9
  <2>1. ~ IsOpen(o)
    BY <1>5, <1>8
  <2> QED
    BY <1>1, <2>1, RemainderFacts DEF BooksOK, OpenOrdersRest
<1>17. \A o \in OrderIds : orders[o].account # a =>
         o \notin mine /\ orders'[o] = orders[o] /\ left'[o] = left[o]
  BY <1>5, <1>8, <1>9
<1>18. \A o \in OrderIds : o \in mine => orders[o].account = a /\ orders'[o].account = a
  BY <1>4, <1>5
<1>19. ASSUME NEW b \in Accounts, NEW c \in Currencies
       PROVE  reserved'[b][c] = Total(HeldCash(b, c)', MaxOrders)
  <2>1. CASE b = a
    <3> DEFINE g == HeldCash(a, c)'
    <3>1. g \in [1 .. MaxOrders -> Nat]
      BY <1>15 DEF HeldTyped
    <3>2. ASSUME NEW o \in OrderIds PROVE g[o] = 0
      <4>1. CASE orders'[o] # NoOrder /\ orders'[o].account = a
        <5>1. orders'[o].req.limit \in Nat
          <6>1. orders'[o] \in Order
            BY <1>6, <4>1
          <6> QED
            BY <6>1 DEF Order, Request
        <5>2. BuyReservePerUnit(orders'[o].req.limit) * 0 = 0
          <6>1. BuyReservePerUnit(orders'[o].req.limit) \in Nat
            BY <1>1, <5>1, ReservationCovers DEF TypeOK
          <6> QED
            BY <6>1
        <5>3. left'[o] = 0
          BY <1>16, <4>1
        <5> QED
          BY <5>2, <5>3 DEF HeldCash
      <4>2. CASE ~ (orders'[o] # NoOrder /\ orders'[o].account = a)
        BY <4>2 DEF HeldCash
      <4> QED
        BY <4>1, <4>2
    <3> HIDE DEF g
    <3>3. Total(g, MaxOrders) = 0
      BY <1>15, <3>1, <3>2, TotalZero DEF OrderIds
    <3>4. reserved'[a][c] = 0
      BY <1>1, <1>2 DEF TypeOK
    <3> QED
      BY <2>1, <3>3, <3>4 DEF g
  <2>2. CASE b # a
    <3>1. ASSUME NEW o \in OrderIds PROVE HeldCash(b, c)'[o] = HeldCash(b, c)[o]
      <4>1. CASE o \in mine
        BY <1>18, <2>2, <4>1 DEF HeldCash
      <4>2. CASE o \notin mine
        BY <1>5, <1>9, <4>2 DEF HeldCash, Cur
      <4> QED
        BY <4>1, <4>2
    <3>2. HeldCash(b, c)' = HeldCash(b, c)
      BY <3>1 DEF HeldCash
    <3>3. reserved'[b][c] = reserved[b][c]
      BY <1>1, <1>2, <2>2 DEF TypeOK
    <3> QED
      BY <1>1, <3>2, <3>3 DEF BooksOK, ReservationsMatch
  <2> QED
    BY <2>1, <2>2
<1>20. ASSUME NEW b \in Accounts, NEW i \in Instruments
       PROVE  held'[b][i] = Total(HeldQty(b, i)', MaxOrders)
  <2>1. CASE b = a
    <3> DEFINE g == HeldQty(a, i)'
    <3>1. g \in [1 .. MaxOrders -> Nat]
      BY <1>15 DEF HeldTyped
    <3>2. \A o \in OrderIds : g[o] = 0
      BY <1>16 DEF HeldQty
    <3> HIDE DEF g
    <3>3. Total(g, MaxOrders) = 0
      BY <1>15, <3>1, <3>2, TotalZero DEF OrderIds
    <3>4. held'[a][i] = 0
      BY <1>1, <1>2 DEF TypeOK
    <3> QED
      BY <2>1, <3>3, <3>4 DEF g
  <2>2. CASE b # a
    <3>1. ASSUME NEW o \in OrderIds PROVE HeldQty(b, i)'[o] = HeldQty(b, i)[o]
      <4>1. CASE o \in mine
        BY <1>18, <2>2, <4>1 DEF HeldQty
      <4>2. CASE o \notin mine
        BY <1>5, <1>9, <4>2 DEF HeldQty
      <4> QED
        BY <4>1, <4>2
    <3>2. HeldQty(b, i)' = HeldQty(b, i)
      BY <3>1 DEF HeldQty
    <3>3. held'[b][i] = held[b][i]
      BY <1>1, <1>2, <2>2 DEF TypeOK
    <3> QED
      BY <1>1, <3>2, <3>3 DEF BooksOK, ReservationsMatch
  <2> QED
    BY <2>1, <2>2
<1>21. ReservationsMatch'
  BY <1>19, <1>20 DEF ReservationsMatch
<1> QED
  BY <1>2, <1>11, <1>12, <1>13, <1>14, <1>21, IdlePassOK DEF IInv, BooksOK
-----------------------------------------------------------------------------
(* New orders. *)

\* What an order takes at once is a natural, at most its size when that is in
\* units; so is what is left to rest and what is reserved for it.
LEMMA TakenFacts ==
  ASSUME TypeOK, NEW r \in Request, WellFormed(r)
  PROVE  /\ Taken(r).qty \in Nat /\ Taken(r).notional \in Nat
         /\ r.unit = "qty" => Taken(r).qty <= r.size
         /\ RestQty(r) \in Nat
         /\ RestQty(r) > 0 => RestQty(r) = r.size - Taken(r).qty
         /\ r.side = "sell" => Taken(r).qty + RestQty(r) <= r.size
         /\ ReserveFor(r) \in Nat
         /\ r.side = "buy" => ReserveFor(r) = BuyReservePerUnit(r.limit) * RestQty(r)
         /\ r.side = "sell" => ReserveFor(r) = RestQty(r)
         /\ Consume(r.inst, r.side, WalkOf(r)) \in [Instruments -> Levels]
<1>1. /\ r.inst \in Instruments /\ r.side \in Sides /\ r.unit \in {"qty", "notional"}
      /\ r.size \in Nat /\ r.limit \in Nat
  BY DEF Request, Sides
<1>2. /\ WalkOf(r) \in [0 .. MaxPrice -> [budget : Nat, qty : Nat, notional : Nat]]
      /\ r.unit = "qty" => WalkOf(r)[MaxPrice].qty <= r.size
  BY <1>1, WalkFacts DEF WalkOf
<1>3. Consume(r.inst, r.side, WalkOf(r)) \in [Instruments -> Levels]
  BY <1>1, ConsumeFacts DEF WalkOf
<1>4. /\ Taken(r).qty \in Nat /\ Taken(r).notional \in Nat
      /\ r.unit = "qty" => Taken(r).qty <= r.size
  <2>1. MaxPrice \in 0 .. MaxPrice
    BY SizeAssumption
  <2> QED
    BY <1>2, <2>1 DEF Taken
<1>5. (r.kind = "limit" \/ r.side = "sell") => r.unit = "qty"
  BY DEF WellFormed
<1>6. /\ RestQty(r) \in Nat
      /\ RestQty(r) > 0 => RestQty(r) = r.size - Taken(r).qty
      /\ r.side = "sell" => Taken(r).qty + RestQty(r) <= r.size
  BY <1>1, <1>4, <1>5 DEF RestQty
<1>7. BuyReservePerUnit(r.limit) \in Nat
  BY <1>1, ReservationCovers DEF TypeOK
<1>8. BuyReservePerUnit(r.limit) * RestQty(r) \in Nat
  BY <1>6, <1>7, Products
<1>9. /\ r.side = "buy" => ReserveFor(r) = BuyReservePerUnit(r.limit) * RestQty(r)
      /\ r.side = "sell" => ReserveFor(r) = RestQty(r)
  BY DEF ReserveFor
<1>10. ReserveFor(r) \in Nat
  BY <1>1, <1>6, <1>8, <1>9 DEF Sides
<1> QED
  BY <1>3, <1>4, <1>6, <1>9, <1>10

\* The queue in front of an order is a natural.
LEMMA QueueFacts ==
  ASSUME TypeOK, NEW r \in Request
  PROVE  QueueAhead(r) \in Nat
<1> DEFINE f == [p \in Prices |->
                   IF Shift(r.inst, p) = r.limit THEN Shown(r.inst, r.side, p) ELSE 0]
<1>1. r.inst \in Instruments /\ r.side \in Sides
  BY DEF Request, Sides
<1>2. f \in [1 .. MaxPrice -> Nat]
  BY <1>1, BookFacts DEF Prices
<1>3. QueueAhead(r) = Total(f, MaxPrice)
  BY DEF QueueAhead
<1> HIDE DEF f
<1> QED
  BY <1>2, <1>3, SizeAssumption, TotalType

\* A new order reserves and pays only what is available.
LEMMA PlaceKeeps ==
  ASSUME IInv, NEW a \in Accounts, NEW r \in Requests, Place(a, r)
  PROVE  IInv'
<1> DEFINE i == r.inst
           cur == CurrencyOf[i]
           taken == Taken(r).qty
           n == Taken(r).notional
           rest == RestQty(r)
           status == IF rest > 0 THEN "open"
                     ELSE IF Complete(r, taken) THEN "filled" ELSE "cancelled"
           order == [req |-> r, account |-> a, status |-> status, filled |-> taken]
           unit == BuyReservePerUnit(r.limit)
           \* What the execution, if any, does to cash and units.
           paid == IF taken > 0 THEN CashLeg(r.side, n) ELSE 0
           got == IF taken > 0 THEN QtyLeg(r.side, taken) ELSE 0
<1>1. BooksOK /\ TypeOK /\ r \in Request
  BY SizeAssumption DEF IInv, BooksOK
<1>2. /\ i \in Instruments /\ cur \in Currencies /\ r.side \in Sides
      /\ r.size \in Nat /\ r.limit \in Nat
  BY <1>1, InstrumentAssumption DEF Request, Sides
<1>3. /\ taken \in Nat /\ n \in Nat /\ rest \in Nat
      /\ rest > 0 => rest = r.size - taken
      /\ r.side = "sell" => taken + rest <= r.size
      /\ ReserveFor(r) \in Nat
      /\ r.side = "buy" => ReserveFor(r) = unit * rest
      /\ r.side = "sell" => ReserveFor(r) = rest
      /\ Consume(i, r.side, WalkOf(r)) \in [Instruments -> Levels]
  <2>1. WellFormed(r)
    BY DEF Place, Accepts
  <2> QED
    BY <1>1, <2>1, TakenFacts
<1>4. PICK id \in OrderIds : id = nextId
  BY <1>1 DEF TypeOK, OrderIds, Place
<1>5. /\ pass = Idle /\ pass' = pass /\ nextId <= MaxOrders /\ nextId' = nextId + 1
      /\ generation' = generation
      /\ book' = book /\ fresh' = fresh /\ open' = open /\ schedule' = schedule
      /\ orders' = [orders EXCEPT ![id] = order]
      /\ left' = [left EXCEPT ![id] = rest]
      /\ ahead' = [ahead EXCEPT ![id] = IF rest > 0 THEN QueueAhead(r) ELSE 0]
      /\ resting' = IF rest > 0 THEN [resting EXCEPT ![i] = Append(@, id)] ELSE resting
      /\ TakeFromBook(a, r)
      /\ r.side = "buy" => /\ reserved' = [reserved EXCEPT ![a][cur] = @ + ReserveFor(r)]
                           /\ held' = held
      /\ r.side # "buy" => /\ held' = [held EXCEPT ![a][i] = @ + ReserveFor(r)]
                           /\ reserved' = reserved
  BY <1>4 DEF Place, marketVars
      \* The cash check and the units check of prepare.
<1>6. /\ r.side = "buy" => ReserveFor(r) - CashLeg("buy", n) <= cash[a][cur] - reserved[a][cur]
      /\ r.side = "sell" => r.size <= qty[a][i] - held[a][i]
  BY DEF Place, Accepts, AvailableCash, AvailableQty
<1>7. orders[id] = NoOrder /\ left[id] = 0
  <2>1. id >= nextId
    BY <1>1, <1>4 DEF TypeOK
  <2> QED
    BY <1>1, <1>4, <2>1, RemainderFacts DEF BooksOK, UnusedIds
<1>8. order \in Order /\ order # NoOrder
  <2>1. status \in Statuses
    BY DEF Statuses
  <2> HIDE DEF status, taken
  <2> QED
    BY <1>1, <1>3, <2>1 DEF Order, NoOrder
<1>9. /\ CashLeg(r.side, n) \in Int
      /\ r.side = "buy" => CashLeg(r.side, n) <= 0
      /\ r.side = "sell" => CashLeg(r.side, n) >= 0
  <2>1. /\ CashLeg("buy", n) \in Int /\ CashLeg("buy", n) <= 0
        /\ CashLeg("sell", n) \in Nat
    <3> HIDE DEF n
    <3> QED
      BY <1>1, <1>3, CashLegFacts DEF TypeOK
  <2> QED
    BY <1>2, <2>1 DEF Sides
<1>10. /\ paid \in Int /\ got \in Int
       /\ r.side = "buy" => paid >= CashLeg("buy", n) /\ got >= 0
       /\ r.side = "sell" => paid >= 0 /\ got = - taken
  <2> HIDE DEF taken, n
  <2>1. CASE r.side = "buy"
    BY <1>3, <1>9, <2>1 DEF QtyLeg
  <2>2. CASE r.side = "sell"
    BY <1>3, <1>9, <2>2 DEF QtyLeg
  <2> QED
    BY <1>2, <2>1, <2>2 DEF Sides
<1>11. /\ cash' = [cash EXCEPT ![a][cur] = @ + paid]
       /\ qty' = [qty EXCEPT ![a][i] = @ + got]
  <2>1. CASE taken > 0
    BY <1>5, <2>1 DEF TakeFromBook, Settle
  <2>2. CASE ~ (taken > 0)
    <3>1. cash' = cash /\ qty' = qty
      BY <1>5, <2>2 DEF TakeFromBook
    <3>2. /\ cash \in [Accounts -> [Currencies -> Int]]
          /\ qty \in [Accounts -> [Instruments -> Int]]
      BY <1>1 DEF TypeOK
    <3>3. paid = 0 /\ got = 0
      BY <2>2
    <3> HIDE DEF cur, i, paid, got
    <3> QED
      BY <1>2, <3>1, <3>2, <3>3
  <2> QED
    BY <2>1, <2>2
<1>12. offset' \in [Instruments -> Int]
  <2>1. offset \in [Instruments -> Int]
    BY <1>1 DEF TypeOK
  <2>2. \/ offset' = offset
        \/ \E impact \in 0 .. MaxImpact : offset' = [offset EXCEPT ![i] = Pushed(i, r.side, impact)]
    BY <1>5 DEF TakeFromBook
  <2>3. \A impact \in 0 .. MaxImpact : Pushed(i, r.side, impact) \in Int
    BY <1>2, <2>1, SizeAssumption DEF Pushed, Least
  <2> HIDE DEF i
  <2> QED
    BY <2>1, <2>2, <2>3
<1>13. depletion' = Consume(i, r.side, WalkOf(r))
  BY <1>5 DEF TakeFromBook
<1> HIDE DEF i, cur, taken, n, rest, status, unit, paid, got
<1>14. /\ orders'[id] = order
       /\ orders' \in [OrderIds -> Order \cup {NoOrder}]
       /\ \A p \in OrderIds \ {id} : orders'[p] = orders[p]
       /\ left' \in [OrderIds -> Nat] /\ left'[id] = rest
       /\ \A p \in OrderIds \ {id} : left'[p] = left[p]
  <2> HIDE DEF order
  <2> QED
    BY <1>1, <1>3, <1>5, <1>4, <1>8 DEF TypeOK
<1>15. /\ cash' \in [Accounts -> [Currencies -> Int]]
       /\ \A b \in Accounts, c \in Currencies :
            cash'[b][c] = IF b = a /\ c = cur THEN cash[b][c] + paid ELSE cash[b][c]
  <2>1. cash \in [Accounts -> [Currencies -> Int]]
    BY <1>1 DEF TypeOK
  <2> QED
    BY <1>2, <1>10, <1>11, <2>1
<1>16. /\ qty' \in [Accounts -> [Instruments -> Int]]
       /\ \A b \in Accounts, j \in Instruments :
            qty'[b][j] = IF b = a /\ j = i THEN qty[b][j] + got ELSE qty[b][j]
  <2>1. qty \in [Accounts -> [Instruments -> Int]]
    BY <1>1 DEF TypeOK
  <2> QED
    BY <1>2, <1>10, <1>11, <2>1
<1>17. /\ reserved' \in [Accounts -> [Currencies -> Nat]]
       /\ \A b \in Accounts, c \in Currencies :
            reserved'[b][c] = IF r.side = "buy" /\ b = a /\ c = cur
                              THEN reserved[b][c] + ReserveFor(r) ELSE reserved[b][c]
  <2>1. reserved \in [Accounts -> [Currencies -> Nat]]
    BY <1>1 DEF TypeOK
  <2>2. CASE r.side = "buy"
    <3>1. reserved' = [reserved EXCEPT ![a][cur] = @ + ReserveFor(r)] /\ ReserveFor(r) \in Nat
      BY <1>3, <1>5, <2>2
    <3> QED
      BY <1>2, <2>1, <2>2, <3>1
  <2>3. CASE r.side # "buy"
    <3>1. reserved' = reserved
      BY <1>5, <2>3
    <3> QED
      BY <2>1, <2>3, <3>1
  <2> QED
    BY <2>2, <2>3
<1>18. /\ held' \in [Accounts -> [Instruments -> Nat]]
       /\ \A b \in Accounts, j \in Instruments :
            held'[b][j] = IF r.side = "sell" /\ b = a /\ j = i
                          THEN held[b][j] + ReserveFor(r) ELSE held[b][j]
  <2>1. held \in [Accounts -> [Instruments -> Nat]]
    BY <1>1 DEF TypeOK
  <2>2. CASE r.side = "sell"
    <3>1. held' = [held EXCEPT ![a][i] = @ + ReserveFor(r)] /\ ReserveFor(r) \in Nat
      BY <1>3, <1>5, <2>2
    <3> QED
      BY <1>2, <2>1, <2>2, <3>1
  <2>3. CASE r.side # "sell"
    <3>1. held' = held
      BY <1>2, <1>5, <2>3 DEF Sides
    <3> QED
      BY <2>1, <2>3, <3>1
  <2> QED
    BY <2>2, <2>3
<1>19. resting' \in [Instruments -> Seq(OrderIds)]
       /\ \A p \in OrderIds, j \in Instruments :
            p \in RestingIds(j)' <=> p \in RestingIds(j) \/ (rest > 0 /\ p = id /\ j = i)
  <2>1. resting \in [Instruments -> Seq(OrderIds)]
    BY <1>1 DEF TypeOK
  <2>2. CASE rest > 0
    <3>1. resting' = [resting EXCEPT ![i] = Append(resting[i], id)]
      BY <1>5, <2>2
    <3>2. \A x : x \in Elements(Append(resting[i], id)) <=> x \in Elements(resting[i]) \/ x = id
      BY <1>2, <1>4, <2>1, ElementsFacts
    <3>3. Append(resting[i], id) \in Seq(OrderIds)
      BY <1>2, <1>4, <2>1
    <3>4. resting' \in [Instruments -> Seq(OrderIds)]
      BY <2>1, <3>1, <3>3
    <3>5. /\ resting'[i] = Append(resting[i], id)
          /\ \A j \in Instruments : j # i => resting'[j] = resting[j]
      BY <1>2, <2>1, <3>1
    <3> QED
      BY <2>2, <3>2, <3>4, <3>5, RestingIdsFacts
  <2>3. CASE ~ (rest > 0)
    BY <1>5, <2>1, <2>3, RestingIdsFacts
  <2> QED
    BY <2>2, <2>3
<1>20. TypeOK'
  <2>1. ahead' \in [OrderIds -> Nat]
    <3>1. QueueAhead(r) \in Nat
      BY <1>1, QueueFacts
    <3> QED
      BY <1>1, <1>5, <3>1 DEF TypeOK
  <2>2. nextId' \in 1 .. MaxOrders + 1
    BY <1>1, <1>5, SizeAssumption DEF TypeOK
  <2> QED
    BY <1>1, <1>3, <1>5, <1>12, <1>13, <1>14, <1>15, <1>16, <1>17, <1>18, <1>19, <2>1, <2>2
    DEF TypeOK
<1>21. NoOverdraft'
  <2>1. ASSUME NEW b \in Accounts, NEW c \in Currencies PROVE cash'[b][c] - reserved'[b][c] >= 0
    <3>1. cash[b][c] \in Int /\ reserved[b][c] \in Nat /\ cash[b][c] - reserved[b][c] >= 0
      BY <1>1 DEF TypeOK, BooksOK, NoOverdraft
    <3>2. CASE r.side = "buy"
      BY <1>2, <1>3, <1>6, <1>9, <1>10, <1>15, <1>17, <3>1, <3>2
    <3>3. CASE r.side = "sell"
      BY <1>10, <1>15, <1>17, <3>1, <3>3
    <3> QED
      BY <1>2, <3>2, <3>3 DEF Sides
  <2>2. ASSUME NEW b \in Accounts, NEW j \in Instruments PROVE qty'[b][j] - held'[b][j] >= 0
    <3>1. qty[b][j] \in Int /\ held[b][j] \in Nat /\ qty[b][j] - held[b][j] >= 0
      BY <1>1 DEF TypeOK, BooksOK, NoOverdraft
    <3>2. CASE r.side = "buy"
      BY <1>10, <1>16, <1>18, <3>1, <3>2
    <3>3. CASE r.side = "sell"
      BY <1>2, <1>3, <1>6, <1>10, <1>16, <1>18, <3>1, <3>3
    <3> QED
      BY <1>2, <3>2, <3>3 DEF Sides
  <2> QED
    BY <2>1, <2>2 DEF NoOverdraft
<1>22. OpenOrdersRest'
  <2> SUFFICES ASSUME NEW p \in OrderIds
               PROVE  /\ left'[p] = IF IsOpen(p)' THEN orders'[p].req.size - orders'[p].filled ELSE 0
                      /\ IsOpen(p)' => left'[p] > 0
                      /\ \A j \in Instruments :
                           p \in RestingIds(j)' <=> IsOpen(p)' /\ orders'[p].req.inst = j
    BY DEF OpenOrdersRest
  <2>1. /\ left[p] = IF IsOpen(p) THEN orders[p].req.size - orders[p].filled ELSE 0
        /\ IsOpen(p) => left[p] > 0
        /\ \A j \in Instruments : p \in RestingIds(j) <=> IsOpen(p) /\ orders[p].req.inst = j
    BY <1>1 DEF BooksOK, OpenOrdersRest
  <2>2. CASE p = id
    <3>1. ~ IsOpen(p)
      BY <1>1, <1>7, <2>2, OrderFacts
    <3>2. status = "open" <=> rest > 0
      BY DEF status
    <3>3. /\ orders'[p].status = status /\ orders'[p].req = r /\ orders'[p].filled = taken
          /\ (IsOpen(p)' <=> orders'[p].status = "open")
      BY <1>14, <2>2 DEF IsOpen
    <3>4. r.inst = i
      BY DEF i
    <3> QED
      BY <1>3, <1>14, <1>19, <2>1, <2>2, <3>1, <3>2, <3>3, <3>4
  <2>3. CASE p # id
    <3>1. orders'[p] = orders[p] /\ left'[p] = left[p] /\ (IsOpen(p)' <=> IsOpen(p))
      BY <1>14, <2>3 DEF IsOpen
    <3> QED
      BY <1>19, <2>1, <2>3, <3>1
  <2> QED
    BY <2>2, <2>3
<1>23. UnusedIds'
  <2>1. nextId \in Nat
    BY <1>1 DEF TypeOK
  <2> QED
    BY <1>1, <1>5, <1>4, <1>14, <2>1 DEF BooksOK, UnusedIds, OrderIds
<1>24. ReservationsMatch'
  <2>1. /\ orders'[id].req = r /\ orders'[id].account = a /\ orders'[id] # NoOrder
    BY <1>8, <1>14
  <2>2. /\ \A b \in Accounts, c \in Currencies :
             Total(HeldCash(b, c)', MaxOrders) =
               IF r.side = "buy" /\ b = a /\ c = cur
               THEN Total(HeldCash(b, c), MaxOrders) - unit * left[id] + unit * left'[id]
               ELSE Total(HeldCash(b, c), MaxOrders)
        /\ \A b \in Accounts, j \in Instruments :
             Total(HeldQty(b, j)', MaxOrders) =
               IF r.side = "sell" /\ b = a /\ j = i
               THEN Total(HeldQty(b, j), MaxOrders) - left[id] + left'[id]
               ELSE Total(HeldQty(b, j), MaxOrders)
    BY <1>1, <1>7, <1>14, <1>20, <2>1, OneOrderChanges DEF unit, cur, i
  <2>3. unit \in Nat /\ unit * left[id] = 0
    <3>1. unit \in Nat
      BY <1>1, <1>2, ReservationCovers DEF TypeOK, unit
    <3> QED
      BY <1>7, <3>1
  <2>4. /\ \A b \in Accounts, c \in Currencies :
             reserved[b][c] = Total(HeldCash(b, c), MaxOrders) /\ reserved[b][c] \in Nat
        /\ \A b \in Accounts, j \in Instruments :
             held[b][j] = Total(HeldQty(b, j), MaxOrders) /\ held[b][j] \in Nat
    BY <1>1 DEF BooksOK, ReservationsMatch, TypeOK
  <2>5. \A b \in Accounts, c \in Currencies : reserved'[b][c] = Total(HeldCash(b, c)', MaxOrders)
    BY <1>3, <1>14, <1>17, <2>2, <2>3, <2>4
  <2>6. \A b \in Accounts, j \in Instruments : held'[b][j] = Total(HeldQty(b, j)', MaxOrders)
    BY <1>3, <1>14, <1>18, <1>7, <2>2, <2>4
  <2> QED
    BY <2>5, <2>6 DEF ReservationsMatch
<1> QED
  BY <1>5, <1>20, <1>21, <1>22, <1>23, <1>24, IdlePassOK DEF IInv, BooksOK
-----------------------------------------------------------------------------
(* The theorems. *)

\* Without orders nothing is promised, and deposits are not negative.
LEMMA InitIInv == Init => IInv
<1> SUFFICES ASSUME Init PROVE IInv
  OBVIOUS
<1>1. \A c \in Currencies : InitialCash[c] \in Nat
  BY SizeAssumption, FeeAssumption, Products DEF InitialCash
<1>2. TypeOK
  <2>1. EmptyLevels \in Levels
    BY DEF EmptyLevels, Levels
  <2>2. InitialCash \in [Currencies -> Int]
    BY <1>1 DEF InitialCash
  <2>3. /\ 1 \in 1 .. MaxGeneration + 1 /\ 1 \in 1 .. MaxOrders + 1
        /\ 1 \in 1 .. Len(Schedules)
    BY SizeAssumption, FeeAssumption
  <2>4. <<>> \in Seq(OrderIds)
    OBVIOUS
  <2> QED
    BY <2>1, <2>2, <2>3, <2>4 DEF Init, TypeOK
<1>3. \A o \in OrderIds : orders[o] = NoOrder /\ left[o] = 0 /\ ~ IsOpen(o)
  BY DEF Init, IsOpen, NoOrder
<1>4. OpenOrdersRest
  <2>1. \A i \in Instruments : RestingIds(i) = {}
    BY DEF Init, RestingIds
  <2> QED
    BY <1>3, <2>1 DEF OpenOrdersRest
<1>5. ReservationsMatch
  <2>1. MaxOrders \in Nat /\ HeldTyped
    BY <1>2, SizeAssumption, HeldFacts
  <2>2. ASSUME NEW a \in Accounts, NEW c \in Currencies
        PROVE  Total(HeldCash(a, c), MaxOrders) = 0
    <3>1. \A o \in 1 .. MaxOrders : HeldCash(a, c)[o] = 0
      BY <1>3 DEF HeldCash, OrderIds
    <3> QED
      BY <2>1, <3>1, TotalZero DEF HeldTyped
  <2>3. ASSUME NEW a \in Accounts, NEW i \in Instruments
        PROVE  Total(HeldQty(a, i), MaxOrders) = 0
    <3>1. \A o \in 1 .. MaxOrders : HeldQty(a, i)[o] = 0
      BY <1>3 DEF HeldQty, OrderIds
    <3> QED
      BY <2>1, <3>1, TotalZero DEF HeldTyped
  <2> QED
    BY <2>2, <2>3 DEF ReservationsMatch, Init
<1>6. NoOverdraft
  BY <1>1 DEF Init, NoOverdraft
<1>7. UnusedIds
  BY <1>3 DEF UnusedIds
<1>8. PassOK
  BY DEF Init, PassOK, ToVisit, Idle
<1> QED
  BY <1>2, <1>4, <1>5, <1>6, <1>7, <1>8 DEF IInv, BooksOK

\* Every action of Next preserves the invariant.
LEMMA NextIInv == IInv /\ [Next]_vars => IInv'
<1> SUFFICES ASSUME IInv, [Next]_vars PROVE IInv'
  OBVIOUS
<1>1. CASE Client
  BY <1>1, PlaceKeeps, CancelKeeps, ConvertKeeps, ResetKeeps DEF Client
<1>2. CASE Feed
  BY <1>2, OnBookKeeps, OnTradeKeeps DEF Feed
<1>3. CASE Loop
  BY <1>3, BookStepKeeps, TradeStepKeeps, ExpireStepKeeps DEF Loop
<1>4. CASE Expire
  BY <1>4, ExpireKeeps
<1>5. CASE Restart
  BY <1>5, RestartKeeps
<1>6. CASE Time
  BY <1>6, TimeKeeps
<1>7. CASE UNCHANGED vars
  <2>1. /\ UNCHANGED <<accountVars, orders, nextId, resting, left>>
        /\ ahead' = ahead /\ book' = book /\ fresh' = fresh /\ offset' = offset
        /\ depletion' = depletion /\ open' = open /\ schedule' = schedule /\ pass' = pass
    BY <1>7 DEF vars, orderVars, shadowVars, marketVars
  <2>2. MarketTypes'
    BY <2>1 DEF IInv, BooksOK, TypeOK, MarketTypes
  <2>3. BooksOK' /\ orders' = orders
    BY <2>1, <2>2, BooksKept DEF IInv
  <2>4. PassOK'
    BY <2>1, <2>3 DEF IInv, PassOK, ToVisit
  <2> QED
    BY <2>3, <2>4 DEF IInv
<1> QED
  BY <1>1, <1>2, <1>3, <1>4, <1>5, <1>6, <1>7 DEF Next

\* RestOnce, list by list.
LEMMA RestOnceLists ==
  ASSUME TypeOK
  PROVE  RestOnce <=> \A i \in Instruments : Once(resting[i])
<1>1. \A i \in Instruments : DOMAIN resting[i] = 1 .. Len(resting[i])
  BY DEF TypeOK
<1> QED
  BY <1>1 DEF RestOnce, Once

\* An order that fills, is cancelled, expires or is reset away leaves its list,
\* and the others stay in it once.
LEMMA KeepRestOnce ==
  ASSUME TypeOK, RestOnce, NEW i \in Instruments, NEW S
  PROVE  Once(Keep(resting[i], S))
<1>1. resting[i] \in Seq(OrderIds) /\ Once(resting[i])
  BY RestOnceLists DEF TypeOK
<1> QED
  BY <1>1, KeepOnce

\* A sorting names every position once: of two equal ones neither is in front.
LEMMA SortedOnce ==
  ASSUME BooksOK, RestOnce, NEW i \in Instruments, NEW p \in Sortings(i)
  PROVE  Once([k \in DOMAIN resting[i] |-> resting[i][p[k]]])
<1> DEFINE s == resting[i]
           n == Len(s)
           sorted == [k \in DOMAIN s |-> s[p[k]]]
<1>1. s \in Seq(OrderIds) /\ n \in Nat /\ DOMAIN s = 1 .. n /\ TypeOK
  BY DEF BooksOK, TypeOK
<1>2. p \in [1 .. n -> 1 .. n] /\ \A j, k \in 1 .. n : j < k => InFront(i, p[j], p[k])
  BY <1>1 DEF Sortings
<1>3. \A j \in 1 .. n : ~ InFront(i, j, j)
  <2> SUFFICES ASSUME NEW j \in 1 .. n PROVE ~ InFront(i, j, j)
    OBVIOUS
  <2>1. s[j] \in OrderIds /\ s[j] \in Elements(s)
    BY <1>1 DEF Elements
  <2>2. orders[s[j]] # NoOrder
    BY <2>1, ListedOrdersExist
  <2>3. orders[s[j]].req.limit \in Nat
    BY <1>1, <2>1, <2>2, OrderFacts
  <2> QED
    BY <2>3 DEF InFront
<1>4. \A j, k \in 1 .. n : p[j] = p[k] => j = k
  BY <1>1, <1>2, <1>3
<1>5. \A j, k \in 1 .. n : s[j] = s[k] => j = k
  BY <1>1 DEF RestOnce
<1>6. Len(sorted) = n /\ \A k \in 1 .. n : sorted[k] = s[p[k]]
  BY <1>1, <1>2
<1> HIDE DEF sorted, s, n
<1>7. Once(sorted)
  BY <1>2, <1>4, <1>5, <1>6 DEF Once
<1> QED
  BY <1>7 DEF sorted, s

\* An order id is given out once, so what is pushed is not in the list.
LEMMA PlaceRestOnce ==
  ASSUME IInv, RestOnce, NEW a \in Accounts, NEW r \in Requests, Place(a, r)
  PROVE  \A i \in Instruments : Once(resting'[i])
<1>1. /\ BooksOK /\ TypeOK /\ resting \in [Instruments -> Seq(OrderIds)]
      /\ \A i \in Instruments : Once(resting[i])
  BY RestOnceLists DEF IInv, BooksOK, TypeOK
<1>2. nextId \in OrderIds /\ orders[nextId] = NoOrder
  BY <1>1, SizeAssumption DEF Place, BooksOK, UnusedIds, OrderIds, TypeOK
<1>3. \A i \in Instruments : nextId \notin Elements(resting[i])
  BY <1>1, <1>2, ListedOrdersExist
<1>4. \A i \in Instruments : Once(Append(resting[i], nextId))
  BY <1>1, <1>2, <1>3, AppendOnce
<1>5. \/ resting' = [resting EXCEPT ![r.inst] = Append(@, nextId)]
      \/ resting' = resting
  BY DEF Place
<1> QED
  BY <1>1, <1>4, <1>5

\* A restart lists orders oldest first, account by account: none twice.
LEMMA RestartRestOnce ==
  ASSUME IInv, Restart
  PROVE  \A i \in Instruments : Once(resting'[i])
<1> SUFFICES ASSUME NEW i \in Instruments PROVE Once(resting'[i])
  OBVIOUS
<1>1. resting'[i] \in UNION {[1 .. n -> OrderIds] : n \in 0 .. MaxOrders}
  BY DEF Restart
<1>2. /\ resting'[i] \in Seq(OrderIds) /\ Len(resting'[i]) \in Nat
      /\ DOMAIN resting'[i] = 1 .. Len(resting'[i])
  BY <1>1, RestoredLists
<1>3. \A j, k \in DOMAIN resting'[i] :
        j < k => RestoredBefore(resting'[i][j], resting'[i][k])
  BY DEF Restart
<1>4. \A o \in OrderIds : orders[o] # NoOrder => ~ RestoredBefore(o, o)
  <2>1. \A o \in OrderIds : orders[o] # NoOrder => AccountRank[orders[o].account] \in Nat
    BY OrderFacts, InstrumentAssumption DEF IInv, BooksOK
  <2> QED
    BY <2>1 DEF RestoredBefore, OrderIds
<1>5. \A j \in DOMAIN resting'[i] : orders[resting'[i][j]] # NoOrder
  <2>1. \A o \in OrderIds : o \in RestingIds(i)' => IsOpen(o)
    BY RestartFacts DEF IInv, BooksOK, OpenOrdersRest
  <2> QED
    BY <1>2, <2>1, OrderFacts DEF RestingIds, IInv, BooksOK
<1>6. \A j, k \in 1 .. Len(resting'[i]) : j < k => resting'[i][j] # resting'[i][k]
  BY <1>2, <1>3, <1>4, <1>5
<1> QED
  BY <1>2, <1>6 DEF Once

\* No step puts an order into a list it is in, or into two places of one.
LEMMA NextRestOnce ==
  IInv /\ RestOnce /\ IInv' /\ [Next]_vars => RestOnce'
<1> SUFFICES ASSUME IInv, RestOnce, IInv', [Next]_vars PROVE RestOnce'
  OBVIOUS
<1>1. /\ TypeOK /\ TypeOK' /\ BooksOK /\ resting \in [Instruments -> Seq(OrderIds)]
      /\ \A i \in Instruments : Once(resting[i])
  BY RestOnceLists DEF IInv, BooksOK, TypeOK
<1> SUFFICES \A i \in Instruments : Once(resting'[i])
  <2>1. \A i \in Instruments : DOMAIN resting'[i] = 1 .. Len(resting'[i])
    BY <1>1 DEF TypeOK
  <2> QED
    BY <2>1 DEF RestOnce, Once
<1>2. ASSUME NEW o, NEW i \in Instruments,
             \/ resting' = [resting EXCEPT ![i] = Keep(@, OrderIds \ {o})]
             \/ resting' = resting
      PROVE  \A j \in Instruments : Once(resting'[j])
  BY <1>1, <1>2, KeepRestOnce
<1>3. ASSUME NEW o, orders[o].req.inst \in Instruments, NEW q, MakerFill(o, q) \/ NoFill
      PROVE  \A j \in Instruments : Once(resting'[j])
  <2>1. \/ resting' = [resting EXCEPT ![orders[o].req.inst] = Keep(@, OrderIds \ {o})]
        \/ resting' = resting
    BY <1>1, <1>3 DEF MakerFill, NoFill
  <2> QED
    BY <1>2, <1>3, <2>1
<1>4. ASSUME NEW o, orders[o].req.inst \in Instruments, NEW st, CloseOrder(o, st)
      PROVE  \A j \in Instruments : Once(resting'[j])
  BY <1>2, <1>4 DEF CloseOrder
<1>5. \A o \in OrderIds : orders[o] # NoOrder => orders[o].req.inst \in Instruments
  BY <1>1, OrderFacts
<1>6. ASSUME resting' = resting PROVE \A j \in Instruments : Once(resting'[j])
  BY <1>1, <1>6
<1>7. CASE Client
  <2>1. ASSUME NEW o \in OrderIds, Cancel(o) PROVE \A j \in Instruments : Once(resting'[j])
    <3>1. orders[o] # NoOrder
      BY <1>1, <2>1, OrderFacts DEF Cancel
    <3> QED
      BY <1>4, <1>5, <2>1, <3>1 DEF Cancel
  <2>2. ASSUME NEW a \in Accounts, NEW v \in Conversions, Convert(a, v)
        PROVE  \A j \in Instruments : Once(resting'[j])
    BY <1>6, <2>2 DEF Convert, orderVars
  <2>3. ASSUME NEW a \in Accounts, Reset(a) PROVE \A j \in Instruments : Once(resting'[j])
    BY <1>1, <2>3, KeepRestOnce DEF Reset
  <2> QED
    BY <1>7, <2>1, <2>2, <2>3, PlaceRestOnce DEF Client
<1>8. CASE Feed
  <2>1. ASSUME NEW i \in Instruments, NEW b \in Books, OnBook(i, b)
        PROVE  \A j \in Instruments : Once(resting'[j])
    BY <1>6, <2>1 DEF OnBook, orderVars
  <2>2. ASSUME NEW i \in Instruments, NEW t \in Prints, OnTrade(i, t)
        PROVE  \A j \in Instruments : Once(resting'[j])
    <3>1. PICK p \in Sortings(i) :
            resting' = [resting EXCEPT ![i] = [k \in DOMAIN @ |-> @[p[k]]]]
      BY <2>2 DEF OnTrade
    <3>2. Once([k \in DOMAIN resting[i] |-> resting[i][p[k]]])
      BY <1>1, SortedOnce
    <3> QED
      BY <1>1, <3>1, <3>2
  <2> QED
    BY <1>8, <2>1, <2>2 DEF Feed
<1>9. CASE Loop
  <2>1. ASSUME pass.kind \in {"book", "trade"}
        PROVE  orders[Head(pass.todo)].req.inst \in Instruments
    BY <1>5, <2>1, NextOrderFacts
  <2>2. CASE BookStep
    <3> DEFINE o == Head(pass.todo)
               req == orders[o].req
               q == Walk(pass.inst, req.side, "qty", left[o], 200 * req.limit)[MaxPrice].qty
    <3>1. pass.kind = "book" /\ (MakerFill(o, q) \/ NoFill)
      BY <2>2 DEF BookStep
    <3>2. orders[o].req.inst \in Instruments
      BY <2>1, <3>1
    <3> HIDE DEF o, q
    <3> QED
      BY <1>3, <3>1, <3>2
  <2>3. CASE TradeStep
    <3> DEFINE o == Head(pass.todo)
               q == OrderTakes(o)
    <3>1. pass.kind = "trade" /\ (MakerFill(o, q) \/ NoFill)
      BY <2>3 DEF TradeStep
    <3>2. orders[o].req.inst \in Instruments
      BY <2>1, <3>1
    <3> HIDE DEF o, q
    <3> QED
      BY <1>3, <3>1, <3>2
  <2>4. CASE ExpireStep
    <3>1. PICK o \in pass.ids : CloseOrder(o, "expired")
      BY <2>4 DEF ExpireStep
    <3>2. orders[o].req.inst \in Instruments
      BY <1>5, <2>4, <3>1 DEF ExpireStep, IInv, PassOK, ToVisit
    <3> QED
      BY <1>4, <3>1, <3>2
  <2> QED
    BY <1>9, <2>2, <2>3, <2>4 DEF Loop
<1>10. CASE Expire
  BY <1>6, <1>10 DEF Expire, orderVars
<1>11. CASE Restart
  BY <1>11, RestartRestOnce
<1>12. CASE Time
  BY <1>6, <1>12 DEF Time, Decay, Stale, Session, NextSchedule, Passing, orderVars
<1>13. CASE UNCHANGED vars
  BY <1>6, <1>13 DEF vars, orderVars
<1> QED
  BY <1>7, <1>8, <1>9, <1>10, <1>11, <1>12, <1>13 DEF Next

-----------------------------------------------------------------------------
(* Closed orders stay as they are: beyond IInv, the expiry loop has only     *)
(* open orders left to close.                                                *)

ExpiresOpen == pass.kind = "expire" => \A o \in pass.ids : IsOpen(o)

\* What ClosedForGood says of one order.
Advance(o) ==
  orders[o] # NoOrder =>
    \/ ~ IsOpen(o) /\ orders'[o] \in {orders[o], NoOrder}
    \/ IsOpen(o) /\ orders'[o] # NoOrder /\ Executed(o) >= 0
       /\ (Executed(o) > 0 => orders'[o].status \in {"open", "filled"})

\* An order that a step leaves alone.
LEMMA SameAdvance ==
  ASSUME TypeOK, NEW o \in OrderIds, orders'[o] = orders[o]
  PROVE  Advance(o)
<1> SUFFICES ASSUME orders[o] # NoOrder, IsOpen(o)
             PROVE  Executed(o) = 0
  BY DEF Advance
<1>1. orders[o].filled \in Nat
  BY OrderFacts
<1>2. Filled(o) = orders[o].filled /\ Filled(o)' = orders[o].filled
  BY DEF Filled
<1> QED
  BY <1>1, <1>2 DEF Executed

\* An open order that fills or is closed.
LEMMA ChangeAdvance ==
  ASSUME TypeOK, NEW o \in OrderIds, IsOpen(o), NEW n \in Nat, NEW s \in Statuses,
         n >= orders[o].filled, n > orders[o].filled => s \in {"open", "filled"},
         orders'[o].status = s, orders'[o].filled = n
  PROVE  Advance(o)
<1>1. orders[o] # NoOrder /\ orders[o].filled \in Nat
  BY OrderFacts
<1>2. orders'[o] # NoOrder
  BY DEF NoOrder, Statuses
<1>3. Filled(o) = orders[o].filled /\ Filled(o)' = n
  BY <1>1, <1>2 DEF Filled
<1>4. Executed(o) = n - orders[o].filled
  BY <1>1, <1>3 DEF Executed
<1> QED
  BY <1>1, <1>2, <1>4 DEF Advance

\* The fields of an order whose status, or whose fill and status, are replaced.
LEMMA FieldUpdate ==
  ASSUME NEW x \in Order, NEW s, NEW n
  PROVE  /\ [x EXCEPT !.status = s].status = s /\ [x EXCEPT !.status = s].filled = x.filled
         /\ [x EXCEPT !.filled = n, !.status = s].status = s
         /\ [x EXCEPT !.filled = n, !.status = s].filled = n
BY DEF Order

\* A fill is of an open order.
LEMMA FillAdvance ==
  ASSUME IInv, NEW o \in OrderIds, NEW q \in Nat, q > 0, q <= left[o], MakerFill(o, q)
  PROVE  \A p \in OrderIds : Advance(p)
<1> DEFINE s == IF left[o] = q THEN "filled" ELSE "open"
           n == orders[o].filled + q
<1>1. TypeOK /\ IsOpen(o) /\ orders[o] \in Order /\ orders[o].filled \in Nat
  BY RemainderFacts, OrderFacts DEF IInv, BooksOK
<1>2. s \in {"open", "filled"} /\ n \in Nat /\ n >= orders[o].filled
  BY <1>1
<1> HIDE DEF s
<1>3. orders' = [orders EXCEPT ![o] = [orders[o] EXCEPT !.filled = n, !.status = s]]
  <2>1. orders' = [orders EXCEPT ![o].filled = @ + q, ![o].status = s]
    BY DEF MakerFill, s
  <2> QED
    BY <1>1, <2>1 DEF TypeOK
<1> HIDE DEF n
<1>4. orders'[o].status = s /\ orders'[o].filled = n
  BY <1>1, <1>3, FieldUpdate DEF TypeOK
<1>5. Advance(o)
  BY <1>1, <1>2, <1>4, ChangeAdvance DEF Statuses
<1>6. \A p \in OrderIds \ {o} : orders'[p] = orders[p]
  BY <1>1, <1>3 DEF TypeOK
<1> QED
  BY <1>1, <1>5, <1>6, SameAdvance

\* A cancel or an expiry is of an open order; it executes nothing.
LEMMA CloseAdvance ==
  ASSUME TypeOK, NEW o \in OrderIds, IsOpen(o), NEW s \in {"cancelled", "expired"},
         CloseOrder(o, s)
  PROVE  \A p \in OrderIds : Advance(p)
<1>1. orders[o] \in Order /\ orders[o].filled \in Nat
  BY OrderFacts
<1>2. orders' = [orders EXCEPT ![o] = [orders[o] EXCEPT !.status = s]]
  BY DEF CloseOrder, TypeOK
<1>3. orders'[o].status = s /\ orders'[o].filled = orders[o].filled
  BY <1>1, <1>2, FieldUpdate DEF TypeOK
<1>4. Advance(o)
  BY <1>1, <1>3, ChangeAdvance DEF Statuses
<1>5. \A p \in OrderIds \ {o} : orders'[p] = orders[p]
  BY <1>2 DEF TypeOK
<1> QED
  BY <1>4, <1>5, SameAdvance

\* A resting order fills some of what it has left.
AFill == \E o \in OrderIds, q \in Nat : q > 0 /\ q <= left[o] /\ MakerFill(o, q)

\* A round of on_book's loop fills an open order or nothing.
LEMMA BookRound ==
  ASSUME IInv, BookStep
  PROVE  NoFill \/ AFill
<1> DEFINE o == Head(pass.todo)
           req == orders[o].req
           walk == Walk(pass.inst, req.side, "qty", left[o], 200 * req.limit)
           q == walk[MaxPrice].qty
<1>1. TypeOK /\ pass.kind = "book" /\ pass \in BookPass
  BY PassFacts DEF BookStep, IInv, BooksOK
<1>2. o \in OrderIds /\ left[o] \in Nat /\ req.side \in Sides
  <2>1. o \in OrderIds /\ orders[o] # NoOrder
    BY <1>1, NextOrderFacts
  <2> QED
    BY <1>1, <2>1, OrderFacts DEF TypeOK
<1>3. q \in Nat /\ q <= left[o]
  <2>1. pass.inst \in Instruments
    BY <1>1 DEF BookPass
  <2>2. /\ walk \in [0 .. MaxPrice -> [budget : Nat, qty : Nat, notional : Nat]]
        /\ walk[MaxPrice].qty <= left[o]
    BY <1>1, <1>2, <2>1, WalkFacts
  <2>3. MaxPrice \in 0 .. MaxPrice
    BY SizeAssumption
  <2> HIDE DEF walk
  <2> QED
    BY <2>2, <2>3
<1>4. NoFill \/ (q > 0 /\ MakerFill(o, q))
  BY DEF BookStep
<1> HIDE DEF o, req, walk, q
<1> QED
  BY <1>2, <1>3, <1>4 DEF AFill

\* A round of on_trade's loop fills an open order or nothing.
LEMMA TradeRound ==
  ASSUME IInv, TradeStep
  PROVE  NoFill \/ AFill
<1> DEFINE o == Head(pass.todo)
           req == orders[o].req
           q == OrderTakes(o)
           avail == pass.avail[req.side]
<1>1. TypeOK /\ pass.kind = "trade" /\ pass \in TradePass
  BY PassFacts DEF TradeStep, IInv, BooksOK
<1>2. o \in OrderIds /\ left[o] \in Nat /\ req.side \in Sides /\ ahead[o] \in Nat
  <2>1. o \in OrderIds /\ orders[o] # NoOrder
    BY <1>1, NextOrderFacts
  <2> QED
    BY <1>1, <2>1, OrderFacts DEF TypeOK
<1>3. avail \in Nat
  BY <1>1, <1>2 DEF TradePass
<1>4. avail - QueueTakes(o) \in Nat
  <2>1. Least(ahead[o], avail) \in Nat /\ Least(ahead[o], avail) <= avail
    BY <1>2, <1>3, LeastFacts
  <2>2. QueueTakes(o) = IF pass.price = req.limit THEN Least(ahead[o], avail) ELSE 0
    BY DEF QueueTakes
  <2> HIDE DEF o, req, avail
  <2> QED
    BY <1>3, <2>1, <2>2
<1>5. q \in Nat /\ q <= left[o]
  <2>1. /\ Least(left[o], avail - QueueTakes(o)) \in Nat
        /\ Least(left[o], avail - QueueTakes(o)) <= left[o]
    BY <1>2, <1>4, LeastFacts
  <2>2. q = IF Through(req) \/ pass.price = req.limit
            THEN Least(left[o], avail - QueueTakes(o)) ELSE 0
    BY DEF OrderTakes
  <2> HIDE DEF q
  <2> QED
    BY <1>2, <2>1, <2>2
<1>6. NoFill \/ (q > 0 /\ MakerFill(o, q))
  BY DEF TradeStep
<1> HIDE DEF o, req, q
<1> QED
  BY <1>2, <1>5, <1>6 DEF AFill

\* A step changes an order only as ClosedForGood allows.
LEMMA NextAdvance ==
  ASSUME IInv, ExpiresOpen, [Next]_vars
  PROVE  \A o \in OrderIds : Advance(o)
<1>1. TypeOK
  BY DEF IInv, BooksOK
<1>2. ASSUME orders' = orders PROVE \A o \in OrderIds : Advance(o)
  BY <1>1, <1>2, SameAdvance
<1>3. ASSUME NEW a \in Accounts, NEW r \in Requests, Place(a, r)
      PROVE  \A o \in OrderIds : Advance(o)
  <2>1. nextId \in OrderIds /\ orders[nextId] = NoOrder
    BY <1>1, <1>3 DEF IInv, BooksOK, UnusedIds, TypeOK, OrderIds, Place
  <2>2. Advance(nextId)
    BY <2>1 DEF Advance
  <2>3. \A o \in OrderIds \ {nextId} : orders'[o] = orders[o]
    BY <1>1, <1>3 DEF Place, TypeOK
  <2> QED
    BY <1>1, <2>2, <2>3, SameAdvance
<1>4. ASSUME NEW o \in OrderIds, Cancel(o) PROVE \A p \in OrderIds : Advance(p)
  BY <1>1, <1>4, CloseAdvance DEF Cancel
<1>5. ASSUME NEW a \in Accounts, Reset(a), NEW o \in OrderIds PROVE Advance(o)
  <2>1. orders'[o] = IF IsOpen(o) /\ orders[o].account = a
                     THEN [orders[o] EXCEPT !.status = "cancelled"] ELSE orders[o]
    BY <1>5 DEF Reset
  <2>2. CASE IsOpen(o) /\ orders[o].account = a
    <3>1. orders[o] \in Order /\ orders[o].filled \in Nat
      BY <1>1, <2>2, OrderFacts
    <3>2. orders'[o].status = "cancelled" /\ orders'[o].filled = orders[o].filled
      BY <2>1, <2>2, <3>1, FieldUpdate
    <3> QED
      BY <1>1, <2>2, <3>1, <3>2, ChangeAdvance DEF Statuses
  <2> QED
    BY <1>1, <2>1, <2>2, SameAdvance
<1>6. ASSUME ExpireStep PROVE \A o \in OrderIds : Advance(o)
  <2>1. PICK o \in pass.ids : CloseOrder(o, "expired")
    BY <1>6 DEF ExpireStep
  <2>2. o \in OrderIds /\ IsOpen(o)
    BY <1>6 DEF ExpiresOpen, ExpireStep, IInv, PassOK, ToVisit
  <2> QED
    BY <1>1, <2>1, <2>2, CloseAdvance
<1>7. ASSUME Restart, NEW o \in OrderIds PROVE Advance(o)
  <2>1. orders'[o] = IF IsOpen(o) THEN orders[o] ELSE NoOrder
    BY <1>7 DEF Restart
  <2>2. CASE ~ IsOpen(o)
    BY <2>1, <2>2 DEF Advance
  <2> QED
    BY <1>1, <2>1, <2>2, SameAdvance
<1>8. CASE Client
  BY <1>2, <1>3, <1>4, <1>5, <1>8 DEF Client, Convert, orderVars
<1>9. CASE Feed \/ Expire \/ Time \/ UNCHANGED vars
  BY <1>2, <1>9 DEF Feed, OnBook, OnTrade, Expire, Time, Decay, Stale, Session, NextSchedule,
                    Passing, vars, orderVars
<1>10. CASE Loop
  <2>1. CASE NoFill
    BY <1>2, <2>1 DEF NoFill
  <2>2. CASE AFill
    BY <2>2, FillAdvance DEF AFill
  <2> QED
    BY <1>6, <1>10, <2>1, <2>2, BookRound, TradeRound DEF Loop
<1> QED
  BY <1>7, <1>8, <1>9, <1>10 DEF Next

\* The expiry loop starts with open orders, and each round closes one of them.
LEMMA NextExpiresOpen ==
  IInv /\ ExpiresOpen /\ [Next]_vars => ExpiresOpen'
<1> SUFFICES ASSUME IInv, ExpiresOpen, [Next]_vars, pass'.kind = "expire"
             PROVE  \A o \in pass'.ids : IsOpen(o)'
  BY DEF ExpiresOpen
<1>1. TypeOK
  BY DEF IInv, BooksOK
<1>2. CASE Expire
  BY <1>2 DEF Expire, DayOrdersDue, IsOpen, orderVars
<1>3. CASE ExpireStep
  <2>1. PICK o \in pass.ids :
          /\ CloseOrder(o, "expired")
          /\ pass' = IF pass.ids = {o} THEN Idle ELSE [pass EXCEPT !.ids = @ \ {o}]
    BY <1>3 DEF ExpireStep
  <2>2. pass.kind = "expire" /\ pass \in ExpirePass
    BY <1>1, <1>3, PassFacts DEF ExpireStep
  <2>3. pass'.ids = pass.ids \ {o}
    BY <2>1, <2>2 DEF Idle, ExpirePass
  <2>4. \A p \in pass.ids : p \in OrderIds /\ IsOpen(p)
    BY <2>2 DEF ExpiresOpen, ExpirePass
  <2>5. \A p \in OrderIds \ {o} : orders'[p] = orders[p]
    BY <1>1, <2>1 DEF CloseOrder, TypeOK
  <2> QED
    BY <2>3, <2>4, <2>5 DEF IsOpen
<1>4. CASE BookStep \/ TradeStep
  <2>1. IInv /\ pass.kind \in {"book", "trade"}
    BY <1>4 DEF BookStep, TradeStep
  <2>2. NextOrder = Idle \/ NextOrder = [pass EXCEPT !.todo = Tail(pass.todo)]
    BY <2>1, NextOrderFacts
  <2>3. pass \in BookPass \cup TradePass
    BY <1>1, <2>1, PassFacts
  <2>4. pass'.kind # "expire"
    <3>1. NextOrder.kind # "expire"
      BY <2>2, <2>3 DEF Idle, BookPass, TradePass
    <3>2. CASE BookStep
      BY <3>1, <3>2 DEF BookStep
    <3>3. CASE TradeStep /\ NextOrder # Idle
      <4>1. NextOrder \in BookPass \cup TradePass
        BY <2>1, <2>2, <2>3, <3>3, NextOrderFacts DEF BookPass, TradePass
      <4> QED
        BY <3>1, <3>3, <4>1 DEF TradeStep, BookPass, TradePass
    <3>4. CASE TradeStep /\ NextOrder = Idle
      <4>1. pass' = Idle
        BY <3>4 DEF TradeStep
      <4> QED
        BY <4>1 DEF Idle
    <3> QED
      BY <1>4, <3>2, <3>3, <3>4
  <2> QED
    BY <2>4
<1>5. CASE Feed
  <2>1. ASSUME NEW i \in Instruments, NEW b \in Books, OnBook(i, b) PROVE pass'.kind # "expire"
    BY <2>1 DEF OnBook, Idle
  <2>2. ASSUME NEW i \in Instruments, NEW t \in Prints, OnTrade(i, t)
        PROVE  pass'.kind # "expire"
    <3>1. pass' = [kind |-> "trade", inst |-> i, price |-> Shift(i, t.price), todo |-> resting'[i],
                   avail |-> [s \in Sides |-> t.qty], print |-> t.qty,
                   before |-> [o \in OrderIds |-> IF orders[o] = NoOrder THEN 0 ELSE orders[o].filled]]
      BY <2>2 DEF OnTrade
    <3> QED
      BY <3>1
  <2> QED
    BY <1>5, <2>1, <2>2 DEF Feed
<1>6. CASE Client \/ Restart \/ Time
  <2>1. ASSUME pass = Idle, pass' = pass PROVE pass'.kind # "expire"
    BY <2>1 DEF Idle
  <2>2. CASE Client
    BY <2>1, <2>2 DEF Client, Place, Cancel, Convert, Reset
  <2>3. CASE Restart
    BY <2>1, <2>3 DEF Restart
  <2>4. CASE Time
    BY <2>1, <2>4 DEF Time, Decay, Stale, Session, NextSchedule, Passing
  <2> QED
    BY <1>6, <2>2, <2>3, <2>4
<1>7. CASE UNCHANGED vars
  BY <1>7 DEF ExpiresOpen, IsOpen, vars, orderVars
<1> QED
  BY <1>2, <1>3, <1>4, <1>5, <1>6, <1>7 DEF Next, Loop

\* The invariant holds in every reachable state, for any number of accounts,
\* instruments, orders, price levels and fee schedules.
THEOREM Invariance == Spec => []IInv
<1>1. Init => IInv
  BY InitIInv
<1>2. IInv /\ [Next]_vars => IInv'
  BY NextIInv
<1> QED
  BY <1>1, <1>2, PTL DEF Spec

\* Every variable keeps the type the code declares for it; in particular the
\* ids in the resting lists are always ids of the order table.
THEOREM TypeCorrect == Spec => []TypeOK
<1>1. IInv => TypeOK
  BY DEF IInv, BooksOK
<1> QED
  BY <1>1, Invariance, PTL

\* No sequence of orders, fills, cancels, conversions, resets, restarts and new
\* fee schedules overdraws an account: available cash and units stay >= 0.
THEOREM NeverOverdrawn == Spec => []NoOverdraft
<1>1. IInv => NoOverdraft
  BY DEF IInv, BooksOK
<1> QED
  BY <1>1, Invariance, PTL

\* What an account has reserved is always the sum of what its resting orders
\* still promise, so reserve and release of ledger.rs are called in pairs.
THEOREM ReservationsExact == Spec => []ReservationsMatch
<1>1. IInv => ReservationsMatch
  BY DEF IInv, BooksOK
<1> QED
  BY <1>1, Invariance, PTL

\* World.orders and World.resting agree: exactly the open orders rest, once, on
\* their own instrument, with the unfilled part of their size.
THEOREM OrdersAndListsAgree == Spec => []BookMatchesOrders
<1>1. Init => RestOnce
  BY DEF Init, RestOnce
<1>2. IInv => OpenOrdersRest
  BY DEF IInv, BooksOK
<1> QED
  BY <1>1, <1>2, Invariance, NextRestOnce, PTL DEF Spec, BookMatchesOrders

\* restore rebuilds, from the open orders the store kept, the remainders, the
\* reservations and the sets of resting orders that the stopped broker had.
THEOREM RestartIsTransparent == Spec => RestartTransparent
<1>1. ASSUME IInv, Restart
      PROVE  /\ UNCHANGED <<left, reserved, held>>
             /\ \A i \in Instruments : RestingIds(i)' = RestingIds(i)
  BY <1>1, RestartFacts DEF IInv
<1>2. IInv => [Restart => /\ UNCHANGED <<left, reserved, held>>
                          /\ \A i \in Instruments : RestingIds(i)' = RestingIds(i)]_vars
  BY <1>1
<1> QED
  BY <1>2, Invariance, PTL DEF RestartTransparent

\* What is closed stays closed: no fill, cancel, expiry, reset or restart changes
\* a closed order, and only fills that leave an order open or filled add to it.
THEOREM ClosedOrdersStay == Spec => ClosedForGood
<1>1. Init => ExpiresOpen
  BY DEF Init, ExpiresOpen, Idle
<1>2. IInv /\ ExpiresOpen /\ [Next]_vars =>
        [\A o \in OrderIds : orders[o] # NoOrder =>
           \/ ~ IsOpen(o) /\ orders'[o] \in {orders[o], NoOrder}
           \/ IsOpen(o) /\ orders'[o] # NoOrder /\ Executed(o) >= 0
              /\ (Executed(o) > 0 => orders'[o].status \in {"open", "filled"})]_vars
  BY NextAdvance DEF Advance
<1> QED
  BY <1>1, <1>2, Invariance, NextExpiresOpen, PTL DEF Spec, ClosedForGood

-----------------------------------------------------------------------------
(* The entries of a step. *)

\* Two entries, one after the other.
LEMMA Pairs ==
  ASSUME NEW x, NEW y
  PROVE  <<x>> \o <<y>> = <<x, y>>
<1> DEFINE s == <<x>>
           t == <<y>>
           u == <<x, y>>
<1>1. s \in Seq({x, y}) /\ t \in Seq({x, y}) /\ u \in Seq({x, y})
  OBVIOUS
<1>2. Len(s) = 1 /\ Len(t) = 1 /\ Len(u) = 2 /\ s[1] = x /\ t[1] = y /\ u[1] = x /\ u[2] = y
  OBVIOUS
<1> HIDE DEF s, t, u
<1>3. /\ s \o t \in Seq({x, y}) /\ Len(s \o t) = 2
      /\ \A k \in 1 .. 2 : (s \o t)[k] = IF k <= 1 THEN s[k] ELSE t[k - 1]
  BY <1>1, <1>2, ConcatProperties
<1>4. \A k \in 1 .. 2 : (s \o t)[k] = u[k]
  BY <1>2, <1>3
<1>5. s \o t = u
  BY <1>1, <1>2, <1>3, <1>4, SeqEqual
<1> QED
  BY <1>5, Zenon DEF s, t, u

\* The entries of a journal that is known.
LEMMA EntriesFacts ==
  ASSUME NEW x, NEW y
  PROVE  /\ journal' = <<>> => Entries' = {}
         /\ journal' = <<x>> => Entries' = {x}
         /\ journal' = <<x, y>> => Entries' = {x, y}
<1>1. ASSUME journal' = <<>> PROVE Entries' = {}
  BY <1>1 DEF Entries
<1>2. ASSUME journal' = <<x>> PROVE Entries' = {x}
  <2>1. DOMAIN <<x>> = {1}
    OBVIOUS
  <2> QED
    BY <1>2, <2>1 DEF Entries
<1>3. ASSUME journal' = <<x, y>> PROVE Entries' = {x, y}
  <2>1. DOMAIN <<x, y>> = {1, 2} /\ <<x, y>>[1] = x /\ <<x, y>>[2] = y
    OBVIOUS
  <2> QED
    BY <1>3, <2>1 DEF Entries
<1> QED
  BY <1>1, <1>2, <1>3

\* The one entry that moves cash or units, if there is one.
LEMMA MovementFacts ==
  /\ (\A e \in Entries' : e.type \notin {"fill", "conversion"}) => Movement' = NoEntry
  /\ \A x \in Entries' :
       /\ x.type \in {"fill", "conversion"}
       /\ \A e \in Entries' : e.type \in {"fill", "conversion"} => e = x
       => Movement' = x
BY DEF Movement

\* Steps that journal nothing and change neither cash, units nor orders.
Silent == journal' = <<>> /\ UNCHANGED <<cash, qty, orders>>
\* An order that exists is cancelled or expires.
AClose ==
  \E o \in OrderIds, s \in {"cancelled", "expired"} : orders[o] # NoOrder /\ CloseOrder(o, s)

\* Every step is one of seven kinds, as far as the journal is concerned.
LEMMA Kinds ==
  ASSUME IInv, Next
  PROVE  \/ Silent \/ AFill \/ AClose \/ Restart
         \/ \E a \in Accounts, r \in Requests : Place(a, r)
         \/ \E a \in Accounts, v \in Conversions : Convert(a, v)
         \/ \E a \in Accounts : Reset(a)
<1>1. CASE Client
  <2>1. ASSUME NEW o \in OrderIds, Cancel(o) PROVE AClose
    BY <2>1, OrderFacts DEF Cancel, AClose, IInv, BooksOK
  <2> QED
    BY <1>1, <2>1 DEF Client
<1>2. CASE Feed
  BY <1>2 DEF Feed, OnBook, OnTrade, Silent, accountVars, orderVars
<1>3. CASE Loop
  <2>1. NoFill => Silent
    BY DEF NoFill, Silent, accountVars
  <2>2. ASSUME ExpireStep PROVE AClose
    <3>1. PICK o \in pass.ids : CloseOrder(o, "expired")
      BY <2>2 DEF ExpireStep
    <3>2. o \in OrderIds /\ orders[o] # NoOrder
      BY <2>2 DEF ExpireStep, IInv, PassOK, ToVisit
    <3> QED
      BY <3>1, <3>2 DEF AClose
  <2> QED
    BY <1>3, <2>1, <2>2, BookRound, TradeRound DEF Loop
<1>4. CASE Expire
  BY <1>4 DEF Expire, Silent, accountVars, orderVars
<1>5. CASE Time
  BY <1>5 DEF Time, Decay, Stale, Session, NextSchedule, Passing, Silent, accountVars, orderVars
<1> QED
  BY <1>1, <1>2, <1>3, <1>4, <1>5 DEF Next

\* Entries by what they say.
IsUpdate(e, o) ==
  e.type = "order" /\ e.id = o /\ e.status = orders'[o].status /\ e.filled = orders'[o].filled
IsFill(e, o, q, n) ==
  /\ e.type = "fill" /\ e.id = o /\ e.qty = q /\ e.notional = n
  /\ e.fee = Fee(orders'[o].req.side, n) /\ e.tax = Tax(orders'[o].req.side, n)
IsConversion(e, a, v) == e.type = "conversion" /\ e.account = a /\ e.conversion = v

\* A fill of a resting order writes the order and the execution.
LEMMA FillEntries ==
  ASSUME IInv, NEW o \in OrderIds, NEW q \in Nat, q > 0, q <= left[o], MakerFill(o, q)
  PROVE  /\ \E x, y : /\ IsUpdate(x, o) /\ IsFill(y, o, q, q * orders[o].req.limit)
                      /\ Entries' = {x, y}
         /\ orders'[o].req = orders[o].req /\ orders'[o].account = orders[o].account
         /\ \A p \in OrderIds \ {o} : orders'[p] = orders[p]
<1> DEFINE s == IF left[o] = q THEN "filled" ELSE "open"
           m == orders[o].filled + q
           n == q * orders[o].req.limit
           x == OrderEntry(o, s, m)
           y == FillEntry(o, q, n, "maker")
<1>1. TypeOK /\ orders[o] \in Order
  BY RemainderFacts, OrderFacts DEF IInv, BooksOK
<1>2. journal' = <<x, y>>
  BY DEF MakerFill
<1>3. orders' = [orders EXCEPT ![o] = [orders[o] EXCEPT !.filled = m, !.status = s]]
  <2>1. orders' = [orders EXCEPT ![o].filled = @ + q, ![o].status = s]
    BY DEF MakerFill
  <2> HIDE DEF s
  <2> QED
    BY <1>1, <2>1 DEF TypeOK
<1> HIDE DEF s, m, n
<1>4. /\ orders'[o] = [orders[o] EXCEPT !.filled = m, !.status = s]
      /\ \A p \in OrderIds \ {o} : orders'[p] = orders[p]
  BY <1>1, <1>3 DEF TypeOK
<1>5. /\ orders'[o].status = s /\ orders'[o].filled = m
      /\ orders'[o].req = orders[o].req /\ orders'[o].account = orders[o].account
  BY <1>1, <1>4, FieldUpdate
<1>6. IsUpdate(x, o)
  BY <1>5 DEF IsUpdate, OrderEntry
<1>7. IsFill(y, o, q, n)
  BY DEF IsFill, FillEntry
<1> HIDE DEF x, y
<1>8. Entries' = {x, y}
  BY <1>2, EntriesFacts
<1> QED
  BY <1>4, <1>5, <1>6, <1>7, <1>8 DEF n

\* A cancel or an expiry writes the order.
LEMMA CloseEntries ==
  ASSUME TypeOK, NEW o \in OrderIds, orders[o] # NoOrder,
         NEW s \in {"cancelled", "expired"}, CloseOrder(o, s)
  PROVE  /\ \E x : IsUpdate(x, o) /\ Entries' = {x}
         /\ \A p \in OrderIds \ {o} : orders'[p] = orders[p]
<1> DEFINE x == OrderEntry(o, s, orders[o].filled)
<1>1. orders[o] \in Order
  BY OrderFacts
<1>2. orders' = [orders EXCEPT ![o] = [orders[o] EXCEPT !.status = s]] /\ journal' = <<x>>
  BY DEF CloseOrder, TypeOK
<1>3. /\ orders'[o].status = s /\ orders'[o].filled = orders[o].filled
      /\ \A p \in OrderIds \ {o} : orders'[p] = orders[p]
  BY <1>1, <1>2, FieldUpdate DEF TypeOK
<1>4. IsUpdate(x, o)
  BY <1>3 DEF IsUpdate, OrderEntry
<1> HIDE DEF x
<1>5. Entries' = {x}
  BY <1>2, EntriesFacts
<1> QED
  BY <1>3, <1>4, <1>5

\* A new order writes itself and what it executed at once, if anything.
LEMMA PlaceEntries ==
  ASSUME IInv, NEW a \in Accounts, NEW r \in Requests, Place(a, r)
  PROVE  /\ \E x : /\ IsUpdate(x, nextId)
                   /\ \/ Taken(r).qty = 0 /\ Entries' = {x}
                      \/ /\ Taken(r).qty > 0
                         /\ \E y : /\ IsFill(y, nextId, Taken(r).qty, Taken(r).notional)
                                   /\ Entries' = {x, y}
         /\ nextId \in OrderIds /\ orders'[nextId].req = r /\ orders'[nextId].account = a
         /\ \A p \in OrderIds \ {nextId} : orders'[p] = orders[p]
<1> DEFINE id == nextId
           t == Taken(r)
           s == IF RestQty(r) > 0 THEN "open"
                ELSE IF Complete(r, t.qty) THEN "filled" ELSE "cancelled"
           x == OrderEntry(id, s, t.qty)
           y == FillEntry(id, t.qty, t.notional, "taker")
<1>1. TypeOK /\ id \in OrderIds
  <2>1. TypeOK
    BY DEF IInv, BooksOK
  <2>2. nextId \in 1 .. MaxOrders + 1 /\ nextId <= MaxOrders
    BY <2>1 DEF TypeOK, Place
  <2> QED
    BY <2>1, <2>2, SizeAssumption DEF OrderIds
<1>2. t.qty \in Nat
  <2>1. r \in Request /\ WellFormed(r)
    BY SizeAssumption DEF Place, Accepts
  <2> QED
    BY <1>1, <2>1, TakenFacts
<1>3. /\ orders' = [orders EXCEPT ![id] =
                      [req |-> r, account |-> a, status |-> s, filled |-> t.qty]]
      /\ journal' = <<x>> \o (IF t.qty > 0 THEN <<y>> ELSE <<>>)
  BY DEF Place
<1> HIDE DEF s, t
<1>4. orders'[id] = [req |-> r, account |-> a, status |-> s, filled |-> t.qty]
      /\ \A p \in OrderIds \ {id} : orders'[p] = orders[p]
  BY <1>1, <1>3 DEF TypeOK
<1>5. IsUpdate(x, id)
  BY <1>4 DEF IsUpdate, OrderEntry
<1>6. IsFill(y, id, t.qty, t.notional)
  BY DEF IsFill, FillEntry
<1> HIDE DEF id, x, y
<1>7. CASE t.qty = 0
  <2>1. <<x>> \o <<>> = <<x>>
    OBVIOUS
  <2>2. Entries' = {x}
    BY <1>3, <1>7, <2>1, EntriesFacts
  <2> QED
    BY <1>1, <1>4, <1>5, <1>7, <2>2 DEF t, id
<1>8. CASE t.qty > 0
  <2>1. <<x>> \o <<y>> = <<x, y>>
    BY Pairs
  <2>2. Entries' = {x, y}
    BY <1>3, <1>8, <2>1, EntriesFacts
  <2> QED
    BY <1>1, <1>4, <1>5, <1>6, <1>8, <2>2 DEF t, id
<1> QED
  BY <1>2, <1>7, <1>8

\* A conversion writes itself.
LEMMA ConvertEntries ==
  ASSUME NEW a \in Accounts, NEW v \in Conversions, Convert(a, v)
  PROVE  \E x : IsConversion(x, a, v) /\ Entries' = {x}
<1> DEFINE x == ConversionEntry(a, v)
<1>1. journal' = <<x>>
  BY DEF Convert
<1>2. IsConversion(x, a, v)
  BY DEF IsConversion, ConversionEntry
<1> HIDE DEF x
<1> QED
  BY <1>1, <1>2, EntriesFacts

\* A conversion's credit is worth no more than what it takes.
LEMMA CreditFacts ==
  ASSUME NEW v \in Conversions
  PROVE  /\ Credit(v) \in Nat
         /\ PriceOf(v.from, v.rate) \in Nat /\ PriceOf(v.to, v.rate) \in Nat
         /\ Credit(v) * PriceOf(v.to, v.rate) <= v.amount * PriceOf(v.from, v.rate)
<1> DEFINE f == PriceOf(v.from, v.rate)
           t == PriceOf(v.to, v.rate)
           m == v.amount
           k == 100 - v.spread
           x == m * f * k
           d == 100 * t
<1>1. f \in Nat \ {0} /\ t \in Nat \ {0} /\ m \in Nat /\ k \in Nat /\ k <= 100
  BY ConversionAssumption DEF PriceOf
<1>2. Credit(v) = x \div d
  BY DEF Credit
<1> HIDE DEF f, t, m, k
<1>3. m * f \in Nat /\ x \in Nat /\ x <= (m * f) * 100
  BY <1>1, Products
<1>4. d \in Nat \ {0}
  BY <1>1
<1> DEFINE c == x \div d
<1>5. c \in Nat /\ c * d <= x
  <2> HIDE DEF x, d
  <2> QED
    BY <1>3, <1>4, Quotients
<1> HIDE DEF c, x
<1>6. c * d = (c * t) * 100 /\ c * t \in Nat
  BY <1>1, <1>5, Products
<1>7. c * t <= m * f
  BY <1>3, <1>5, <1>6
<1> QED
  BY <1>1, <1>2, <1>5, <1>7 DEF f, t, m, c, x

-----------------------------------------------------------------------------
(* The journal accounts for every change. *)

\* Entries that only update orders move nothing.
LEMMA NoMovement ==
  ASSUME \A e \in Entries' : e.type = "order"
  PROVE  \A a, c, i : EntryCash(Movement', a, c) = 0 /\ EntryQty(Movement', a, i) = 0
<1>1. Movement' = NoEntry
  BY MovementFacts
<1> QED
  BY <1>1 DEF EntryCash, EntryQty, NoEntry

\* An execution moves what its order's account pays or gets, and nothing else.
LEMMA FillMovement ==
  ASSUME schedule \in 1 .. Len(Schedules), NEW o, NEW q \in Nat, NEW n \in Nat, NEW x, NEW y,
         IsUpdate(x, o), IsFill(y, o, q, n), Entries' = {x, y},
         orders'[o].req.side \in Sides
  PROVE  LET r == orders'[o].req
             b == orders'[o].account
         IN  \A a, c, i :
               /\ EntryCash(Movement', a, c) =
                    IF b = a /\ CurrencyOf[r.inst] = c THEN CashLeg(r.side, n) ELSE 0
               /\ EntryQty(Movement', a, i) =
                    IF b = a /\ r.inst = i THEN QtyLeg(r.side, q) ELSE 0
<1> DEFINE side == orders'[o].req.side
<1>1. Movement' = y
  BY MovementFacts DEF IsUpdate, IsFill
<1>2. Fee(side, n) \in Nat /\ Tax(side, n) \in Nat /\ FeeBase * n \in Nat
  <2>1. /\ Rates.commission \in Nat /\ Rates.sellFee \in Nat /\ Rates.sellTax \in Nat
        /\ FeeBase \in Nat
    BY FeeAssumption DEF Rates
  <2>2. Rates.commission + (IF side = "sell" THEN Rates.sellFee ELSE 0) \in Nat
    BY <2>1
  <2>3. Fee(side, n) \in Nat /\ FeeBase * n \in Nat
    BY <2>1, <2>2, TruncatedFacts, Products DEF Fee
  <2>4. Tax(side, n) \in Nat
    BY <2>1, TruncatedFacts DEF Tax
  <2> QED
    BY <2>3, <2>4
<1>3. CashLeg(side, n) =
        (IF side = "buy" THEN - FeeBase * n ELSE FeeBase * n) - Fee(side, n) - Tax(side, n)
  <2>1. FeeBase \in Nat
    BY FeeAssumption
  <2> HIDE DEF side
  <2> QED
    BY <1>2, <2>1 DEF CashLeg
<1> QED
  BY <1>1, <1>3 DEF IsFill, EntryCash, EntryQty, QtyLeg

\* What Settle does to cash and units, account by account.
LEMMA SettleFacts ==
  ASSUME TypeOK, NEW b \in Accounts, NEW j \in Instruments, NEW side \in Sides,
         NEW q \in Nat, NEW n \in Nat, Settle(b, j, side, q, n)
  PROVE  \A a \in Accounts :
           /\ \A c \in Currencies : cash'[a][c] - cash[a][c] =
                IF b = a /\ CurrencyOf[j] = c THEN CashLeg(side, n) ELSE 0
           /\ \A i \in Instruments : qty'[a][i] - qty[a][i] =
                IF b = a /\ j = i THEN QtyLeg(side, q) ELSE 0
<1> DEFINE leg == CashLeg(side, n)
           got == QtyLeg(side, q)
<1>1. leg \in Int /\ got \in Int
  <2>1. schedule \in 1 .. Len(Schedules)
    BY DEF TypeOK
  <2>2. CashLeg("buy", n) \in Int /\ CashLeg("sell", n) \in Int
    BY <2>1, CashLegFacts
  <2>3. leg \in Int
    BY <2>2 DEF Sides
  <2>4. got \in Int
    BY DEF QtyLeg
  <2> QED
    BY <2>3, <2>4
<1>2. CurrencyOf[j] \in Currencies
  BY InstrumentAssumption
<1>3. /\ cash' = [cash EXCEPT ![b][CurrencyOf[j]] = @ + leg]
      /\ qty' = [qty EXCEPT ![b][j] = @ + got]
  BY DEF Settle
<1> HIDE DEF leg, got
<1>4. ASSUME NEW a \in Accounts, NEW c \in Currencies
      PROVE  cash'[a][c] - cash[a][c] = IF b = a /\ CurrencyOf[j] = c THEN leg ELSE 0
  <2>1. cash[a][c] \in Int /\ cash \in [Accounts -> [Currencies -> Int]]
    BY DEF TypeOK
  <2>2. cash'[a][c] = IF b = a /\ CurrencyOf[j] = c THEN cash[a][c] + leg ELSE cash[a][c]
    BY <1>2, <1>3, <2>1
  <2> QED
    BY <1>1, <2>1, <2>2
<1>5. ASSUME NEW a \in Accounts, NEW i \in Instruments
      PROVE  qty'[a][i] - qty[a][i] = IF b = a /\ j = i THEN got ELSE 0
  <2>1. qty[a][i] \in Int /\ qty \in [Accounts -> [Instruments -> Int]]
    BY DEF TypeOK
  <2>2. qty'[a][i] = IF b = a /\ j = i THEN qty[a][i] + got ELSE qty[a][i]
    BY <1>3, <2>1
  <2> QED
    BY <1>1, <2>1, <2>2
<1> QED
  BY <1>4, <1>5 DEF leg, got

\* What JournalTellsAll says of a step.
MoneyTold ==
  \A a \in Accounts :
    /\ \A c \in Currencies : cash'[a][c] - cash[a][c] = EntryCash(Movement', a, c)
    /\ \A i \in Instruments : qty'[a][i] - qty[a][i] = EntryQty(Movement', a, i)
OrdersTold ==
  \A o \in OrderIds : orders'[o] # orders[o] =>
    \E e \in Entries' : /\ e.type = "order" /\ e.id = o
                        /\ e.status = orders'[o].status
                        /\ e.filled = orders'[o].filled

\* Cash and units that do not change need no entry.
LEMMA UnchangedTold ==
  ASSUME TypeOK, cash' = cash, qty' = qty, \A e \in Entries' : e.type = "order"
  PROVE  MoneyTold
<1>1. ASSUME NEW a \in Accounts
      PROVE  /\ \A c \in Currencies : cash'[a][c] - cash[a][c] = 0
             /\ \A i \in Instruments : qty'[a][i] - qty[a][i] = 0
  BY DEF TypeOK
<1> QED
  BY <1>1, NoMovement DEF MoneyTold

\* An execution and its entry tell the same.
LEMMA ExecutionTold ==
  ASSUME TypeOK, NEW o, NEW q \in Nat, NEW n \in Nat, NEW x, NEW y, NEW r, NEW b \in Accounts,
         r.inst \in Instruments, r.side \in Sides,
         orders'[o].req = r, orders'[o].account = b,
         IsUpdate(x, o), IsFill(y, o, q, n), Entries' = {x, y},
         Settle(b, r.inst, r.side, q, n)
  PROVE  MoneyTold
<1>1. schedule \in 1 .. Len(Schedules)
  BY DEF TypeOK
<1>2. \A a, c, i :
        /\ EntryCash(Movement', a, c) =
             IF b = a /\ CurrencyOf[r.inst] = c THEN CashLeg(r.side, n) ELSE 0
        /\ EntryQty(Movement', a, i) = IF b = a /\ r.inst = i THEN QtyLeg(r.side, q) ELSE 0
  <2>1. orders'[o].req.side \in Sides
    OBVIOUS
  <2>2. \A a, c, i :
          /\ EntryCash(Movement', a, c) =
               IF orders'[o].account = a /\ CurrencyOf[orders'[o].req.inst] = c
               THEN CashLeg(orders'[o].req.side, n) ELSE 0
          /\ EntryQty(Movement', a, i) =
               IF orders'[o].account = a /\ orders'[o].req.inst = i
               THEN QtyLeg(orders'[o].req.side, q) ELSE 0
    BY <1>1, <2>1, FillMovement
  <2> QED
    BY <2>2
<1>3. \A a \in Accounts :
        /\ \A c \in Currencies : cash'[a][c] - cash[a][c] =
             IF b = a /\ CurrencyOf[r.inst] = c THEN CashLeg(r.side, n) ELSE 0
        /\ \A i \in Instruments : qty'[a][i] - qty[a][i] =
             IF b = a /\ r.inst = i THEN QtyLeg(r.side, q) ELSE 0
  BY SettleFacts
<1> QED
  BY <1>2, <1>3 DEF MoneyTold

\* A fill tells all.
LEMMA FillTold ==
  ASSUME IInv, AFill
  PROVE  MoneyTold /\ OrdersTold
<1>1. PICK o \in OrderIds, q \in Nat : q > 0 /\ q <= left[o] /\ MakerFill(o, q)
  BY DEF AFill
<1> DEFINE r == orders[o].req
           n == q * r.limit
<1>2. TypeOK /\ schedule \in 1 .. Len(Schedules)
  BY DEF IInv, BooksOK, TypeOK
<1>3. /\ r.side \in Sides /\ r.inst \in Instruments /\ r.limit \in Nat
      /\ orders[o].account \in Accounts
  BY <1>1, <1>2, RemainderFacts, OrderFacts DEF IInv
<1>4. n \in Nat
  BY <1>3, Products
<1>5. PICK x, y : IsUpdate(x, o) /\ IsFill(y, o, q, n) /\ Entries' = {x, y}
  BY <1>1, FillEntries
<1>6. /\ orders'[o].req = r /\ orders'[o].account = orders[o].account
      /\ \A p \in OrderIds \ {o} : orders'[p] = orders[p]
  BY <1>1, FillEntries
<1>7. Settle(orders[o].account, r.inst, r.side, q, n)
  BY <1>1 DEF MakerFill
<1> HIDE DEF r, n
<1>8. MoneyTold
  BY <1>2, <1>3, <1>4, <1>5, <1>6, <1>7, ExecutionTold
<1>9. OrdersTold
  BY <1>5, <1>6 DEF OrdersTold, IsUpdate
<1> QED
  BY <1>8, <1>9

\* A new order tells all.
LEMMA PlaceTold ==
  ASSUME IInv, NEW a \in Accounts, NEW r \in Requests, Place(a, r)
  PROVE  MoneyTold /\ OrdersTold
<1> DEFINE o == nextId
           q == Taken(r).qty
           n == Taken(r).notional
<1>1. TypeOK /\ schedule \in 1 .. Len(Schedules) /\ r \in Request
  BY SizeAssumption DEF IInv, BooksOK, TypeOK
<1>2. r.side \in Sides /\ r.inst \in Instruments
  BY <1>1 DEF Request
<1>3. q \in Nat /\ n \in Nat
  <2>1. WellFormed(r)
    BY DEF Place, Accepts
  <2> QED
    BY <1>1, <2>1, TakenFacts
<1>4. PICK x : /\ IsUpdate(x, o)
               /\ \/ q = 0 /\ Entries' = {x}
                  \/ q > 0 /\ \E y : IsFill(y, o, q, n) /\ Entries' = {x, y}
  BY PlaceEntries
<1>5. /\ orders'[o].req = r /\ orders'[o].account = a
      /\ \A p \in OrderIds \ {o} : orders'[p] = orders[p]
  BY PlaceEntries
<1>6. IF q > 0 THEN Settle(a, r.inst, r.side, q, n) ELSE cash' = cash /\ qty' = qty
  BY DEF Place, TakeFromBook
<1> HIDE DEF o, q, n
<1>7. MoneyTold
  <2>1. CASE q = 0
    BY <1>1, <1>4, <1>6, <2>1, UnchangedTold DEF IsUpdate
  <2>2. CASE q > 0
    <3>1. PICK y : IsFill(y, o, q, n) /\ Entries' = {x, y}
      BY <1>4, <2>2
    <3> QED
      BY <1>1, <1>2, <1>3, <1>4, <1>5, <1>6, <2>2, <3>1, ExecutionTold
  <2> QED
    BY <1>3, <2>1, <2>2
<1>8. OrdersTold
  BY <1>4, <1>5 DEF OrdersTold, IsUpdate
<1> QED
  BY <1>7, <1>8

\* A cancel or an expiry tells all.
LEMMA CloseTold ==
  ASSUME IInv, AClose
  PROVE  MoneyTold /\ OrdersTold
<1>1. TypeOK
  BY DEF IInv, BooksOK
<1>2. PICK o \in OrderIds, s \in {"cancelled", "expired"} : orders[o] # NoOrder /\ CloseOrder(o, s)
  BY DEF AClose
<1>3. cash' = cash /\ qty' = qty
  BY <1>2 DEF CloseOrder
<1>4. /\ \E x : IsUpdate(x, o) /\ Entries' = {x}
      /\ \A p \in OrderIds \ {o} : orders'[p] = orders[p]
  BY <1>1, <1>2, CloseEntries
<1> QED
  BY <1>1, <1>3, <1>4, UnchangedTold DEF OrdersTold, IsUpdate

\* A conversion tells all.
LEMMA ConvertTold ==
  ASSUME IInv, NEW a \in Accounts, NEW v \in Conversions, Convert(a, v)
  PROVE  MoneyTold /\ OrdersTold
<1>1. TypeOK /\ orders' = orders /\ qty' = qty
  BY DEF IInv, BooksOK, Convert, orderVars
<1>2. PICK x : IsConversion(x, a, v) /\ Entries' = {x}
  BY ConvertEntries
<1>3. Movement' = x
  BY <1>2, MovementFacts DEF IsConversion
<1>4. v.from \in Currencies /\ v.to \in Currencies /\ v.from # v.to /\ v.amount \in Nat
  BY ConversionAssumption DEF Convert
<1>5. Credit(v) * FeeBase \in Int /\ v.amount * FeeBase \in Int /\ FeeBase \in Nat /\ Credit(v) \in Int
  <2>1. FeeBase \in Nat
    BY FeeAssumption
  <2>2. Credit(v) \in Int
    BY CreditFacts
  <2> QED
    BY <1>4, <2>1, <2>2
<1>6. cash' = [cash EXCEPT ![a][v.from] = @ - v.amount * FeeBase,
                           ![a][v.to] = @ + Credit(v) * FeeBase]
  BY DEF Convert
<1>7. ASSUME NEW b \in Accounts, NEW c \in Currencies
      PROVE  cash'[b][c] - cash[b][c] = EntryCash(x, b, c)
  <2> DEFINE k == Credit(v)
             m == v.amount
  <2>1. EntryCash(x, b, c) =
          IF a = b THEN FeeBase * ((IF v.to = c THEN k ELSE 0) - (IF v.from = c THEN m ELSE 0))
          ELSE 0
    BY <1>2 DEF IsConversion, EntryCash
  <2>2. cash[b][c] \in Int /\ cash \in [Accounts -> [Currencies -> Int]]
    BY <1>1 DEF TypeOK
  <2>3. k \in Int /\ m \in Int
    BY <1>4, <1>5
  <2> HIDE DEF k, m
  <2>4. cash'[b][c] = IF a # b THEN cash[b][c]
                      ELSE IF v.to = c THEN cash[b][c] + k * FeeBase
                      ELSE IF v.from = c THEN cash[b][c] - m * FeeBase ELSE cash[b][c]
    BY <1>4, <1>6, <2>2 DEF k, m
  <2>5. k * FeeBase = FeeBase * (k - 0) /\ - (m * FeeBase) = FeeBase * (0 - m) /\ FeeBase * (0 - 0) = 0
        /\ k * FeeBase \in Int /\ m * FeeBase \in Int
    BY <1>5, <2>3
  <2> QED
    BY <1>4, <2>1, <2>2, <2>4, <2>5
<1>8. ASSUME NEW b \in Accounts, NEW i \in Instruments
      PROVE  qty'[b][i] - qty[b][i] = EntryQty(x, b, i)
  <2>1. qty[b][i] \in Int
    BY <1>1 DEF TypeOK
  <2> QED
    BY <1>1, <1>2, <2>1 DEF IsConversion, EntryQty
<1> QED
  BY <1>1, <1>3, <1>7, <1>8 DEF MoneyTold, OrdersTold


\* The journal tells the store everything a step changes, resets aside, so that
\* deposits plus the entries of a generation rebuild its portfolio.
THEOREM JournalComplete == Spec => JournalTellsAll
<1>1. ASSUME IInv, Next, generation' = generation, ~ Restart
      PROVE  MoneyTold /\ OrdersTold
  <2>1. TypeOK
    BY <1>1 DEF IInv, BooksOK
  <2>2. CASE Silent
    <3>1. Entries' = {}
      BY <2>2, EntriesFacts DEF Silent
    <3> QED
      BY <2>1, <2>2, <3>1, UnchangedTold DEF Silent, OrdersTold
  <2>3. ASSUME NEW a \in Accounts, Reset(a) PROVE FALSE
    <3>1. generation[a] \in Int
      BY <2>1, SizeAssumption DEF TypeOK
    <3>2. generation'[a] = generation[a] + 1
      BY <2>1, <2>3 DEF Reset, TypeOK
    <3> QED
      BY <1>1, <3>1, <3>2
  <2> QED
    BY <1>1, <2>2, <2>3, Kinds, FillTold, PlaceTold, CloseTold, ConvertTold
<1>2. IInv /\ [Next]_vars =>
        [generation' = generation /\ ~ Restart => MoneyTold /\ OrdersTold]_vars
  BY <1>1
<1>3. IInv /\ [Next]_vars =>
        [generation' = generation /\ ~ Restart =>
           /\ \A a \in Accounts :
                /\ \A c \in Currencies : cash'[a][c] - cash[a][c] = EntryCash(Movement', a, c)
                /\ \A i \in Instruments : qty'[a][i] - qty[a][i] = EntryQty(Movement', a, i)
           /\ \A o \in OrderIds : orders'[o] # orders[o] =>
                \E e \in Entries' : /\ e.type = "order" /\ e.id = o
                                    /\ e.status = orders'[o].status
                                    /\ e.filled = orders'[o].filled]_vars
  BY <1>2 DEF MoneyTold, OrdersTold
<1> QED
  BY <1>3, Invariance, PTL DEF Spec, JournalTellsAll
-----------------------------------------------------------------------------
(* Conversions and limits. *)

\* Whatever the rates, spreads and truncation, a conversion never gains value at
\* its own rate (convert_sync).
THEOREM ConversionsNeverGain == Spec => ConversionNeverGains
<1>1. ASSUME IInv, NEW a \in Accounts, NEW v \in Conversions, Convert(a, v), NEW b \in Accounts
      PROVE  cash'[b][v.from] * PriceOf(v.from, v.rate) + cash'[b][v.to] * PriceOf(v.to, v.rate)
               <= cash[b][v.from] * PriceOf(v.from, v.rate) + cash[b][v.to] * PriceOf(v.to, v.rate)
  <2> DEFINE f == PriceOf(v.from, v.rate)
             t == PriceOf(v.to, v.rate)
             k == Credit(v)
             m == v.amount
  <2>1. cash \in [Accounts -> [Currencies -> Int]]
    BY <1>1 DEF IInv, BooksOK, TypeOK
  <2>2. v.from \in Currencies /\ v.to \in Currencies /\ v.from # v.to /\ m \in Nat
    BY <1>1, ConversionAssumption DEF Convert
  <2>3. k \in Nat /\ f \in Nat /\ t \in Nat /\ k * t <= m * f /\ FeeBase \in Nat
    BY CreditFacts, FeeAssumption
  <2>4. cash' = [cash EXCEPT ![a][v.from] = @ - m * FeeBase, ![a][v.to] = @ + k * FeeBase]
    BY <1>1 DEF Convert
  <2> DEFINE x == cash[b][v.from]
             y == cash[b][v.to]
  <2>5. x \in Int /\ y \in Int
    BY <2>1, <2>2
  <2> HIDE DEF f, t, k, m
  <2>6. /\ cash'[b][v.from] = IF a = b THEN x - m * FeeBase ELSE x
        /\ cash'[b][v.to] = IF a = b THEN y + k * FeeBase ELSE y
    BY <2>1, <2>2, <2>4
  <2> HIDE DEF x, y
  <2>7. (x - m * FeeBase) * f + (y + k * FeeBase) * t <= x * f + y * t
    <3>1. FeeBase * (k * t) <= FeeBase * (m * f) /\ k * t \in Nat /\ m * f \in Nat
      BY <2>2, <2>3, Products
    <3>2. (x - m * FeeBase) * f = x * f - FeeBase * (m * f)
      BY <2>2, <2>3, <2>5
    <3>3. (y + k * FeeBase) * t = y * t + FeeBase * (k * t)
      BY <2>2, <2>3, <2>5
    <3>4. x * f \in Int /\ y * t \in Int /\ FeeBase * (m * f) \in Int /\ FeeBase * (k * t) \in Int
      BY <2>3, <2>5, <3>1
    <3> QED
      BY <3>1, <3>2, <3>3, <3>4
  <2>8. x * f + y * t <= x * f + y * t
    BY <2>3, <2>5
  <2> QED
    BY <2>6, <2>7, <2>8 DEF f, t, x, y
<1>2. ASSUME IInv, Next, NEW e \in Entries', e.type = "conversion", NEW b \in Accounts
      PROVE  LET v == e.conversion IN
             cash'[b][v.from] * PriceOf(v.from, v.rate) + cash'[b][v.to] * PriceOf(v.to, v.rate)
               <= cash[b][v.from] * PriceOf(v.from, v.rate) + cash[b][v.to] * PriceOf(v.to, v.rate)
  <2>1. PICK a \in Accounts, v \in Conversions : Convert(a, v)
    <3>1. ~ Silent /\ ~ Restart /\ \A a \in Accounts : ~ Reset(a)
      BY <1>2, EntriesFacts DEF Silent, Restart, Reset
    <3>2. ~ AFill
      BY <1>2, FillEntries DEF AFill, IsUpdate, IsFill
    <3>3. ~ AClose
      <4>1. TypeOK
        BY <1>2 DEF IInv, BooksOK
      <4> QED
        BY <1>2, <4>1, CloseEntries DEF AClose, IsUpdate
    <3>4. \A a \in Accounts, r \in Requests : ~ Place(a, r)
      BY <1>2, PlaceEntries DEF IsUpdate, IsFill
    <3> QED
      BY <1>2, <3>1, <3>2, <3>3, <3>4, Kinds
  <2>2. e.conversion = v
    BY <1>2, <2>1, ConvertEntries DEF IsConversion
  <2> QED
    BY <1>1, <1>2, <2>1, <2>2
<1>3. IInv /\ [Next]_vars =>
        [\A e \in Entries' : e.type = "conversion" =>
           LET v == e.conversion IN
           \A a \in Accounts :
             cash'[a][v.from] * PriceOf(v.from, v.rate) + cash'[a][v.to] * PriceOf(v.to, v.rate)
               <= cash[a][v.from] * PriceOf(v.from, v.rate)
                  + cash[a][v.to] * PriceOf(v.to, v.rate)]_vars
  BY <1>2
<1> QED
  BY <1>3, Invariance, PTL DEF Spec, ConversionNeverGains

\* An order that rests is sized in units, never in cash: only limit orders rest.
OpenInUnits == \A o \in OrderIds : IsOpen(o) => orders[o].req.unit = "qty"

LEMMA NextOpenInUnits ==
  IInv /\ OpenInUnits /\ [Next]_vars => OpenInUnits'
<1> SUFFICES ASSUME IInv, OpenInUnits, [Next]_vars PROVE OpenInUnits'
  OBVIOUS
<1>1. TypeOK
  BY DEF IInv, BooksOK
<1>2. ASSUME orders' = orders PROVE OpenInUnits'
  BY <1>2 DEF OpenInUnits, IsOpen
<1>3. CASE AFill
  <2>1. PICK o \in OrderIds, q \in Nat : q > 0 /\ q <= left[o] /\ MakerFill(o, q)
    BY <1>3 DEF AFill
  <2>2. IsOpen(o)
    BY <2>1, RemainderFacts DEF IInv
  <2>3. orders'[o].req = orders[o].req /\ \A p \in OrderIds \ {o} : orders'[p] = orders[p]
    BY <2>1, FillEntries
  <2> QED
    BY <2>2, <2>3 DEF OpenInUnits, IsOpen
<1>4. CASE AClose
  <2>1. PICK o \in OrderIds, s \in {"cancelled", "expired"} : orders[o] # NoOrder /\ CloseOrder(o, s)
    BY <1>4 DEF AClose
  <2>2. \A p \in OrderIds \ {o} : orders'[p] = orders[p]
    BY <1>1, <2>1, CloseEntries
  <2>3. orders'[o].status = s
    <3>1. orders' = [orders EXCEPT ![o] = [orders[o] EXCEPT !.status = s]] /\ orders[o] \in Order
      BY <1>1, <2>1, OrderFacts DEF CloseOrder, TypeOK
    <3> QED
      BY <1>1, <3>1, FieldUpdate DEF TypeOK
  <2> QED
    BY <2>2, <2>3 DEF OpenInUnits, IsOpen
<1>5. ASSUME NEW a \in Accounts, NEW r \in Requests, Place(a, r) PROVE OpenInUnits'
  <2>1. /\ orders'[nextId].req = r /\ nextId \in OrderIds
        /\ \A p \in OrderIds \ {nextId} : orders'[p] = orders[p]
    BY <1>5, PlaceEntries
  <2>2. orders'[nextId].status = "open" => r.unit = "qty"
    <3>1. /\ WellFormed(r)
          /\ orders'[nextId].status = IF RestQty(r) > 0 THEN "open"
               ELSE IF Complete(r, Taken(r).qty) THEN "filled" ELSE "cancelled"
      BY <1>1, <1>5, <2>1 DEF Place, Accepts, TypeOK
    <3>2. RestQty(r) > 0 => r.kind = "limit"
      BY DEF RestQty
    <3>3. r.kind = "limit" => r.unit = "qty"
      BY <3>1 DEF WellFormed
    <3>4. orders'[nextId].status = "open" => RestQty(r) > 0
      BY <3>1
    <3> QED
      BY <3>2, <3>3, <3>4
  <2>3. ASSUME NEW p \in OrderIds, IsOpen(p)' PROVE orders'[p].req.unit = "qty"
    <3>1. CASE p = nextId
      BY <2>1, <2>2, <2>3, <3>1 DEF IsOpen
    <3>2. CASE p # nextId
      BY <2>1, <2>3, <3>2 DEF OpenInUnits, IsOpen
    <3> QED
      BY <3>1, <3>2
  <2> QED
    BY <2>3 DEF OpenInUnits
<1>6. ASSUME NEW a \in Accounts, Reset(a) PROVE OpenInUnits'
  <2>1. ASSUME NEW o \in OrderIds
        PROVE  orders'[o] = orders[o] \/ orders'[o].status = "cancelled"
    <3>1. orders'[o] = IF IsOpen(o) /\ orders[o].account = a
                       THEN [orders[o] EXCEPT !.status = "cancelled"] ELSE orders[o]
      BY <1>6 DEF Reset
    <3>2. IsOpen(o) => orders[o] \in Order
      BY <1>1, OrderFacts
    <3> QED
      BY <3>1, <3>2, FieldUpdate
  <2> QED
    BY <2>1 DEF OpenInUnits, IsOpen
<1>7. CASE Restart
  BY <1>7 DEF Restart, OpenInUnits, IsOpen, NoOrder
<1>8. CASE UNCHANGED vars
  BY <1>2, <1>8 DEF vars, orderVars
<1>9. CASE Next
  BY <1>2, <1>3, <1>4, <1>5, <1>6, <1>7, <1>9, Kinds DEF Silent, Convert, orderVars
<1> QED
  BY <1>8, <1>9

\* No execution is worse than its order's limit, and an order for an amount of
\* cash never costs more than that amount, commission included.
THEOREM LimitsKept == Spec => LimitsHonoured
<1> DEFINE Kept(e) ==
      LET req == orders'[e.id].req IN
      /\ req.kind = "limit" /\ req.side = "buy" => e.notional <= e.qty * req.limit
      /\ req.kind = "limit" /\ req.side = "sell" => e.notional >= e.qty * req.limit
      /\ req.unit = "notional" => FeeBase * e.notional + e.fee <= FeeBase * req.size
<1>1. ASSUME IInv, OpenInUnits, AFill, NEW e \in Entries', e.type = "fill" PROVE Kept(e)
  <2>1. PICK o \in OrderIds, q \in Nat : q > 0 /\ q <= left[o] /\ MakerFill(o, q)
    BY <1>1 DEF AFill
  <2> DEFINE r == orders[o].req
  <2>2. IsOpen(o) /\ r.limit \in Nat
    BY <1>1, <2>1, RemainderFacts, OrderFacts DEF IInv, BooksOK
  <2>3. r.unit = "qty" /\ orders'[o].req = r
    BY <1>1, <2>1, <2>2, FillEntries DEF OpenInUnits
  <2>4. e.id = o /\ e.qty = q /\ e.notional = q * r.limit
    BY <1>1, <2>1, FillEntries DEF IsUpdate, IsFill
  <2>5. q * r.limit \in Nat
    BY <2>2, Products
  <2> QED
    BY <2>3, <2>4, <2>5
<1>2. ASSUME IInv, NEW a \in Accounts, NEW r \in Requests, Place(a, r),
             NEW e \in Entries', e.type = "fill"
      PROVE  Kept(e)
  <2> DEFINE n == Taken(r).notional
             q == Taken(r).qty
             c == Rates.commission
  <2>1. /\ e.id = nextId /\ e.qty = q /\ e.notional = n /\ e.fee = Fee(r.side, n)
        /\ orders'[nextId].req = r
    BY <1>2, PlaceEntries DEF IsUpdate, IsFill
  <2>2. TypeOK /\ r \in Request /\ WellFormed(r)
    BY <1>2, SizeAssumption DEF IInv, BooksOK, Place, Accepts
  <2>3. /\ r.inst \in Instruments /\ r.side \in Sides /\ r.unit \in {"qty", "notional"}
        /\ r.size \in Nat /\ r.limit \in Nat
    BY <2>2 DEF Request, Sides
  <2>4. n \in Nat /\ q \in Nat
    BY <2>2, TakenFacts
  <2>5. /\ r.unit = "notional" => n * (FeeBase + c) <= r.size * FeeBase
        /\ \A limit \in Nat : LimitBound(r) = 200 * limit =>
             /\ r.side = "buy" => n <= q * limit
             /\ r.side = "sell" => n >= q * limit
    <3> DEFINE all == Walk(r.inst, r.side, r.unit, r.size, LimitBound(r))[MaxPrice]
    <3>1. all = Taken(r)
      BY DEF Taken, WalkOf
    <3>2. /\ r.unit = "notional" => all.notional * (FeeBase + c) <= r.size * FeeBase
          /\ \A limit \in Nat : LimitBound(r) = 200 * limit =>
               /\ r.side = "buy" => all.notional <= all.qty * limit
               /\ r.side = "sell" => all.notional >= all.qty * limit
      <4>1. TypeOK
        BY <2>2
      <4> HIDE DEF Kept, n, q
      <4> QED
        BY <4>1, <2>3, WalkMoney, ZenonT(30)
    <3> HIDE DEF all
    <3> QED
      BY <3>1, <3>2
  <2>6. r.kind = "limit" => LimitBound(r) = 200 * r.limit
    BY DEF LimitBound
  <2>7. ASSUME r.unit = "notional" PROVE FeeBase * n + Fee(r.side, n) <= FeeBase * r.size
    <3>1. r.side = "buy"
      BY <2>2, <2>3, <2>7 DEF WellFormed, Sides
    <3>2. c \in Nat /\ FeeBase \in Nat
      BY <2>2, FeeAssumption DEF TypeOK, Rates
    <3>3. Fee(r.side, n) = Truncated(n, c + 0)
      BY <3>1 DEF Fee
    <3> HIDE DEF n, c
    <3>4. Fee(r.side, n) \in Nat /\ Fee(r.side, n) <= n * c
      <4>1. c + 0 = c
        BY <3>2
      <4> QED
        BY <2>4, <3>2, <3>3, <4>1, TruncatedFacts
    <3>5. n * (FeeBase + c) = FeeBase * n + n * c /\ FeeBase * n \in Nat /\ n * c \in Nat
      BY <2>4, <3>2
    <3>6. r.size * FeeBase = FeeBase * r.size /\ FeeBase * r.size \in Nat
      BY <2>3, <3>2
    <3> QED
      BY <2>5, <2>7, <3>4, <3>5, <3>6
  <2> QED
    BY <2>1, <2>3, <2>5, <2>6, <2>7
<1>3. ASSUME IInv, OpenInUnits, Next, NEW e \in Entries', e.type = "fill" PROVE Kept(e)
  <2>1. ~ Silent /\ ~ Restart /\ \A a \in Accounts : ~ Reset(a)
    BY <1>3, EntriesFacts DEF Silent, Restart, Reset
  <2>2. ~ AClose
    <3>1. TypeOK
      BY <1>3 DEF IInv, BooksOK
    <3> QED
      BY <1>3, <3>1, CloseEntries DEF AClose, IsUpdate
  <2>3. \A a \in Accounts, v \in Conversions : ~ Convert(a, v)
    BY <1>3, ConvertEntries DEF IsConversion
  <2> HIDE DEF Kept
  <2> QED
    BY <1>1, <1>2, <1>3, <2>1, <2>2, <2>3, Kinds
<1>4. IInv /\ OpenInUnits /\ [Next]_vars =>
        [\A e \in Entries' : e.type = "fill" =>
           LET req == orders'[e.id].req IN
           /\ req.kind = "limit" /\ req.side = "buy" => e.notional <= e.qty * req.limit
           /\ req.kind = "limit" /\ req.side = "sell" => e.notional >= e.qty * req.limit
           /\ req.unit = "notional" =>
                FeeBase * e.notional + e.fee <= FeeBase * req.size]_vars
  BY <1>3
<1>5. Init => OpenInUnits
  BY DEF Init, OpenInUnits, IsOpen, NoOrder
<1> QED
  BY <1>4, <1>5, Invariance, NextOpenInUnits, PTL DEF Spec, LimitsHonoured

-----------------------------------------------------------------------------
(* What a print gives, and to whom first. *)

\* The print is at the order's limit or through it.
Reached(o) == Through(orders[o].req) \/ pass.price = orders[o].req.limit

\* o is listed before p.
Before(s, o, p) == \E j, k \in 1 .. Len(s) : j < k /\ s[j] = o /\ s[k] = p

\* The loop over a print visits its instrument's orders, none after one it
\* outranks; and an open order it has passed by although the print reached its
\* limit has left nothing of the print to those behind it.
PriorityOK ==
  pass.kind = "trade" =>
    /\ \A k \in 1 .. Len(pass.todo) : orders[pass.todo[k]].req.inst = pass.inst
    /\ \A o, p \in OrderIds : Before(pass.todo, o, p) => ~ Outranks(p, o)
    /\ \A o \in OrderIds :
         IsOpen(o) /\ orders[o].req.inst = pass.inst /\ Reached(o) /\ o \notin Elements(pass.todo)
           => pass.avail[orders[o].req.side] = 0

\* What a round takes for an order: all its side has left, unless that fills it.
LEMMA RoundFacts ==
  ASSUME IInv, pass.kind = "trade", NEW o, o = Head(pass.todo)
  PROVE  LET avail == pass.avail[orders[o].req.side] IN
         /\ o \in OrderIds /\ orders[o] # NoOrder /\ left[o] \in Nat
         /\ pass.avail \in [Sides -> Nat] /\ orders[o].req.side \in Sides
         /\ OrderTakes(o) \in Nat /\ OrderTakes(o) <= left[o]
         /\ OrderTakes(o) > 0 => Reached(o) /\ avail # 0
         /\ Reached(o) /\ OrderTakes(o) < left[o] => avail - Drawn(o) = 0
         /\ avail = 0 => avail - Drawn(o) = 0
         /\ Drawn(o) \in Nat /\ OrderTakes(o) <= Drawn(o) /\ Drawn(o) <= avail
<1> DEFINE req == orders[o].req
           avail == pass.avail[req.side]
           rest == avail - QueueTakes(o)
<1>1. TypeOK /\ pass \in TradePass
  BY PassFacts DEF IInv, BooksOK
<1>2. /\ o \in OrderIds /\ orders[o] # NoOrder /\ left[o] \in Nat /\ ahead[o] \in Nat
      /\ req.side \in Sides
  <2>1. o \in OrderIds /\ orders[o] # NoOrder
    BY NextOrderFacts
  <2> QED
    BY <1>1, <2>1, OrderFacts DEF TypeOK
<1>3. pass.avail \in [Sides -> Nat] /\ avail \in Nat
  BY <1>1, <1>2 DEF TradePass
<1>4. QueueTakes(o) \in Nat /\ rest \in Nat /\ rest <= avail
  <2>1. Least(ahead[o], avail) \in Nat /\ Least(ahead[o], avail) <= avail
    BY <1>2, <1>3, LeastFacts
  <2>2. QueueTakes(o) = IF pass.price = req.limit THEN Least(ahead[o], avail) ELSE 0
    BY DEF QueueTakes
  <2> HIDE DEF req, avail
  <2> QED
    BY <1>3, <2>1, <2>2
<1>5. OrderTakes(o) = IF Reached(o) THEN Least(left[o], rest) ELSE 0
  BY DEF OrderTakes, Reached
<1>6. Least(left[o], rest) = IF left[o] <= rest THEN left[o] ELSE rest
  BY <1>2, <1>4 DEF Least
<1>7. Drawn(o) = QueueTakes(o) + OrderTakes(o)
  BY DEF Drawn
<1> DEFINE takes == OrderTakes(o)
           queue == QueueTakes(o)
<1>8. /\ takes \in Nat /\ takes <= left[o] /\ takes <= rest
      /\ takes > 0 => Reached(o)
      /\ Reached(o) /\ takes < left[o] => takes = rest
  <2> HIDE DEF takes, rest
  <2> QED
    BY <1>2, <1>4, <1>5, <1>6 DEF takes
<1>9. rest = avail - queue /\ queue \in Nat /\ Drawn(o) = queue + takes
  BY <1>4, <1>7
<1> HIDE DEF req, avail, rest, takes, queue
<1>10. /\ takes > 0 => avail # 0
       /\ takes = rest => avail - Drawn(o) = 0
       /\ avail = 0 => avail - Drawn(o) = 0
       /\ Drawn(o) \in Nat /\ takes <= Drawn(o) /\ Drawn(o) <= avail
  BY <1>3, <1>4, <1>8, <1>9
<1> QED
  BY <1>2, <1>3, <1>8, <1>10 DEF avail, req, takes

\* What a round leaves of the pass, when it was not the last.
LEMMA RoundPass ==
  ASSUME IInv, TradeStep, pass'.kind = "trade", NEW h, h = Head(pass.todo)
  PROVE  /\ pass'.todo = Tail(pass.todo) /\ pass'.inst = pass.inst
         /\ pass'.price = pass.price /\ pass'.print = pass.print /\ pass'.before = pass.before
         /\ pass'.avail = [pass.avail EXCEPT ![orders[h].req.side] = @ - Drawn(h)]
<1>1. pass.kind = "trade" /\ pass \in TradePass
  BY PassFacts DEF TradeStep, IInv, BooksOK
<1>2. NextOrder = [pass EXCEPT !.todo = Tail(pass.todo)] /\ NextOrder # Idle
  <2>1. NextOrder # Idle
    BY DEF TradeStep, Idle
  <2> QED
    BY <1>1, <2>1, NextOrderFacts
<1>3. pass' = [NextOrder EXCEPT !.avail[orders[h].req.side] = @ - Drawn(h)]
  BY <1>2 DEF TradeStep
<1> QED
  BY <1>1, <1>2, <1>3 DEF TradePass

\* A loop over a print is only begun by the print and only moved on by its
\* rounds; what else happens meanwhile changes no order.
LEMMA TradePasses ==
  ASSUME IInv, [Next]_vars
  PROVE  /\ pass.kind = "trade" => TradeStep \/ UNCHANGED <<orders, resting, pass>>
         /\ pass'.kind = "trade" => \/ \E i \in Instruments, t \in Prints : OnTrade(i, t)
                                   \/ TradeStep
                                   \/ UNCHANGED <<orders, resting, pass>>
<1>1. TypeOK
  BY DEF IInv, BooksOK
<1>2. CASE Client \/ Restart \/ Expire
  <2>1. pass = Idle
    BY <1>2 DEF Client, Place, Cancel, Convert, Reset, Restart, Expire
  <2>2. ASSUME Client \/ Restart PROVE pass' = pass
    <3>1. CASE Client
      BY <3>1 DEF Client, Place, Cancel, Convert, Reset
    <3>2. CASE Restart
      BY <3>2 DEF Restart
    <3> QED
      BY <2>2, <3>1, <3>2
  <2>3. CASE Expire
    BY <2>1, <2>3 DEF Expire, Idle
  <2> QED
    BY <1>2, <2>1, <2>2, <2>3 DEF Idle
<1>3. CASE Feed
  <2>1. pass = Idle
    BY <1>3 DEF Feed, OnBook, OnTrade
  <2>2. ASSUME NEW i \in Instruments, NEW b \in Books, OnBook(i, b) PROVE pass'.kind # "trade"
    BY <2>2 DEF OnBook, Idle
  <2> QED
    BY <1>3, <2>1, <2>2 DEF Feed, Idle
<1>4. CASE BookStep
  <2>1. pass.kind = "book" /\ pass \in BookPass
    BY <1>1, <1>4, PassFacts DEF BookStep
  <2>2. pass' = Idle \/ pass' = [pass EXCEPT !.todo = Tail(pass.todo)]
    BY <1>4, <2>1, NextOrderFacts DEF BookStep
  <2> QED
    BY <2>1, <2>2 DEF Idle, BookPass
<1>5. CASE ExpireStep
  <2>1. pass.kind = "expire" /\ pass \in ExpirePass
    BY <1>1, <1>5, PassFacts DEF ExpireStep
  <2>2. pass' = Idle \/ \E o \in pass.ids : pass' = [pass EXCEPT !.ids = @ \ {o}]
    BY <1>5 DEF ExpireStep
  <2> QED
    BY <2>1, <2>2 DEF Idle, ExpirePass
<1>6. CASE Time \/ UNCHANGED vars
  BY <1>6 DEF Time, Decay, Stale, Session, NextSchedule, Passing, vars, orderVars
<1> QED
  BY <1>2, <1>3, <1>4, <1>5, <1>6 DEF Next, Loop

\* A print starts the loop over the sorted list of all that is open.
LEMMA OnTradePriority ==
  ASSUME BooksOK, RestOnce, NEW i \in Instruments, NEW t, OnTrade(i, t)
  PROVE  PriorityOK'
<1> DEFINE s == resting[i]
           n == Len(s)
<1>1. PICK p \in Sortings(i) : resting' = [resting EXCEPT ![i] = [k \in DOMAIN @ |-> @[p[k]]]]
  BY DEF OnTrade
<1> DEFINE sorted == [k \in DOMAIN s |-> s[p[k]]]
<1>2. s \in Seq(OrderIds) /\ n \in Nat /\ DOMAIN s = 1 .. n /\ TypeOK
  BY DEF BooksOK, TypeOK
<1>3. resting'[i] = sorted /\ orders' = orders
  BY <1>1, <1>2 DEF OnTrade, TypeOK
<1>4. pass'.inst = i /\ pass'.todo = sorted
  <2>1. pass' = [kind |-> "trade", inst |-> i, price |-> Shift(i, t.price), todo |-> resting'[i],
                 avail |-> [x \in Sides |-> t.qty], print |-> t.qty,
                 before |-> [o \in OrderIds |-> IF orders[o] = NoOrder THEN 0 ELSE orders[o].filled]]
    BY DEF OnTrade
  <2> HIDE DEF sorted
  <2> QED
    BY <1>3, <2>1
<1>5. p \in [1 .. n -> 1 .. n] /\ \A j, k \in 1 .. n : j < k => InFront(i, p[j], p[k])
  BY <1>2 DEF Sortings
<1>6. sorted \in Seq(OrderIds) /\ Elements(sorted) = Elements(s) /\ Once(sorted)
  BY SortedFacts, SortedOnce
<1>7. Len(sorted) = n /\ DOMAIN sorted = 1 .. n /\ \A k \in 1 .. n : sorted[k] = s[p[k]]
  BY <1>2, <1>5
<1>8. \A o \in OrderIds : o \in Elements(s) <=> IsOpen(o) /\ orders[o].req.inst = i
  BY RestingIdsFacts DEF BooksOK, OpenOrdersRest
<1> HIDE DEF sorted, s, n
<1>9. ASSUME NEW k \in 1 .. n
      PROVE  /\ sorted[k] \in OrderIds /\ orders[sorted[k]].req.inst = i
             /\ orders[sorted[k]].req.limit \in Nat
  <2>1. sorted[k] \in Elements(sorted) /\ sorted[k] \in OrderIds
    BY <1>6, <1>7 DEF Elements
  <2>2. IsOpen(sorted[k]) /\ orders[sorted[k]].req.inst = i
    BY <1>6, <1>8, <2>1
  <2> QED
    BY <1>2, <2>1, <2>2, OrderFacts
<1>10. ASSUME NEW o \in OrderIds, NEW q \in OrderIds, NEW j \in 1 .. n, NEW k \in 1 .. n, j < k,
              sorted[j] = o, sorted[k] = q
       PROVE  ~ Outranks(q, o)'
  <2> DEFINE r == orders[o].req
             w == orders[q].req
  <2>1. \/ r.side = "buy" /\ w.side = "sell"
        \/ /\ r.side = w.side
           /\ \/ IF r.side = "buy" THEN r.limit > w.limit ELSE r.limit < w.limit
              \/ r.limit = w.limit
    <3>1. InFront(i, p[j], p[k]) /\ s[p[j]] = o /\ s[p[k]] = q
      BY <1>5, <1>7, <1>10
    <3> QED
      BY <3>1 DEF InFront, s
  <2>2. r.limit \in Nat /\ w.limit \in Nat /\ r.inst = i /\ w.inst = i
    BY <1>9, <1>10
  <2> SUFFICES ASSUME Outranks(q, o)' PROVE FALSE
    OBVIOUS
  <2>4. /\ w.side = r.side
        /\ IF w.limit = r.limit
           THEN \E x, y \in 1 .. n : x < y /\ sorted[x] = q /\ sorted[y] = o
           ELSE IF w.side = "buy" THEN w.limit > r.limit ELSE w.limit < r.limit
    BY <1>3, <1>7, <2>2 DEF Outranks
  <2> HIDE DEF r, w
  <2>5. w.limit = r.limit
    BY <2>1, <2>2, <2>4
  <2>6. PICK x \in 1 .. n, y \in 1 .. n : x < y /\ sorted[x] = q /\ sorted[y] = o
    BY <2>4, <2>5
  <2>7. x = k /\ y = j
    BY <1>6, <1>7, <1>10, <2>6 DEF Once
  <2> QED
    BY <1>10, <2>6, <2>7
<1>11. ASSUME NEW o \in OrderIds, IsOpen(o)', orders'[o].req.inst = i PROVE o \in Elements(sorted)
  BY <1>3, <1>6, <1>8, <1>11 DEF IsOpen
<1>12. \A o, q \in OrderIds : Before(sorted, o, q) => ~ Outranks(q, o)'
  BY <1>7, <1>10 DEF Before
<1>13. /\ \A k \in 1 .. Len(pass'.todo) : orders'[pass'.todo[k]].req.inst = pass'.inst
       /\ \A o, q \in OrderIds : Before(pass'.todo, o, q) => ~ Outranks(q, o)'
       /\ \A o \in OrderIds :
            IsOpen(o)' /\ orders'[o].req.inst = pass'.inst => o \in Elements(pass'.todo)
  BY <1>3, <1>4, <1>7, <1>9, <1>11, <1>12
<1> QED
  BY <1>13 DEF PriorityOK, Before, Elements


\* A fill changes no request, closes at most its own order, and only by filling
\* all it had left; nobody overtakes anybody.
LEMMA FillKeepsRank ==
  ASSUME IInv, NEW f \in OrderIds, NEW q \in Nat, q > 0, q <= left[f], MakerFill(f, q)
  PROVE  /\ \A o \in OrderIds : orders'[o].req = orders[o].req /\ (IsOpen(o)' => IsOpen(o))
         /\ IsOpen(f)' => q < left[f]
         /\ \A o, p \in OrderIds : orders[o] # NoOrder /\ Outranks(o, p)' => Outranks(o, p)
<1> DEFINE s == IF left[f] = q THEN "filled" ELSE "open"
           n == orders[f].filled + q
           i == orders[f].req.inst
<1>1. TypeOK /\ IsOpen(f) /\ orders[f] \in Order /\ left[f] \in Nat
  BY RemainderFacts, OrderFacts DEF IInv, BooksOK
<1>2. orders' = [orders EXCEPT ![f] = [orders[f] EXCEPT !.filled = n, !.status = s]]
  <2>1. orders' = [orders EXCEPT ![f].filled = @ + q, ![f].status = s]
    BY DEF MakerFill, s
  <2> QED
    BY <1>1, <2>1 DEF TypeOK
<1>3. \A o \in OrderIds \ {f} : orders'[o] = orders[o]
  BY <1>2 DEF TypeOK
<1>4. orders'[f].req = orders[f].req /\ orders'[f].status = s
  BY <1>1, <1>2, FieldUpdate DEF TypeOK, Order
<1>5. \A o \in OrderIds : orders'[o].req = orders[o].req /\ (IsOpen(o)' => IsOpen(o))
  BY <1>1, <1>3, <1>4 DEF IsOpen
<1>6. IsOpen(f)' => q < left[f]
  BY <1>1, <1>4 DEF IsOpen
<1>7. ASSUME NEW j \in Instruments,
             NEW a \in DOMAIN resting'[j], NEW b \in DOMAIN resting'[j], a < b
      PROVE  \E c, d \in DOMAIN resting[j] :
               c < d /\ resting[j][c] = resting'[j][a] /\ resting[j][d] = resting'[j][b]
  <2> DEFINE t == resting[j]
  <2>1. t \in Seq(OrderIds) /\ DOMAIN t = 1 .. Len(t)
    BY <1>1 DEF TypeOK
  <2>2. resting'[j] = t \/ resting'[j] = Keep(t, OrderIds \ {f})
    BY <1>1 DEF MakerFill, TypeOK
  <2>3. CASE resting'[j] = t
    BY <1>7, <2>3
  <2>4. CASE resting'[j] = Keep(t, OrderIds \ {f})
    <3> DEFINE u == Keep(t, OrderIds \ {f})
    <3>1. u \in Seq(OrderIds)
      BY <2>1, KeepFacts
    <3>2. DOMAIN u = 1 .. Len(u)
      BY <3>1
    <3>3. \A x, y \in 1 .. Len(u) : x < y =>
            \E c, d \in 1 .. Len(t) : c < d /\ t[c] = u[x] /\ t[d] = u[y]
      BY <2>1, KeepOrder
    <3>4. resting'[j] = u
      BY <2>4
    <3> HIDE DEF u, t
    <3>5. PICK c \in 1 .. Len(t), d \in 1 .. Len(t) : c < d /\ t[c] = u[a] /\ t[d] = u[b]
      BY <1>7, <3>2, <3>3, <3>4
    <3> QED
      BY <2>1, <3>4, <3>5 DEF t
  <2> QED
    BY <2>2, <2>3, <2>4
<1>8. ASSUME NEW o \in OrderIds, NEW p \in OrderIds, orders[o] # NoOrder, Outranks(o, p)'
      PROVE  Outranks(o, p)
  <2>1. orders[o].req.inst \in Instruments
    BY <1>1, <1>8, OrderFacts
  <2>2. orders'[o].req = orders[o].req /\ orders'[p].req = orders[p].req
    BY <1>5
  <2>3. CASE orders[o].req.limit # orders[p].req.limit
    BY <1>8, <2>2, <2>3 DEF Outranks
  <2>4. CASE orders[o].req.limit = orders[p].req.limit
    <3> DEFINE j == orders[o].req.inst
    <3>1. PICK a \in DOMAIN resting'[j], b \in DOMAIN resting'[j] :
            a < b /\ resting'[j][a] = o /\ resting'[j][b] = p
      BY <1>8, <2>2, <2>4 DEF Outranks
    <3>2. \E c, d \in DOMAIN resting[j] : c < d /\ resting[j][c] = o /\ resting[j][d] = p
      BY <1>7, <2>1, <3>1
    <3> QED
      BY <1>8, <2>2, <2>4, <3>2 DEF Outranks
  <2> QED
    BY <2>3, <2>4
<1> QED
  BY <1>5, <1>6, <1>8

\* A round takes the first order off what is to be visited.
LEMMA TradeStepPriority ==
  ASSUME IInv, PriorityOK, TradeStep
  PROVE  PriorityOK'
<1> SUFFICES ASSUME pass'.kind = "trade"
    PROVE  /\ \A k \in 1 .. Len(pass'.todo) : orders'[pass'.todo[k]].req.inst = pass'.inst
           /\ \A o, p \in OrderIds : Before(pass'.todo, o, p) => ~ Outranks(p, o)'
           /\ \A o \in OrderIds :
                IsOpen(o)' /\ orders'[o].req.inst = pass'.inst /\ Reached(o)'
                  /\ o \notin Elements(pass'.todo)
                => pass'.avail[orders'[o].req.side] = 0
  BY DEF PriorityOK, Before, Elements
<1>0. PICK h : h = Head(pass.todo)
  OBVIOUS
<1> DEFINE s == pass.todo
           side == orders[h].req.side
<1>1. TypeOK /\ pass.kind = "trade" /\ pass \in TradePass
  BY PassFacts DEF TradeStep, IInv, BooksOK
<1>2. /\ h \in OrderIds /\ orders[h] # NoOrder /\ left[h] \in Nat
      /\ pass.avail \in [Sides -> Nat] /\ side \in Sides
      /\ OrderTakes(h) \in Nat /\ OrderTakes(h) <= left[h]
      /\ Reached(h) /\ OrderTakes(h) < left[h] => pass.avail[side] - Drawn(h) = 0
      /\ pass.avail[side] = 0 => pass.avail[side] - Drawn(h) = 0
  BY <1>0, <1>1, RoundFacts
<1>5. /\ pass'.todo = Tail(s) /\ pass'.inst = pass.inst /\ pass'.price = pass.price
      /\ pass'.avail = [pass.avail EXCEPT ![side] = @ - Drawn(h)]
  BY <1>0, RoundPass
<1>6. s \in Seq(OrderIds) /\ s # <<>>
  BY <1>1 DEF TradePass, IInv, PassOK
<1>7. /\ Len(s) \in Nat /\ Len(Tail(s)) = Len(s) - 1 /\ s[1] = h
      /\ \A k \in 1 .. Len(Tail(s)) : /\ k + 1 \in 1 .. Len(s) /\ Tail(s)[k] = s[k + 1]
                                      /\ Tail(s)[k] \in OrderIds
  BY <1>0, <1>6
<1>8. \A o : o \in Elements(s) => o = h \/ o \in Elements(Tail(s))
  <2> SUFFICES ASSUME NEW k \in 1 .. Len(s), k # 1 PROVE s[k] \in Elements(Tail(s))
    BY <1>7 DEF Elements
  <2>1. k - 1 \in 1 .. Len(Tail(s)) /\ (k - 1) + 1 = k
    BY <1>7
  <2> QED
    BY <1>7, <2>1 DEF Elements
<1>9. \A k \in 1 .. Len(s) : s[k] \in OrderIds /\ orders[s[k]] # NoOrder
  <2>1. ToVisit = Elements(s)
    BY <1>1 DEF ToVisit
  <2>2. \A o \in Elements(s) : o \in OrderIds /\ orders[o] # NoOrder
    BY <2>1 DEF IInv, PassOK
  <2> QED
    BY <2>2 DEF Elements
<1>10. \/ OrderTakes(h) = 0 /\ NoFill
       \/ OrderTakes(h) > 0 /\ MakerFill(h, OrderTakes(h))
  BY <1>0 DEF TradeStep
<1>11. /\ \A o \in OrderIds : orders'[o].req = orders[o].req /\ (IsOpen(o)' => IsOpen(o))
       /\ IsOpen(h)' => OrderTakes(h) < left[h]
       /\ \A o, p \in OrderIds : orders[o] # NoOrder /\ Outranks(o, p)' => Outranks(o, p)
  <2>1. CASE OrderTakes(h) = 0 /\ NoFill
    <3>1. orders' = orders /\ resting' = resting
      BY <2>1 DEF NoFill
    <3>2. IsOpen(h) => 0 < left[h]
      BY <1>2, RemainderFacts DEF IInv
    <3>3. \A o \in OrderIds : orders'[o].req = orders[o].req /\ (IsOpen(o)' <=> IsOpen(o))
      BY <3>1 DEF IsOpen
    <3>4. \A o, p \in OrderIds : Outranks(o, p)' => Outranks(o, p)
      BY <3>1 DEF Outranks
    <3> QED
      BY <1>2, <2>1, <3>2, <3>3, <3>4
  <2>2. CASE OrderTakes(h) > 0 /\ MakerFill(h, OrderTakes(h))
    BY <1>2, <2>2, FillKeepsRank
  <2> QED
    BY <1>10, <2>1, <2>2
<1> HIDE DEF s, side
<1>12. ASSUME NEW k \in 1 .. Len(Tail(s)) PROVE orders'[Tail(s)[k]].req.inst = pass.inst
  BY <1>1, <1>7, <1>11 DEF PriorityOK, s
<1>13. ASSUME NEW o \in OrderIds, NEW p \in OrderIds, Before(Tail(s), o, p)
       PROVE  ~ Outranks(p, o)'
  <2>1. PICK j \in 1 .. Len(Tail(s)), k \in 1 .. Len(Tail(s)) :
          j < k /\ Tail(s)[j] = o /\ Tail(s)[k] = p
    BY <1>13 DEF Before
  <2>2. /\ j + 1 \in 1 .. Len(s) /\ k + 1 \in 1 .. Len(s) /\ j + 1 < k + 1
        /\ s[j + 1] = o /\ s[k + 1] = p
    BY <1>7, <2>1
  <2>3. Before(s, o, p) /\ orders[p] # NoOrder
    BY <1>9, <2>2 DEF Before
  <2>4. ~ Outranks(p, o)
    BY <1>1, <2>3 DEF PriorityOK, s
  <2> QED
    BY <1>11, <2>3, <2>4
<1>14. ASSUME NEW o \in OrderIds, IsOpen(o)', orders'[o].req.inst = pass.inst, Reached(o)',
              o \notin Elements(Tail(s))
       PROVE  pass'.avail[orders'[o].req.side] = 0
  <2>1. orders'[o].req = orders[o].req /\ IsOpen(o)
    BY <1>11, <1>14
  <2>2. Reached(o)
    BY <1>5, <1>14, <2>1 DEF Reached, Through
  <2>3. orders[o].req.side \in Sides
    BY <1>1, <2>1, OrderFacts
  <2>4. CASE o = h
    <3>1. pass.avail[side] - Drawn(h) = 0
      BY <1>2, <1>11, <1>14, <2>2, <2>4
    <3> QED
      BY <1>2, <1>5, <2>1, <2>4, <3>1 DEF side
  <2>5. CASE o # h
    <3>1. pass.avail[orders[o].req.side] = 0
      BY <1>1, <1>8, <1>14, <2>1, <2>2, <2>5 DEF PriorityOK, s
    <3> QED
      BY <1>2, <1>5, <2>1, <2>3, <3>1
  <2> QED
    BY <2>4, <2>5
<1> HIDE DEF Reached
<1> QED
  BY <1>5, <1>12, <1>13, <1>14

\* The order in which a print's loop serves survives every step.
LEMMA NextPriority == IInv /\ RestOnce /\ PriorityOK /\ [Next]_vars => PriorityOK'
<1> SUFFICES ASSUME IInv, RestOnce, PriorityOK, [Next]_vars, pass'.kind = "trade"
             PROVE  PriorityOK'
  BY DEF PriorityOK
<1>1. TypeOK /\ BooksOK
  BY DEF IInv, BooksOK
<1>2. ASSUME orders' = orders, resting' = resting, pass' = pass PROVE PriorityOK'
  <2>1. ASSUME NEW o PROVE (IsOpen(o)' <=> IsOpen(o)) /\ (Reached(o)' <=> Reached(o))
    BY <1>2 DEF IsOpen, Reached, Through
  <2>2. ASSUME NEW o, NEW p PROVE Outranks(o, p)' <=> Outranks(o, p)
    BY <1>2 DEF Outranks
  <2> QED
    BY <1>2, <2>1, <2>2 DEF PriorityOK, Before, Elements
<1> QED
  BY <1>1, <1>2, TradePasses, OnTradePriority, TradeStepPriority

\* An order fills on a print only when no open order outranks it: those in front
\* of it have been visited, and one the print reached took all it could.
LEMMA FillsInRank ==
  ASSUME IInv, PriorityOK, [Next]_vars, pass.kind = "trade",
         NEW p \in OrderIds, Executed(p) > 0, NEW o \in OrderIds, IsOpen(o), o # p
  PROVE  ~ Outranks(o, p)
<1>1. TypeOK /\ pass \in TradePass
  BY PassFacts DEF IInv, BooksOK
<1>2. orders'[p] # orders[p]
  <2>1. ASSUME orders'[p] = orders[p] PROVE Executed(p) = 0
    <3>1. Filled(p) \in Nat
      BY <1>1, OrderFacts DEF Filled
    <3>2. Filled(p)' = Filled(p)
      BY <2>1 DEF Filled
    <3> QED
      BY <3>1, <3>2 DEF Executed
  <2> QED
    BY <2>1
<1>3. TradeStep
  BY <1>2, TradePasses
<1>0. PICK h : h = Head(pass.todo)
  OBVIOUS
<1> DEFINE side == orders[h].req.side
<1>4. /\ h \in OrderIds /\ OrderTakes(h) \in Nat /\ side \in Sides /\ orders[h] # NoOrder
      /\ OrderTakes(h) > 0 => Reached(h) /\ pass.avail[side] # 0
  BY <1>0, RoundFacts
<1>5. h = p /\ Reached(p) /\ pass.avail[orders[p].req.side] # 0
  <2>1. NoFill \/ (OrderTakes(h) > 0 /\ MakerFill(h, OrderTakes(h)))
    BY <1>0, <1>3 DEF TradeStep
  <2>2. ~ NoFill
    BY <1>2 DEF NoFill
  <2>3. h = p
    BY <1>1, <1>2, <2>1, <2>2 DEF MakerFill, TypeOK
  <2> QED
    BY <1>4, <2>1, <2>2, <2>3
<1>6. /\ pass.todo \in Seq(OrderIds) /\ pass.todo # <<>>
  BY <1>1 DEF TradePass, IInv, PassOK
<1>7. Len(pass.todo) \in Nat /\ 1 \in 1 .. Len(pass.todo) /\ pass.todo[1] = p
  BY <1>0, <1>5, <1>6
<1> SUFFICES ASSUME Outranks(o, p) PROVE FALSE
  OBVIOUS
<1> DEFINE r == orders[o].req
           w == orders[p].req
<1>8. r.inst = w.inst /\ r.side = w.side
  BY DEF Outranks
<1>9. w.inst = pass.inst
  BY <1>7 DEF PriorityOK
<1>10. CASE o \in Elements(pass.todo)
  <2>1. PICK k \in 1 .. Len(pass.todo) : pass.todo[k] = o
    BY <1>10 DEF Elements
  <2>2. 1 < k
    BY <1>7, <2>1
  <2>3. Before(pass.todo, p, o)
    BY <1>7, <2>1, <2>2 DEF Before
  <2> QED
    BY <2>3 DEF PriorityOK
<1>11. CASE o \notin Elements(pass.todo)
  <2>1. /\ r.limit \in Nat /\ w.limit \in Nat /\ pass.price \in Nat
        /\ r.side \in Sides
    BY <1>1, <1>4, <1>5, OrderFacts DEF TradePass
  <2>2. \/ r.limit = w.limit
        \/ IF r.side = "buy" THEN r.limit > w.limit ELSE r.limit < w.limit
    BY DEF Outranks
  <2>3. \/ IF w.side = "buy" THEN pass.price < w.limit ELSE pass.price > w.limit
        \/ pass.price = w.limit
    BY <1>5 DEF Reached, Through
  <2>4. \/ IF r.side = "buy" THEN pass.price < r.limit ELSE pass.price > r.limit
        \/ pass.price = r.limit
    <3> HIDE DEF r, w
    <3> QED
      BY <1>8, <2>1, <2>2, <2>3
  <2>5. Reached(o)
    BY <2>4 DEF Reached, Through
  <2> QED
    BY <1>5, <1>8, <1>9, <1>11, <2>5 DEF PriorityOK
<1> QED
  BY <1>10, <1>11

\* on_trade serves an instrument's orders by price, then by time at rest, for
\* any number of orders, any print and any queue in front of them.
THEOREM PriorityKept == Spec => PriceTimePriority
<1>1. Init => IInv /\ RestOnce /\ PriorityOK
  BY InitIInv DEF Init, RestOnce, PriorityOK, Idle
<1>2. IInv /\ RestOnce /\ PriorityOK /\ [Next]_vars => IInv' /\ RestOnce' /\ PriorityOK'
  BY NextIInv, NextRestOnce, NextPriority
<1> DEFINE InRank == pass.kind = "trade" =>
             \A p \in OrderIds : Executed(p) > 0 =>
               \A o \in OrderIds : IsOpen(o) /\ o # p => ~ Outranks(o, p)
<1>3. IInv /\ PriorityOK /\ [Next]_vars => [InRank]_vars
  BY FillsInRank
<1> QED
  BY <1>1, <1>2, <1>3, PTL DEF Spec, PriceTimePriority


\* What the orders of a side have got of a print so far.
GivenTo(side) ==
  [o \in OrderIds |-> IF orders[o] # NoOrder /\ orders[o].req.side = side
                      THEN Filled(o) - pass.before[o] ELSE 0]

\* What a side has got and what is left for it make at most the print.
SharedOK ==
  pass.kind = "trade" =>
    /\ pass.print \in Nat
    /\ \A o \in OrderIds : pass.before[o] \in Nat /\ Filled(o) >= pass.before[o]
    /\ \A side \in Sides : Total(GivenTo(side), MaxOrders) + pass.avail[side] <= pass.print

\* The terms of the sum are naturals.
LEMMA GivenFacts ==
  ASSUME TypeOK, pass.kind = "trade", SharedOK
  PROVE  /\ \A o \in OrderIds : Filled(o) \in Nat
         /\ \A side \in Sides : GivenTo(side) \in [1 .. MaxOrders -> Nat]
<1>1. \A o \in OrderIds : Filled(o) \in Nat
  BY OrderFacts DEF Filled
<1>2. \A o \in OrderIds : Filled(o) - pass.before[o] \in Nat
  BY <1>1 DEF SharedOK
<1> QED
  BY <1>1, <1>2 DEF GivenTo, OrderIds

\* When the print comes, nobody has got any of it.
LEMMA OnTradeShares ==
  ASSUME TypeOK, NEW i \in Instruments, NEW t \in Prints, OnTrade(i, t)
  PROVE  SharedOK'
<1>1. /\ pass'.avail = [x \in Sides |-> t.qty] /\ pass'.print = t.qty
      /\ pass'.before = [o \in OrderIds |-> IF orders[o] = NoOrder THEN 0 ELSE orders[o].filled]
      /\ orders' = orders
  <2>1. pass' = [kind |-> "trade", inst |-> i, price |-> Shift(i, t.price), todo |-> resting'[i],
                 avail |-> [x \in Sides |-> t.qty], print |-> t.qty,
                 before |-> [o \in OrderIds |-> IF orders[o] = NoOrder THEN 0 ELSE orders[o].filled]]
    BY DEF OnTrade
  <2> QED
    BY <2>1 DEF OnTrade
<1>2. t.qty \in Nat
  BY SizeAssumption
<1>3. ASSUME NEW o \in OrderIds
      PROVE  pass'.before[o] \in Nat /\ Filled(o)' = pass'.before[o]
  <2>1. Filled(o) \in Nat
    BY OrderFacts DEF Filled
  <2>2. pass'.before[o] = Filled(o)
    BY <1>1 DEF Filled
  <2>3. Filled(o)' = Filled(o)
    BY <1>1 DEF Filled
  <2> QED
    BY <2>1, <2>2, <2>3
<1>4. ASSUME NEW side \in Sides PROVE Total(GivenTo(side)', MaxOrders) = 0
  <2> DEFINE f == [o \in 1 .. MaxOrders |-> 0]
  <2>1. GivenTo(side)' = f
    BY <1>3 DEF GivenTo, OrderIds
  <2>2. Total(f, MaxOrders) = 0
    BY SizeAssumption, TotalZero
  <2> HIDE DEF f
  <2> QED
    BY <2>1, <2>2
<1> QED
  BY <1>1, <1>2, <1>3, <1>4 DEF SharedOK

\* A fill adds what it executes to its own order and nothing to another.
LEMMA FillGives ==
  ASSUME IInv, NEW f \in OrderIds, NEW q \in Nat, q > 0, q <= left[f], MakerFill(f, q)
  PROVE  /\ orders[f] # NoOrder /\ orders'[f] # NoOrder /\ orders'[f].req = orders[f].req
         /\ \A o \in OrderIds \ {f} : orders'[o] = orders[o] /\ Filled(o)' = Filled(o)
         /\ Filled(f) \in Nat /\ Filled(f)' = Filled(f) + q
<1> DEFINE n == orders[f].filled + q
           s == IF left[f] = q THEN "filled" ELSE "open"
<1>1. /\ TypeOK /\ orders[f] # NoOrder /\ orders[f] \in Order
      /\ orders[f].filled \in Nat /\ Filled(f) = orders[f].filled
  BY RemainderFacts, OrderFacts DEF Filled, IInv, BooksOK
<1>2. orders' = [orders EXCEPT ![f] = [orders[f] EXCEPT !.filled = n, !.status = s]]
  <2>1. orders' = [orders EXCEPT ![f].filled = @ + q, ![f].status = s]
    BY DEF MakerFill, s
  <2> QED
    BY <1>1, <2>1 DEF TypeOK
<1> HIDE DEF n, s
<1>3. \A o \in OrderIds \ {f} : orders'[o] = orders[o]
  BY <1>1, <1>2 DEF TypeOK
<1>4. orders'[f].req = orders[f].req /\ orders'[f].filled = n /\ orders'[f].status = s
  BY <1>1, <1>2, FieldUpdate DEF TypeOK, Order
<1>5. orders'[f] # NoOrder
  BY <1>4 DEF NoOrder, s
<1>6. Filled(f)' = n
  BY <1>4, <1>5 DEF Filled
<1>7. \A o \in OrderIds \ {f} : Filled(o)' = Filled(o)
  BY <1>3 DEF Filled
<1> QED
  BY <1>1, <1>3, <1>4, <1>5, <1>6, <1>7 DEF n

\* What a round leads to, order by order: the first order of the pass gets what
\* is taken for it and nobody else anything.
LEMMA RoundGives ==
  ASSUME IInv, TradeStep, NEW h, h = Head(pass.todo)
  PROVE  \A o \in OrderIds :
           /\ orders'[o] = NoOrder <=> orders[o] = NoOrder
           /\ orders[o] # NoOrder => orders'[o].req = orders[o].req
           /\ Filled(o)' = Filled(o) + (IF o = h THEN OrderTakes(h) ELSE 0)
<1>1. TypeOK /\ pass.kind = "trade"
  BY DEF TradeStep, IInv, BooksOK
<1>2. h \in OrderIds /\ orders[h] # NoOrder /\ OrderTakes(h) \in Nat /\ OrderTakes(h) <= left[h]
  BY <1>1, RoundFacts
<1>3. \A o \in OrderIds : Filled(o) \in Nat
  BY <1>1, OrderFacts DEF Filled
<1>4. CASE OrderTakes(h) = 0 /\ NoFill
  <2>1. orders' = orders
    BY <1>4 DEF NoFill
  <2>2. \A o \in OrderIds : Filled(o)' = Filled(o)
    BY <2>1 DEF Filled
  <2> QED
    BY <1>3, <1>4, <2>1, <2>2
<1>5. CASE OrderTakes(h) > 0 /\ MakerFill(h, OrderTakes(h))
  <2>1. /\ orders'[h] # NoOrder /\ orders'[h].req = orders[h].req
        /\ \A o \in OrderIds \ {h} : orders'[o] = orders[o] /\ Filled(o)' = Filled(o)
        /\ Filled(h)' = Filled(h) + OrderTakes(h)
    BY <1>2, <1>5, FillGives
  <2> QED
    BY <1>2, <1>3, <2>1
<1> QED
  BY <1>4, <1>5 DEF TradeStep

\* What the order got is taken from what its side had left.
LEMMA RoundShares ==
  ASSUME IInv, SharedOK, TradeStep, NEW h, h = Head(pass.todo), NEW side \in Sides
  PROVE  LET given == [o \in OrderIds |->
                         IF orders[o] # NoOrder /\ orders[o].req.side = side
                         THEN Filled(o)' - pass.before[o] ELSE 0]
             rest == pass.avail[side] - (IF orders[h].req.side = side THEN Drawn(h) ELSE 0)
         IN  Total(given, MaxOrders) + rest <= pass.print /\ rest \in Nat
             /\ Total(given, MaxOrders) \in Nat
<1> DEFINE given == [o \in OrderIds |->
                       IF orders[o] # NoOrder /\ orders[o].req.side = side
                       THEN Filled(o)' - pass.before[o] ELSE 0]
           rest == pass.avail[side] - (IF orders[h].req.side = side THEN Drawn(h) ELSE 0)
           f == GivenTo(side)
           takes == OrderTakes(h)
<1>1. TypeOK /\ pass.kind = "trade" /\ MaxOrders \in Nat
  BY SizeAssumption DEF TradeStep, IInv, BooksOK
<1>2. /\ h \in OrderIds /\ orders[h] # NoOrder /\ pass.avail[side] \in Nat
      /\ takes \in Nat /\ Drawn(h) \in Nat /\ takes <= Drawn(h)
      /\ Drawn(h) <= pass.avail[orders[h].req.side]
  BY <1>1, RoundFacts
<1>3. f \in [1 .. MaxOrders -> Nat] /\ \A o \in OrderIds : Filled(o) \in Nat
  BY <1>1, GivenFacts
<1>4. \A o \in OrderIds : Filled(o)' = Filled(o) + (IF o = h THEN takes ELSE 0)
  BY RoundGives
<1>5. \A o \in OrderIds : pass.before[o] \in Nat /\ Filled(o) - pass.before[o] \in Nat
  BY <1>1, <1>3 DEF SharedOK
<1>6. Total(f, MaxOrders) + pass.avail[side] <= pass.print /\ pass.print \in Nat
  BY <1>1 DEF SharedOK
<1>7. Total(f, MaxOrders) \in Nat
  BY <1>1, <1>3, TotalType
<1>8. ASSUME NEW o \in OrderIds
      PROVE  /\ given[o] \in Nat
             /\ o # h => given[o] = f[o]
             /\ o = h => given[o] = f[o] + (IF orders[h].req.side = side THEN takes ELSE 0)
  <2> DEFINE mine == orders[o] # NoOrder /\ orders[o].req.side = side
  <2>1. given[o] = (IF mine THEN Filled(o)' - pass.before[o] ELSE 0)
    OBVIOUS
  <2>2. f[o] = IF mine THEN Filled(o) - pass.before[o] ELSE 0
    BY DEF GivenTo
  <2>3. o = h => (mine <=> orders[h].req.side = side)
    BY <1>2
  <2> HIDE DEF given, f, mine, takes
  <2>4. Filled(o) \in Nat /\ pass.before[o] \in Nat /\ Filled(o) - pass.before[o] \in Nat
    BY <1>3, <1>5
  <2>5. Filled(o)' = Filled(o) + (IF o = h THEN takes ELSE 0)
    BY <1>4
  <2> QED
    BY <1>2, <2>1, <2>2, <2>3, <2>4, <2>5
<1>9. given \in [1 .. MaxOrders -> Nat] /\ h \in 1 .. MaxOrders
  BY <1>2, <1>8 DEF OrderIds
<1>10. \A o \in 1 .. MaxOrders : o # h => given[o] = f[o]
  BY <1>8 DEF OrderIds
<1>11. given[h] = f[h] + (IF orders[h].req.side = side THEN takes ELSE 0)
  BY <1>2, <1>8
<1> HIDE DEF given, f, takes
<1>12. Total(given, MaxOrders) = Total(f, MaxOrders) - f[h] + given[h]
  BY <1>1, <1>3, <1>9, <1>10, TotalUpdate
<1>13. f[h] \in Nat
  BY <1>3, <1>9
<1>14. rest \in Nat /\ Total(given, MaxOrders) + rest <= pass.print
  BY <1>2, <1>6, <1>7, <1>11, <1>12, <1>13
<1>15. Total(given, MaxOrders) \in Nat
  BY <1>1, <1>9, TotalType
<1> QED
  BY <1>14, <1>15 DEF given

\* What a side has got of a print and what is left for it stay in balance.
LEMMA NextShared == IInv /\ SharedOK /\ [Next]_vars => SharedOK'
<1> SUFFICES ASSUME IInv, SharedOK, [Next]_vars, pass'.kind = "trade" PROVE SharedOK'
  BY DEF SharedOK
<1>1. TypeOK
  BY DEF IInv, BooksOK
<1>2. CASE UNCHANGED <<orders, resting, pass>>
  <2>1. \A o : Filled(o)' = Filled(o)
    BY <1>2 DEF Filled
  <2>2. \A side : GivenTo(side)' = GivenTo(side)
    BY <1>2, <2>1 DEF GivenTo
  <2> QED
    BY <1>2, <2>1, <2>2 DEF SharedOK
<1>3. CASE TradeStep
  <2>1. PICK h : h = Head(pass.todo)
    OBVIOUS
  <2>2. pass.kind = "trade"
    BY <1>3 DEF TradeStep
  <2>3. /\ pass'.print = pass.print /\ pass'.before = pass.before
        /\ pass'.avail = [pass.avail EXCEPT ![orders[h].req.side] = @ - Drawn(h)]
    BY <1>3, <2>1, RoundPass
  <2>4. /\ h \in OrderIds /\ pass.avail \in [Sides -> Nat] /\ OrderTakes(h) \in Nat
        /\ orders[h].req.side \in Sides
    BY <2>1, <2>2, RoundFacts
  <2>5. \A o \in OrderIds :
           /\ orders'[o] = NoOrder <=> orders[o] = NoOrder
           /\ orders[o] # NoOrder => orders'[o].req = orders[o].req
           /\ Filled(o)' = Filled(o) + (IF o = h THEN OrderTakes(h) ELSE 0)
    BY <1>3, <2>1, RoundGives
  <2>6. ASSUME NEW o \in OrderIds PROVE pass'.before[o] \in Nat /\ Filled(o)' >= pass'.before[o]
    <3>1. Filled(o) \in Nat /\ pass.before[o] \in Nat /\ Filled(o) >= pass.before[o]
      BY <1>1, <2>2, GivenFacts DEF SharedOK
    <3> QED
      BY <2>3, <2>4, <2>5, <3>1
  <2>7. ASSUME NEW side \in Sides
        PROVE  Total(GivenTo(side)', MaxOrders) + pass'.avail[side] <= pass'.print
    <3> DEFINE given == [o \in OrderIds |->
                           IF orders[o] # NoOrder /\ orders[o].req.side = side
                           THEN Filled(o)' - pass.before[o] ELSE 0]
               rest == pass.avail[side] - (IF orders[h].req.side = side THEN Drawn(h) ELSE 0)
    <3>1. Total(given, MaxOrders) + rest <= pass.print /\ rest \in Nat
      BY <1>3, <2>1, RoundShares
    <3>2. GivenTo(side)' = given
      BY <2>3, <2>5 DEF GivenTo
    <3>3. pass'.avail[side] = rest
      BY <2>3, <2>4, <3>1
    <3> HIDE DEF given, rest
    <3> QED
      BY <2>3, <3>1, <3>2, <3>3
  <2>8. pass'.print \in Nat
    BY <2>2, <2>3 DEF SharedOK
  <2> QED
    BY <2>6, <2>7, <2>8 DEF SharedOK
<1> QED
  BY <1>1, <1>2, <1>3, TradePasses, OnTradeShares

\* However many rounds a print is given out in, the resting orders of a side
\* together never get more of it than was traded.
THEOREM PrintSharedOut == Spec => PrintShared
<1> DEFINE given(side) == [o \in OrderIds |->
                             IF orders[o] # NoOrder /\ orders[o].req.side = side
                             THEN Filled(o)' - pass.before[o] ELSE 0]
           Shared == pass.kind = "trade" =>
             \A side \in Sides : Total(given(side), MaxOrders) <= pass.print
<1>1. Init => SharedOK
  BY DEF Init, SharedOK, Idle
<1>2. ASSUME IInv, SharedOK, [Next]_vars, pass.kind = "trade", NEW side \in Sides
      PROVE  Total(given(side), MaxOrders) <= pass.print
  <2>1. CASE TradeStep
    <3>1. PICK h : h = Head(pass.todo)
      OBVIOUS
    <3> DEFINE rest == pass.avail[side] - (IF orders[h].req.side = side THEN Drawn(h) ELSE 0)
    <3>2. /\ Total(given(side), MaxOrders) + rest <= pass.print /\ rest \in Nat
          /\ Total(given(side), MaxOrders) \in Nat
      BY <1>2, <2>1, <3>1, RoundShares
    <3>3. pass.print \in Nat
      BY <1>2 DEF SharedOK
    <3> HIDE DEF given, rest
    <3> QED
      BY <3>2, <3>3
  <2>2. CASE UNCHANGED <<orders, resting, pass>>
    <3>1. \A o : Filled(o)' = Filled(o)
      BY <2>2 DEF Filled
    <3>2. given(side) = GivenTo(side)
      BY <3>1 DEF GivenTo
    <3>3. TypeOK /\ pass \in TradePass
      BY <1>2, PassFacts DEF IInv, BooksOK
    <3>4. GivenTo(side) \in [1 .. MaxOrders -> Nat]
      BY <1>2, <3>3, GivenFacts
    <3>5. Total(GivenTo(side), MaxOrders) \in Nat
      BY <3>4, SizeAssumption, TotalType
    <3>6. Total(GivenTo(side), MaxOrders) + pass.avail[side] <= pass.print /\ pass.print \in Nat
      BY <1>2 DEF SharedOK
    <3>7. pass.avail[side] \in Nat
      BY <3>3 DEF TradePass
    <3> HIDE DEF given
    <3> QED
      BY <3>2, <3>5, <3>6, <3>7
  <2> QED
    BY <1>2, <2>1, <2>2, TradePasses
<1>3. IInv /\ SharedOK /\ [Next]_vars => [Shared]_vars
  BY <1>2
<1> QED
  BY <1>1, <1>3, NextShared, Invariance, PTL DEF Spec, PrintShared

-----------------------------------------------------------------------------
(* Displayed liquidity. *)

\* When one order executes q, the orders of its instrument together do.
LEMMA OneExecutes ==
  ASSUME TypeOK, NEW o \in OrderIds, NEW q \in Nat, orders'[o] # NoOrder,
         Executed(o) = q, \A p \in OrderIds \ {o} : orders'[p] = orders[p],
         NEW j \in Instruments
  PROVE  Total([p \in OrderIds |->
                  IF orders'[p] # NoOrder /\ orders'[p].req.inst = j THEN Executed(p) ELSE 0],
               MaxOrders) = IF orders'[o].req.inst = j THEN q ELSE 0
<1> DEFINE f == [p \in 1 .. MaxOrders |-> 0]
           g == [p \in OrderIds |->
                   IF orders'[p] # NoOrder /\ orders'[p].req.inst = j THEN Executed(p) ELSE 0]
<1>1. ASSUME NEW p \in OrderIds \ {o} PROVE Executed(p) = 0
  <2>1. Filled(p) \in Nat
    BY OrderFacts DEF Filled
  <2>2. Filled(p)' = Filled(p)
    BY DEF Filled
  <2> QED
    BY <2>1, <2>2 DEF Executed
<1>2. ASSUME NEW p \in OrderIds
      PROVE  g[p] \in Nat /\ (p # o => g[p] = 0)
             /\ (p = o => g[p] = IF orders'[o].req.inst = j THEN q ELSE 0)
  BY <1>1
<1>3. /\ MaxOrders \in Nat /\ f \in [1 .. MaxOrders -> Nat] /\ \A p \in 1 .. MaxOrders : f[p] = 0
      /\ o \in 1 .. MaxOrders
  BY SizeAssumption DEF OrderIds
<1>4. /\ g \in [1 .. MaxOrders -> Nat]
      /\ \A p \in 1 .. MaxOrders : p # o => g[p] = f[p]
  BY <1>2, <1>3 DEF OrderIds
<1>5. g[o] = IF orders'[o].req.inst = j THEN q ELSE 0
  BY <1>2
<1> HIDE DEF f, g
<1>6. Total(f, MaxOrders) = 0
  BY <1>3, TotalZero
<1>7. Total(g, MaxOrders) = Total(f, MaxOrders) - f[o] + g[o]
  BY <1>3, <1>4, TotalUpdate
<1>8. Total(g, MaxOrders) = g[o]
  BY <1>2, <1>3, <1>6, <1>7
<1> QED
  BY <1>5, <1>8 DEF g

\* What a step used of instrument i's book is what its orders executed.
Matches(i) ==
  ShownQty(i) - ShownQty(i)' =
    Total([o \in OrderIds |->
             IF orders'[o] # NoOrder /\ orders'[o].req.inst = i THEN Executed(o) ELSE 0],
          MaxOrders)

\* An incoming order uses what it takes.
LEMMA PlaceMatches ==
  ASSUME IInv, NEW a \in Accounts, NEW r \in Requests, Place(a, r), NEW j \in Instruments
  PROVE  Matches(j)
<1> DEFINE q == Taken(r).qty
<1>1. PICK id : id = nextId
  OBVIOUS
<1>2. TypeOK /\ r \in Request /\ WellFormed(r)
  BY SizeAssumption DEF IInv, BooksOK, Place, Accepts
<1>3. /\ r.inst \in Instruments /\ r.side \in Sides /\ r.unit \in {"qty", "notional"}
      /\ r.size \in Nat
  BY <1>2 DEF Request, Sides
<1>4. q \in Nat
  BY <1>2, TakenFacts
<1>5. /\ id \in OrderIds /\ orders'[id].req = r
      /\ \A p \in OrderIds \ {id} : orders'[p] = orders[p]
  BY <1>1, PlaceEntries
<1>6. orders[id] = NoOrder
  BY <1>1, <1>5 DEF IInv, BooksOK, UnusedIds, OrderIds
<1>7. orders'[id] # NoOrder /\ orders'[id].filled = q
  <2>1. \E s \in {"open", "filled", "cancelled"} :
          orders' = [orders EXCEPT ![id] = [req |-> r, account |-> a, status |-> s, filled |-> q]]
    BY <1>1 DEF Place
  <2> HIDE DEF q
  <2>2. PICK s \in {"open", "filled", "cancelled"} :
          orders'[id] = [req |-> r, account |-> a, status |-> s, filled |-> q]
    BY <1>2, <1>5, <2>1 DEF TypeOK
  <2> QED
    BY <2>2 DEF NoOrder
<1>8. Executed(id) = q
  <2>1. Filled(id) = 0 /\ Filled(id)' = q
    BY <1>6, <1>7 DEF Filled
  <2> HIDE DEF q
  <2> QED
    BY <1>4, <2>1 DEF Executed
<1>9. ShownQty(j) - ShownQty(j)' = IF j = r.inst THEN q ELSE 0
  <2>1. book' = book
    BY DEF Place, marketVars
  <2>2. depletion' = Consume(r.inst, r.side, Walk(r.inst, r.side, r.unit, r.size, LimitBound(r)))
    BY DEF Place, TakeFromBook, WalkOf
  <2>3. q = Walk(r.inst, r.side, r.unit, r.size, LimitBound(r))[MaxPrice].qty
    BY DEF Taken, WalkOf
  <2> HIDE DEF q
  <2> QED
    BY <1>2, <1>3, <2>1, <2>2, <2>3, UsedUp
<1> HIDE DEF q
<1>10. Total([o \in OrderIds |->
                IF orders'[o] # NoOrder /\ orders'[o].req.inst = j THEN Executed(o) ELSE 0],
             MaxOrders) = IF orders'[id].req.inst = j THEN q ELSE 0
  BY <1>2, <1>4, <1>5, <1>7, <1>8, OneExecutes
<1> QED
  BY <1>5, <1>9, <1>10 DEF Matches

\* The loop over a book visits orders of the book's instrument.
OwnOrders ==
  pass.kind = "book" => \A o \in Elements(pass.todo) : orders[o].req.inst = pass.inst

\* So does a resting order that a book crosses.
LEMMA BookStepMatches ==
  ASSUME IInv, OwnOrders, BookStep, NEW j \in Instruments
  PROVE  Matches(j)
<1>1. PICK h : h = Head(pass.todo)
  OBVIOUS
<1> DEFINE req == orders[h].req
           bound == 200 * req.limit
           walk == Walk(pass.inst, req.side, "qty", left[h], bound)
           q == walk[MaxPrice].qty
<1>2. TypeOK /\ pass.kind = "book" /\ pass \in BookPass /\ pass.inst \in Instruments
  <2>1. TypeOK /\ pass.kind = "book" /\ pass \in BookPass
    BY PassFacts DEF BookStep, IInv, BooksOK
  <2> QED
    BY <2>1 DEF BookPass
<1>3. h \in OrderIds /\ orders[h] # NoOrder /\ left[h] \in Nat /\ req.side \in Sides
  <2>1. h \in OrderIds /\ orders[h] # NoOrder
    BY <1>1, <1>2, NextOrderFacts
  <2> QED
    BY <1>2, <2>1, OrderFacts DEF TypeOK
<1>4. q \in Nat /\ q <= left[h]
  <2>1. /\ walk \in [0 .. MaxPrice -> [budget : Nat, qty : Nat, notional : Nat]]
        /\ walk[MaxPrice].qty <= left[h]
    BY <1>2, <1>3, WalkFacts
  <2>2. MaxPrice \in 0 .. MaxPrice
    BY SizeAssumption
  <2> HIDE DEF walk
  <2> QED
    BY <2>1, <2>2
<1>5. /\ \/ q = 0 /\ NoFill /\ UNCHANGED <<ahead, depletion>>
         \/ q > 0 /\ MakerFill(h, q) /\ depletion' = Consume(pass.inst, req.side, walk)
      /\ book' = book
  BY <1>1 DEF BookStep, marketVars
<1>6. CASE q = 0 /\ NoFill /\ UNCHANGED <<ahead, depletion>>
  <2>1. orders' = orders
    BY <1>6 DEF NoFill
  <2>2. \A i, s, p : Shown(i, s, p)' = Shown(i, s, p)
    BY <1>5, <1>6 DEF Shown
  <2>3. ShownQty(j)' = ShownQty(j)
    BY <2>2 DEF ShownQty
  <2>4. ShownQty(j) \in Nat
    <3> DEFINE f == [p \in Prices |-> Shown(j, "buy", p) + Shown(j, "sell", p)]
    <3>1. f \in [1 .. MaxPrice -> Nat]
      BY <1>2, BookFacts DEF Sides, Prices
    <3> QED
      BY <3>1, SizeAssumption, TotalType DEF ShownQty
  <2>5. Executed(h) = 0
    <3>1. Filled(h) \in Nat
      BY <1>2, <1>3, OrderFacts DEF Filled
    <3>2. Filled(h)' = Filled(h)
      BY <2>1 DEF Filled
    <3> QED
      BY <3>1, <3>2 DEF Executed
  <2>6. Total([o \in OrderIds |->
                 IF orders'[o] # NoOrder /\ orders'[o].req.inst = j THEN Executed(o) ELSE 0],
              MaxOrders) = 0
    BY <1>2, <1>3, <2>1, <2>5, OneExecutes
  <2> QED
    BY <2>3, <2>4, <2>6 DEF Matches
<1>7. CASE q > 0 /\ MakerFill(h, q) /\ depletion' = Consume(pass.inst, req.side, walk)
  <2>1. ShownQty(j) - ShownQty(j)' = IF j = pass.inst THEN q ELSE 0
    <3>1. /\ TypeOK /\ pass.inst \in Instruments /\ req.side \in Sides /\ left[h] \in Nat /\ book' = book
          /\ depletion' = Consume(pass.inst, req.side, Walk(pass.inst, req.side, "qty", left[h], bound))
      BY <1>2, <1>3, <1>5, <1>7
    <3> HIDE DEF req, bound
    <3>2. ShownQty(j) - ShownQty(j)' =
            IF j = pass.inst THEN Walk(pass.inst, req.side, "qty", left[h], bound)[MaxPrice].qty ELSE 0
      BY <3>1, UsedUp
    <3> QED
      BY <3>2
  <2> HIDE DEF q
  <2>2. /\ orders'[h] # NoOrder /\ orders'[h].req = req
        /\ \A o \in OrderIds \ {h} : orders'[o] = orders[o]
        /\ Filled(h) \in Nat /\ Filled(h)' = Filled(h) + q
    BY <1>3, <1>4, <1>7, FillGives
  <2>3. Executed(h) = q
    BY <1>4, <2>2 DEF Executed
  <2>4. Total([o \in OrderIds |->
                 IF orders'[o] # NoOrder /\ orders'[o].req.inst = j THEN Executed(o) ELSE 0],
              MaxOrders) = IF req.inst = j THEN q ELSE 0
    BY <1>2, <1>3, <1>4, <2>2, <2>3, OneExecutes
  <2>5. req.inst = pass.inst
    <3>1. pass.todo \in Seq(OrderIds) /\ pass.todo # <<>>
      BY <1>2 DEF BookPass, IInv, PassOK
    <3>2. h \in Elements(pass.todo)
      BY <1>1, <3>1, ElementsFacts
    <3> QED
      BY <1>2, <3>2 DEF OwnOrders
  <2> QED
    BY <2>1, <2>4, <2>5 DEF Matches
<1> QED
  BY <1>5, <1>6, <1>7

\* A loop over a book is only begun by the book and only moved on by its rounds;
\* nothing else happens meanwhile.
LEMMA BookPasses ==
  ASSUME IInv, [Next]_vars
  PROVE  /\ pass.kind = "book" => BookStep \/ UNCHANGED vars
         /\ pass'.kind = "book" => \/ \E i \in Instruments, b \in Books : OnBook(i, b)
                                  \/ BookStep
                                  \/ pass' = pass
<1>1. TypeOK
  BY DEF IInv, BooksOK
<1>2. ASSUME Client \/ Restart \/ Time PROVE pass = Idle /\ pass' = pass
  <2>1. CASE Client
    BY <2>1 DEF Client, Place, Cancel, Convert, Reset
  <2>2. CASE Restart
    BY <2>2 DEF Restart
  <2>3. CASE Time
    BY <2>3 DEF Time, Decay, Stale, Session, NextSchedule, Passing
  <2> QED
    BY <1>2, <2>1, <2>2, <2>3
<1>3. ASSUME Expire PROVE pass = Idle /\ pass'.kind # "book"
  BY <1>3 DEF Expire, Idle
<1>4. ASSUME Feed PROVE /\ pass = Idle
                        /\ pass'.kind = "book" => \E i \in Instruments, b \in Books : OnBook(i, b)
  <2>1. pass = Idle
    BY <1>4 DEF Feed, OnBook, OnTrade
  <2>2. ASSUME NEW i \in Instruments, NEW t \in Prints, OnTrade(i, t) PROVE pass'.kind # "book"
    <3>1. pass' = [kind |-> "trade", inst |-> i, price |-> Shift(i, t.price), todo |-> resting'[i],
                   avail |-> [x \in Sides |-> t.qty], print |-> t.qty,
                   before |-> [o \in OrderIds |-> IF orders[o] = NoOrder THEN 0 ELSE orders[o].filled]]
      BY <2>2 DEF OnTrade
    <3> QED
      BY <3>1
  <2> QED
    BY <1>4, <2>1, <2>2 DEF Feed
<1>5. ASSUME ExpireStep PROVE pass.kind = "expire" /\ pass'.kind # "book"
  <2>1. pass.kind = "expire" /\ pass \in ExpirePass
    BY <1>1, <1>5, PassFacts DEF ExpireStep
  <2>2. pass' = Idle \/ \E o \in pass.ids : pass' = [pass EXCEPT !.ids = @ \ {o}]
    BY <1>5 DEF ExpireStep
  <2> QED
    BY <2>1, <2>2 DEF Idle, ExpirePass
<1>6. ASSUME TradeStep PROVE pass.kind = "trade" /\ pass'.kind # "book"
  <2>1. pass.kind = "trade" /\ pass \in TradePass
    BY <1>1, <1>6, PassFacts DEF TradeStep
  <2>2. NextOrder = Idle \/ NextOrder = [pass EXCEPT !.todo = Tail(pass.todo)]
    BY <2>1, NextOrderFacts
  <2>3. CASE NextOrder = Idle
    BY <1>6, <2>1, <2>3 DEF TradeStep, Idle
  <2>4. CASE NextOrder # Idle
    <3>1. pass'.kind = "trade"
      BY <1>6, <2>1, <2>2, <2>4 DEF TradeStep, TradePass
    <3> QED
      BY <2>1, <3>1
  <2> QED
    BY <2>3, <2>4
<1>7. CASE UNCHANGED vars
  BY <1>7 DEF vars
<1> QED
  BY <1>2, <1>3, <1>4, <1>5, <1>6, <1>7 DEF Next, Loop, Idle

\* What a round over a book leaves of the pass, when it was not the last.
LEMMA BookRoundPass ==
  ASSUME IInv, BookStep
  PROVE  /\ pass.kind = "book" /\ pass \in BookPass /\ pass.todo # <<>>
         /\ pass'.kind = "book" => pass'.todo = Tail(pass.todo) /\ pass'.inst = pass.inst
         /\ pass' = Idle => Elements(Tail(pass.todo)) = {}
<1>1. pass.kind = "book" /\ pass \in BookPass /\ pass.todo # <<>>
  BY PassFacts DEF BookStep, IInv, BooksOK, PassOK
<1>2. pass' = NextOrder
  BY DEF BookStep
<1>3. ASSUME pass'.kind = "book" PROVE pass'.todo = Tail(pass.todo) /\ pass'.inst = pass.inst
  <2>1. NextOrder # Idle
    BY <1>2, <1>3 DEF Idle
  <2>2. pass' = [pass EXCEPT !.todo = Tail(pass.todo)]
    BY <1>1, <1>2, <2>1, NextOrderFacts
  <2> QED
    BY <1>1, <2>2 DEF BookPass
<1>4. ASSUME pass' = Idle PROVE Elements(Tail(pass.todo)) = {}
  <2>1. [pass EXCEPT !.todo = Tail(pass.todo)].kind = "book"
    BY <1>1 DEF BookPass
  <2>2. Len(pass.todo) = 1
    BY <1>2, <1>4, <2>1 DEF NextOrder, Idle
  <2>3. pass.todo \in Seq(OrderIds)
    BY <1>1 DEF BookPass
  <2>4. Len(Tail(pass.todo)) = 0
    BY <1>1, <2>2, <2>3
  <2> QED
    BY <2>4 DEF Elements
<1> QED
  BY <1>1, <1>3, <1>4

\* OwnOrders starts with the list of the book's instrument and only loses orders.
LEMMA NextOwnOrders == IInv /\ OwnOrders /\ [Next]_vars => OwnOrders'
<1> SUFFICES ASSUME IInv, OwnOrders, [Next]_vars, pass'.kind = "book"
             PROVE  \A o \in Elements(pass'.todo) : orders'[o].req.inst = pass'.inst
  BY DEF OwnOrders, Elements
<1>1. TypeOK /\ BooksOK
  BY DEF IInv, BooksOK
<1>2. ASSUME NEW i \in Instruments, NEW b \in Books, OnBook(i, b)
      PROVE  \A o \in Elements(pass'.todo) : orders'[o].req.inst = pass'.inst
  <2>1. pass' = [kind |-> "book", inst |-> i, todo |-> resting[i]] /\ orders' = orders
    BY <1>2 DEF OnBook, Idle, orderVars
  <2>2. ASSUME NEW o \in Elements(resting[i]) PROVE orders[o].req.inst = i
    <3>1. o \in OrderIds
      BY <1>1 DEF TypeOK, Elements
    <3>2. o \in RestingIds(i)
      BY RestingIdsFacts
    <3> QED
      BY <1>1, <3>1, <3>2 DEF BooksOK, OpenOrdersRest
  <2> QED
    BY <2>1, <2>2
<1>3. CASE BookStep
  <2>1. /\ pass.kind = "book" /\ pass.todo \in Seq(OrderIds) /\ pass.todo # <<>>
        /\ pass'.todo = Tail(pass.todo) /\ pass'.inst = pass.inst
    BY <1>3, BookRoundPass DEF BookPass
  <2>2. \A o \in Elements(Tail(pass.todo)) : o \in Elements(pass.todo) /\ o \in OrderIds
    <3>1. /\ Tail(pass.todo) \in Seq(OrderIds)
          /\ \A o \in Elements(Tail(pass.todo)) : o \in Elements(pass.todo)
      BY <2>1, ElementsFacts
    <3> QED
      BY <3>1 DEF Elements
  <2>3. \A o \in OrderIds : orders'[o].req = orders[o].req
    <3>1. CASE NoFill
      BY <3>1 DEF NoFill
    <3>2. CASE AFill
      BY <3>2, FillKeepsRank DEF AFill
    <3> QED
      BY <1>3, <3>1, <3>2, BookRound
  <2> QED
    BY <2>1, <2>2, <2>3 DEF OwnOrders
<1>4. CASE pass' = pass
  <2>1. BookStep \/ orders' = orders
    BY <1>4, BookPasses DEF vars, orderVars
  <2> QED
    BY <1>3, <1>4, <2>1 DEF OwnOrders
<1> QED
  BY <1>2, <1>3, <1>4, BookPasses

\* What an incoming order or the resting orders crossed by a book execute is taken
\* from what the shadow book shows, once, whatever levels and fees there are.
THEOREM LiquidityTakenOnce == Spec => LiquidityUsedOnce
<1>1. Init => OwnOrders
  BY DEF Init, OwnOrders, Idle
<1>2. ASSUME IInv, OwnOrders, Next, nextId' > nextId \/ pass.kind = "book", NEW i \in Instruments
      PROVE  Matches(i)
  <2>1. CASE \E a \in Accounts, r \in Requests : Place(a, r)
    BY <1>2, <2>1, PlaceMatches
  <2>2. CASE BookStep
    BY <1>2, <2>2, BookStepMatches
  <2>3. nextId \in Nat
    BY <1>2, SizeAssumption DEF IInv, BooksOK, TypeOK
  <2>4. ASSUME nextId' = nextId PROVE pass.kind = "book"
    BY <1>2, <2>3, <2>4
  <2>5. \/ \E a \in Accounts, r \in Requests : Place(a, r)
        \/ BookStep
        \/ nextId' = nextId /\ pass.kind # "book"
    <3>1. CASE Client
      <4>1. ASSUME ~ \E a \in Accounts, r \in Requests : Place(a, r)
            PROVE  nextId' = nextId /\ pass = Idle
        BY <3>1, <4>1 DEF Client, Cancel, CloseOrder, Convert, Reset, orderVars
      <4> QED
        BY <4>1 DEF Idle
    <3>2. CASE Feed \/ Expire \/ Restart
      <4>1. nextId' = nextId /\ pass = Idle
        BY <3>2 DEF Feed, OnBook, OnTrade, Expire, Restart, orderVars
      <4> QED
        BY <4>1 DEF Idle
    <3>3. CASE Loop
      <4>1. CASE TradeStep
        BY <4>1 DEF TradeStep, NoFill, MakerFill
      <4>2. CASE ExpireStep
        BY <4>2 DEF ExpireStep, CloseOrder
      <4> QED
        BY <3>3, <4>1, <4>2 DEF Loop
    <3>4. CASE Time
      <4>1. nextId' = nextId /\ pass = Idle
        BY <3>4 DEF Time, Decay, Stale, Session, NextSchedule, Passing, orderVars
      <4> QED
        BY <4>1 DEF Idle
    <3> QED
      BY <1>2, <3>1, <3>2, <3>3, <3>4 DEF Next
  <2> QED
    BY <2>1, <2>2, <2>4, <2>5
<1>3. IInv /\ OwnOrders /\ [Next]_vars =>
        [nextId' > nextId \/ pass.kind = "book" => \A i \in Instruments : Matches(i)]_vars
  BY <1>2
<1>4. LiquidityUsedOnce <=>
        [][nextId' > nextId \/ pass.kind = "book" => \A i \in Instruments : Matches(i)]_vars
  BY DEF LiquidityUsedOnce, Matches
<1> QED
  BY <1>1, <1>3, <1>4, NextOwnOrders, Invariance, PTL DEF Spec
-----------------------------------------------------------------------------
(* What a book leaves uncrossed. *)

\* Whatever the size, a walk within the bound would take nothing: the levels it
\* could trade at show nothing.
NothingToTake(i, taker, bound) ==
  \A p \in Prices : Worse(taker, Shift(i, p), bound) \/ Shown(i, Opposite(taker), p) = 0

\* A walk that stops short of its size empties every level it may trade at, and
\* the levels' shares add up to what it took.
LEMMA ShortWalk ==
  ASSUME TypeOK, NEW i \in Instruments, NEW taker \in Sides, NEW size \in Nat, NEW bound,
         Walk(i, taker, "qty", size, bound)[MaxPrice].qty < size
  PROVE  LET w == Walk(i, taker, "qty", size, bound) IN
         \A p \in Prices :
           LET used == w[Ranked(taker, p)].qty - w[Ranked(taker, p) - 1].qty
           IN  /\ used \in Nat /\ used <= w[MaxPrice].qty
               /\ ~ Worse(taker, Shift(i, p), bound) => used = Shown(i, Opposite(taker), p)
<1> DEFINE w == Walk(i, taker, "qty", size, bound)
           take(k) == LevelTake(i, taker, "qty", bound, k, w[k - 1].budget)
<1>1. MaxPrice \in Nat /\ MaxPrice \in 0 .. MaxPrice
  BY SizeAssumption
<1>2. /\ w \in [0 .. MaxPrice -> [budget : Nat, qty : Nat, notional : Nat]]
      /\ w[0].budget = size /\ w[0].qty = 0
      /\ \A k \in 1 .. MaxPrice :
           /\ take(k) \in Nat /\ w[k].qty = w[k - 1].qty + take(k)
           /\ w[k].budget = w[k - 1].budget - take(k)
  BY WalkSteps
<1>3. ASSUME NEW k \in 1 .. MaxPrice
      PROVE  LET p == Ranked(taker, k) IN
             take(k) = IF Worse(taker, Shift(i, p), bound) THEN 0
                       ELSE Least(Shown(i, Opposite(taker), p), w[k - 1].budget)
  BY DEF LevelTake
<1>4. w[MaxPrice].qty < size
  OBVIOUS
<1> HIDE DEF w, take
<1>5. \A k \in 0 .. MaxPrice : w[k].budget \in Nat /\ w[k].qty \in Nat
  BY <1>2
<1>6. \A k \in 1 .. MaxPrice : k - 1 \in 0 .. MaxPrice /\ k \in 0 .. MaxPrice
  BY <1>1
<1>7. \A k \in 0 .. MaxPrice : w[k].budget + w[k].qty = size
  <2> DEFINE S == {k \in 0 .. MaxPrice : w[k].budget + w[k].qty = size}
  <2>1. 0 \in S
    BY <1>1, <1>2
  <2>2. ASSUME NEW k \in 1 .. MaxPrice, k - 1 \in S PROVE k \in S
    BY <1>2, <1>5, <1>6, <2>2
  <2> HIDE DEF S
  <2>3. \A k \in 0 .. MaxPrice : k \in S
    BY <1>1, <2>1, <2>2, UpTo
  <2> QED
    BY <2>3 DEF S
<1>8. \A k \in 0 .. MaxPrice : w[k].qty <= w[MaxPrice].qty
  <2> DEFINE S == {k \in 0 .. MaxPrice : w[MaxPrice - k].qty <= w[MaxPrice].qty}
  <2>1. 0 \in S
    BY <1>1, <1>5
  <2>2. ASSUME NEW k \in 1 .. MaxPrice, k - 1 \in S PROVE k \in S
    <3>1. PICK j \in 1 .. MaxPrice : j - 1 = MaxPrice - k /\ j = MaxPrice - (k - 1)
      BY <1>1
    <3>2. w[j].qty = w[j - 1].qty + take(j) /\ take(j) \in Nat
      BY <1>2
    <3>3. w[j].qty <= w[MaxPrice].qty
      BY <2>2, <3>1
    <3>4. w[j - 1].qty \in Nat /\ w[j].qty \in Nat /\ w[MaxPrice].qty \in Nat
      BY <1>1, <1>5, <1>6
    <3>5. w[j - 1].qty <= w[MaxPrice].qty
      BY <3>2, <3>3, <3>4
    <3>6. w[MaxPrice - k].qty <= w[MaxPrice].qty /\ k \in 0 .. MaxPrice
      BY <1>1, <3>1, <3>5
    <3> QED
      BY <3>6
  <2> HIDE DEF S
  <2>3. \A k \in 0 .. MaxPrice : k \in S
    BY <1>1, <2>1, <2>2, UpTo
  <2>4. ASSUME NEW k \in 0 .. MaxPrice PROVE MaxPrice - k \in S /\ MaxPrice - (MaxPrice - k) = k
    BY <1>1, <2>3
  <2> QED
    BY <2>4 DEF S
<1>9. ASSUME NEW k \in 1 .. MaxPrice
      PROVE  LET p == Ranked(taker, k) IN
             ~ Worse(taker, Shift(i, p), bound) => take(k) = Shown(i, Opposite(taker), p)
  <2> DEFINE p == Ranked(taker, k)
             shown == Shown(i, Opposite(taker), p)
  <2>1. p \in Prices
    BY SizeAssumption DEF Ranked, Prices
  <2>2. shown \in Nat
    BY <2>1, BookFacts DEF Opposite, Sides
  <2>3. take(k) < w[k - 1].budget
    <3>1. w[k].budget = w[k - 1].budget - take(k) /\ take(k) \in Nat
      BY <1>2
    <3>2. w[k].budget + w[k].qty = size /\ w[k].qty <= w[MaxPrice].qty
      BY <1>6, <1>7, <1>8
    <3>3. /\ w[k].budget \in Nat /\ w[k - 1].budget \in Nat
          /\ w[k].qty \in Nat /\ w[MaxPrice].qty \in Nat
      BY <1>1, <1>5, <1>6
    <3> QED
      BY <1>4, <3>1, <3>2, <3>3
  <2>4. take(k) = IF Worse(taker, Shift(i, p), bound) THEN 0 ELSE Least(shown, w[k - 1].budget)
    BY <1>3
  <2>5. w[k - 1].budget \in Nat
    BY <1>5, <1>6
  <2> HIDE DEF shown
  <2>6. ~ Worse(taker, Shift(i, p), bound) => take(k) = shown
    BY <2>2, <2>3, <2>4, <2>5 DEF Least
  <2> QED
    BY <2>6 DEF shown
<1>10. ASSUME NEW p \in Prices
       PROVE  LET used == w[Ranked(taker, p)].qty - w[Ranked(taker, p) - 1].qty
              IN  /\ used \in Nat /\ used <= w[MaxPrice].qty
                  /\ ~ Worse(taker, Shift(i, p), bound) => used = Shown(i, Opposite(taker), p)
  <2> DEFINE k == Ranked(taker, p)
  <2>1. k \in 1 .. MaxPrice /\ Ranked(taker, k) = p
    BY SizeAssumption DEF Ranked, Prices
  <2> HIDE DEF k
  <2>2. w[k].qty - w[k - 1].qty = take(k) /\ take(k) \in Nat /\ take(k) <= w[MaxPrice].qty
    <3>1. take(k) \in Nat /\ w[k].qty = w[k - 1].qty + take(k)
      BY <1>2, <2>1
    <3>2. w[k].qty \in Nat /\ w[k - 1].qty \in Nat /\ w[MaxPrice].qty \in Nat
      BY <1>1, <1>5, <1>6, <2>1
    <3>3. w[k].qty <= w[MaxPrice].qty
      BY <1>6, <1>8, <2>1
    <3> QED
      BY <3>1, <3>2, <3>3
  <2>3. ~ Worse(taker, Shift(i, p), bound) => take(k) = Shown(i, Opposite(taker), p)
    BY <1>9, <2>1
  <2> QED
    BY <2>2, <2>3 DEF k
<1> QED
  BY <1>10 DEF w

\* A walk of some size takes nothing exactly when there is nothing to take.
LEMMA EmptyWalk ==
  ASSUME TypeOK, NEW i \in Instruments, NEW taker \in Sides, NEW size \in Nat, NEW bound
  PROVE  LET q == Walk(i, taker, "qty", size, bound)[MaxPrice].qty IN
         /\ size > 0 /\ q = 0 => NothingToTake(i, taker, bound)
         /\ NothingToTake(i, taker, bound) => q = 0
<1> DEFINE w == Walk(i, taker, "qty", size, bound)
           take(k) == LevelTake(i, taker, "qty", bound, k, w[k - 1].budget)
<1>1. MaxPrice \in Nat /\ MaxPrice \in 0 .. MaxPrice
  BY SizeAssumption
<1>2. /\ w \in [0 .. MaxPrice -> [budget : Nat, qty : Nat, notional : Nat]]
      /\ w[0].budget = size /\ w[0].qty = 0
      /\ \A k \in 1 .. MaxPrice : take(k) \in Nat /\ w[k].qty = w[k - 1].qty + take(k)
  BY WalkSteps
<1>3. ASSUME size > 0, w[MaxPrice].qty = 0 PROVE NothingToTake(i, taker, bound)
  <2>1. w[MaxPrice].qty < size
    BY <1>3
  <2>2. \A p \in Prices :
          LET used == w[Ranked(taker, p)].qty - w[Ranked(taker, p) - 1].qty
          IN  /\ used \in Nat /\ used <= w[MaxPrice].qty
              /\ ~ Worse(taker, Shift(i, p), bound) => used = Shown(i, Opposite(taker), p)
    BY <2>1, ShortWalk
  <2> HIDE DEF w
  <2>3. ASSUME NEW p \in Prices
        PROVE  Worse(taker, Shift(i, p), bound) \/ Shown(i, Opposite(taker), p) = 0
    BY <1>3, <2>2
  <2> QED
    BY <2>3 DEF NothingToTake
<1>4. ASSUME NothingToTake(i, taker, bound) PROVE w[MaxPrice].qty = 0
  <2>1. ASSUME NEW k \in 1 .. MaxPrice PROVE k - 1 \in 0 .. MaxPrice /\ take(k) = 0
    <3>1. k - 1 \in 0 .. MaxPrice /\ Ranked(taker, k) \in Prices
      BY SizeAssumption DEF Ranked, Prices
    <3>2. Worse(taker, Shift(i, Ranked(taker, k)), bound)
          \/ Shown(i, Opposite(taker), Ranked(taker, k)) = 0
      BY <1>4, <3>1 DEF NothingToTake
    <3>3. w[k - 1].budget \in Nat
      <4> HIDE DEF w
      <4> QED
        BY <1>2, <3>1
    <3>4. take(k) = IF Worse(taker, Shift(i, Ranked(taker, k)), bound) THEN 0
                    ELSE Least(Shown(i, Opposite(taker), Ranked(taker, k)), w[k - 1].budget)
      BY DEF LevelTake
    <3> HIDE DEF take, w
    <3> QED
      BY <3>1, <3>2, <3>3, <3>4 DEF Least
  <2> HIDE DEF w, take
  <2> DEFINE S == {k \in 0 .. MaxPrice : w[k].qty = 0}
  <2>2. 0 \in S
    BY <1>1, <1>2
  <2>3. ASSUME NEW k \in 1 .. MaxPrice, k - 1 \in S PROVE k \in S
    BY <1>2, <2>1, <2>3
  <2> HIDE DEF S
  <2>4. \A k \in 0 .. MaxPrice : k \in S
    BY <1>1, <2>2, <2>3, UpTo
  <2> QED
    BY <1>1, <2>4 DEF S
<1> QED
  BY <1>3, <1>4
\* An order the loop over a book has passed by is not crossed any more: it took
\* what it could, and those after it only leave less.
PassedUncrossed ==
  pass.kind = "book" =>
    \A o \in OrderIds :
      IsOpen(o) /\ orders[o].req.inst = pass.inst /\ o \notin Elements(pass.todo)
        => NothingToTake(pass.inst, orders[o].req.side, 200 * orders[o].req.limit)

\* After a round the same holds of all but the orders still to be visited.
LEMMA RoundUncrosses ==
  ASSUME IInv, PassedUncrossed, BookStep, NEW o \in OrderIds,
         IsOpen(o)', orders'[o].req.inst = pass.inst, o \notin Elements(Tail(pass.todo)),
         NEW i, i = pass.inst
  PROVE  NothingToTake(i, orders[o].req.side, 200 * orders[o].req.limit)'
<1>1. PICK h : h = Head(pass.todo)
  OBVIOUS
<1> DEFINE req == orders[h].req
           bound == 200 * req.limit
           walk == Walk(pass.inst, req.side, "qty", left[h], bound)
           q == walk[MaxPrice].qty
<1>2. TypeOK /\ BooksOK /\ pass.kind = "book" /\ pass \in BookPass /\ pass.inst \in Instruments
  <2>1. TypeOK /\ BooksOK /\ pass.kind = "book" /\ pass \in BookPass
    BY PassFacts DEF BookStep, IInv, BooksOK
  <2> QED
    BY <2>1 DEF BookPass
<1>3. h \in OrderIds /\ orders[h] # NoOrder /\ left[h] \in Nat /\ req.side \in Sides
  <2>1. h \in OrderIds /\ orders[h] # NoOrder
    BY <1>1, <1>2, NextOrderFacts
  <2> QED
    BY <1>2, <2>1, OrderFacts DEF TypeOK
<1>4. q \in Nat /\ q <= left[h]
  <2>1. /\ walk \in [0 .. MaxPrice -> [budget : Nat, qty : Nat, notional : Nat]]
        /\ walk[MaxPrice].qty <= left[h]
    BY <1>2, <1>3, WalkFacts
  <2>2. MaxPrice \in 0 .. MaxPrice
    BY SizeAssumption
  <2> HIDE DEF walk
  <2> QED
    BY <2>1, <2>2
<1>5. /\ \/ q = 0 /\ NoFill /\ UNCHANGED <<ahead, depletion>>
         \/ q > 0 /\ MakerFill(h, q) /\ depletion' = Consume(pass.inst, req.side, walk)
      /\ book' = book /\ offset' = offset
  BY <1>1 DEF BookStep, marketVars
<1>6. \A p : Shift(i, p)' = Shift(i, p)
  BY <1>5 DEF Shift
<1>7. o # h => o \notin Elements(pass.todo)
  <2>1. pass.todo \in Seq(OrderIds) /\ pass.todo # <<>>
    BY <1>2 DEF BookPass, IInv, PassOK
  <2>2. /\ Len(pass.todo) \in Nat /\ Len(Tail(pass.todo)) = Len(pass.todo) - 1
        /\ \A k \in 1 .. Len(Tail(pass.todo)) : Tail(pass.todo)[k] = pass.todo[k + 1]
        /\ Head(pass.todo) = pass.todo[1]
    BY <2>1
  <2>3. ASSUME NEW k \in 1 .. Len(pass.todo), pass.todo[k] = o PROVE o = h
    <3>1. CASE k = 1
      BY <1>1, <2>2, <2>3, <3>1
    <3>2. CASE k # 1
      <4>1. PICK j \in 1 .. Len(Tail(pass.todo)) : j + 1 = k
        BY <2>2, <3>2
      <4>2. Tail(pass.todo)[j] = o
        BY <2>2, <2>3, <4>1
      <4> QED
        BY <4>2 DEF Elements
    <3> QED
      BY <3>1, <3>2
  <2> QED
    BY <2>3 DEF Elements
<1>8. CASE q = 0 /\ NoFill /\ UNCHANGED <<ahead, depletion>>
  <2>1. \A s, p : Shown(i, s, p)' = Shown(i, s, p)
    BY <1>5, <1>8 DEF Shown
  <2>2. orders' = orders /\ IsOpen(o)
    BY <1>8 DEF NoFill, IsOpen
  <2>3. NothingToTake(i, orders[o].req.side, 200 * orders[o].req.limit)
    <3>1. CASE o = h
      <4>1. left[h] > 0
        BY <1>2, <1>3, <2>2, <3>1, RemainderFacts
      <4>2. NothingToTake(pass.inst, req.side, bound)
        BY <1>2, <1>3, <1>8, <4>1, EmptyWalk
      <4> QED
        BY <3>1, <4>2
    <3>2. CASE o # h
      BY <1>2, <1>7, <2>2, <3>2 DEF PassedUncrossed
    <3> QED
      BY <3>1, <3>2
  <2> QED
    BY <1>6, <2>1, <2>2, <2>3 DEF NothingToTake, Worse
<1>9. CASE q > 0 /\ MakerFill(h, q) /\ depletion' = Consume(pass.inst, req.side, walk)
  <2> DEFINE used(p) == walk[Ranked(req.side, p)].qty - walk[Ranked(req.side, p) - 1].qty
  <2>1. ASSUME NEW p \in Prices
        PROVE  /\ used(p) \in Nat /\ Shown(i, Opposite(req.side), p) \in Nat
               /\ Shown(i, Opposite(req.side), p)' = Shown(i, Opposite(req.side), p) - used(p)
               /\ used(p) <= Shown(i, Opposite(req.side), p)
               /\ Shown(i, req.side, p)' = Shown(i, req.side, p)
    <3>1. PICK taker \in Sides, size \in Nat, limit \in {bound} :
            taker = req.side /\ size = left[h] /\ limit = bound
      BY <1>3
    <3>2. /\ book' = book /\ i \in Instruments
          /\ depletion' = Consume(i, taker, Walk(i, taker, "qty", size, limit))
      BY <1>2, <1>5, <1>9, <3>1
    <3> DEFINE w == Walk(i, taker, "qty", size, limit)
               taken == w[Ranked(taker, p)].qty - w[Ranked(taker, p) - 1].qty
    <3>3. /\ taken \in Nat /\ Shown(i, Opposite(taker), p) \in Nat
          /\ Shown(i, Opposite(taker), p)' = Shown(i, Opposite(taker), p) - taken
          /\ taken <= Shown(i, Opposite(taker), p)
          /\ Shown(i, taker, p)' = Shown(i, taker, p)
      BY <1>2, <3>2, LevelsUsedUp
    <3>4. taken = used(p)
      BY <3>1
    <3>5. orders'[h].req.side = taker
      BY <1>3, <1>4, <1>9, <3>1, FillKeepsRank
    <3> HIDE DEF taken, used
    <3> QED
      BY <3>1, <3>3, <3>4, <3>5 DEF Opposite
  <2>2. /\ \A x \in OrderIds : orders'[x].req = orders[x].req /\ (IsOpen(x)' => IsOpen(x))
        /\ IsOpen(h)' => q < left[h]
    BY <1>3, <1>4, <1>9, FillKeepsRank
  <2>3. IsOpen(o) /\ orders[o].req.side \in Sides
    BY <1>2, <2>2, OrderFacts
  <2>4. CASE o = h
    <3>1. q < left[h]
      BY <2>2, <2>4
    <3>2. \A p \in Prices :
            ~ Worse(req.side, Shift(i, p), bound) => used(p) = Shown(i, Opposite(req.side), p)
      BY <1>2, <1>3, <3>1, ShortWalk
    <3> HIDE DEF used
    <3>3. ASSUME NEW p \in Prices
          PROVE  Worse(req.side, Shift(i, p), bound) \/ Shown(i, Opposite(req.side), p)' = 0
      BY <2>1, <3>2
    <3>4. NothingToTake(i, req.side, bound)'
          <=> \A p \in Prices : Worse(req.side, Shift(i, p), bound)
                                \/ Shown(i, Opposite(req.side), p)' = 0
      BY <1>3, <1>6, <2>2 DEF NothingToTake, Worse, Opposite
    <3> QED
      BY <2>4, <3>3, <3>4
  <2>5. CASE o # h
    <3> DEFINE s == orders[o].req.side
               b == 200 * orders[o].req.limit
    <3>1. NothingToTake(i, s, b)
      BY <1>2, <1>7, <2>2, <2>3, <2>5 DEF PassedUncrossed
    <3>2. Opposite(s) = req.side \/ Opposite(s) = Opposite(req.side)
      BY <1>3, <2>3 DEF Opposite, Sides
    <3> HIDE DEF used
    <3>3. ASSUME NEW p \in Prices, Shown(i, Opposite(s), p) = 0
          PROVE  Shown(i, Opposite(s), p)' = 0
      <4>1. orders'[o].req.side = s
        BY <2>2
      <4>2. CASE Opposite(s) = req.side
        <5>1. Shown(i, req.side, p)' = 0
          BY <2>1, <3>3, <4>2
        <5>2. Opposite(s)' = Opposite(s) /\ orders'[h].req.side = req.side
          BY <1>3, <2>2, <4>1 DEF Opposite
        <5> QED
          BY <4>2, <5>1, <5>2
      <4>3. CASE Opposite(s) = Opposite(req.side)
        <5>1. Shown(i, Opposite(req.side), p)' = 0
          BY <2>1, <3>3, <4>3
        <5>2. Opposite(s)' = Opposite(s) /\ orders'[h].req.side = req.side
          BY <1>3, <2>2, <4>1 DEF Opposite
        <5> QED
          BY <4>3, <5>1, <5>2
      <4> QED
        BY <3>2, <4>2, <4>3
    <3>4. orders'[o].req = orders[o].req
      BY <2>2
    <3> QED
      BY <1>6, <3>1, <3>3, <3>4 DEF NothingToTake, Worse
  <2> QED
    BY <2>4, <2>5
<1> QED
  BY <1>5, <1>8, <1>9

\* The loop over a book never leaves an order behind that the book still crosses.
LEMMA NextPassedUncrossed ==
  IInv /\ PassedUncrossed /\ [Next]_vars => PassedUncrossed'
<1> SUFFICES ASSUME IInv, PassedUncrossed, [Next]_vars, pass'.kind = "book"
             PROVE  PassedUncrossed'
  BY DEF PassedUncrossed
<1>1. TypeOK /\ BooksOK
  BY DEF IInv, BooksOK
<1>2. ASSUME NEW i \in Instruments, NEW b \in Books, OnBook(i, b) PROVE PassedUncrossed'
  <2>1. pass' = [kind |-> "book", inst |-> i, todo |-> resting[i]] /\ orders' = orders
    BY <1>2 DEF OnBook, Idle, orderVars
  <2>2. ASSUME NEW o \in OrderIds, IsOpen(o)', orders'[o].req.inst = i
        PROVE  o \in Elements(resting[i])
    <3>1. o \in RestingIds(i)
      BY <1>1, <2>1, <2>2 DEF BooksOK, OpenOrdersRest, IsOpen
    <3> QED
      BY <3>1, RestingIdsFacts
  <2>3. pass'.inst = i /\ pass'.todo = resting[i]
    BY <2>1
  <2>4. Elements(pass'.todo) = Elements(resting[i])
    BY <2>3
  <2> QED
    BY <2>2, <2>3, <2>4 DEF PassedUncrossed, Elements
<1>3. CASE BookStep
  <2>1. pass'.todo = Tail(pass.todo) /\ pass'.inst = pass.inst
    BY <1>3, BookRoundPass
  <2>2. PICK i : i = pass.inst
    OBVIOUS
  <2>3. ASSUME NEW o \in OrderIds, IsOpen(o)', orders'[o].req.inst = i,
               o \notin Elements(Tail(pass.todo))
        PROVE  NothingToTake(i, orders[o].req.side, 200 * orders[o].req.limit)'
    BY <1>3, <2>2, <2>3, RoundUncrosses
  <2>4. Elements(pass.todo)' = Elements(Tail(pass.todo)) /\ pass'.inst = i
    BY <2>1, <2>2 DEF Elements
  <2>5. \A o : NothingToTake(pass.inst, orders[o].req.side, 200 * orders[o].req.limit)'
               <=> NothingToTake(i, orders[o].req.side, 200 * orders[o].req.limit)'
    BY <2>4 DEF NothingToTake, Shift, Shown
  <2> QED
    BY <2>3, <2>4, <2>5 DEF PassedUncrossed
<1>4. CASE pass' = pass
  <2>1. BookStep \/ UNCHANGED vars
    BY <1>4, BookPasses
  <2>2. ASSUME UNCHANGED vars PROVE PassedUncrossed'
    <3>1. UNCHANGED <<orders, pass, book, depletion, offset>>
      BY <2>2 DEF vars, orderVars, shadowVars, marketVars
    <3>2. \A i, t, b : NothingToTake(i, t, b)' <=> NothingToTake(i, t, b)
      BY <3>1 DEF NothingToTake, Shift, Shown, Worse
    <3>3. PICK i : i = pass.inst
      OBVIOUS
    <3>4. ASSUME NEW o \in OrderIds, IsOpen(o)', orders'[o].req.inst = i, o \notin Elements(pass.todo)
          PROVE  NothingToTake(i, orders[o].req.side, 200 * orders[o].req.limit)
      BY <1>4, <3>1, <3>3, <3>4 DEF PassedUncrossed, IsOpen
    <3> QED
      BY <3>1, <3>2, <3>3, <3>4 DEF PassedUncrossed, IsOpen, Elements, NothingToTake, Shift, Shown, Worse
  <2> QED
    BY <1>3, <2>1, <2>2
<1> QED
  BY <1>2, <1>3, <1>4, BookPasses

\* No open order of the instrument could take anything from its book.
AllUncrossed(i) ==
  \A o \in OrderIds :
    IsOpen(o) /\ orders[o].req.inst = i
      => NothingToTake(i, orders[o].req.side, 200 * orders[o].req.limit)

\* Then none of them is crossed.
NoneCrossed == \A i \in Instruments : AllUncrossed(i) => Crossed(i) = {}
LEMMA UncrossedFacts == TypeOK => NoneCrossed
<1> SUFFICES ASSUME TypeOK, NEW i \in Instruments, AllUncrossed(i),
                    NEW o \in OrderIds, IsOpen(o), orders[o].req.inst = i
             PROVE  ~ Walk(i, orders[o].req.side, "qty", left[o], 200 * orders[o].req.limit)[MaxPrice].qty > 0
  BY DEF NoneCrossed, Crossed
<1>1. orders[o].req.side \in Sides /\ left[o] \in Nat
  BY OrderFacts DEF TypeOK
<1>2. NothingToTake(i, orders[o].req.side, 200 * orders[o].req.limit)
  BY DEF AllUncrossed
<1>3. Walk(i, orders[o].req.side, "qty", left[o], 200 * orders[o].req.limit)[MaxPrice].qty = 0
  BY <1>1, <1>2, EmptyWalk
<1> QED
  BY <1>3

\* When on_book is done the shadow book crosses no resting order of its instrument,
\* however many there are and whatever they took from each other's levels.
THEOREM BookUncrosses == Spec => BookLeavesNoCross
<1> DEFINE Done(i) == pass.kind = "book" /\ pass.inst = i /\ pass' = Idle
<1>1. Init => PassedUncrossed
  BY DEF Init, PassedUncrossed, Idle
<1>2. ASSUME IInv, PassedUncrossed, NoneCrossed', Next, NEW i \in Instruments, Done(i)
      PROVE  Crossed(i)' = {}
  <2>1. BookStep
    <3>1. pass' # pass
      BY <1>2 DEF Idle
    <3> QED
      BY <1>2, <3>1, BookPasses DEF vars
  <2>2. Elements(Tail(pass.todo)) = {}
    BY <1>2, <2>1, BookRoundPass
  <2>3. ASSUME NEW o \in OrderIds, IsOpen(o)', orders'[o].req.inst = i
        PROVE  NothingToTake(i, orders[o].req.side, 200 * orders[o].req.limit)'
    BY <1>2, <2>1, <2>2, <2>3, RoundUncrosses
  <2>4. AllUncrossed(i)'
    BY <2>3 DEF AllUncrossed
  <2> QED
    BY <1>2, <2>4 DEF NoneCrossed
<1>3. IInv /\ PassedUncrossed /\ NoneCrossed' /\ [Next]_vars =>
        [\A i \in Instruments : Done(i) => Crossed(i)' = {}]_vars
  BY <1>2
<1>4. BookLeavesNoCross <=> [][\A i \in Instruments : Done(i) => Crossed(i)' = {}]_vars
  BY DEF BookLeavesNoCross
<1>5. IInv => TypeOK
  BY DEF IInv, BooksOK
<1> QED
  BY <1>1, <1>3, <1>4, <1>5, NextPassedUncrossed, UncrossedFacts, Invariance, PTL DEF Spec
-----------------------------------------------------------------------------
=============================================================================
