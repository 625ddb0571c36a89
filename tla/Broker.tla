------------------------------- MODULE Broker -------------------------------
(***************************************************************************)
(* The simulated broker (src/src/broker.rs) with the ledger (ledger.rs),   *)
(* the shadow order book (sim.rs) and the fee schedule and calendar        *)
(* (venue.rs) it works on.                                                 *)
(*                                                                         *)
(* Every call of the broker runs under one mutex. A call that loops over   *)
(* resting orders is an action that starts a pass and one action per order *)
(* visited; the variable pass is the loop's local state and no other call  *)
(* can start before it is Idle again.                                      *)
(*                                                                         *)
(* A definition whose comment begins with Mutant is used by nothing: it is *)
(* the definition after it with a mistake the properties must notice.      *)
(*                                                                         *)
(* Prices are ticks 1..MaxPrice and quantities are integers. Cash is       *)
(* counted in 1/FeeBase of the smallest unit the code books fees in, so    *)
(* that a reservation (never truncated in the code) is an integer and a    *)
(* fee (truncated) is a multiple of FeeBase.                               *)
(***************************************************************************)
EXTENDS Integers, Sequences, Sums

CONSTANTS
  Accounts, Instruments, Currencies,
  CurrencyOf,    \* [Instruments -> Currencies]: venue.currency()
  Sessioned,     \* the instruments of venues with a trading session (stocks)
  MaxPrice,      \* the highest price tick
  PriceBand,     \* [Instruments -> SUBSET Prices]: the day's price limits
  Step, MinQty, MinNotional,   \* LotRule
  Schedules,     \* the fee table of a venue, oldest first
  FeeBase,       \* the denominator of fee rates (10000 bps in the code)
  SlipPct,       \* max_slippage of a market order, in percent of the mid
  MaxOffset,     \* bound of the permanent impact, in ticks
  MaxImpact,     \* bound of one execution's impact, in ticks
  Deposits,      \* [Currencies -> Nat]: an account's initial cash
  Requests,      \* the order requests clients make
  Books,         \* the order books feeds deliver
  Prints,        \* the trades feeds deliver: [price, qty]
  Conversions,   \* the currency conversions clients ask for
  Home,          \* the currency exchange rates are quoted in (KRW)
  AccountRank,   \* [Accounts -> Nat]: the order the store lists accounts in
  MaxOrders,     \* bound: order ids are 1..MaxOrders
  MaxGeneration  \* bound: resets of one account

VARIABLES
  cash,        \* Portfolio.cash
  reserved,    \* Portfolio.reserved_cash
  qty,         \* Position.qty (0 when there is no position)
  held,        \* Position.reserved
  generation,  \* World.generations
  orders,      \* World.orders
  nextId,      \* World.next_order_id
  resting,     \* World.resting: per instrument, the ids in Vec order
  left,        \* Resting.remaining, 0 for an order that does not rest
  ahead,       \* Resting.queue_ahead
  book,        \* World.books: displayed quantity per side and price
  fresh,       \* the book is younger than the staleness limit
  offset,      \* ShadowState.offset, in ticks
  depletion,   \* ShadowState.depletion
  open,        \* Calendar.is_open of the instrument's venue
  schedule,    \* index of the fee schedule in force
  pass,        \* the loop in progress under the mutex
  journal      \* the journal entries sent in the last step

accountVars == <<cash, reserved, qty, held, generation>>
orderVars == <<orders, nextId, resting, left, ahead>>
shadowVars == <<offset, depletion>>
marketVars == <<book, fresh, open, schedule>>
vars == <<accountVars, orderVars, shadowVars, marketVars, pass, journal>>

Sides == {"buy", "sell"}
Prices == 1 .. MaxPrice
OrderIds == 1 .. MaxOrders
Opposite(side) == IF side = "buy" THEN "sell" ELSE "buy"
Least(x, y) == IF x <= y THEN x ELSE y
Pos(x) == IF x < 0 THEN 0 ELSE x

\* OrderRequest: kind, time in force, and a size in units or (market buys) in cash.
Request ==
  [inst : Instruments, side : Sides, kind : {"limit", "market"},
   tif : {"day", "gtc", "ioc"}, unit : {"qty", "notional"}, size : Nat,
   limit : 0 .. MaxPrice]

Statuses == {"open", "filled", "cancelled", "expired"}
NoOrder == [status |-> "none"]
Order == [req : Request, account : Accounts, status : Statuses, filled : Nat]

Idle == [kind |-> "idle"]
\* A trade pass also notes the print's size and what was filled when it began,
\* which no action reads.
BookPass == [kind : {"book"}, inst : Instruments, todo : Seq(OrderIds)]
TradePass ==
  [kind : {"trade"}, inst : Instruments, price : Nat \ {0}, todo : Seq(OrderIds),
   avail : [Sides -> Nat], print : Nat, before : [OrderIds -> Nat]]
ExpirePass == [kind : {"expire"}, ids : SUBSET OrderIds]

Levels == [Sides -> [Prices -> Nat]]
EmptyLevels == [s \in Sides |-> [p \in Prices |-> 0]]

ASSUME InstrumentAssumption ==
  /\ CurrencyOf \in [Instruments -> Currencies]
  /\ Sessioned \subseteq Instruments
  /\ PriceBand \in [Instruments -> SUBSET Prices]
  /\ AccountRank \in [Accounts -> Nat]
  /\ \A a, b \in Accounts : AccountRank[a] = AccountRank[b] => a = b
ASSUME SizeAssumption ==
  /\ MaxPrice \in Nat /\ MaxOrders \in Nat /\ MaxGeneration \in Nat
  /\ MaxOffset \in Nat /\ MaxImpact \in Nat
  /\ Step \in Nat \ {0} /\ MinQty \in Nat /\ MinNotional \in Nat
  /\ SlipPct \in 0 .. 100
  /\ Deposits \in [Currencies -> Nat]
  /\ Requests \subseteq Request
  /\ Books \subseteq Levels
  /\ Prints \subseteq [price : Prices, qty : Nat \ {0}]
\* fees.toml: rates of a schedule are a fraction of the notional they apply to.
ASSUME FeeAssumption ==
  /\ FeeBase \in Nat \ {0}
  /\ Len(Schedules) \in Nat \ {0}
  /\ \A k \in 1 .. Len(Schedules) :
       /\ Schedules[k] \in [commission : Nat, sellTax : Nat, sellFee : Nat]
       /\ Schedules[k].commission + Schedules[k].sellFee + Schedules[k].sellTax <= FeeBase
\* rate is the price of a unit of a foreign currency, spread is in percent.
ASSUME ConversionAssumption ==
  /\ Home \in Currencies
  /\ Conversions \subseteq
       [from : Currencies, to : Currencies, amount : Nat, rate : Nat \ {0}, spread : 0 .. 99]
-----------------------------------------------------------------------------
(* Fees and reservations. *)

Rates == Schedules[schedule]

\* The highest commission in the fee table, whatever schedule is in force.
ReserveCommission ==
  CHOOSE c \in 0 .. FeeBase :
    /\ \A k \in 1 .. Len(Schedules) : Schedules[k].commission <= c
    /\ \E k \in 1 .. Len(Schedules) : Schedules[k].commission = c

\* Mutant: the commission is not reserved.
BuyReserveWithoutCommission(limit) == limit * FeeBase
\* Mutant: reserved at the rate of the day.
BuyReserveAtCurrentRate(limit) == limit * (FeeBase + Rates.commission)
\* Cash reserved per unit of a resting buy.
BuyReservePerUnit(limit) == limit * (FeeBase + ReserveCommission)

\* A fee or tax on a notional of n, with the sub-unit remainder dropped.
Truncated(n, rate) == ((n * rate) \div FeeBase) * FeeBase
Fee(side, n) == Truncated(n, Rates.commission + IF side = "sell" THEN Rates.sellFee ELSE 0)
Tax(side, n) == IF side = "sell" THEN Truncated(n, Rates.sellTax) ELSE 0

\* Mutant: the sales tax is never charged.
CashLegUntaxed(side, n) ==
  IF side = "buy" THEN - (FeeBase * n + Fee(side, n)) ELSE FeeBase * n - Fee(side, n)
\* What an execution of notional n does to cash.
CashLeg(side, n) ==
  IF side = "buy" THEN - (FeeBase * n + Fee(side, n) + Tax(side, n))
  ELSE FeeBase * n - Fee(side, n) - Tax(side, n)
QtyLeg(side, q) == IF side = "buy" THEN q ELSE - q

\* Mutant: reserved cash counts as available.
CashWithReserved(a, c) == cash[a][c]
AvailableCash(a, c) == cash[a][c] - reserved[a][c]
AvailableQty(a, i) == qty[a][i] - held[a][i]
-----------------------------------------------------------------------------
(* The shadow book. *)

\* A real price moved by the offset, kept on a valid tick.
Shift(i, p) == IF p + offset[i] < 1 THEN 1 ELSE p + offset[i]

\* Displayed quantity of a level less what our fills took from it.
Shown(i, side, p) == Pos(book[i][side][p] - depletion[i][side][p])

BestPrice(i, side) ==
  LET levels == {p \in Prices : Shown(i, side, p) > 0}
      best == CHOOSE p \in levels :
                \A other \in levels : IF side = "buy" THEN other <= p ELSE p <= other
  IN  Shift(i, best)

HasBothSides(i) == \A side \in Sides : \E p \in Prices : Shown(i, side, p) > 0

\* Twice the mid price.
Mid2(i) == BestPrice(i, "buy") + BestPrice(i, "sell")

\* A price the taker would not trade at; bound is 200 times the limit price.
Worse(taker, price, bound) ==
  IF taker = "buy" THEN 200 * price > bound ELSE 200 * price < bound

\* The k-th best real price of the side a taker trades against.
Ranked(taker, k) == IF taker = "buy" THEN k ELSE MaxPrice + 1 - k

\* Mutant: takes a whole level even when less is wanted.
LevelTakeUncapped(i, taker, unit, bound, k, budget) ==
  LET p == Ranked(taker, k)
  IN  IF budget = 0 \/ Worse(taker, Shift(i, p), bound) THEN 0 ELSE Shown(i, Opposite(taker), p)
\* Mutant: a cash budget is spent before the commission.
LevelTakeWithoutFeeRoom(i, taker, unit, bound, k, budget) ==
  LET p == Ranked(taker, k)
      most == IF unit = "qty" THEN budget
              ELSE ((budget \div (Shift(i, p) * FeeBase)) \div Step) * Step
  IN  IF Worse(taker, Shift(i, p), bound) THEN 0 ELSE Least(Shown(i, Opposite(taker), p), most)
\* What a taker takes at the level with the given rank when `budget` remains:
\* a quantity, or cash scaled by the notional's commission factor.
LevelTake(i, taker, unit, bound, k, budget) ==
  LET p == Ranked(taker, k)
      price == Shift(i, p)
      most == IF unit = "qty" THEN budget
              ELSE ((budget \div (price * (FeeBase + Rates.commission))) \div Step) * Step
  IN  IF Worse(taker, price, bound) THEN 0 ELSE Least(Shown(i, Opposite(taker), p), most)

\* sim::walk: after the k best levels, the budget that is left and the quantity
\* and notional taken.
Walk(i, taker, unit, size, bound) ==
  LET w[k \in 0 .. MaxPrice] ==
        IF k = 0
        THEN [budget |-> IF unit = "qty" THEN size ELSE size * FeeBase,
              qty |-> 0, notional |-> 0]
        ELSE LET take == LevelTake(i, taker, unit, bound, k, w[k - 1].budget)
                 price == Shift(i, Ranked(taker, k))
             IN  [budget |-> w[k - 1].budget -
                    (IF unit = "qty" THEN take ELSE take * price * (FeeBase + Rates.commission)),
                  qty |-> w[k - 1].qty + take,
                  notional |-> w[k - 1].notional + take * price]
  IN  w

\* Mutant: depletes the taker's own side of the book.
ConsumeOwnSide(i, taker, walk) ==
  [depletion EXCEPT ![i][taker] =
     [p \in Prices |-> @[p] + walk[Ranked(taker, p)].qty - walk[Ranked(taker, p) - 1].qty]]
\* ShadowState::consume: the levels a walk of `taker` took from, at their real price.
Consume(i, taker, walk) ==
  [depletion EXCEPT ![i][Opposite(taker)] =
     [p \in Prices |-> @[p] + walk[Ranked(taker, p)].qty - walk[Ranked(taker, p) - 1].qty]]
-----------------------------------------------------------------------------
(* Orders, reservations and journal entries. *)

IsOpen(o) == orders[o].status = "open"
Cur(o) == CurrencyOf[orders[o].req.inst]
RestingIds(i) == {resting[i][k] : k \in 1 .. Len(resting[i])}

\* What order o still promises: cash of currency c, or units of instrument i.
HeldCash(a, c) ==
  [o \in OrderIds |->
     IF /\ orders[o] # NoOrder /\ orders[o].account = a
        /\ orders[o].req.side = "buy" /\ Cur(o) = c
     THEN BuyReservePerUnit(orders[o].req.limit) * left[o] ELSE 0]
HeldQty(a, i) ==
  [o \in OrderIds |->
     IF /\ orders[o] # NoOrder /\ orders[o].account = a
        /\ orders[o].req.side = "sell" /\ orders[o].req.inst = i
     THEN left[o] ELSE 0]

\* Mutant: nothing is taken off the list.
KeepAll(s, S) == s
\* The sequence s without the elements that are not in S (Vec::retain).
Keep(s, S) ==
  LET kept[k \in 0 .. Len(s)] ==
        IF k = 0 THEN <<>>
        ELSE IF s[k] \in S THEN Append(kept[k - 1], s[k]) ELSE kept[k - 1]
  IN  kept[Len(s)]

\* Mutant: journaled before the status is set.
OrderEntryTooEarly(o, status, filled) ==
  [type |-> "order", generation |-> generation[orders'[o].account],
   id |-> o, status |-> orders[o].status, filled |-> filled]
OrderEntry(o, status, filled) ==
  [type |-> "order", generation |-> generation[orders'[o].account],
   id |-> o, status |-> status, filled |-> filled]
FillEntry(o, q, n, liquidity) ==
  LET order == orders'[o] IN
  [type |-> "fill", generation |-> generation[order.account], id |-> o,
   qty |-> q, notional |-> n, fee |-> Fee(order.req.side, n),
   tax |-> Tax(order.req.side, n), liquidity |-> liquidity]
ConversionEntry(a, v) ==
  [type |-> "conversion", generation |-> generation[a], account |-> a, conversion |-> v]

\* Mutant: the reservation is never given back.
ReleaseNothing(o, q) == UNCHANGED <<reserved, held>>
\* release: give back what is reserved for q units of order o.
Release(o, q) ==
  LET a == orders[o].account
      req == orders[o].req
      c == CurrencyOf[req.inst]
  IN  IF req.side = "buy"
      THEN /\ reserved' = [reserved EXCEPT
                ![a][c] = Pos(@ - BuyReservePerUnit(req.limit) * q)]
           /\ UNCHANGED held
      ELSE /\ held' = [held EXCEPT ![a][req.inst] = Pos(@ - q)]
           /\ UNCHANGED reserved

\* apply_fill: book q units at notional n into the portfolio of account a.
Settle(a, i, side, q, n) ==
  /\ cash' = [cash EXCEPT ![a][CurrencyOf[i]] = @ + CashLeg(side, n)]
  /\ qty' = [qty EXCEPT ![a][i] = @ + QtyLeg(side, q)]

\* A resting order fills q > 0 units at its own limit price.
MakerFill(o, q) ==
  LET order == orders[o]
      i == order.req.inst
      status == IF left[o] = q THEN "filled" ELSE "open"
  IN  /\ left' = [left EXCEPT ![o] = @ - q]
      /\ Release(o, q)
      /\ Settle(order.account, i, order.req.side, q, q * order.req.limit)
      /\ orders' = [orders EXCEPT ![o].filled = @ + q, ![o].status = status]
      \* The list is retained when the loop ends; nothing reads it before.
      /\ resting' = [resting EXCEPT ![i] = IF left[o] = q THEN Keep(@, OrderIds \ {o}) ELSE @]
      /\ journal' = <<OrderEntry(o, status, order.filled + q),
                      FillEntry(o, q, q * order.req.limit, "maker")>>
      /\ UNCHANGED <<generation, nextId>>

NoFill == /\ journal' = <<>>
          /\ UNCHANGED <<accountVars, orders, nextId, resting, left>>

\* close_order: take an order off the book and return what it reserves.
CloseOrder(o, status) ==
  LET i == orders[o].req.inst
      remaining == IF o \in RestingIds(i) THEN left[o] ELSE 0
  IN  /\ resting' = [resting EXCEPT ![i] = Keep(@, OrderIds \ {o})]
      /\ left' = [left EXCEPT ![o] = 0]
      /\ ahead' = [ahead EXCEPT ![o] = 0]
      /\ Release(o, remaining)
      /\ orders' = [orders EXCEPT ![o].status = status]
      /\ journal' = <<OrderEntry(o, status, orders[o].filled)>>
      /\ UNCHANGED <<cash, qty, generation, nextId>>
-----------------------------------------------------------------------------
(* Orders from clients. *)

\* check_shape
WellFormed(r) ==
  /\ r.kind = "limit" => r.limit \in Prices /\ r.unit = "qty"
  /\ r.kind = "market" => r.limit = 0
  /\ r.side = "sell" => r.unit = "qty"
  /\ r.kind = "limit" /\ r.tif = "gtc" => r.inst \notin Sessioned
  /\ r.kind = "limit" /\ r.tif = "day" => r.inst \in Sessioned

\* LotRule::is_valid, for a value of the order of `value` half ticks.
LotValid(q, value) ==
  q > 0 /\ q % Step = 0 /\ q >= MinQty /\ value >= 2 * MinNotional

LimitBound(r) ==
  IF r.kind = "limit" THEN 200 * r.limit
  ELSE Mid2(r.inst) * (IF r.side = "buy" THEN 100 + SlipPct ELSE 100 - SlipPct)

\* What executing r now would do.
WalkOf(r) == Walk(r.inst, r.side, r.unit, r.size, LimitBound(r))
Taken(r) == WalkOf(r)[MaxPrice]
\* Mutant: an order rests with its whole size though part was taken.
RestQtyWhole(r) == IF r.kind = "limit" /\ r.tif # "ioc" THEN r.size ELSE 0
RestQty(r) == IF r.kind = "limit" /\ r.tif # "ioc" THEN r.size - Taken(r).qty ELSE 0
QueueAhead(r) ==
  Total([p \in Prices |-> IF Shift(r.inst, p) = r.limit THEN Shown(r.inst, r.side, p) ELSE 0],
        MaxPrice)
ReserveFor(r) ==
  IF r.side = "buy" THEN BuyReservePerUnit(r.limit) * RestQty(r) ELSE RestQty(r)

\* The checks of prepare, in the code's order.
Accepts(a, r) ==
  /\ WellFormed(r)
  /\ open[r.inst]
  /\ fresh[r.inst]
  /\ r.kind = "limit" => r.limit \in PriceBand[r.inst]
  /\ HasBothSides(r.inst)
  /\ IF r.unit = "qty"
     THEN LotValid(r.size, r.size * (IF r.kind = "limit" THEN 2 * r.limit ELSE Mid2(r.inst)))
     ELSE /\ r.size > 0 /\ r.size >= MinNotional
          /\ Taken(r).qty > 0 => LotValid(Taken(r).qty, 2 * Taken(r).notional)
  /\ IF r.side = "buy"
     THEN ReserveFor(r) - CashLeg("buy", Taken(r).notional) <= AvailableCash(a, CurrencyOf[r.inst])
     ELSE r.size <= AvailableQty(a, r.inst)

\* is_complete
Complete(r, filled) == IF r.unit = "qty" THEN filled >= r.size ELSE filled > 0

\* The offset after an execution of `side` moved the price by `impact` ticks.
Pushed(i, side, impact) ==
  IF side = "buy" THEN Least(offset[i] + impact, MaxOffset)
  ELSE - Least(impact - offset[i], MaxOffset)

\* take: deplete the book, push the price and book the fill.
TakeFromBook(a, r) ==
  /\ depletion' = Consume(r.inst, r.side, WalkOf(r))
  /\ IF Taken(r).qty > 0
     THEN /\ \E impact \in 0 .. MaxImpact :
               offset' = [offset EXCEPT ![r.inst] = Pushed(r.inst, r.side, impact)]
          /\ Settle(a, r.inst, r.side, Taken(r).qty, Taken(r).notional)
     ELSE UNCHANGED <<offset, cash, qty>>

\* place_sync: take what the book offers within the limit, then rest or finish.
Place(a, r) ==
  LET id == nextId
      i == r.inst
      taken == Taken(r)
      rest == RestQty(r)
      status == IF rest > 0 THEN "open"
                ELSE IF Complete(r, taken.qty) THEN "filled" ELSE "cancelled"
  IN  /\ pass = Idle
      /\ nextId <= MaxOrders
      /\ Accepts(a, r)
      /\ nextId' = nextId + 1
      /\ orders' = [orders EXCEPT ![id] =
           [req |-> r, account |-> a, status |-> status, filled |-> taken.qty]]
      /\ TakeFromBook(a, r)
      /\ IF r.side = "buy"
         THEN /\ reserved' = [reserved EXCEPT ![a][CurrencyOf[i]] = @ + ReserveFor(r)]
              /\ UNCHANGED held
         ELSE /\ held' = [held EXCEPT ![a][i] = @ + ReserveFor(r)]
              /\ UNCHANGED reserved
      /\ resting' = IF rest > 0 THEN [resting EXCEPT ![i] = Append(@, id)] ELSE resting
      /\ left' = [left EXCEPT ![id] = rest]
      /\ ahead' = [ahead EXCEPT ![id] = IF rest > 0 THEN QueueAhead(r) ELSE 0]
      /\ journal' = <<OrderEntry(id, status, taken.qty)>> \o
           (IF taken.qty > 0 THEN <<FillEntry(id, taken.qty, taken.notional, "taker")>> ELSE <<>>)
      /\ UNCHANGED <<generation, marketVars, pass>>

\* cancel_sync by the account that owns the order.
Cancel(o) ==
  /\ pass = Idle
  /\ IsOpen(o)
  /\ CloseOrder(o, "cancelled")
  /\ UNCHANGED <<shadowVars, marketVars, pass>>
-----------------------------------------------------------------------------
(* Events from the feeds. *)

\* Mutant: an order is skipped, as when a list shrinks under its index.
SkipOneOrder == IF Len(pass.todo) <= 2 THEN Idle ELSE [pass EXCEPT !.todo = Tail(Tail(@))]
\* The pass after its first order has been visited.
NextOrder == IF Len(pass.todo) = 1 THEN Idle ELSE [pass EXCEPT !.todo = Tail(@)]

\* on_book: the new book is stored; while the venue trades, the resting orders
\* are visited in Vec order.
OnBook(i, b) ==
  /\ pass = Idle
  /\ book' = [book EXCEPT ![i] = b]
  /\ fresh' = [fresh EXCEPT ![i] = TRUE]
  /\ pass' = IF open[i] /\ resting[i] # <<>>
             THEN [kind |-> "book", inst |-> i, todo |-> resting[i]] ELSE Idle
  /\ journal' = <<>>
  /\ UNCHANGED <<accountVars, orderVars, shadowVars, open, schedule>>

\* One round of on_book's loop: what crosses the order fills it at its limit.
BookStep ==
  /\ pass.kind = "book"
  /\ LET o == Head(pass.todo)
         req == orders[o].req
         walk == Walk(pass.inst, req.side, "qty", left[o], 200 * req.limit)
         q == walk[MaxPrice].qty
     IN  \/ q = 0 /\ NoFill /\ UNCHANGED <<ahead, depletion>>
         \/ /\ q > 0
            /\ MakerFill(o, q)
            /\ depletion' = Consume(pass.inst, req.side, walk)
            /\ ahead' = IF q = left[o] THEN [ahead EXCEPT ![o] = 0] ELSE ahead
  /\ pass' = NextOrder
  /\ UNCHANGED <<offset, marketVars>>

\* Mutant: not sorted by price.
InFrontByPosition(i, j, k) == j < k
\* sort_by_key: buys highest first, then sells lowest first; the sort is stable.
InFront(i, j, k) ==
  LET r == orders[resting[i][j]].req
      s == orders[resting[i][k]].req
  IN  \/ r.side = "buy" /\ s.side = "sell"
      \/ /\ r.side = s.side
         /\ \/ IF r.side = "buy" THEN r.limit > s.limit ELSE r.limit < s.limit
            \/ r.limit = s.limit /\ j < k

\* The permutations of the list's indices that put it in that order.
Sortings(i) ==
  {p \in [DOMAIN resting[i] -> DOMAIN resting[i]] :
     /\ \A j \in DOMAIN resting[i] : \E k \in DOMAIN resting[i] : p[k] = j
     /\ \A j, k \in DOMAIN resting[i] : j < k => InFront(i, p[j], p[k])}

\* on_trade: the book is sorted and visited; both sides share the print's size.
OnTrade(i, t) ==
  /\ pass = Idle
  /\ open[i] /\ resting[i] # <<>>
  /\ \E p \in Sortings(i) :
       resting' = [resting EXCEPT ![i] = [k \in DOMAIN @ |-> @[p[k]]]]
  /\ pass' = [kind |-> "trade", inst |-> i, price |-> Shift(i, t.price), todo |-> resting'[i],
              avail |-> [s \in Sides |-> t.qty], print |-> t.qty,
              before |-> [o \in OrderIds |-> IF orders[o] = NoOrder THEN 0 ELSE orders[o].filled]]
  /\ journal' = <<>>
  /\ UNCHANGED <<accountVars, orders, nextId, left, ahead, shadowVars, marketVars>>

\* passive_fill for the first order of the pass: how much of the print the queue
\* in front of it takes, and how much the order.
Through(req) == IF req.side = "buy" THEN pass.price < req.limit ELSE pass.price > req.limit
QueueTakes(o) ==
  IF pass.price = orders[o].req.limit
  THEN Least(ahead[o], pass.avail[orders[o].req.side]) ELSE 0
OrderTakes(o) ==
  LET req == orders[o].req IN
  IF Through(req) \/ pass.price = req.limit
  THEN Least(left[o], pass.avail[req.side] - QueueTakes(o)) ELSE 0

\* Mutant: what an order took stays available to the next.
DrawnByTheQueue(o) == QueueTakes(o)
\* What one round takes from its side's share of the print.
Drawn(o) == QueueTakes(o) + OrderTakes(o)

\* One round of on_trade's loop.
TradeStep ==
  /\ pass.kind = "trade"
  /\ LET o == Head(pass.todo)
         side == orders[o].req.side
         q == OrderTakes(o)
     IN  /\ ahead' = [ahead EXCEPT ![o] = IF q = left[o] THEN 0 ELSE @ - QueueTakes(o)]
         /\ \/ q = 0 /\ NoFill
            \/ q > 0 /\ MakerFill(o, q)
         /\ pass' = IF NextOrder = Idle THEN Idle
                    ELSE [NextOrder EXCEPT !.avail[side] = @ - Drawn(o)]
  /\ UNCHANGED <<shadowVars, marketVars>>
-----------------------------------------------------------------------------
(* Timers, account operations and restarts. *)

\* Mutant: closed orders expire too.
DayOrdersOfAnyStatus ==
  {o \in OrderIds :
     orders[o] # NoOrder /\ orders[o].req.tif = "day" /\ ~ open[orders[o].req.inst]}
\* Mutant: the calendar is asked the wrong way round.
DayOrdersOfOpenVenues ==
  {o \in OrderIds : IsOpen(o) /\ orders[o].req.tif = "day" /\ open[orders[o].req.inst]}
\* expire_day_orders: the open DAY orders of closed venues, in any order.
DayOrdersDue ==
  {o \in OrderIds : IsOpen(o) /\ orders[o].req.tif = "day" /\ ~ open[orders[o].req.inst]}
Expire ==
  /\ pass = Idle
  /\ DayOrdersDue # {}
  /\ pass' = [kind |-> "expire", ids |-> DayOrdersDue]
  /\ journal' = <<>>
  /\ UNCHANGED <<accountVars, orderVars, shadowVars, marketVars>>
ExpireStep ==
  /\ pass.kind = "expire"
  /\ \E o \in pass.ids :
       /\ CloseOrder(o, "expired")
       /\ pass' = IF pass.ids = {o} THEN Idle ELSE [pass EXCEPT !.ids = @ \ {o}]
  /\ UNCHANGED <<shadowVars, marketVars>>

\* convert_sync: whole units move, the credit truncated to the target's unit.
PriceOf(c, rate) == IF c = Home THEN 1 ELSE rate
\* Mutant: the credit is rounded up.
CreditRoundedUp(v) ==
  (v.amount * PriceOf(v.from, v.rate) * (100 - v.spread)) \div (100 * PriceOf(v.to, v.rate)) + 1
Credit(v) ==
  (v.amount * PriceOf(v.from, v.rate) * (100 - v.spread)) \div (100 * PriceOf(v.to, v.rate))
Convert(a, v) ==
  /\ pass = Idle
  /\ v.from # v.to /\ v.amount > 0
  /\ v.amount * FeeBase <= AvailableCash(a, v.from)
  /\ Credit(v) > 0
  /\ cash' = [cash EXCEPT ![a][v.from] = @ - v.amount * FeeBase,
                          ![a][v.to] = @ + Credit(v) * FeeBase]
  /\ journal' = <<ConversionEntry(a, v)>>
  /\ UNCHANGED <<reserved, qty, held, generation, orderVars, shadowVars, marketVars, pass>>

\* reset_account: open orders are dropped without a journal entry and the
\* portfolio starts over.
InitialCash == [c \in Currencies |-> Deposits[c] * FeeBase]
Reset(a) ==
  LET mine == {o \in OrderIds : IsOpen(o) /\ orders[o].account = a} IN
  /\ pass = Idle
  /\ generation[a] < MaxGeneration
  /\ orders' = [o \in OrderIds |->
       IF o \in mine THEN [orders[o] EXCEPT !.status = "cancelled"] ELSE orders[o]]
  /\ resting' = [i \in Instruments |-> Keep(resting[i], OrderIds \ mine)]
  /\ left' = [o \in OrderIds |-> IF o \in mine THEN 0 ELSE left[o]]
  /\ ahead' = [o \in OrderIds |-> IF o \in mine THEN 0 ELSE ahead[o]]
  /\ cash' = [cash EXCEPT ![a] = InitialCash]
  /\ reserved' = [reserved EXCEPT ![a] = [c \in Currencies |-> 0]]
  /\ qty' = [qty EXCEPT ![a] = [i \in Instruments |-> 0]]
  /\ held' = [held EXCEPT ![a] = [i \in Instruments |-> 0]]
  /\ generation' = [generation EXCEPT ![a] = @ + 1]
  /\ journal' = <<>>
  /\ UNCHANGED <<nextId, shadowVars, marketVars, pass>>

\* Mutant: partly filled orders are not restored.
RestoredIfUntouched(i, o) ==
  IsOpen(o) /\ orders[o].req.inst = i /\ orders[o].filled = 0
\* finish, serve and restore: the journal is drained, then the open orders of
\* each account, oldest first, are put back on the book; the rest of the
\* broker's memory starts empty.
Restored(i, o) == IsOpen(o) /\ orders[o].req.inst = i
RestoredBefore(o, p) ==
  LET a == AccountRank[orders[o].account]
      b == AccountRank[orders[p].account]
  IN  a < b \/ (a = b /\ o < p)
Restart ==
  /\ pass = Idle
  /\ UNCHANGED <<cash, qty, generation, nextId, open, schedule, pass>>
  /\ orders' = [o \in OrderIds |-> IF IsOpen(o) THEN orders[o] ELSE NoOrder]
  /\ resting' \in [Instruments -> UNION {[1 .. n -> OrderIds] : n \in 0 .. MaxOrders}]
  /\ \A i \in Instruments :
       /\ \A o \in OrderIds :
            Restored(i, o) <=> \E k \in DOMAIN resting'[i] : resting'[i][k] = o
       /\ \A j, k \in DOMAIN resting'[i] :
            j < k => RestoredBefore(resting'[i][j], resting'[i][k])
  /\ left' = [o \in OrderIds |-> IF IsOpen(o) THEN orders[o].req.size - orders[o].filled ELSE 0]
  /\ ahead' = [o \in OrderIds |-> 0]
  /\ reserved' = [a \in Accounts |-> [c \in Currencies |-> Total(HeldCash(a, c)', MaxOrders)]]
  /\ held' = [a \in Accounts |-> [i \in Instruments |-> Total(HeldQty(a, i)', MaxOrders)]]
  /\ book' = [i \in Instruments |-> EmptyLevels]
  /\ fresh' = [i \in Instruments |-> FALSE]
  /\ offset' = [i \in Instruments |-> 0]
  /\ depletion' = [i \in Instruments |-> EmptyLevels]
  /\ journal' = <<>>
-----------------------------------------------------------------------------
(* Time. *)

Passing == pass = Idle /\ journal' = <<>> /\ UNCHANGED <<accountVars, orderVars, pass>>

\* decay: depletion shrinks by half or to nothing, the offset by a tick or to 0.
Decay(i) ==
  /\ \E all \in BOOLEAN :
       /\ depletion' = [depletion EXCEPT ![i] =
            [s \in Sides |-> [p \in Prices |-> IF all THEN 0 ELSE @[s][p] \div 2]]]
       /\ offset' = [offset EXCEPT ![i] =
            IF all \/ @ = 0 THEN 0 ELSE IF @ > 0 THEN @ - 1 ELSE @ + 1]
  /\ Passing
  /\ UNCHANGED marketVars

\* The book gets older than the staleness limit.
Stale(i) ==
  /\ fresh[i]
  /\ fresh' = [fresh EXCEPT ![i] = FALSE]
  /\ Passing
  /\ UNCHANGED <<shadowVars, book, open, schedule>>

\* The session of a stock venue opens or closes.
Session(i) ==
  /\ i \in Sessioned
  /\ open' = [open EXCEPT ![i] = ~ @]
  /\ Passing
  /\ UNCHANGED <<shadowVars, book, fresh, schedule>>

\* A later fee schedule comes into force.
NextSchedule ==
  /\ schedule < Len(Schedules)
  /\ schedule' = schedule + 1
  /\ Passing
  /\ UNCHANGED <<shadowVars, book, fresh, open>>
-----------------------------------------------------------------------------
Init ==
  /\ cash = [a \in Accounts |-> InitialCash]
  /\ reserved = [a \in Accounts |-> [c \in Currencies |-> 0]]
  /\ qty = [a \in Accounts |-> [i \in Instruments |-> 0]]
  /\ held = [a \in Accounts |-> [i \in Instruments |-> 0]]
  /\ generation = [a \in Accounts |-> 1]
  /\ orders = [o \in OrderIds |-> NoOrder]
  /\ nextId = 1
  /\ resting = [i \in Instruments |-> <<>>]
  /\ left = [o \in OrderIds |-> 0]
  /\ ahead = [o \in OrderIds |-> 0]
  /\ book = [i \in Instruments |-> EmptyLevels]
  /\ fresh = [i \in Instruments |-> FALSE]
  /\ offset = [i \in Instruments |-> 0]
  /\ depletion = [i \in Instruments |-> EmptyLevels]
  /\ open \in [Instruments -> BOOLEAN]
  /\ \A i \in Instruments \ Sessioned : open[i]
  /\ schedule = 1
  /\ pass = Idle
  /\ journal = <<>>

Client == \/ \E a \in Accounts, r \in Requests : Place(a, r)
          \/ \E o \in OrderIds : Cancel(o)
          \/ \E a \in Accounts, v \in Conversions : Convert(a, v)
          \/ \E a \in Accounts : Reset(a)
Feed == \E i \in Instruments :
          (\E b \in Books : OnBook(i, b)) \/ (\E t \in Prints : OnTrade(i, t))
Loop == BookStep \/ TradeStep \/ ExpireStep
Time == (\E i \in Instruments : Decay(i) \/ Stale(i) \/ Session(i)) \/ NextSchedule

Next == Client \/ Feed \/ Loop \/ Expire \/ Restart \/ Time

Spec == Init /\ [][Next]_vars

\* A loop under the mutex runs to its end. The timer of cli.rs calls
\* expire_day_orders every five seconds and gets the mutex sooner or later,
\* though the feeds keep taking it.
FairSpec == Spec /\ WF_vars(Loop) /\ SF_vars(Expire)
-----------------------------------------------------------------------------
(* Invariants. *)

\* Every variable has the type the code declares for it.
TypeOK ==
  /\ cash \in [Accounts -> [Currencies -> Int]]
  /\ reserved \in [Accounts -> [Currencies -> Nat]]
  /\ qty \in [Accounts -> [Instruments -> Int]]
  /\ held \in [Accounts -> [Instruments -> Nat]]
  /\ generation \in [Accounts -> 1 .. MaxGeneration + 1]
  /\ orders \in [OrderIds -> Order \cup {NoOrder}]
  /\ nextId \in 1 .. MaxOrders + 1
  /\ resting \in [Instruments -> Seq(OrderIds)]
  /\ left \in [OrderIds -> Nat]
  /\ ahead \in [OrderIds -> Nat]
  /\ book \in [Instruments -> Levels]
  /\ fresh \in [Instruments -> BOOLEAN]
  /\ offset \in [Instruments -> Int]
  /\ depletion \in [Instruments -> Levels]
  /\ open \in [Instruments -> BOOLEAN]
  /\ schedule \in 1 .. Len(Schedules)
  /\ pass \in {Idle} \cup BookPass \cup TradePass \cup ExpirePass

\* What open orders promise never exceeds what the account has: no fill of a
\* resting order, at whatever fee schedule is then in force, overdraws cash or
\* sells units that are not there.
NoOverdraft ==
  /\ \A a \in Accounts, c \in Currencies : cash[a][c] - reserved[a][c] >= 0
  /\ \A a \in Accounts, i \in Instruments : qty[a][i] - held[a][i] >= 0

\* Reservations are exactly the sum over the orders that rest: partial fills,
\* cancels, expiry, resets and restarts release what they should, once.
ReservationsMatch ==
  /\ \A a \in Accounts, c \in Currencies : reserved[a][c] = Total(HeldCash(a, c), MaxOrders)
  /\ \A a \in Accounts, i \in Instruments : held[a][i] = Total(HeldQty(a, i), MaxOrders)

\* The order table and the resting lists agree: an order is open iff it rests,
\* on its own instrument, with what is not filled yet, and it rests once.
OpenOrdersRest ==
  \A o \in OrderIds :
    /\ left[o] = IF IsOpen(o) THEN orders[o].req.size - orders[o].filled ELSE 0
    /\ IsOpen(o) => left[o] > 0
    /\ \A i \in Instruments : o \in RestingIds(i) <=> IsOpen(o) /\ orders[o].req.inst = i
RestOnce ==
  \A i \in Instruments : \A j, k \in DOMAIN resting[i] :
    resting[i][j] = resting[i][k] => j = k
BookMatchesOrders == OpenOrdersRest /\ RestOnce
-----------------------------------------------------------------------------
(* Action properties. *)

Filled(o) == IF orders[o] = NoOrder THEN 0 ELSE orders[o].filled
Executed(o) == Filled(o)' - Filled(o)
Outranks(o, p) ==
  LET r == orders[o].req
      s == orders[p].req
  IN  /\ r.inst = s.inst /\ r.side = s.side
      /\ IF r.limit = s.limit
         THEN \E j, k \in DOMAIN resting[r.inst] :
                j < k /\ resting[r.inst][j] = o /\ resting[r.inst][k] = p
         ELSE IF r.side = "buy" THEN r.limit > s.limit ELSE r.limit < s.limit

\* on_trade serves the best price first and the first to rest at a price: an
\* order fills on a print only when nothing that outranks it is left.
PriceTimePriority ==
  [][pass.kind = "trade" =>
       \A p \in OrderIds : Executed(p) > 0 =>
         \A o \in OrderIds : IsOpen(o) /\ o # p => ~ Outranks(o, p)]_vars

\* Resting orders of a side share a print: together they never get more of it
\* than was traded, however many loop rounds it takes.
PrintShared ==
  [][pass.kind = "trade" =>
       \A side \in Sides :
         Total([o \in OrderIds |->
                  IF orders[o] # NoOrder /\ orders[o].req.side = side
                  THEN Filled(o)' - pass.before[o] ELSE 0], MaxOrders) <= pass.print]_vars

ShownQty(i) == Total([p \in Prices |-> Shown(i, "buy", p) + Shown(i, "sell", p)], MaxPrice)

\* Displayed liquidity is used once: what an incoming order or the resting
\* orders crossed by a book execute disappears from the shadow book.
LiquidityUsedOnce ==
  [][nextId' > nextId \/ pass.kind = "book" =>
       \A i \in Instruments :
         ShownQty(i) - ShownQty(i)' =
           Total([o \in OrderIds |->
                    IF orders'[o] # NoOrder /\ orders'[o].req.inst = i THEN Executed(o) ELSE 0],
                 MaxOrders)]_vars

\* The resting orders of an instrument that its shadow book crosses.
Crossed(i) ==
  {o \in OrderIds :
     /\ IsOpen(o) /\ orders[o].req.inst = i
     /\ Walk(i, orders[o].req.side, "qty", left[o], 200 * orders[o].req.limit)[MaxPrice].qty > 0}

\* When on_book is done no resting order is crossed by the shadow book.
BookLeavesNoCross ==
  [][\A i \in Instruments :
       pass.kind = "book" /\ pass.inst = i /\ pass' = Idle => Crossed(i)' = {}]_vars

\* What the entries of a step say happened to cash and units of an account.
EntryCash(e, a, c) ==
  CASE e.type = "conversion" /\ e.account = a ->
         FeeBase * ((IF e.conversion.to = c THEN Credit(e.conversion) ELSE 0)
                    - (IF e.conversion.from = c THEN e.conversion.amount ELSE 0))
    [] e.type = "fill" /\ orders'[e.id].account = a /\ CurrencyOf[orders'[e.id].req.inst] = c ->
         (IF orders'[e.id].req.side = "buy" THEN - FeeBase * e.notional ELSE FeeBase * e.notional)
         - e.fee - e.tax
    [] OTHER -> 0
EntryQty(e, a, i) ==
  IF e.type = "fill" /\ orders'[e.id].account = a /\ orders'[e.id].req.inst = i
  THEN IF orders'[e.id].req.side = "buy" THEN e.qty ELSE - e.qty
  ELSE 0
Entries == {journal[k] : k \in DOMAIN journal}
NoEntry == [type |-> "none"]
Movement ==
  IF \E e \in Entries : e.type \in {"fill", "conversion"}
  THEN CHOOSE e \in Entries : e.type \in {"fill", "conversion"} ELSE NoEntry

\* The journal tells the store everything: outside resets, every change of cash,
\* units and orders is in the entries of the same step, so that deposits plus
\* entries rebuild the portfolio.
JournalTellsAll ==
  [][generation' = generation /\ ~ Restart =>
       /\ \A a \in Accounts :
            /\ \A c \in Currencies : cash'[a][c] - cash[a][c] = EntryCash(Movement', a, c)
            /\ \A i \in Instruments : qty'[a][i] - qty[a][i] = EntryQty(Movement', a, i)
       /\ \A o \in OrderIds : orders'[o] # orders[o] =>
            \E e \in Entries' : /\ e.type = "order" /\ e.id = o
                                /\ e.status = orders'[o].status
                                /\ e.filled = orders'[o].filled]_vars

\* No execution is worse than its order allows: a limit is kept, a cash budget
\* covers the commission too.
LimitsHonoured ==
  [][\A e \in Entries' : e.type = "fill" =>
       LET req == orders'[e.id].req IN
       /\ req.kind = "limit" /\ req.side = "buy" => e.notional <= e.qty * req.limit
       /\ req.kind = "limit" /\ req.side = "sell" => e.notional >= e.qty * req.limit
       /\ req.unit = "notional" =>
            FeeBase * e.notional + e.fee <= FeeBase * req.size]_vars

\* A conversion never gains value at its own exchange rate.
ConversionNeverGains ==
  [][\A e \in Entries' : e.type = "conversion" =>
       LET v == e.conversion IN
       \A a \in Accounts :
         cash'[a][v.from] * PriceOf(v.from, v.rate) + cash'[a][v.to] * PriceOf(v.to, v.rate)
           <= cash[a][v.from] * PriceOf(v.from, v.rate) + cash[a][v.to] * PriceOf(v.to, v.rate)]_vars

\* A closed order never changes again and no fill is ever taken back; a restart
\* may forget a closed order, which the store still has.
ClosedForGood ==
  [][\A o \in OrderIds : orders[o] # NoOrder =>
       \/ ~ IsOpen(o) /\ orders'[o] \in {orders[o], NoOrder}
       \/ IsOpen(o) /\ orders'[o] # NoOrder /\ Executed(o) >= 0
          /\ (Executed(o) > 0 => orders'[o].status \in {"open", "filled"})]_vars

\* A graceful restart puts back exactly what was there: the same orders rest
\* with the same remainders and hold the same cash and units.
RestartTransparent ==
  [][Restart => /\ UNCHANGED <<left, reserved, held>>
                /\ \A i \in Instruments : RestingIds(i)' = RestingIds(i)]_vars
-----------------------------------------------------------------------------
(* Liveness, under FairSpec. *)

\* A DAY order of a closed venue is gone before long, unless the venue reopens.
DayOrdersExpire ==
  \A o \in OrderIds :
    (IsOpen(o) /\ orders[o].req.tif = "day" /\ ~ open[orders[o].req.inst])
      ~> (~ IsOpen(o) \/ open[orders[o].req.inst])
=============================================================================
