------------------------------- MODULE Reports -------------------------------
(***************************************************************************)
(* What an account's owner is told of it: average costs and realised       *)
(* profit (Portfolio::apply_fill of ledger.rs), the value of its positions *)
(* (value_account of app.rs, valuation of tools/mod.rs), profit by day and *)
(* by instrument (the handler pnl of web/mod.rs) and drawdown              *)
(* (performance.rs), while fills, books and resets go on.                  *)
(*                                                                         *)
(* One account and one currency.  Average costs are rounded: they are      *)
(* counted in Grains of the currency's unit, and so is realised profit.    *)
(* Orders are in module Broker, the loop that takes snapshots in Accounts; *)
(* here a snapshot is a step.                                              *)
(*                                                                         *)
(* A definition whose comment begins with Mutant is used by nothing: it is *)
(* the definition after it with a mistake the properties must notice.      *)
(***************************************************************************)
EXTENDS Integers, SequencesExt

CONSTANTS
  Ids,            \* instruments
  Prices, Sizes,  \* of books and fills
  Fee,            \* fee and tax of a fill
  Grain,          \* parts of the unit an average cost is rounded to
  Deposit,
  TicksPerDay,
  MaxNow, MaxFills, MaxGeneration, MaxReports  \* bounds

ReportsAssumption ==
  /\ Prices \subseteq Nat \ {0} /\ Sizes \subseteq Nat \ {0} /\ {Fee, Deposit} \subseteq Nat
  /\ {Grain, TicksPerDay} \subseteq Nat \ {0} /\ {MaxNow, MaxFills, MaxGeneration, MaxReports} \subseteq Nat

VARIABLES
  now,
  generation,
  pf,         \* the broker's Portfolio: cash, units and average cost of each instrument
  price,      \* mid of each shadow book, NoBook without one
  fills,      \* fills, in the order of their ids
  snapshots,  \* equity_snapshots, in the order of at and kind
  report,     \* what a request for a profit report is at, and has read
  seen        \* history: the portfolios there were until it was valued, then those of that worth

vars == <<now, generation, pf, price, fills, snapshots, report, seen>>

NoBook == 0
Blank == [cash |-> Deposit, units |-> [i \in Ids |-> 0], cost |-> [i \in Ids |-> 0]]
IdleReport == [at |-> "idle", generation |-> 0, days |-> << >>, pf |-> Blank, equity |-> 0, fills |-> << >>]
Noticed == seen' = IF report.at \in {"days", "portfolio", "value"} THEN seen \cup {pf'} ELSE seen
Total(f) == FoldLeft(+, 0, f)
TotalOf(f) == FoldLeft(LAMBDA s, i : s + f[i], 0, SetToSeq(DOMAIN f))

(***************************************************************************)
(* Booking a fill.                                                         *)
(***************************************************************************)
\* The nearest integer to n / d, the even one of two: round_dp.
Rounded(n, d) ==
  LET q == n \div d
      r == 2 * (n % d)
  IN  IF r > d \/ (r = d /\ q % 2 = 1) THEN q + 1 ELSE q

\* Mutant: the fee is added to what the units cost, and taken from profit again.
CostWithFee(p, i, qty, notional) ==
  Rounded(p.units[i] * p.cost[i] + Grain * (notional + Fee), p.units[i] + qty)

CostAfter(p, i, qty, notional) == Rounded(p.units[i] * p.cost[i] + Grain * notional, p.units[i] + qty)

Bought(p, i, qty, notional) ==
  [cash |-> p.cash - notional - Fee,
   units |-> [p.units EXCEPT ![i] = @ + qty],
   cost |-> [p.cost EXCEPT ![i] = CostAfter(p, i, qty, notional)]]

\* A position sold out is removed: the next buy finds a cost of nothing.
Sold(p, i, qty, notional) ==
  [cash |-> p.cash + notional - Fee,
   units |-> [p.units EXCEPT ![i] = @ - qty],
   cost |-> [p.cost EXCEPT ![i] = IF p.units[i] = qty THEN 0 ELSE @]]

Pnl(p, i, qty, notional) == Grain * (notional - Fee) - p.cost[i] * qty

Books(i, side, qty, notional, pnl) ==
  fills' = Append(fills, [id |-> i, side |-> side, qty |-> qty, notional |-> notional, pnl |-> pnl,
                          left |-> pf'.units[i], generation |-> generation])

Buy(i, qty, at) ==
  /\ Len(fills) < MaxFills /\ pf.cash >= qty * at + Fee
  /\ pf' = Bought(pf, i, qty, qty * at)
  /\ Books(i, "buy", qty, qty * at, 0)

Sell(i, qty, at) ==
  /\ Len(fills) < MaxFills /\ pf.units[i] >= qty
  /\ pf' = Sold(pf, i, qty, qty * at)
  /\ Books(i, "sell", qty, qty * at, Pnl(pf, i, qty, qty * at))

Trades ==
  /\ \E i \in Ids, qty \in Sizes, at \in Prices : Buy(i, qty, at) \/ Sell(i, qty, at)
  /\ Noticed
  /\ UNCHANGED <<now, generation, price, snapshots, report>>

Resets ==
  /\ generation < MaxGeneration
  /\ generation' = generation + 1 /\ pf' = Blank /\ Noticed
  /\ UNCHANGED <<now, price, fills, snapshots, report>>

Quotes(i, p) ==
  /\ price[i] # p /\ price' = [price EXCEPT ![i] = p]
  /\ UNCHANGED <<now, generation, pf, fills, snapshots, report, seen>>

(***************************************************************************)
(* Values and snapshots.                                                   *)
(***************************************************************************)
\* Without a book, at cost.
ValueOf(p, i) == IF price[i] = NoBook THEN Rounded(p.units[i] * p.cost[i], Grain) ELSE p.units[i] * price[i]

Equity(p) == p.cash + TotalOf([i \in Ids |-> ValueOf(p, i)])

Snapshot(kind, at) == [kind |-> kind, at |-> at, equity |-> Equity(pf), generation |-> generation]

\* The first of a day is also the daily close, of midnight.
Ticks ==
  /\ now < MaxNow /\ now' = now + 1
  /\ snapshots' = snapshots
       \o (IF now' % TicksPerDay = 0 THEN <<Snapshot("daily", now')>> ELSE << >>)
       \o <<Snapshot("minute", now')>>
  /\ UNCHANGED <<generation, pf, price, fills, report, seen>>

OfGeneration(s, g) == SelectSeq(s, LAMBDA e : e.generation = g)
Daily(g) == SelectSeq(OfGeneration(snapshots, g), LAMBDA s : s.kind = "daily")

(***************************************************************************)
(* The profit report: generation of the cached row, daily closes, the      *)
(* portfolio, fresh books for it, its value, the fills.                    *)
(***************************************************************************)
Asks ==
  /\ report.at = "idle" /\ MaxReports > 0
  /\ report' = [IdleReport EXCEPT !.at = "days", !.generation = generation]
  /\ seen' = {pf}
  /\ UNCHANGED <<now, generation, pf, price, fills, snapshots>>

ReadsDays ==
  /\ report.at = "days"
  /\ report' = [report EXCEPT !.at = "portfolio", !.days = Daily(report.generation)]
  /\ UNCHANGED <<now, generation, pf, price, fills, snapshots, seen>>

TakesPortfolio ==
  /\ report.at = "portfolio"
  /\ report' = [report EXCEPT !.at = "value", !.pf = pf]
  /\ UNCHANGED <<now, generation, pf, price, fills, snapshots, seen>>

\* Mutant: the positions are read again once their books are there.
ValuedAgain == [report.pf EXCEPT !.units = pf.units, !.cost = pf.cost]

Valued == report.pf

Values ==
  /\ report.at = "value"
  /\ report' = [report EXCEPT !.at = "fills", !.equity = Equity(Valued)]
  /\ seen' = {p \in seen : Equity(p) = report'.equity}
  /\ UNCHANGED <<now, generation, pf, price, fills, snapshots>>

ReadsFills ==
  /\ report.at = "fills"
  /\ report' = [report EXCEPT !.at = "done", !.fills = OfGeneration(fills, report.generation)]
  /\ UNCHANGED <<now, generation, pf, price, fills, snapshots, seen>>

\* Mutant: every close is taken for the day it opens, too.
ClosesAll(days, equity) == [k \in 1 .. Len(days) |-> days[k].equity]

\* The next daily close closes a day; what the account is worth now closes today.
Closes(days, equity) == [k \in 1 .. Len(days) |-> IF k < Len(days) THEN days[k + 1].equity ELSE equity]

DailyPnl(days, equity) == [k \in 1 .. Len(days) |-> Closes(days, equity)[k] - days[k].equity]

Realized(fs, i) == Total([k \in DOMAIN fs |-> IF fs[k].id = i THEN fs[k].pnl ELSE 0])

(***************************************************************************)
(* performance(): the largest fall from the highest equity so far, as a    *)
(* fraction <<fall, peak>>.                                                *)
(***************************************************************************)
Larger(f, g) == f[1] * g[2] > g[1] * f[2]

\* Mutant: a fall is measured from the equity before.
FallsFromLast(acc, e) ==
  [peak |-> e, worst |-> IF Larger(<<acc.peak - e, acc.peak>>, acc.worst) THEN <<acc.peak - e, acc.peak>>
                                                                          ELSE acc.worst]

Falls(acc, e) ==
  LET peak == IF e > acc.peak THEN e ELSE acc.peak
  IN  [peak |-> peak,
       worst |-> IF peak > 0 /\ Larger(<<peak - e, peak>>, acc.worst) THEN <<peak - e, peak>> ELSE acc.worst]

Drawdown(equities) == FoldLeft(Falls, [peak |-> 0, worst |-> <<0, 1>>], equities).worst

Init ==
  /\ now = 0 /\ generation = 1 /\ pf = Blank
  /\ price = [i \in Ids |-> NoBook]
  /\ fills = << >> /\ snapshots = << >> /\ report = IdleReport /\ seen = {}

Next ==
  \/ Trades \/ Resets \/ Ticks \/ \E i \in Ids, p \in Prices : Quotes(i, p)
  \/ Asks \/ ReadsDays \/ TakesPortfolio \/ Values \/ ReadsFills

Spec == Init /\ [][Next]_vars

(***************************************************************************)
(* Properties.                                                             *)
(***************************************************************************)
TypeOK ==
  /\ now \in 0 .. MaxNow /\ generation \in 1 .. MaxGeneration
  /\ pf.cash \in Nat /\ \A i \in Ids : {pf.units[i], pf.cost[i]} \subseteq Nat
  /\ \A k \in DOMAIN fills : fills[k].id \in Ids /\ fills[k].generation \in 1 .. generation

Of(fs, side) == SelectSeq(fs, LAMBDA f : f.side = side)

\* apply_fill, list_fills, get_positions: realised profit, and what the positions cost,
\* account for the account's cash up to the fees of buys, for any order of fills.  Each buy
\* rounds the average cost by half a grain per unit at most.
ProfitsAddUp ==
  LET mine == OfGeneration(fills, generation)
      buys == Of(mine, "buy")
      told == Grain * (pf.cash - Deposit) + TotalOf([i \in Ids |-> pf.units[i] * pf.cost[i]])
      booked == TotalOf([i \in Ids |-> Realized(mine, i)]) - Grain * Fee * Len(buys)
      slack == Total([k \in DOMAIN buys |-> buys[k].left])
  IN  2 * (told - booked) \in -slack .. slack

\* pnl: the days of a report add up to what the account has made since the first of them.
DaysAddUp ==
  report.at = "done" /\ report.days # << >> =>
    Total(DailyPnl(report.days, report.equity)) = report.equity - report.days[1].equity

\* performance(): no pair of equities, the later below the earlier, is a larger fall than
\* the drawdown, and some pair is as large.
DrawdownIsLargest ==
  LET mine == OfGeneration(snapshots, generation)
      e == [k \in DOMAIN mine |-> mine[k].equity]
      pairs == UNION {{<<e[j] - e[k], e[j]>> : k \in j .. Len(e)} : j \in {j \in DOMAIN e : e[j] > 0}}
  IN  /\ \A f \in pairs : ~Larger(f, Drawdown(e))
      /\ pairs # {} => \E f \in pairs : ~Larger(Drawdown(e), f)

\* valuation: what a report says the account is worth is the worth of a portfolio it had
\* at one moment of the request, however many awaits there are between reading cash,
\* positions and books.
WorthOfOneMoment == report.at \in {"fills", "done"} => seen # {}

\* (violated) A report is of one generation: its last day is closed by the equity of the
\* account it is of.
OneGeneration == report.at = "done" => report.generation = generation \/ report.days = << >>
=============================================================================
