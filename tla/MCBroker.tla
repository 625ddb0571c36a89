------------------------------ MODULE MCBroker ------------------------------
(***************************************************************************)
(* Small instances of Broker for TLC. A run names, in its .cfg, which of   *)
(* the sets below its clients and feeds draw from.                         *)
(***************************************************************************)
EXTENDS Broker

Limit(inst, side, n, price, tif) ==
  [inst |-> inst, side |-> side, kind |-> "limit", tif |-> tif, unit |-> "qty",
   size |-> n, limit |-> price]
Market(inst, side, unit, n) ==
  [inst |-> inst, side |-> side, kind |-> "market", tif |-> "day", unit |-> unit,
   size |-> n, limit |-> 0]

\* Displayed quantity at ticks 1, 2, 3 (and 0 at any further tick).
Display(bids, asks) ==
  [s \in Sides |-> [p \in Prices |->
     IF p > 3 THEN 0 ELSE IF s = "buy" THEN bids[p] ELSE asks[p]]]

\* Rates in thirds: a commission of 1/3, then 2/3, so that small notionals have a
\* fee and a part of it to truncate; sales pay a fee and a tax besides.
CheapThenDear ==
  <<[commission |-> 1, sellTax |-> 1, sellFee |-> 1],
    [commission |-> 2, sellTax |-> 1, sellFee |-> 0]>>
Cheap == <<CheapThenDear[1]>>

\* One venue that never closes.
Coin == {"coin"}
CoinCurrency == [i \in Coin |-> "krw"]
CoinBand == [i \in Coin |-> Prices]
Won == {"krw"}
WonDeposit == [c \in Won |-> 9]
NoConversions == {}
Two == {"ann", "bob"}
TwoRank == [a \in Two |-> IF a = "ann" THEN 2 ELSE 1]

\* Resting orders of both sides at several prices, and a taker.
QueueRequests ==
  {Limit("coin", "buy", 2, 2, "gtc"), Limit("coin", "buy", 1, 1, "gtc"),
   Limit("coin", "sell", 1, 3, "gtc")}
QueueBooks == {Display(<<1, 0, 0>>, <<0, 0, 1>>), Display(<<1, 0, 0>>, <<0, 3, 0>>)}
QueuePrints == {[price |-> 1, qty |-> 2], [price |-> 2, qty |-> 1], [price |-> 3, qty |-> 2]}

\* One stock venue with a session and a price band, and the coin.
Stock == {"stock"}
StockAndCoin == {"stock", "coin"}
ExchangeCurrency == [i \in StockAndCoin |-> IF i = "stock" THEN "krw" ELSE "usdt"]
ExchangeBand == [i \in StockAndCoin |-> IF i = "stock" THEN 1 .. 2 ELSE Prices]
StockCurrency == [i \in Stock |-> "krw"]
StockBand == [i \in Stock |-> 1 .. 2]
One == {"ann"}
OneRank == [a \in One |-> 1]

\* DAY orders at the edge of the band and outside it, an IOC order, a sale.
SessionRequests ==
  {Limit("stock", "buy", 2, 2, "day"), Limit("stock", "buy", 1, 1, "day"),
   Limit("stock", "buy", 1, 3, "day"), Limit("stock", "buy", 2, 2, "ioc"),
   Limit("stock", "sell", 1, 2, "day"), Limit("stock", "buy", 1, 1, "gtc")}
SessionBooks == {Display(<<2, 0, 0>>, <<0, 1, 0>>)}
SessionPrints == {[price |-> 1, qty |-> 1], [price |-> 2, qty |-> 1]}

\* Two currencies, budgets in cash, market orders, a fee that rises while an
\* order rests.
Foreign == {"krw", "usdt"}
ForeignDeposit == [c \in Foreign |-> IF c = "krw" THEN 5 ELSE 4]
TransferRequests ==
  {Market("coin", "buy", "notional", 4), Market("coin", "sell", "qty", 1),
   Limit("coin", "buy", 1, 2, "gtc"), Limit("coin", "sell", 1, 3, "gtc")}
TransferCurrency == [i \in Coin |-> "usdt"]
TransferBooks == {Display(<<2, 0, 0>>, <<0, 0, 2>>), Display(<<0, 1, 0>>, <<0, 1, 1>>)}
TransferPrints == {[price |-> 2, qty |-> 3]}
Transfers ==
  {[from |-> "krw", to |-> "usdt", amount |-> 5, rate |-> 2, spread |-> 10],
   [from |-> "usdt", to |-> "krw", amount |-> 2, rate |-> 2, spread |-> 10],
   [from |-> "krw", to |-> "usdt", amount |-> 1, rate |-> 2, spread |-> 10]}

\* A DAY order and an order of a venue that never closes and keeps trading.
LiveRequests == {Limit("stock", "buy", 1, 1, "day"), Limit("coin", "buy", 2, 1, "gtc")}
LiveBooks == {Display(<<1, 0, 0>>, <<0, 1, 0>>)}
LivePrints == {[price |-> 1, qty |-> 1]}
=============================================================================
