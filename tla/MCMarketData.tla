---------------------------- MODULE MCMarketData ----------------------------
(***************************************************************************)
(* The components that bring market data to the broker, side by side: part *)
(* says whose steps a behaviour consists of, the others stay as they are   *)
(* at the start.  One run then covers the states of all of them.           *)
(***************************************************************************)
EXTENDS Integers, Sequences

CONSTANTS
  Calls, Keys, MinInterval, Life, Margin, MaxTokens, MaxRestarts,            \* KisClient
  Snapshots, MaxDay, Drops,                                                  \* KrxFeed
  Venue, Capacity, MaxPrints, Versions, MaxOddities, MaxWire,                \* VenueStream
  Callers, Asks, SECOND, FRESH, STALE, Lag, QueueSize, MaxVersion,           \* Market
  Prices, Intervals, Counts, BusSize, MaxLate, MaxMinute,                    \* Bars
  Live, MaxAge, PageLife, ReportLife, Day, Spacing, UnderWay,                \* Lookups
  Years, Quarters, Filed,
  MaxQuoteTime, MaxOrderTime, MaxRateTime, MaxPageTime, MaxFinancialTime     \* bounds of the clocks

VARIABLES
  part,
  key, slot, file, issued, saved, tokens, holder, sinceLast, sinceSend, kisCalls, revoked, restarts,
  day, phase, rolled, prev, krxCalls, stream, krxBook,
  printed, shown, link, wire, pings, sending, channel, streamBook, trades, lost, odd,
  now, moved, connected, queue, book, listed, stats, callers, result,
  calmNow, calmMoved, calmConnected, calmQueue, calmBook, calmListed, calmStats, calmCallers, calmResult,
  minute, bus, bar, saving, rows, inBar, inSaving, told, made,
  hour, rate, codes, downloads, reports, page, last, filed, questions,
  close, said, shadow

kisVars == <<key, slot, file, issued, saved, tokens, holder, sinceLast, sinceSend, kisCalls, revoked, restarts>>
krxVars == <<day, phase, rolled, prev, krxCalls, stream, krxBook>>
streamVars == <<printed, shown, link, wire, pings, sending, channel, streamBook, trades, lost, odd>>
marketVars == <<now, moved, connected, queue, book, listed, stats, callers, result>>
calmVars == <<calmNow, calmMoved, calmConnected, calmQueue, calmBook, calmListed, calmStats,
  calmCallers, calmResult>>
barVars == <<minute, bus, bar, saving, rows, inBar, inSaving, told, made>>
lookupVars == <<hour, rate, codes, downloads, reports, page, last, filed, questions>>
tickVars == <<close, said, shadow>>

\* KIS revokes no token.
Kis == INSTANCE KisClient WITH calls <- kisCalls, MaxRevoked <- 0

Krx == INSTANCE KrxFeed WITH calls <- krxCalls, book <- krxBook

Stream == INSTANCE VenueStream WITH book <- streamBook, MaxVersion <- Versions

\* Requests to the exchange may fail.
Quotes == INSTANCE Market WITH RestFails <- TRUE, MaxNow <- MaxQuoteTime
QuoteAndOrder == [c1 |-> "quote", c2 |-> "order"]

\* Orders at the same time; requests are answered, after any time.
Orders == INSTANCE Market WITH
  Asks <- [c \in Callers |-> "order"], RestFails <- FALSE, MaxNow <- MaxOrderTime,
  now <- calmNow, moved <- calmMoved, connected <- calmConnected, queue <- calmQueue,
  book <- calmBook, listed <- calmListed, stats <- calmStats, callers <- calmCallers,
  result <- calmResult

Bars == INSTANCE Bars WITH now <- minute, Limits <- Counts, MaxNow <- MaxMinute

\* What the tools ask of others, each kind of question by several callers at the same time.
Rates == INSTANCE Lookups WITH now <- hour, holder <- downloads, calls <- questions,
  Questions <- {"rate"}, Hour <- ReportLife, Lag <- UnderWay, MaxNow <- MaxRateTime

Pages == INSTANCE Lookups WITH now <- hour, holder <- downloads, calls <- questions,
  Questions <- {"page"}, Hour <- PageLife, Lag <- UnderWay, MaxNow <- MaxPageTime

Financials == INSTANCE Lookups WITH now <- hour, holder <- downloads, calls <- questions,
  Questions <- {"financials"}, Hour <- ReportLife, Lag <- UnderWay, MaxNow <- MaxFinancialTime
YearAndBefore == <<"fy", "earlier">>
OneQuarter == <<"q">>

\* Hundredths of a won, the lower half of KRX's table, and closes whose limits lie where
\* the tick changes.
Limits == INSTANCE Ticks WITH prev <- close, answer <- said,
  Tick <- <<100, 500, 1000, 5000>>, Upper <- <<200000, 500000, 2000000>>, Limited <- TRUE,
  Closes <- {100000, 153800, 153900, 200000, 285500, 286000, 384500, 385000, 714000, 715000,
             1538000, 1539000, 2855000, 2860000},
  Aside <- {-5000, -1200, -1000, -500, -250, -100, -50, -1, 0, 1, 50, 100, 250, 500, 1000, 1200, 5000},
  Moves <- {-3, -1, 0, 1, 2}

ASSUME Limits!TicksAssumption
ASSUME KisAssumed == Kis!KisClientAssumption /\ 0 < Margin
ASSUME KrxAssumed == Krx!KrxFeedAssumption
ASSUME StreamAssumed == Stream!VenueStreamAssumption
ASSUME QuotesAssumed == Quotes!MarketAssumption
\* The pump keeps up: a book waits no longer than an order's may be old.
ASSUME OrdersAssumed == Orders!MarketAssumption /\ FRESH <= STALE /\ Lag <= STALE * SECOND
ASSUME BarsAssumed == Bars!BarsAssumption
ASSUME LookupsAssumed ==
  Rates!LookupsAssumption /\ Pages!LookupsAssumption /\ Financials!LookupsAssumption

vars == <<part, kisVars, krxVars, streamVars, marketVars, calmVars, barVars, lookupVars, tickVars>>

Init ==
  /\ part \in {"kis", "krx", "stream", "quotes", "orders", "bars", "rates", "pages", "financials",
              "ticks"}
  /\ Kis!Init /\ Krx!Init /\ Stream!Init /\ Quotes!Init /\ Orders!Init /\ Bars!Init /\ Limits!Init
  /\ Rates!Init
  /\ part # "kis" => key = CHOOSE k \in Keys : TRUE
  /\ part # "krx" => phase = "dawn"
  /\ part # "quotes" => listed

KisSteps ==
  /\ part = "kis" /\ Kis!Next
  /\ UNCHANGED <<part, krxVars, streamVars, marketVars, calmVars, barVars, lookupVars, tickVars>>
KrxSteps ==
  /\ part = "krx" /\ Krx!Next
  /\ UNCHANGED <<part, kisVars, streamVars, marketVars, calmVars, barVars, lookupVars, tickVars>>
StreamSteps ==
  /\ part = "stream" /\ Stream!Streaming
  /\ UNCHANGED <<part, kisVars, krxVars, marketVars, calmVars, barVars, lookupVars, tickVars>>
QuoteSteps ==
  /\ part = "quotes" /\ Quotes!Next
  /\ UNCHANGED <<part, kisVars, krxVars, streamVars, calmVars, barVars, lookupVars, tickVars>>
OrderSteps ==
  /\ part = "orders" /\ Orders!Next
  /\ UNCHANGED <<part, kisVars, krxVars, streamVars, marketVars, barVars, lookupVars, tickVars>>
BarSteps ==
  /\ part = "bars" /\ Bars!Next
  /\ UNCHANGED <<part, kisVars, krxVars, streamVars, marketVars, calmVars, lookupVars, tickVars>>
RateSteps ==
  /\ part = "rates" /\ Rates!Next
  /\ UNCHANGED <<part, kisVars, krxVars, streamVars, marketVars, calmVars, barVars, tickVars>>
PageSteps ==
  /\ part = "pages" /\ Pages!Next
  /\ UNCHANGED <<part, kisVars, krxVars, streamVars, marketVars, calmVars, barVars, tickVars>>
FinancialSteps ==
  /\ part = "financials" /\ Financials!Next
  /\ UNCHANGED <<part, kisVars, krxVars, streamVars, marketVars, calmVars, barVars, tickVars>>
TickSteps ==
  /\ part = "ticks" /\ Limits!Next
  /\ UNCHANGED <<part, kisVars, krxVars, streamVars, marketVars, calmVars, barVars, lookupVars>>

Next ==
  \/ KisSteps \/ KrxSteps \/ StreamSteps \/ QuoteSteps \/ OrderSteps \/ BarSteps
  \/ RateSteps \/ PageSteps \/ FinancialSteps \/ TickSteps

Spec == Init /\ [][Next]_vars

(***************************************************************************)
(* Properties, each of one part.                                           *)
(***************************************************************************)
\* KisClient: no call asks KIS for a token while the one in memory or the newest one
\* saved would do, and none is sent under the token of another key.  DART and EDGAR are
\* asked no more than needed either, and what is cached instead of asking, a rate, a page
\* or a report, is as new as its life says.
IssuedOnlyWhenNeeded ==
  /\ Kis!IssuedOnlyWhenNeeded /\ Kis!SentUnderOwnToken
  /\ Pages!AskedSparingly /\ Financials!AskedSparingly
  /\ [](part = "kis" => Kis!TypeOK)
  /\ [](part = "rates" => Rates!TypeOK /\ Rates!AnswersFresh)
  /\ [](part = "pages" => Pages!TypeOK /\ Pages!AnswersFresh)
  /\ [](part = "financials" => Financials!TypeOK /\ Financials!NewestReports)

\* KisKrxFeed: a book carries the previous close of its own day, but for a value that was
\* asked for before 08:30 and remembered after it; and from the open on every book of a
\* snapshot has one, unless the snapshot began before 08:30.
ReferencePrices ==
  part = "krx" => Krx!TypeOK /\ Krx!NoCloseOfAnotherDay /\ Krx!SnapshotHasLimits

\* stream_ws and the pump: a print made in regular hours is with the broker, once and in
\* its place, or on its way there, or was under way when the connection broke; and no
\* book of an auction comes through.  BarBuilder and save_bars: a stored bar is exactly
\* what its prints amount to.
PrintsKept ==
  /\ part = "stream" =>
       Stream!TypeOK /\ Stream!PrintsInOrder /\ Stream!NoPrintDropped /\ Stream!NoAuctionBooks
  /\ part = "bars" => Bars!TypeOK /\ Bars!BarsAddUp

\* Market and pump: the broker's book is replaced by an older one only by what waited
\* in the channel, however slow a REST answer is; and a stream never takes it back.
\* ensure_fresh: when requests are answered, however late, no order is refused for stale
\* data.
BooksHardlyBack ==
  /\ Quotes!HardlyBack /\ Stream!BookForward
  /\ [](part = "quotes" => Quotes!TypeOK)
  /\ [](part = "orders" => Orders!TypeOK /\ Orders!NoNeedlessRefusal)

\* resample: candles tell all that is stored.  Ticks: an order is held to exactly the
\* daily limits, and moving a book keeps its prices apart and nameable.
CandlesFaithful ==
  /\ part = "bars" => Bars!CandlesTellAll
  /\ part = "ticks" => Limits!TypeOK /\ Limits!BandIsExact /\ Limits!HintsAreNearest /\ Limits!ShadowInOrder
=============================================================================
