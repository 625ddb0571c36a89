SPECIFICATION Spec
CONSTANTS
  Calls = {"c1", "c2"}
  Keys = {"k1", "k2"}
  MinInterval = 1
  Life = 2
  Margin = 1
  MaxTokens = 3
  MaxRestarts = 1
  Snapshots = {"s1"}
  MaxDay = 3
  Drops = TRUE
  Venue = "kis"
  Capacity = 2
  MaxPrints = 3
  Versions = 1
  MaxOddities = 2
  MaxWire = 2
  Callers = {"c1", "c2"}
  Asks <- QuoteAndOrder
  SECOND = 2
  FRESH = 0
  STALE = 1
  Lag = 1
  QueueSize = 1
  MaxVersion = 2
  Prices = {1, 2, 3}
  Intervals = {1, 2}
  Counts = {1, 2}
  BusSize = 2
  MaxLate = 1
  MaxMinute = 7
  Live = TRUE
  MaxAge = 1
  PageLife = 2
  ReportLife = 1
  Day = 1
  Spacing = 1
  UnderWay = 1
  Years <- YearAndBefore
  Quarters <- OneQuarter
  Filed = {"earlier"}
  MaxQuoteTime = 2
  MaxOrderTime = 3
  MaxRateTime = 3
  MaxPageTime = 4
  MaxFinancialTime = 2
INVARIANTS ReferencePrices PrintsKept CandlesFaithful
PROPERTIES IssuedOnlyWhenNeeded BooksHardlyBack
CHECK_DEADLOCK FALSE
