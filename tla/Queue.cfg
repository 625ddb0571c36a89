CONSTANTS
  Accounts <- Two
  AccountRank <- TwoRank
  Instruments <- Coin
  Currencies <- Won
  CurrencyOf <- CoinCurrency
  Home = "krw"
  Sessioned = {}
  MaxPrice = 3
  PriceBand <- CoinBand
  Step = 1
  MinQty = 1
  MinNotional = 1
  Schedules <- Cheap
  FeeBase = 3
  SlipPct = 50
  MaxOffset = 1
  MaxImpact = 1
  Deposits <- WonDeposit
  Requests <- QueueRequests
  Books <- QueueBooks
  Prints <- QueuePrints
  Conversions <- NoConversions
  MaxOrders = 3
  MaxGeneration = 1
SPECIFICATION Spec
INVARIANTS TypeOK
PROPERTIES PriceTimePriority PrintShared LiquidityUsedOnce BookLeavesNoCross
CHECK_DEADLOCK FALSE
