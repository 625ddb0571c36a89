CONSTANTS
  Accounts <- Two
  AccountRank <- TwoRank
  Instruments <- Stock
  Currencies <- Won
  CurrencyOf <- StockCurrency
  Home = "krw"
  Sessioned <- Stock
  MaxPrice = 3
  PriceBand <- StockBand
  Step = 1
  MinQty = 1
  MinNotional = 1
  Schedules <- Cheap
  FeeBase = 3
  SlipPct = 50
  MaxOffset = 0
  MaxImpact = 0
  Deposits <- WonDeposit
  Requests <- SessionRequests
  Books <- SessionBooks
  Prints <- SessionPrints
  Conversions <- NoConversions
  MaxOrders = 2
  MaxGeneration = 2
SPECIFICATION Spec
INVARIANTS BookMatchesOrders
PROPERTIES JournalTellsAll ClosedForGood RestartTransparent
CHECK_DEADLOCK FALSE
