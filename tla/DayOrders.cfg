CONSTANTS
  Accounts <- One
  AccountRank <- OneRank
  Instruments <- StockAndCoin
  Currencies <- Foreign
  CurrencyOf <- ExchangeCurrency
  Home = "krw"
  Sessioned <- Stock
  MaxPrice = 3
  PriceBand <- ExchangeBand
  Step = 1
  MinQty = 1
  MinNotional = 1
  Schedules <- Cheap
  FeeBase = 3
  SlipPct = 50
  MaxOffset = 0
  MaxImpact = 0
  Deposits <- ForeignDeposit
  Requests <- LiveRequests
  Books <- LiveBooks
  Prints <- LivePrints
  Conversions <- NoConversions
  MaxOrders = 2
  MaxGeneration = 1
SPECIFICATION FairSpec
PROPERTIES DayOrdersExpire
CHECK_DEADLOCK FALSE
