CONSTANTS
  Accounts <- One
  AccountRank <- OneRank
  Instruments <- Coin
  Currencies <- Foreign
  CurrencyOf <- TransferCurrency
  Home = "krw"
  Sessioned = {}
  MaxPrice = 3
  PriceBand <- CoinBand
  Step = 1
  MinQty = 1
  MinNotional = 1
  Schedules <- CheapThenDear
  FeeBase = 3
  SlipPct = 50
  MaxOffset = 1
  MaxImpact = 1
  Deposits <- ForeignDeposit
  Requests <- TransferRequests
  Books <- TransferBooks
  Prints <- TransferPrints
  Conversions <- Transfers
  MaxOrders = 3
  MaxGeneration = 1
SPECIFICATION Spec
INVARIANTS NoOverdraft ReservationsMatch
PROPERTIES LimitsHonoured ConversionNeverGains
CHECK_DEADLOCK FALSE
