CONSTANTS
  Accounts <- One
  Deposit = 1
  Sizes <- UnitSizes
  Failures <- Anything
  Attempts = 2
  MaxOrders = 2
  MaxGeneration = 2
  MaxStops = 1
SPECIFICATION HFairSpec
INVARIANTS NoFutureGeneration
PROPERTIES RowsOnlyAdvance DrainEnds
CHECK_DEADLOCK FALSE
