CONSTANTS
  Accounts <- One
  Deposit = 1
  Sizes <- UnitSizes
  Failures <- Outages
  Attempts = 2
  MaxOrders = 2
  MaxGeneration = 1
  MaxStops = 0
SPECIFICATION HSpec
INVARIANTS SellsArePositions
CHECK_DEADLOCK FALSE
