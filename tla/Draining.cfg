CONSTANTS
  Accounts <- One
  Deposit = 1
  Sizes <- UnitSizes
  Failures <- Nothing
  Attempts = 1
  MaxOrders = 1
  MaxGeneration = 1
  MaxStops = 1
SPECIFICATION HSpec
PROPERTIES EveryChangeJournaled
CHECK_DEADLOCK FALSE
