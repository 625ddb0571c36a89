CONSTANTS
  Accounts <- One
  Deposit = 1
  Sizes <- UnitSizes
  Failures <- Nothing
  Attempts = 1
  MaxOrders = 1
  MaxGeneration = 3
  MaxStops = 0
SPECIFICATION HSpec
PROPERTIES GenerationGoesUp
CHECK_DEADLOCK FALSE
