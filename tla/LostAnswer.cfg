CONSTANTS
  Accounts <- One
  Deposit = 1
  Sizes <- UnitSizes
  Failures <- LostAnswers
  Attempts = 2
  MaxOrders = 1
  MaxGeneration = 1
  MaxStops = 0
SPECIFICATION HSpec
INVARIANTS FillsStoredOnce
CHECK_DEADLOCK FALSE
