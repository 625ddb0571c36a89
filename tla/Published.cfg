CONSTANTS
  Accounts <- One
  Deposit = 1
  Sizes <- UnitSizes
  Failures <- Outages
  Attempts = 2
  MaxOrders = 1
  MaxGeneration = 1
  MaxStops = 0
SPECIFICATION HSpec
PROPERTIES PublishedIsPersisted
CHECK_DEADLOCK FALSE
