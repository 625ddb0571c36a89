CONSTANTS
  Accounts <- One
  Deposit = 2
  Sizes <- SmallSizes
  Failures <- Hiccups
  Attempts = 2
  MaxOrders = 2
  MaxGeneration = 2
  MaxStops = 2
SPECIFICATION HSpec
INVARIANTS StoreCatchesUp CrashSafe
PROPERTIES DrainedIsRestored
CHECK_DEADLOCK FALSE
