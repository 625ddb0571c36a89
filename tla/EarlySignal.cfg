SPECIFICATION Spec
CONSTANTS
  Tabs = {t1}
  MaxCodes = 1
  MaxSaves = 0
  MaxFaults = 1
PROPERTY SignalDrains
CHECK_DEADLOCK FALSE
