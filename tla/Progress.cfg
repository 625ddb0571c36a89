SPECIFICATION Spec
CONSTANTS
  MaxStarts = 2
  MaxStops = 1
PROPERTIES CallsEnd OutagesEnd
CHECK_DEADLOCK FALSE
