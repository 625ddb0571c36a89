SPECIFICATION Spec
CONSTANTS
  Names = {"key", "secret", "agent"}
  Operator = {"agent"}
  Savers = {s1, s2}
  Overlap = FALSE
  MaxFaults = 1
PROPERTY SavedIsLoaded
CHECK_DEADLOCK FALSE
