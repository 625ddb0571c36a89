SPECIFICATION Spec
CONSTANTS
  Names = {"key", "secret", "agent"}
  Operator = {"agent"}
  Savers = {s1, s2}
  Overlap = TRUE
  MaxFaults = 0
INVARIANT Whole
CHECK_DEADLOCK FALSE
