SPECIFICATION Spec
CONSTANTS
  Tasks = {"t1"}
  Ids = {"a"}
  TicksPerDay = 2
  MayFail = FALSE
  MaxNow = 2
  MaxGeneration = 3
INVARIANT SnapshotsKeepGeneration
