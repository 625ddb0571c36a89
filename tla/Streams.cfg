SPECIFICATION Spec
CONSTANTS
  Instruments = {1, 2}
  Cap = 1
  Callers = {"tool"}
  Sorted <- MCSorted
  MaxBackoff = 4
  MaxChanges = 2
INVARIANTS NothingMissed
PROPERTIES StreamFollows KeepsPromise
