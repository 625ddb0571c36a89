CONSTANTS
  Names = {"key", "secret", "agent"}
  Operator = {"agent"}
  Savers = {"s1", "s2"}
  MaxFaults = 1
  Callers = {"t1", "t2"}
  Ids = {"a"}
  TicksPerDay = 2
  MayFail = TRUE
  MaxTick = 1
  MaxGeneration = 2
  Venues = {"krx", "us"}
  Orders = {"o1"}
  Days = 7
  Slots = 4
  Weekend = {5, 6}
  Holidays <- WeekHolidays
  Ahead <- WeekAhead
  OpensAt <- WeekOpens
  ClosesAt <- WeekCloses
  Horizon = 4
SPECIFICATION Spec
INVARIANTS AccessKept SavedWhole CachesBehind CalendarKept CountsAddUp
PROPERTIES NothingUndone
CHECK_DEADLOCK FALSE
