SPECIFICATION Spec
CONSTANTS
  Accounts = {"a1"}
  AlertIds = {"p1", "p2", "p3", "f1"}
  AccountOf <- OneAccount
  Once = {"p1", "p2", "f1"}
  OnFills = {"f1"}
  MaxActive = 2
  Cooldown = 1
  Hour = 1
  PerHour = 1
  MarkAttempts = 1
  MaxFirings = 2
  MaxGeneration = 2
  MaxRestarts = 1
  Failures = {"store", "send"}
  DeliveryAlerts = {"p1", "p2"}
  ResetAlerts = {"p3", "f1"}
  ResetRestarts = 0
  Kinds = {"price_below", "move", "volume_surge", "order_filled", "session_open", "session_close"}
  Threshold <- Thresholds
  Window <- Windows
  Prices = {10, 12}
  Qtys = {1}
  Adv = 8
  Day = 4
  MaxWindow = 2
  Rest = 2
  MaxLate = 1
  MaxPrints = 2
  PrintKinds = {"move", "volume_surge"}
  TickKinds = {"price_below", "order_filled", "session_open", "session_close"}
  TickPrints = 1
  Venues = {"krx"}
  Every = {1, 2}
  MaxAge = 4
INVARIANTS FiringsKept WatchesTheSame
PROPERTIES OnceIsOnce OnTime
CHECK_DEADLOCK FALSE
