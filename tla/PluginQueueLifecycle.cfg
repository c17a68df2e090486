SPECIFICATION Spec
CONSTANTS
  Depths = {1, 2}
  OverflowActions = {"syslog", "suspend"}
  Threads = {1, 2}
  CanBeEmpty = TRUE
  MaxEvents = 3
  MaxHups = 2
  MaxSpurious = 0
  UintMod = 16
INVARIANTS
  EventAccounting
CHECK_DEADLOCK FALSE
