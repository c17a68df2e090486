SPECIFICATION FairSpec
CONSTANTS
  Depths = {2, 4}
  OverflowActions = {"syslog", "suspend"}
  Threads = {1}
  CanBeEmpty = FALSE
  MaxEvents = 3
  MaxHups = 1
  MaxSpurious = 0
  UintMod = 16
PROPERTIES
  DeliveredEventually
CHECK_DEADLOCK FALSE
