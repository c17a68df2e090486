SPECIFICATION FairSpec
CONSTANTS
  Depths = {2}
  OverflowActions = {"syslog", "suspend"}
  Threads = {1}
  CanBeEmpty = FALSE
  MaxEvents = 4
  MaxHups = 2
  MaxSpurious = 1
  UintMod = 16
INVARIANTS
  TypeOK
  RingWindow
  DeliveryOrder
PROPERTIES
  ImplementsFifo
  DeliveredEventually
  HupAfterEvent
CHECK_DEADLOCK FALSE
