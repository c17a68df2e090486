SPECIFICATION Spec
CONSTANTS
  Depths = {2, 3}
  MaxEvents = 5
  MaxCrashes = 2
  Disks = {"healthy", "failing"}
  ErrorActions = {"stop", "go on"}
INVARIANTS
  TypeOK
  MemoryIsFile
  FileInOrder
  NothingLost
PROPERTIES
  RelayOrder
  ImplementsDurableFifo
CHECK_DEADLOCK FALSE
