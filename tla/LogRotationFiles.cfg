SPECIFICATION Spec
CONSTANTS
  Configs <- AllConfigs
  MaxIndex = 4
  MaxLogs = 5
  MaxCrashes = 1
  RenamesFail = TRUE
INVARIANTS
  TypeOK
  AgeOrder
PROPERTIES
  ShiftKeepsLogs
  RotateLosesOldest
  ExcessIsOldest
CHECK_DEADLOCK FALSE
