SPECIFICATION Spec
CONSTANTS
  Configs <- AllConfigs
  FdopenFails = TRUE
INVARIANTS
  ReadyToWrite
  OpenLogIsWatched
  AnsweredOnce
PROPERTIES
  SuspensionHolds
CHECK_DEADLOCK FALSE
