\* A SIGHUP while the configuration thread runs
SPECIFICATION Spec
CONSTANTS
  Bad = {}
  Patient = FALSE
  Fds = {3}
  Freq = 1
  MaxHups = 2
  MaxEdits = 1
  MaxUsers = 0
  MaxRecords = 0
  MaxFailures = 0
INVARIANTS EventIsReady
CHECK_DEADLOCK FALSE
