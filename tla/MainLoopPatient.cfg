\* SIGHUPs apart from each other, everything else at any time
SPECIFICATION Spec
CONSTANTS
  Bad = {3}
  Patient = TRUE
  Fds = {3, 4}
  Freq = 1
  MaxHups = 2
  MaxEdits = 2
  MaxUsers = 2
  MaxRecords = 2
  MaxFailures = 1
INVARIANTS RepliesSuffice EventIsReady
PROPERTIES HupApplies FlushReachesDisk
CHECK_DEADLOCK FALSE
