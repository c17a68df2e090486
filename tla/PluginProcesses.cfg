\* Two plugins, three pids, one restart
SPECIFICATION Spec
CONSTANTS
  Plugins = {p, q}
  Pids = {1, 2, 3}
  Installed = 1
  MaxRestarts = 1
  Versions = {1, 2}
  MaxEvents = 2
  MaxHups = 3
  MaxEdits = 1
  MaxCrashes = 2
  MaxForkFails = 1
INVARIANTS NoStrayProcess UpToDate PidIsRecent
PROPERTIES HupTakesEffect
CHECK_DEADLOCK FALSE
