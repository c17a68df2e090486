\* The shipped configuration (no heartbeats), no faults, one signal
SPECIFICATION Spec
CONSTANTS
  Heartbeat = FALSE
  MaxTries = 3
  QueueDepth = 2
  Confs <- ShippedOnly
  SeqModulus = 2
  MaxEvents = 2
  MaxConns = 2
  MaxFaults = 0
  MaxSignals = 1
PROPERTIES Delivered
CHECK_DEADLOCK FALSE
