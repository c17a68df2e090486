\* Two events, two faults of the network or the server, heartbeats on
SPECIFICATION Spec
CONSTANTS
  Heartbeat = TRUE
  MaxTries = 1
  QueueDepth = 1
  Confs <- PersistentOnly
  SeqModulus = 2
  MaxEvents = 2
  MaxConns = 3
  MaxFaults = 2
  MaxSignals = 1
INVARIANTS DequeuedIsLogged FirstCopiesInOrder AnswersMatch
PROPERTIES Delivered StopEnds
CHECK_DEADLOCK FALSE
