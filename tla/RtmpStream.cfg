SPECIFICATION FairSpec
CONSTANTS
  Few = 3
  DropThreshold = 1
  PDropThreshold = 2
  Faults = {"network", "timeout", "stall"}
  Streams <- MCStreams
  MaxConnections = 2
INVARIANTS
  Decodable
  QueueInv
  SentUntilStop
PROPERTY StopEnds
CHECK_DEADLOCK FALSE
