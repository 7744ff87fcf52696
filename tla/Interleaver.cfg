SPECIFICATION InterleaverSpec
CONSTANTS
  Tracks = 1
  VideoStep = 3
  AudioStep = 2
  Reorder = 6
  Origins <- MCOrigins
  MaxPackets = 6
  MaxRestarts = 1
CHECK_DEADLOCK FALSE
INVARIANTS
  StreamsInOrder
  InSync
  StartsWhenPossible
