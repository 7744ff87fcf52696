SPECIFICATION FairSpec
CONSTANTS
  CacheSize = 3
  enc1 = enc1
  enc2 = enc2
  Inputs = {enc1, enc2}
  Failing = {enc1}
  NoInput = NoInput
  Counts = {1, 2}
  MaxTick = 4
INVARIANTS
  RingSafe
  DisconnectIsSynchronous
  EveryInputServed
PROPERTIES
  ImplementsQueue
  Completes
