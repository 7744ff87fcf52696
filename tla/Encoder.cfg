SPECIFICATION FairSpec
CONSTANTS
  stream = stream
  recording = recording
  NoThread = NoThread
  Outputs = {stream, recording}
  MayFail = TRUE
  MaxFrames = 2
  MaxStarts = 3
CHECK_DEADLOCK FALSE
INVARIANTS
  EncoderInv
  DestroyedLast
PROPERTIES
  StartServes
  
