SPECIFICATION FairSpec
CONSTANTS
  o1 = o1
  o2 = o2
  x264 = x264
  nvenc = nvenc
  Outputs = {o1, o2}
  Videos = {x264}
  NoVideo = NoVideo
  VideoOf <- MCShared
  SampleTime = 2
  Block = 2
  FrameSize = 3
  FrameTime = 3
  Clocks <- MCClocks
  Lag = 6
  Delay = 1
  MaxStarts = 3
  MaxInput = 24
  MaxAlone = 6
INVARIANT InSync
PROPERTY BothStart
CHECK_DEADLOCK FALSE
