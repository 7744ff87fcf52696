SPECIFICATION Spec
CONSTANTS
  Sources = {s1, s2}
  AUDIO_OUTPUT_FRAMES = 2
  FrameLen = 2
  MAX_BUFFERING_TICKS = 3
  MaxBuf = 5
  Chunks = {2}
  Lateness = {0, 5, 9}
  Garbage = {0, 1000}
  MaxJumps = 2
  MaxTime = 36
INVARIANTS BufferingInv MixedInPlace LossIsBuffered
PROPERTIES BlocksContiguous
SYMMETRY Symmetry
CHECK_DEADLOCK FALSE
