SPECIFICATION PipelineFairSpec
CONSTANTS
  gpu_conversion = TRUE
  MapMayFail = FALSE
  Lags = {1, 2}
  MaxTime = 14
  MaxRaw = 1
INVARIANTS PipeInv
PROPERTIES RunsAscend FramesFlow
CHECK_DEADLOCK FALSE
