SPECIFICATION Spec
CONSTANTS
  Threads = {t1, t2}
  Frames = {f1, f2, f3, f4, f5}
  NoFrame = NoFrame
  Sizes = {small, large}
  MAX_ASYNC_FRAMES = 2
  MAX_UNUSED_FRAME_DURATION = 2
  Delay = 1
  Races = {}
  MaxPictures = 5
  MaxResets = 1
SYMMETRY Symmetry
CHECK_DEADLOCK FALSE
INVARIANTS FrameInv
PROPERTIES ShownForward
