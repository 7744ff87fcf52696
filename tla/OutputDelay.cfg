SPECIFICATION FairSpec
CONSTANTS
  e1 = e1
  e2 = e2
  Encoders = {e1, e2}
  Setups <- MCSetups
  Delay = 2
  MaxDelay = 3
  MaxBehind = 1
  Latency = 0
  RetryMax = 1
  Races = {}
  MaxCalls = 3
  MaxLosses = 2
INVARIANT DelayInv
PROPERTIES EncodersReturn Answered
CHECK_DEADLOCK FALSE
