SPECIFICATION FairSpec
CONSTANTS
  r1 = r1
  r2 = r2
  Retriers = {r1, r2}
  Scenarios <- MCScenarios
  MayForce = TRUE
  MaxStarts = 2
CHECK_DEADLOCK FALSE
INVARIANTS
  Settled
  CapturesInTurn
PROPERTIES
  Answered
