SPECIFICATION FairSpec
CONSTANTS
  a = a
  b = b
  Threads = {t1, t2}
  Callbacks = {c1, c2}
  Signals = {a, b}
  Uses <- MCUses
  MaxSent = 2
  MaxEdits = 3
INVARIANT SignalsInv
PROPERTY SignalsReturn
CHECK_DEADLOCK FALSE

