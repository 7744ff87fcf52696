SPECIFICATION FairRefsSpec
CONSTANTS
  t1 = t1
  t2 = t2
  t3 = t3
  Holders = {t1, t2, t3}
  NoThread = NoThread
  Creator = t1
CHECK_DEADLOCK FALSE
INVARIANTS
  RefsInv
  MemorySafe
PROPERTIES
  NoResurrection
  Reclaimed
