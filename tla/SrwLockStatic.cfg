SPECIFICATION StaticSpec
CONSTANTS
  Thread = {t1, t2}
  NoThread = NoThread
  MaxRecursion = 1
  MaxBoxes = 1
  MaxSignals = 0
  CountModulus = 2
  InitialCounts = {0}
  ReleaseCounts = {1}
  MaxReleased = 1
  SRW_WRITER = 8
INVARIANT Exclusion
