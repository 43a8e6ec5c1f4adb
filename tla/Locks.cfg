SPECIFICATION MCSpec
CONSTANTS
  Thread = {t1, t2, t3}
  NoThread = NoThread
  MaxRecursion = 2
  MaxBoxes = 2
  MaxSignals = 2
  CountModulus = 3
  InitialCounts = {0, 1}
  ReleaseCounts = {1, 2}
  MaxReleased = 3
  SRW_WRITER = 8
INVARIANTS
  MutualExclusion NoLostWakeup MutexExclusion
PROPERTIES
  ImplementsMutex SomeoneAcquires
  InfiniteWaitProgress
