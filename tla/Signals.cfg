SPECIFICATION MCSpec
CONSTANTS
  Thread = {t1, t2, t3, t4}
  NoThread = NoThread
  MaxRecursion = 2
  MaxBoxes = 2
  MaxSignals = 4
  CountModulus = 4
  InitialCounts = {0, 1, 3}
  ReleaseCounts = {1, 2}
  MaxReleased = 5
  SRW_WRITER = 8
INVARIANTS
  OneGrantPerSignal NoLostSignal UnitsConserved EveryUnitHasATaker
  Exclusion WordIsHolders ReadersNotStranded WritersNotStranded
PROPERTIES
  ManualReleasesAll UnitsTaken WaitersDrain
