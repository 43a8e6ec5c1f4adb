SPECIFICATION Spec
CONSTANTS
  p1 = p1  p2 = p2  n1 = n1  n2 = n2
  Path = {p1, p2}
  Name = {n1, n2}
  Candidates <- MCCandidates
  Base = {b1, b2, b3}
  NoBase = NoBase
  MaxNesting = 2
  Thread = {t1, t2}
  MaxFd = 4
  MaxHandle = 3
  SlotCount = 2
  MaxIndexes = 3
  MaxExits = 1
  PageCount = 3
  MaxPages = 2
  WinProt = {"PAGE_READWRITE", "PAGE_EXECUTE_READ"}
  MaxRegions = 2
  MaxKeyHandles = 2
  MaxKeyCalls = 2
  PageBytes = 128
  PageCells = 8
  Width = 16
  Images <- MCImages
  Bases <- MCBases
  Specs <- MCSpecs
  DataSymbols <- MCDataSymbols
  ApiSets <- MCApiSets
  OnDisk <- MCOnDisk
  Capacity = 256
  MAX_PATH = 6
  Reparsed <- MCReparsed
  Compiled <- MCCompiled
  Executed <- MCExecuted
  Returns <- MCReturns
SYMMETRY Symmetry
INVARIANTS
  PointersRebased ProtectionsDeclared GuestStartsReady
   ReadsAsWritten  PathsCompose
  FilesReached ReadsOwnValue RegionsMatchKernel ModulesSound 
CHECK_DEADLOCK FALSE
