SPECIFICATION AnyHandleSpec
CONSTANTS
  Thread = {t1, t2}
  MaxFd = 4
  MaxHandle = 3
  SlotCount = 3
  MaxIndexes = 4
  MaxExits = 1
  PageCount = 3
  MaxPages = 2
  WinProt = {"PAGE_READWRITE", "PAGE_EXECUTE_READ", "PAGE_NOACCESS"}
  MaxRegions = 3
  MaxKeyHandles = 1
  MaxKeyCalls = 1
INVARIANT DoubleCloseHarmless
