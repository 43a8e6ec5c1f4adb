SPECIFICATION Spec
CONSTANTS
  BufferCount = 2
  ChainHandles = 12
  Objects11 = 6
  Frames11 = 12
  Objects12 = 4
  Lists12 = 11
  r1 = r1  l1 = l1  l2 = l2  a1 = a1
  Resource = {r1}  List = {l1, l2}  Allocator = {a1, a2}
  State = {"RenderTarget", "CopyDest"}
  MaxCommands = 2
  MaxRefs = 1
INVARIANTS
  DestroyedOnce NothingElseOutlivesDevice PointersReachLiveHandles
  RecordedWhileRecording LayoutIsState
CHECK_DEADLOCK FALSE
