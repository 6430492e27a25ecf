CONSTANTS
  HeapSize = 192
  Word = 65536
  Requests <- MCRequests
  MaxTasks = 3
  GenMod = 4
  StackSize = 16
  TaskHeapSize = 16

SPECIFICATION TaskSpec

INVARIANTS
  MemoryFollowsTasks
  NoDoubleFree
  IdsNameOneTask
