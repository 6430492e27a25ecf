CONSTANTS
  HeapSize = 112
  Word = 65536
  Requests <- MCRequests

SPECIFICATION Spec

INVARIANTS
  BlocksTileTheHeap
  TotalIsExact
  LivePointersAreBlocks
  DoubleFreeIsCaught
  NullOnlyWhenFull

PROPERTY
  ImplementsAllocator

CHECK_DEADLOCK FALSE
