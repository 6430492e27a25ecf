CONSTANTS
  MaxTasks = 3
  NTask = 2
  EntryTask = 1
  Quantum = 2
  Bonus = 1
  MaxWord = 9
  NIL = NIL
  NoChar = NoChar
  Gone = Gone
  wfi = wfi
  loop = loop
  malloc = malloc
  prompt = prompt
  getc = getc
  echo = echo
  newline = newline
  puts = puts
  free = free
  exit = exit
  a = a
  b = b
  Priority <- MCPriority
  Node <- MCNode
  Kind <- MCKind
  Succ <- MCSucc
  Start <- MCStart
  Char <- MCChar

SPECIFICATION FairSpec

INVARIANTS
  TypeOK
  OnlyFaultsStopTheKernel
  ReadyTasksAreQueued

PROPERTIES
  ImplementsProcesses
  FairOnceTicking
