CONSTANTS
  MaxTasks = 4
  NTask = 4
  EntryTask = 1
  Quantum = 1
  Bonus = 1
  MaxWord = 9
  NIL = NIL
  NoChar = NoChar
  Gone = Gone
  wfi = wfi
  work = work
  yield = yield
  getc = getc
  exit = exit
  fault = fault
  a = a
  Priority <- MCIdleLow
  Node <- MCNode
  Kind <- MCKind
  Succ <- MCSucc
  Start <- MCStart
  Char <- MCChar

SPECIFICATION Spec

INVARIANTS
  AtMostOneRunning
  CurrentTaskRuns
  BlockedCanBeWoken
  QueueIsOrdered

PROPERTIES
  RoundRobin
  GivesWay
  ImplementsProcesses

CHECK_DEADLOCK FALSE
