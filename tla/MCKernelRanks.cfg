CONSTANTS
  MaxTasks = 3
  NTask = 3
  EntryTask = 2
  Quantum = 1
  Bonus = 1
  MaxWord = 9
  NIL = NIL
  NoChar = NoChar
  Gone = Gone
  wfi = wfi
  work = work
  yield = yield
  getc = getc
  exit = exit
  fault = fault
  a = a
  Priority <- MCRising
  Node <- MCNode
  Kind <- MCKind
  Succ <- MCSucc
  Start <- MCStart
  Char <- MCChar

SPECIFICATION Spec

INVARIANT WaitingTasksAreFound
