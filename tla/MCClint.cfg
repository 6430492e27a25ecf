CONSTANTS
  Word = 5
  Prescaler = 1
  TickLength = 3
  MaxTime = 17

SPECIFICATION Spec

INVARIANTS
  ReadsATimeThatWas
  TicksDoNotDrift

PROPERTY
  NoTickIsEarly
