CONSTANTS
  Periods <- MCPeriods
  FrameTimes <- MCFrameTimes
  MaxSteps = 2
  MaxDebt = 6
  Lengths <- MCLengths
  Sections <- MCSections
  SizeOf <- MCSizeOf
  Width = 4
  Height = 2
  ValueWidths <- MCValueWidths

SPECIFICATION Spec

INVARIANTS
  DumpFlagAgrees
  NoCatchUp
  InspectorStaysInside

PROPERTIES
  TraceIsWhole
  StepIsMade
  DumpEnds
