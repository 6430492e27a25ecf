CONSTANTS
  Width = 5
  Height = 2
  Cap = 2
  TabWidth = 4
  SizeMod = 64
  BufMax = 4
  MaxUnder = 2
  Printable <- MCPrintable

SPECIFICATION Spec

INVARIANTS
  RowShowsTheLine
  PrintsTheLine
  StraysOnlyAfterUnderflow

CHECK_DEADLOCK FALSE
