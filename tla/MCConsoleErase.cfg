CONSTANTS
  Width = 2
  Height = 2
  Cap = 3
  TabWidth = 1
  SizeMod = 64
  Chars <- MCEraseChars
  MaxTyped = 2
  MaxDigits = 1
  MaxArgs = 1

SPECIFICATION Spec

INVARIANT
  NeverOutOfRange
