CONSTANTS
  Width = 2
  Height = 2
  Cap = 3
  TabWidth = 1
  SizeMod = 64
  Chars <- MCChars
  MaxTyped = 2
  MaxDigits = 1
  MaxArgs = 1

SPECIFICATION Spec

INVARIANTS
  NeverOutOfRange
  KeysInOrder

PROPERTIES
  ScrollbackKept
  WrittenIsShown
