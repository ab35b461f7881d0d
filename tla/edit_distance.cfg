SPECIFICATION Spec
CONSTANTS
  x = x
  y = y
  Chars <- MCChars
  Width <- MCWidth
  MaxLen = 4
CHECK_DEADLOCK FALSE
INVARIANTS TypeOK ComputesDistance RowIsTwoRows
