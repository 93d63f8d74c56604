SPECIFICATION Spec
CONSTANTS
  Digits = 2
  Power <- MCPower
  NUMTMPBUF = 3
  Chars <- MCChars
INVARIANTS DecimalRight PrefixRight LooksAtMostOneBehind EchoKeeps
CHECK_DEADLOCK FALSE
