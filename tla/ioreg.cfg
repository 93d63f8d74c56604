SPECIFICATION FairSpec
CONSTANTS
  Clients = {c1, c2}
  Len = 4
  BufSize = 8
  NUMTMPBUF = 8
  Counts = {3, 8}
  Seeks = {0, 2}
  Words = 4
  Env = {"efault", "exit", "signal"}
INVARIANTS BufferBalanced ReadsInside
PROPERTIES BufferKept WritesOwnRange IoReturns
CHECK_DEADLOCK FALSE
