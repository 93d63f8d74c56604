SPECIFICATION Spec
CONSTANTS
  Procs = {p1, p2}
  Args <- MCArgs
  Stray <- MCStray
  NULL = null
INVARIANTS Truthful ClearReleased OnlyCrossed ExitHonest
PROPERTIES RunEnds
CHECK_DEADLOCK FALSE
