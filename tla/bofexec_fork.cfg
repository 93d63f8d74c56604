SPECIFICATION Spec
CONSTANTS
  Tasks = {t1, t2}
  Infos = {i1, i2, i3}
  NULL = null
  Files <- OnlyDesign
  Env = {"fork"}
  MaxQueue = 2
  Preempt = FALSE
INVARIANT RunningKeepsFpga
CHECK_DEADLOCK FALSE
