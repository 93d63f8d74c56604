SPECIFICATION Spec
CONSTANTS
  Tasks = {t1, t2}
  Infos = {i1, i2, i3}
  NULL = null
  Files <- OnlyDesign
  Env = {"signal"}
  MaxQueue = 2
  Preempt = FALSE
INVARIANT HwLoadedBeforeElf
CHECK_DEADLOCK FALSE
