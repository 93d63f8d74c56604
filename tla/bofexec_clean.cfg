SPECIFICATION FairSpec
CONSTANTS
  Tasks = {t1, t2, t3}
  Infos = {i1, i2}
  NULL = null
  Files <- Ordinary
  Env = {"hdr_err", "ioreg_err"}
  MaxQueue = 3
  Preempt = FALSE
INVARIANTS RunningKeepsFpga ReservedIsOwned HwLoadedBeforeElf NoUseAfterFree
PROPERTIES ExecEnds LeaseLive
