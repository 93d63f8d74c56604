SPECIFICATION Spec
CONSTANTS
  Tasks = {t1, t2}
  Infos = {i1, i2, i3}
  NULL = null
  Files <- Awkward
  Env = {"hdr_err", "strtab_err", "ioreg_err", "elf_err", "badbits", "signal", "fork", "reexec", "kill"}
  MaxQueue = 1
  Preempt = TRUE
SYMMETRY Symmetry
INVARIANT Exclusive
CHECK_DEADLOCK FALSE
