SPECIFICATION Spec
CONSTANTS
  Tasks = {t1, t2, t3}
  Clients = {c1, c2, c3}
  Locs = {"cs0", "cs2", "cs3", "outside"}
  Fail = {"type", "page", "iobuf", "bus", "cs0", "cs1", "cs2", "cache", "dev"}
  NULL = null
INVARIANTS NothingMissing FailedInit CountBalanced
CHECK_DEADLOCK FALSE
