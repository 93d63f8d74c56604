SPECIFICATION FairSpec
CONSTANTS
  Tasks = {t1, t2, t3, t4, t5}
  Bk = bk
  NULL = null
  Preempt = FALSE
INVARIANTS Exclusive OwnerRecorded NotLost
PROPERTIES FailsOnlyIfHeld LeaseLive
