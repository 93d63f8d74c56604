SPECIFICATION Spec
CONSTANTS
  PAGE_SIZE = 2
  Payloads <- WithInvalid
  Env = {}
  MaxCalls = 1
  MaxFlight = 6
  MaxDone = 4
INVARIANT ResultTrusted
CHECK_DEADLOCK FALSE
