SPECIFICATION FairSpec
CONSTANTS
  PAGE_SIZE = 2
  Payloads <- AnyPayload
  Env = {"interrupted", "init_timeout", "read_err", "spi_err", "slow_done"}
  MaxCalls = 3
  MaxFlight = 3
  MaxDone = 2
INVARIANTS TypeOK SuccessIsReal CallsApart PagesFreed IoExcluded
PROPERTIES CallReturns ValidIsStarted
CHECK_DEADLOCK FALSE
