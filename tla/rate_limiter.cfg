SPECIFICATION Spec
CONSTANTS
  NumRequests = 4
  Limit = 1
  Window = 3
  Timeout = 2
  MaxTime = 6
  FaultKinds = {"redis_error", "crash"}
  MaxFaults = 1
INVARIANTS
  TypeOK
  BurstBounded
  RefusedOnlyWhenBusy
CHECK_DEADLOCK FALSE
