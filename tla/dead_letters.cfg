SPECIFICATION Spec
CONSTANTS
  Jobs = {1, 2, 3, 4}
  Workers = {w1}
  NoWorker = NoWorker
  Priority <- SamePriority
  MaxAttempts = 1
  MaxDispatches = 1
  Collectors = {c1, c2}
  Letters = {1, 2, 3, 4}
  Requests = {q1, q2}
  FaultKinds = {"collector_stop", "redelivery", "replay_error", "unacked_write"}
  MaxFaults = 1
  RunJobs = {1}
CHECK_DEADLOCK FALSE
INVARIANTS
  TypeOK
  DeadLetterReachesTable
  RowsBounded
  ReplayedNamesReplay
  ReplaysBounded
PROPERTIES
  CondemnedPersisted
