SPECIFICATION Spec
CONSTANTS
  Jobs = {1}
  Workers = {w1}
  NoWorker = NoWorker
  Priority <- UrgentLast
  MaxAttempts = 2
  MaxDispatches = 2
  FaultKinds <- NothingLost
  MaxFaults = 2
  Schedulers = {s1, s2}
  MaxJobsPerWorker = 1
  MaxConcurr = 1
  JobChanSize = 1
  HeartbeatBacklog = 1
  Collectors = {c1}
INVARIANTS
  OwnershipMatchesStatus
  OnlyExhaustedEnterDLQ
  NoStrandedJob
  DeadLetterNotLost
