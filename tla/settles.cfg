SPECIFICATION FairSpec
CONSTANTS
  Jobs = {1}
  Workers = {w1, w2}
  NoWorker = NoWorker
  Priority <- UrgentLast
  MaxAttempts = 1
  MaxDispatches = 5
  FaultKinds = {"worker_stop", "publish_error", "publish_ambiguous", "redelivery", "collector_stop", "db_error"}
  MaxFaults = 1
  Schedulers = {s1}
  MaxJobsPerWorker = 1
  MaxConcurr = 1
  JobChanSize = 1
  HeartbeatBacklog = 1
  Collectors = {c1}
INVARIANTS
  AttemptHasOneWorker
PROPERTIES
  EveryJobSettles
