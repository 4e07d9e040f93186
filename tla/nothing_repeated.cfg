SPECIFICATION Spec
CONSTANTS
  Jobs = {1, 2}
  Workers = {w1, w2}
  NoWorker = NoWorker
  Priority <- UrgentLast
  MaxAttempts = 1
  MaxDispatches = 2
  FaultKinds <- NothingRepeated
  MaxFaults = 2
  Schedulers = {s1}
  MaxJobsPerWorker = 1
  MaxConcurr = 1
  JobChanSize = 1
  HeartbeatBacklog = 1
  Collectors = {c1}
SYMMETRY WorkerSymmetry
INVARIANTS
  TypeOK
  NoOverlappingExecution
PROPERTIES
  LifecycleSpec
