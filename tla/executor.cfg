SPECIFICATION Spec
CONSTANTS
  Jobs = {j1, j2, j3, j4}
  ChanSize = 1
  MaxConcurr = 2
  FaultKinds = {"stop", "report_lost"}
  MaxFaults = 2
INVARIANTS
  TypeOK
  CountCoversRunning
PROPERTIES
  PoolSpec
  EveryJobEnds
