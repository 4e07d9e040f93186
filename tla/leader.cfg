SPECIFICATION ElectionSpec
CONSTANTS
  Schedulers = {s1, s2, s3, s4}
  NoScheduler = NoScheduler
  FaultKinds <- AllFaults
  MaxFaults = 3
INVARIANTS
  ElectionInv
  AtMostOneLeader
PROPERTIES
  SomeoneLeads
