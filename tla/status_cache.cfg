SPECIFICATION Spec
CONSTANTS
  Readers = {r1, r2}
  Collectors = {c1}
  OtherWriters = {"cancel"}
  TTL = 2
  Timeout = 1
  MaxVersion = 3
  MaxTime = 4
  FaultKinds = {"redis_error"}
  MaxFaults = 1
SYMMETRY ReaderSymmetry
INVARIANTS
  TypeOK
  BoundedStaleness
  ChangeInvalidates
