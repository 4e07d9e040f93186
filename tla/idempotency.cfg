SPECIFICATION Spec
CONSTANTS
  r1 = r1
  r2 = r2
  r3 = r3
  r4 = r4
  k1 = k1
  Requests = {r1, r2, r3, r4}
  Type <- SomeTypes
  Payload <- SomePayloads
  Header <- OneKey
  NoHeader = NoHeader
  JobIds = {i1, i2, i3, i4, i5}
  Nil = Nil
  FaultKinds = {"redis_error", "read_error", "insert_error"}
  MaxFaults = 1
INVARIANTS
  StoreInv
  OneJobPerKey
  AnsweredWithOwnHash
  KeyLeadsToJob
PROPERTIES
  RetriesSucceed
