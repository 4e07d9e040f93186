SPECIFICATION Spec
CONSTANTS
  Members = {c1, c2, c3}
  NoMember = NoMember
  Length = 4
  Poison = {3}
  FaultKinds = {"rebalance", "handler_error", "commit_error", "stop"}
  MaxFaults = 4
INVARIANTS
  NoneSkipped
PROPERTIES
  AtLeastOnceSpec
  HandledUpToPoison
