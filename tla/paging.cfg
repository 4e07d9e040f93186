SPECIFICATION Spec
CONSTANTS
  Tables = {"jobs", "workers", "dead_letters"}
  Rows = {1, 2, 3, 4, 5}
  FirstRows = {1, 2, 3, 4}
  SameTime = {3}
  Asked = {0, 1}
  DefaultLimit = 2
  MaxChanges = 3
INVARIANTS
  TypeOK
  MissedBounded
  RepeatsBounded
CHECK_DEADLOCK FALSE
