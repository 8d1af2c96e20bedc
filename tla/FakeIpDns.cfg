SPECIFICATION Spec
CONSTANTS
  None = None
  Outside = Outside
  Names = {n1, n2}
  Lookups = {q1, q2}
  Expiration = 4
  Ttl = 1
  MaxDelay = 1
  PoolSize = 2
  MaxRows = 2
  MaxTime = 5
INVARIANTS
  UsableAnswerResolves
  OneRecordPerName
PROPERTIES
  GrowsOnlyWhenInUse
SYMMETRY Symmetry
CHECK_DEADLOCK FALSE
