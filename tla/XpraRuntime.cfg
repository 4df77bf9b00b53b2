CONSTANTS
  Preparers = {p1, p2}
  Versions = {v1, v2}
  Stale = stale
  Partial = partial
  Foreign = foreign
  Absent = absent
  Nobody = nobody
SPECIFICATION Spec
CHECK_DEADLOCK FALSE
INVARIANTS
  InPlaceIsComplete
PROPERTIES
  KeepsEnvironment
  ReadyIsInPlace
