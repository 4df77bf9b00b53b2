SPECIFICATION Spec
CONSTANTS
  Preparers = {p1, p2}
  FileCount = 2
  MaxEdits = 1
  MaxRelease = 2
  MaxKilled = 1
CHECK_DEADLOCK FALSE
INVARIANTS
  DescriptorIsProven
  AcceptedIsFrozen
  PublisherLeavesNothing
