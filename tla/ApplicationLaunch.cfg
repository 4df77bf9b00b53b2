CONSTANTS
  Launchers = {l1, l2}
  NoLauncher = none
SPECIFICATION FairSpec
CHECK_DEADLOCK FALSE
INVARIANTS
  LeavesNothing
PROPERTIES
  ImplementsOnce
  StopEnds
