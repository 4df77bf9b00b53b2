CONSTANTS
  Publishers = {p1, p2}
  MaxQueue = 2
  MaxGap = 2
  SocketSize = 1
  PipeSize = 1
  MaxRecords = 4
SPECIFICATION FairSpec
CHECK_DEADLOCK FALSE
INVARIANTS
  DrainedIsComplete
  LossIsCounted
PROPERTIES
  RelayEnds
