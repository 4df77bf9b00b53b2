CONSTANTS
    Streams = {out, err}
    Error = err
    WithBus = TRUE
    MaxOutput = 2
    MaxOther = 1
    MaxQueue = 2
    MaxLine = 2
    PipeCapacity = 2
    Capacity = 1
SPECIFICATION Spec
CHECK_DEADLOCK FALSE
INVARIANTS
  InOrderOnce
  LossIsCounted
  JournalGetsAll
  NothingOwnedLeft
PROPERTIES
  EndCompletes
