CONSTANTS
    Installers = {i1}
    Required = {core}
    Extra = {other}
    MaxRelease = 2
    Selectors = {0, 1}
    MaxOthers = 2
SPECIFICATION Spec
CHECK_DEADLOCK FALSE
INVARIANTS
  NeverStranded
  RecoveryIsThere
  SuccessIsExact
PROPERTIES
  PurgesConfirmed
