SPECIFICATION FairSpec
INVARIANTS
  ReleasesOwned
  ExitTellsTruth
PROPERTIES
  SignalEnds
  EndIsNoticed
