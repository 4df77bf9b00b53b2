SPECIFICATION Spec
INVARIANTS
  SignalCleansUp
