SPECIFICATION Spec
CONSTANTS
  Agents = {a1, a2}
  Requests = {r1, r2}
  NoRequest = NoRequest
  MaxToken = 2
SYMMETRY Symmetry
INVARIANTS
  OwnerIsRecorded
PROPERTIES
  EndedIsFinal
  WorkerTouchesOwnRecord
  ImplementsService
