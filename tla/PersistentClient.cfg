SPECIFICATION ClientSpec
CONSTANTS
  Agents = {c1, a1}
  Clients = {c1}
  Requests = {r1, r2}
  NoRequest = NoRequest
  MaxToken = 1
INVARIANTS
  WatchesItsOwn
PROPERTIES
  OrdinaryIsAlone
  StartsPrepared
