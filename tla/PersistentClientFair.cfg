SPECIFICATION ClientSpec
CONSTANTS
  Agents = {c1}
  Clients = {c1}
  Requests = {r1}
  NoRequest = NoRequest
  MaxToken = 2
INVARIANT
  SeenToTheEnd
PROPERTIES
  CallsAnswer
  ServiceDrains
  NoticesTheEnd
