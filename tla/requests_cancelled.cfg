SPECIFICATION Spec
CONSTANTS
  Requests = {r1}
  Workers = {w1}
  Clients = {c1}
  Cron = cron
  NoRequest = NoRequest
  NoKey = NoKey
  NoRow = NoRow
  MaxFaults = 0
  ClientOps = {"cancel"}
  PutStatuses = {}
  Ageing = FALSE
  MaxCalls = 1
  MaxCrashes = 0
PROPERTIES
  CancelledStaysCancelled
