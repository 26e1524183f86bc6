SPECIFICATION Spec
CONSTANTS
  Requests = {r1, r2}
  Workers = {w1, w2}
  Clients = {c1}
  Cron = cron
  NoRequest = NoRequest
  NoKey = NoKey
  NoRow = NoRow
  MaxFaults = 1
  ClientOps = {}
  PutStatuses = {}
  Ageing = FALSE
  MaxCalls = 0
  MaxCrashes = 1
INVARIANTS
  TypeOK
  OnePlace
  TakenHasRow
PROPERTIES
  ClosedRowStaysClosed
  DeliversAtMostOnce
