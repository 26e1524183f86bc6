SPECIFICATION Spec
CONSTANTS
  Requests = {r1}
  Workers = {w1}
  Clients = {c1}
  Cron = cron
  NoRequest = NoRequest
  NoKey = NoKey
  NoRow = NoRow
  MaxFaults = 0
  ClientOps = {"put"}
  PutStatuses = {"PENDING"}
  Ageing = TRUE
  MaxCalls = 1
  MaxCrashes = 1
INVARIANTS
  LookupFinds
