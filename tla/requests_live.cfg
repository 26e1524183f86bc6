SPECIFICATION FairSpec
CONSTANTS
  Requests = {r1}
  Workers = {w1}
  Clients = {c1, c2}
  Cron = cron
  NoRequest = NoRequest
  NoKey = NoKey
  NoRow = NoRow
  MaxFaults = 0
  ClientOps = {"cancel", "activity", "list"}
  PutStatuses = {}
  Ageing = FALSE
  MaxCalls = 2
  MaxCrashes = 0
PROPERTIES
  EveryRequestCloses
  ClosedRowStaysClosed
INVARIANTS
  CompletedHasResult
