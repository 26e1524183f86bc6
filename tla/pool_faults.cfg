SPECIFICATION PoolSpec
CONSTANTS
  Browsers = {b1, b2}
  Tabs = {t1, t2}
  Callers = {c1, c2}
  Sweepers = {s1}
  MaxPool = 1
  MaxTabs = 1
  HardTabs = 1
  Warm = 1
  Sweeps = {"cleanup", "prewarm"}
  Expiring = TRUE
  MaxFaults = 1
  NoBrowser = NoBrowser
  NoTab = NoTab
INVARIANTS
  PoolTypeOK
  TabsCounted
  ActivePagesOpen
  ProcessesInPool
SYMMETRY Interchangeable
