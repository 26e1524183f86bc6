SPECIFICATION PoolSpec
CONSTANTS
  Browsers = {b1, b2}
  Tabs = {t1, t2, t3}
  Callers = {c1, c2}
  Sweepers = {s1}
  MaxPool = 1
  MaxTabs = 1
  HardTabs = 2
  Warm = 1
  Sweeps = {"cleanup", "prewarm"}
  Expiring = TRUE
  MaxFaults = 0
  NoBrowser = NoBrowser
  NoTab = NoTab
INVARIANTS
  OvershootBounded
  QuietBooksAgree
SYMMETRY Interchangeable
