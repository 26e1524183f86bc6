SPECIFICATION FairPoolSpec
CONSTANTS
  Browsers = {b1}
  Tabs = {t1}
  Callers = {c1}
  Sweepers = {s1, s2}
  MaxPool = 1
  MaxTabs = 1
  HardTabs = 1
  Warm = 0
  Sweeps = {"cleanup", "health"}
  Expiring = TRUE
  MaxFaults = 1
  NoBrowser = NoBrowser
  NoTab = NoTab
PROPERTY ExpiredLeaves
