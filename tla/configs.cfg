SPECIFICATION FairSpec
CONSTANTS
  Configs = {c1}
  Exact = {c1}
  Users = {u1}
  Slots = {s1, s2}
  Cool = 2
  TooMany = 2
  MaxFaults = 1
  NoConfig = NoConfig
INVARIANTS
  ConfigsTypeOK
  CoolingIsScheduled
PROPERTIES
  PermanentlyInvalid
  LeavesCache
  CoolingEnds
