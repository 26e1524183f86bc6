SPECIFICATION QueueSpec
CONSTANTS
  Ids = {i1, i2, i3}
  Priorities = {0, 1, 3}
  Second = 2
  MaxTime = 5
INVARIANTS
  QueueTypeOK
PROPERTIES
  BoundedOvertaking
CHECK_DEADLOCK FALSE
