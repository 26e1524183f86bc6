SPECIFICATION Spec
CONSTANTS
  Accounts = {a, b}
  MaxRows = 2
  Runs = {r1, r2}
  MaxAttempts = 1
  MaxRetries = 2
  MaxMail = 1
  MaxLogins = 2
  MaxFaults = 1
  MaxPending = 1
SYMMETRY Symmetry
INVARIANTS
  SessionsTypeOK
  CapturedIsOwn
  CodesOnce
  LeftIsRestored
PROPERTIES
  LoginsSave
CHECK_DEADLOCK FALSE
