SPECIFICATION Spec
CHECK_DEADLOCK FALSE
CONSTANTS
  MaxEdits = 3
  MaxSealed = 2
  MaxKeys = 2
  MaxFaults = 1
INVARIANT NewPasswordOpens
