SPECIFICATION Spec
CHECK_DEADLOCK FALSE
CONSTANTS
  Patient = 2
  MaxKeys = 3
  MaxId = 5
  Orphans = TRUE
PROPERTIES
  SeenStays
