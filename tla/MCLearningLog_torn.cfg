CONSTANTS
  a = a
  b = b
  MaxRecords = 4
  Items <- MCItems
  ItemOf <- MCItemOf
  Limit = 2
  Target = 1
  Capacity = 3
  RetainedCopies = 1
  MaxDamage = 0
  TornReopen = TRUE

SPECIFICATION LogSpec
INVARIANTS
  FlushedIsKept
