SPECIFICATION FairSpec
CHECK_DEADLOCK FALSE
CONSTANTS
  Sessions = {s1}
  Readings = {r1}
  MaxVersion = 0
  MaxGen = 1
PROPERTY DropEnds
