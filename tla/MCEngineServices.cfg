SPECIFICATION ServicesSpec
CHECK_DEADLOCK FALSE
CONSTANTS
  c1 = c1
  c2 = c2
  NoHost = NoHost
  Holders = {h1, h2}
  MaxGen = 4
  Callers = {c1, c2}
  MaxSeq = 2
  MaxEpoch = 1
  Watchers = {c1, c2}
  MaxRev = 2
  MaxStarts = 2
  MaxFaults = 1
INVARIANTS
  StoreChangesHandsInOrder FarewellReachesWatchers
PROPERTIES
  ShownIsCurrent StopsEnd DeadClaimsEnd
