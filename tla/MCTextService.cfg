SPECIFICATION PartSpec
CHECK_DEADLOCK FALSE
CONSTANTS
  Capacity = 2
  Contexts = {c1, c2}
  NoContext = NoContext
  Visible = {empty, text}
  Empty = empty
  MaxId = 3
  MaxActivation = 1
  MaxFocus = 2
  MaxGen = 3
  MaxRev = 1
  Patient = 2
  MaxKeys = 4
  MaxRequests = 7
  Orphans = FALSE
SYMMETRY ContextSymmetry
INVARIANTS
  PlansChain OneAuthority EachKeyOnce ComposesWhatIsShown
PROPERTIES
  EachTerminatedOnce RevokedStaysRevoked SeenStays
