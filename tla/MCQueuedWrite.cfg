SPECIFICATION SettingSpec
CONSTANTS
  Capacity = 2
  Contexts = {c1}
  NoContext = NoContext
  Visible = {empty, a}
  Empty = empty
  Unknown = unknown
  MaxId = 5
  MaxKeys = 2
  MaxEvents = 3
  MaxDepth = 1
  Refuses = TRUE
  Late = TRUE
  Expires = TRUE
  Drops = TRUE
  Silent = TRUE
  Reenters = TRUE
CHECK_DEADLOCK FALSE
INVARIANTS
  TextIsOnScreen EveryWaitHasOwner AppliedWasDeleted
  CalmReplacesWhatWasRead
PROPERTY LiveComesToRest
