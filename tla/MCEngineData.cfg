CONSTANTS
  a = a
  b = b
  Workers = {a, b}
  MaxReading = 1
  MaxRev = 4
  MaxLearn = 1
  MaxDict = 1
  MaxRecords = 4
  Items <- MCItems
  ItemOf <- MCItemOf
  Limit = 2
  Target = 1
  Capacity = 3
  RetainedCopies = 1
  MaxDamage = 2
  TornReopen = FALSE
  Writers = {a, b}
  Clearers = {a}
  QueueLimit = 2
  MaxInputs = 3
  MaxClear = 1
  MaxCompact = 1
  MaxCrash = 1
  Sessions = {a, b}
  Readings = {a}
  MaxVersion = 1
  MaxGen = 2
  Clients = {a, b}
  Texts = {a, b}
  MaxCooldowns = 1
  MaxJobIds = 2

SPECIFICATION DataSpec
CHECK_DEADLOCK FALSE
INVARIANTS
  FlushedIsKept ErasedStaysErased ClearReachesEveryFile
  ClearedStaysCleared FlushedSurvives
  NoStaleChoice ClickStaysWithItsList SlotFollowsHelper
