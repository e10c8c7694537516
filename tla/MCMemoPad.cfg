SPECIFICATION PadSpec
CHECK_DEADLOCK FALSE
CONSTANTS
  MaxEdits = 3
  MaxSealed = 2
  MaxKeys = 3
  MaxFaults = 2
  Actors = {p, q}
  NoActor = NoActor
  MaxTyped = 2
  MaxGen = 5
  MaxEnds = 1
  StepUnits = 1
  MaxFailures = 2
  MaxBackoff = 2
  RollbackResetSteps = 1
  MaxTime = 3
  MaxSecrets = 1
SYMMETRY ActorSymmetry
INVARIANTS
  PlainCopiesRetired OnePasswordOpens EditsSurvive SavedIsStored
  AcceptedOnce GateStaysOn
PROPERTY
  KeepsDocument
