SPECIFICATION Spec
CHECK_DEADLOCK FALSE
CONSTANTS
  Actors = {p, q}
  NoActor = NoActor
  MaxEdits = 2
  MaxGen = 5
  MaxEnds = 1
PROPERTY TypingSurvivesMask
