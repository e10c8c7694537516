SPECIFICATION Spec
CHECK_DEADLOCK FALSE
CONSTANTS
  Workers = {a}
  MaxReading = 1
  MaxRev = 4
  MaxLearn = 0
  MaxDict = 1
INVARIANT ClickCommitsShownRow
