SPECIFICATION Spec
CONSTANTS
  None = None
  Ids = {1, 2, 3, 4}
  Limit = 2
  MaxTime = 1
INVARIANTS NeverRepeated NoneMissed HistoryGapless
CHECK_DEADLOCK FALSE
