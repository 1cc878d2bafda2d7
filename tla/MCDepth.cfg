SPECIFICATION Spec
CONSTANTS
  Unset = Unset  None = None  Garbled = Garbled
  Rules <- TwoMoves
  Passes <- CheckJson  Fits <- FieldsFit  Stored <- Reloaded
  MaxFieldDepth = 4  MaxJsonBytes = 40
  States = {"open", "shut"}
  Initial = "open"
  FieldNames = {"f"}
  Values <- Deep
  MaxEvents = 2
  MaxDrift = 3
  MaxFaults = 0
INVARIANTS NoFalseAlarm
CHECK_DEADLOCK FALSE
