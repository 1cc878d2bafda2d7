SPECIFICATION Spec
CONSTANTS
  Unset = Unset  None = None  Garbled = Garbled
  Rules <- TwoMoves
  Passes <- CheckJson  Fits <- FieldsFit  Stored <- Reloaded
  MaxFieldDepth = 4  MaxJsonBytes = 40
  States = {"open", "shut"}
  Initial = "open"
  FieldNames = {"f"}
  Values <- Plain
  MaxEvents = 4
  MaxDrift = 3
  MaxFaults = 1
INVARIANTS NoFalseAlarm DamageReported Counted HeadsVisible
CHECK_DEADLOCK FALSE
