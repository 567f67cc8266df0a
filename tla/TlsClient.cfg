SPECIFICATION ClientSpec
CONSTANTS
  Pattern <- ShortPattern
  MallocFails = TRUE
  LinkFails = TRUE
INVARIANTS ClientTypeOK LabelsHold NothingElseKept ReturnTells
PROPERTIES SessionEnds Starts
