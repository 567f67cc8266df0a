SPECIFICATION FairSpec
CONSTANTS
  Pattern <- MainPattern
  MallocFails = TRUE
  LinkFails = TRUE
INVARIANTS TypeOK Integrity AckedIsAccepted InStep MutualWaitNeedsLoss IInv
PROPERTIES HandoverSpec Completion LinkLossEnds
