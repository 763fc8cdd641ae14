\* Two polls that may overlap, and every fault.
CONSTANTS
  Workers = {w1, w2}
  NFiles = 3
  Kind <- KindsOf3
  Archives = TRUE
  Limit = 2
  Faults = {"store", "send", "abort"}
  MaxTime = 2
  MaxStrikes = 2
SPECIFICATION Spec
SYMMETRY Symmetry
INVARIANTS TypeOK ReadyIsOnDisk RunsTellTheTruth ArchivedIsOnDisk ListedOnce
CHECK_DEADLOCK FALSE
