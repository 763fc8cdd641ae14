\* Polls that abort.
CONSTANTS
  Workers = {w1}
  NFiles = 2
  Kind <- KindsOf2
  Archives = TRUE
  Limit = 2
  Faults = {"abort"}
  MaxTime = 1
  MaxStrikes = 1
SPECIFICATION Spec
INVARIANT ArchivedIsRecorded
CHECK_DEADLOCK FALSE
