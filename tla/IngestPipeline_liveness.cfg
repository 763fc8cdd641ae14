\* No faults, more places in a poll than bad files.
CONSTANTS
  Workers = {w1}
  NFiles = 5
  Kind <- KindsOf5
  Archives = TRUE
  Limit = 4
  Faults = {}
  MaxTime = 2
  MaxStrikes = 0
SPECIFICATION FairSpec
PROPERTY GoodFilesAreListed
CHECK_DEADLOCK FALSE
