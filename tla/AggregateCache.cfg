\* Two threads, every kind of key, three requests; threads are fair.  No
\* symmetry, as one property is a liveness property.
CONSTANTS
  r1 = r1
  r2 = r2
  d1 = d1
  roll = roll
  huge = huge
  Threads = {t1, t2}
  NoThread = NoThread
  Keys = {r1, r2, d1, roll, huge}
  RootOf <- MCRootOf
  Rollups <- MCRollups
  SizeOf <- MCSizeOf
  Budget = 4
  MaxRequests = 3
SPECIFICATION FairSpec
INVARIANTS
  TypeOK
  BytesAccounted
  WithinBudget
  SharedUnlessSpoiled
PROPERTIES
  StoreKeepsItsEntry
  ImplementsLru
  RequestsFinish
CHECK_DEADLOCK FALSE
