\* Two build processes, two request threads, room for one loaded batch.
CONSTANTS
  Builders = {b1, b2}
  Threads = {t1, t2}
  Ids = {x, y}
  Dims = {desk}
  Store = "local"
  MaxBuilds = 2
  MaxBatches = 1
  None = None
SPECIFICATION Spec
SYMMETRY Symmetry
INVARIANTS TypeOK RecordIsWhole SnapshotIfQuiet QuietIsServed
CHECK_DEADLOCK FALSE
