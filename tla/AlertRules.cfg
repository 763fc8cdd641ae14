\* Every edit and every fault.
CONSTANTS
  Rules = {a, b}
  Groups = {g}
  Edits = {"create", "mode", "recipients", "active", "delete"}
  Faults = {"send", "evaluate", "abort"}
  MaxBatches = 3
  MaxEdits = 2
SPECIFICATION Spec
SYMMETRY Symmetry
INVARIANTS TypeOK NoOrphanState StateFollowsBatch ToldOnce BreachIsTold
PROPERTY StandingIsQuiet
CHECK_DEADLOCK FALSE
