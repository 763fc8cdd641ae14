\* Files of up to 149 rows, one of them with up to two odd cells, seven profiles.
CONSTANTS
  RowKinds <- MCRowKinds
  Plain <- Option
  Sizes = {0, 1, 51, 100, 149}
  Profiles <- MCProfiles
  Absent = {"right"}
SPECIFICATION Spec
INVARIANT AcceptedIsPriceable
PROPERTY BookKeepsItsSize
CHECK_DEADLOCK FALSE
