\* One-row files and a profile that derives the days from the expiry: an option
\* whose expiry has passed.
CONSTANTS
  RowKinds <- MCRowKinds
  Plain <- Option
  Sizes = {0, 1}
  Profiles <- MCProfiles
  Absent = {}
SPECIFICATION Spec
INVARIANT ExpiredIsRefused
CHECK_DEADLOCK FALSE
