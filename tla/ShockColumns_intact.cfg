\* Three configs, two names in one file, edits and deletions around two builds.
CONSTANTS
  Names = {"Exposure", "Tail risk", "Tail-risk"}
  Slug <- MCSlug
  Contents <- MCContents
  Default <- MCDefault
  Coordinates <- MCCoordinates
  MaxBuilds = 2
  MaxEdits = 3
SPECIFICATION Spec
INVARIANTS HeadingFitsIntact GridsAreOrdered
CHECK_DEADLOCK FALSE
