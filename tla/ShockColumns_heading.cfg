\* One edit.
CONSTANTS
  Names = {"Exposure", "Tail risk", "Tail-risk"}
  Slug <- MCSlug
  Contents <- MCContents
  Default <- MCDefault
  Coordinates <- MCCoordinates
  MaxBuilds = 2
  MaxEdits = 1
SPECIFICATION Spec
INVARIANT HeadingFits
CHECK_DEADLOCK FALSE
