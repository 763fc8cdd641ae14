\* Books of three positions, two dimensions, every filter kind, pages of one.
CONSTANTS
  Books <- MCBooks
  Dims <- MCDims
  Numbers <- MCNumbers
  Scens <- MCScens
  Filters <- MCFilters
  MaxGroups = 2
  PageSize = 1
  MaxRows = 4
SPECIFICATION Spec
INVARIANTS RollupIsExact TotalsCoverRows GroupFilterKeepsSums ExpandedAddsUp PagesPartition ReportAddsUp
CHECK_DEADLOCK FALSE
