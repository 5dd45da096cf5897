SPECIFICATION FairSpec
CONSTANTS
  EventLimit = 2
  DisplayLimit = 3
  Kinds = {"clip", "stress"}
  MaxReports = 3
  MaxGeneration = 1
  Failing = TRUE
INVARIANTS GapsShown
PROPERTIES PageSettles
CHECK_DEADLOCK FALSE
