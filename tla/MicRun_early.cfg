SPECIFICATION FairSpec
CONSTANTS
  Stoppers = {s1}
  MaxRestarts = 1
  InitialDelay = 2
  MaxDelay = 3
  StopsDuringStart = TRUE
PROPERTIES CancelCloses
CHECK_DEADLOCK FALSE
