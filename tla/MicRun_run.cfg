SPECIFICATION FairSpec
CONSTANTS
  Stoppers = {s1, s2}
  MaxRestarts = 1
  InitialDelay = 2
  MaxDelay = 3
  StopsDuringStart = FALSE
  
PROPERTIES CancelCloses Recovers ShutdownFinishes 
CHECK_DEADLOCK FALSE
