SPECIFICATION FairSpec
CONSTANTS
  a = a
  b = b
  None = None
  Sessions = {a, b}
  Drop = {b}
  Stopped = {a}
  Faulty = {a}
  IngressCap = 2
  WorkCap = 1
  MaxSequence <- TwoAndOne
  Timed = TRUE
INVARIANTS TypeOK ChunksAccounted StoppedMeansDrained
PROPERTIES SessionSettles
CHECK_DEADLOCK FALSE
