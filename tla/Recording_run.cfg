SPECIFICATION FairSpec
CONSTANTS
  MaxIds = 2
  None = None
  MaxFrames = 1
  Room = 1
  MaxFaults = 1
INVARIANTS  CompletedMeansWhole DeletedStaysGone
PROPERTY RecordingEnds
CHECK_DEADLOCK FALSE
