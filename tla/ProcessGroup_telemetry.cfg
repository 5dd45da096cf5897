SPECIFICATION FairSpec
CONSTANTS
  mic = mic
  file = file
  Sessions <- OneSource
  Replays = {}
  Dropping = {}
  Topologies = {"per-input-model"}
  Chunks = 2
  Capacity = 1
  TelemetryRoom = 1
  Mortal = {}
  Crashes = 0
PROPERTY StopEnds
