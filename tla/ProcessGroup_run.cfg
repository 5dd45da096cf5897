SPECIFICATION FairSpec
CONSTANTS
  mic = mic
  file = file
  Sessions <- TwoSources
  Replays = {file}
  Dropping = {mic}
  Topologies = {"shared-model", "per-input-model"}
  Chunks = 1
  Capacity = 1
  TelemetryRoom = 2
  Mortal = {mic, "model"}
  Crashes = 1
INVARIANTS TypeOK StoppedMeansAnswered  EndedMeansOver
PROPERTY StopEnds
