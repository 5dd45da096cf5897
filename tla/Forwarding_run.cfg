SPECIFICATION FairDelivery
CONSTANTS
  MaxChunks = 2
  MaxAttempts = 2
  Addresses = 2
  Vias = {"http", "mqtt0", "mqtt"}
INVARIANTS DeliveryTypeOK EveryChunkAnswered DeliveredInOrder
PROPERTY WorkflowEnds
CHECK_DEADLOCK FALSE
