SPECIFICATION FairSpec
CONSTANTS
  Uploads = {u1, u2, u3}
  Workers = {w1}
  QueueCap = 1
  Chunks = 1
  NoJob = NoJob
  Disturbances = {"disconnect", "shutdown", "drainTimeout"}
CHECK_DEADLOCK FALSE
INVARIANTS
  ObjectsAccounted
  ResultSendNeverBlocks
PROPERTIES
  ImplementsContract
  EncryptorsEnd
  CreatedLeadsToEvent
