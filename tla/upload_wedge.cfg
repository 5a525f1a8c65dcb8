SPECIFICATION Spec
CONSTANTS
  Uploads = {u1, u2}
  Workers = {w1}
  QueueCap = 1
  Chunks = 1
  NoJob = NoJob
  Disturbances = {"disconnect", "metadata"}
CHECK_DEADLOCK FALSE
INVARIANTS
  ResultSendNeverBlocks
