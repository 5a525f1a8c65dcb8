SPECIFICATION FairSpec
CONSTANTS
  Uploads = {u1, u2, u3}
  Workers = {w1}
  QueueCap = 1
  Chunks = 1
  NoJob = NoJob
  Disturbances = {"invalid", "source", "storage", "storageAck", "metadata", "shutdown"}
CHECK_DEADLOCK FALSE
INVARIANTS
  AnswersTellRows
  NoSendOnClosedQueue
PROPERTIES
  EveryRequestAnswered
  StopCompletes
