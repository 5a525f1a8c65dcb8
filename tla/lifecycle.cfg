SPECIFICATION FairSpec
CONSTANTS
  Uploads = {u1}
  WorkerCount = 1
  Deletes = {x1, x2}
  Consumers = {deleted, audit}
  Reaper = deleted
  Faults <- AllFaults
  MaxOutages = 1
  MaxRestarts = 1
CHECK_DEADLOCK FALSE
INVARIANTS
  TypeOK
  ResourcesOutliveUsers
  BufferFlushed
  HandledAtMostOnce
  NothingSkipped
PROPERTIES
  DeletionReachesConsumer
  ShutdownCompletes
