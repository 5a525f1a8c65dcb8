SPECIFICATION FairSpec
CONSTANTS
  Uploads = {u1}
  WorkerCount = 1
  Deletes = {x1}
  Consumers = {deleted, audit}
  Reaper = deleted
  Faults = {}
  MaxOutages = 0
  MaxRestarts = 0
CHECK_DEADLOCK FALSE
PROPERTIES
  GracefulShutdownCompletes
