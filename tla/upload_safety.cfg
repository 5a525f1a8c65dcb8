SPECIFICATION Spec
CONSTANTS
  Uploads = {u1, u2, u3}
  Workers = {w1, w2}
  QueueCap = 1
  Chunks = 1
  NoJob = NoJob
  Disturbances <- AllDisturbances
SYMMETRY SafetySymmetry
CHECK_DEADLOCK FALSE
INVARIANTS
  TypeOK
  RowsAreWhole
  NoLostAnswer
  StopDrains
