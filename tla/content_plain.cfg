SPECIFICATION Spec
CONSTANTS
  Files = {f1}
  PlainFiles = {f1}
  Chunks = 2
  Downloads = {d1}
  Nobody = Nobody
  Counters <- TwoBits
  xor <- BitXor
  MaxDamage = 0
CHECK_DEADLOCK FALSE
INVARIANTS
  EveryFileReadable
