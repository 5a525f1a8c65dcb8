SPECIFICATION Spec
CONSTANTS
  Files = {f1, f2, f3}
  PlainFiles = {f3}
  Chunks = 2
  Downloads = {d1}
  Nobody = Nobody
  Counters <- TwoBits
  xor <- BitXor
  MaxDamage = 2
SYMMETRY DownloadSymmetry
CHECK_DEADLOCK FALSE
INVARIANTS
  TypeOK
  BodyFromOneFile
  BodyIsBeginning
  CompleteIsExact
  GoodObjectIsServed
