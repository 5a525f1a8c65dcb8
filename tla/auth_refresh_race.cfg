SPECIFICATION Spec
CONSTANTS
  Tokens = {t1, t2, t3, t4, t5, t6}
  Calls = {c1, c2}
  NoToken = NoToken
  AccessTTL = 2
  RefreshTTL = 3
  LogoutTTL = 3
  LogoutKinds = {"access"}
  MaxTime = 1
SYMMETRY TokenCallSymmetry
CHECK_DEADLOCK FALSE
INVARIANTS
  RefreshOnce
