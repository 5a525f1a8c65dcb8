SPECIFICATION StoresSpec
CONSTANTS
  Registrations = {r1, r2}
  Logins = {l1}
  Names = {n1, n2}
  Emails = {e1, e2, e0}
  Passwords = {p1, p0}
  GoodNames = {n1, n2}
  GoodEmails = {e1, e2}
  GoodPasswords = {p1}
  LoginEmails = {e1, e2}
  LoginPasswords = {p1, p0}
  NoAccount = NoAccount
  Counts = {c1, c2, c3}
  Sweeps = {s1}
  Keys = {k1, k2, k3}
  MaxLives = 2
  MaxBatches = 4
CONSTRAINT OneAtATime
SYMMETRY StoresSymmetry
CHECK_DEADLOCK FALSE
INVARIANTS
  TypeOK
  CreatedCanLogIn
  AnswersAreTrue
  RanksDistinct
  SweepIsComplete
