SPECIFICATION Spec
CONSTANTS
  M = 3
  Nil = Nil
  Node = {0, 1, 4}
  Founders = {0, 1, 4}
  Id <- MCId
  Start <- MCStart
  Talk <- Silent
  Creator = 0
  MaxFails = 1
  MaxGlitches = 0
  Timely = FALSE
  LiveContact = TRUE
INVARIANTS LookupAdvances CrashNeedsFailure LinksLast NullNeedsDead
PROPERTY LookupIsDirectory
CHECK_DEADLOCK FALSE
