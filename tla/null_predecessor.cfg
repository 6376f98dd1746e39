SPECIFICATION Spec
CONSTANTS
  M = 3
  Nil = Nil
  Node = {0, 3}
  Founders = {}
  Id <- MCId
  Start <- MCStart
  Talk <- Silent
  Creator = 0
  MaxFails = 0
  MaxGlitches = 0
  Timely = TRUE
  LiveContact = TRUE
INVARIANT PredecessorAnswered
CHECK_DEADLOCK FALSE
