SPECIFICATION FairSpec
CONSTANTS
  M = 3
  Nil = Nil
  Node = {0, 3}
  Founders = {0}
  Id <- MCId
  Start <- MCStart
  Talk <- Silent
  Creator = 0
  MaxFails = 0
  MaxGlitches = 0
  Timely = FALSE
  LiveContact = TRUE
PROPERTY JoinTakesEffect
CHECK_DEADLOCK FALSE
