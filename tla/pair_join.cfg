SPECIFICATION FairSpec
CONSTANTS
  M = 3
  Nil = Nil
  Node = {0, 1}
  Founders = {}
  Id <- MCId
  Start <- MCStart
  Talk <- TalkFar
  Creator = 0
  MaxFails = 1
  MaxGlitches = 0
  Timely = TRUE
  LiveContact = TRUE
INVARIANT TypeOK
PROPERTY Converges
CHECK_DEADLOCK FALSE
