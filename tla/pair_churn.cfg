SPECIFICATION FairSpec
CONSTANTS
  M = 3
  Nil = Nil
  Node = {0, 1}
  Founders = {0}
  Id <- MCId
  Start <- MCStart
  Talk <- Silent
  Creator = 0
  MaxFails = 1
  MaxGlitches = 1
  Timely = FALSE
  LiveContact = FALSE
PROPERTIES LookupsEnd RoundsEnd DeadForgotten
CHECK_DEADLOCK FALSE
