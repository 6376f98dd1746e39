SPECIFICATION Spec
CONSTANTS
  M = 3
  Nil = Nil
  Node = {0, 1, 4}
  Founders = {0, 4}
  Id <- MCId
  Start <- MCStart
  Talk <- Silent
  Creator = 0
  MaxFails = 0
  MaxGlitches = 0
  Timely = TRUE
  LiveContact = TRUE
INVARIANTS OneRing OrderedRing NobodyCrashes
PROPERTY SuccessorImproves
