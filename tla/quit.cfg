SPECIFICATION FairSpec
CONSTANTS
  Handler = {h1, h2}
  MaxServers = 3
PROPERTY QuitEnds
CHECK_DEADLOCK FALSE
