SPECIFICATION AskedSpec
CONSTANTS
  Handler = {h1, h2, h3}
  MaxServers = 4
INVARIANTS TypeOK OneServer FreedUnused ChatUndisturbed
PROPERTIES ServerReturns QuitEnds
CHECK_DEADLOCK FALSE
