SPECIFICATION FairSpec
CONSTANTS
  Conn = {c1, c2}
  Signed = TRUE
  IdLen = 20
  Peer <- MCPeer
  TextLen = {126, 127}
  MaxFaults = 1
INVARIANTS TypeOK FramedParses
PROPERTIES CallIsExchange CallsReturn ShortArrives
