SPECIFICATION Spec
CONSTANTS
  ID_LEN = 3
  BITS = 2
  Platforms = {TRUE}
  Bounds <- MCBounds
INVARIANT StartAsDocumented
