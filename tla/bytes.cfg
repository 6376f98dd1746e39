SPECIFICATION Spec
CONSTANTS
  ID_LEN = 3
  BITS = 2
  Platforms = {TRUE, FALSE}
  Bounds <- MCBounds
INVARIANTS SumIsModular StartOnUnsigned IntervalOfRanks
