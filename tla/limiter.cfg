CONSTANTS
  Req = {r1, r2, r3}
  Limit = 1
  Second = 4000
  Window = 8000
  MaxTime = 15999
  MaxTries = 2
  MaxLost = 1
  Times <- MCTimes
  Offsets <- MCOffsets
SPECIFICATION Spec
SYMMETRY Symmetry
INVARIANTS
  WindowLimit
  RefusedOnlyOverLimit
  AtMostTwiceTheLimit
  AlmostEnough
