CONSTANTS
  Writer = {w1}
  Reader = {g1}
  Selects = 5
  TTL = 1
  MaxLag = 1
SPECIFICATION Spec
INVARIANTS
  InvalidationSticks
