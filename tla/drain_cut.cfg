CONSTANTS
  Req = {r1, r2}
  PreStop = 0
  Propagate = 12
  Graceful = 8
  Grace = 12
  MaxWork = 9
SPECIFICATION Spec
INVARIANTS
  InFlightRequestsDrain
