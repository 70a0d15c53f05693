CONSTANTS
  Req = {r1, r2}
  PreStop = 4
  Propagate = 3
  Graceful = 8
  Grace = 18
  MaxWork = 9
SPECIFICATION Spec
SYMMETRY Symmetry
INVARIANTS
  NobodyRefused
  CutOnlyAfterItsTime
  KilledOnlyIfStuck
  EveryoneIsCounted
