CONSTANTS
  Req = {r1, r2}
  Content = {c1}
  MaxAttempts = 2
  RECENT_CAP = 2
  MaxTrouble = 0
  None = None
  Poison = Poison
SPECIFICATION Spec
INVARIANTS
  AlwaysA201
