CONSTANTS
  Req = {r1, r2}
  Content = {c1, c2}
  MaxAttempts = 2
  RECENT_CAP = 2
  MaxTrouble = 2
  None = None
  Poison = Poison
SPECIFICATION FairSpec
INVARIANTS
  TypeOK
  CacheHoldsRealAnswers
  SharedOnceStored
  RecentIsTrue
  CountersTell
PROPERTIES
  EveryComplaintIsTriaged
