CONSTANTS
  Pod = {p1, p2}
  Nobody = Nobody
  Dead = Dead
  MaxCrashes = 1
  MaxMoves = 1
SPECIFICATION FairSpec
INVARIANTS
  TypeOK
  MigratedOnce
  ServesMigratedAndSeeded
  DemoDataIsVaried
PROPERTIES
  SeedIsIdempotent
  EveryPodServes
CHECK_DEADLOCK FALSE
