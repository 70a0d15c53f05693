CONSTANTS
  Req = {r1, r2, r3}
  Id = {c1}
  None = None
SPECIFICATION UnderWaySpec
INVARIANTS
  LockDiscipline
  OneWinnerPerStatus
  AnswersAreTrue
  InvalidatedAfterCommit
PROPERTIES
  ImplementsStatusMachine
  EveryRequestEnds
