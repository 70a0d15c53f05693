CONSTANTS
  N = 3
  PAGE_SIZE = 1
  None = None
  Filters = {None, "open"}
  MaxRequests = 3
  MaxChanges = 1
SPECIFICATION NamedSpec
INVARIANTS
  TypeOK
  TableAnswersTheQuery
  WalkMissesOnlyTheUncounted
  ShownWasTrue
  
  ButtonsComeBack
CHECK_DEADLOCK FALSE
