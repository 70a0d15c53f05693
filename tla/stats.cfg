CONSTANTS
  Writer = {w1, w2}
  Reader = {g1}
  Selects = 3
  TTL = 2
  MaxLag = 1
SPECIFICATION FairSpec
INVARIANTS
  StaleOnlyIfOvertaken
  StalenessWithinTTLAndLag
  AnswersRunForward
PROPERTIES
  Converges
