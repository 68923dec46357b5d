SPECIFICATION Spec
CONSTANTS
  a = a
  b = b
  c = c
  Tasks = {a, b, c}
  Retired = {}
  MaxTime = 9
  Finalists <- AllFinalists
  Draws = {1, 2, 4}
  Rollouts = 2
  Bucket = 2
CHECK_DEADLOCK FALSE
INVARIANTS
  TypeOK
  CoverageCounts
  NeverLater
  KeptWithPrerequisites
  FailuresAccounted
  FreshAsWritten
