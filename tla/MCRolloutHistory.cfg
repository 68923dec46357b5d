SPECIFICATION Spec
CONSTANTS
  a = a
  b = b
  c = c
  Tasks = {a, b, c}
  Retired = {}
  MaxTime = 9
  Finalists <- RepairFinalists
  Draws = {1, 2, 4}
  Rollouts = 1
  Bucket = 2
CHECK_DEADLOCK FALSE
INVARIANTS
  AsWritten
