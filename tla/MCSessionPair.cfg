SPECIFICATION Spec
CONSTANTS
  s1 = s1
  e1 = e1
  Stage <- StageOwners
  Echo <- EchoOwners
  MaxCalls = 1
  Fits = FALSE
INVARIANTS
  Exclusive
  NothingLeft
