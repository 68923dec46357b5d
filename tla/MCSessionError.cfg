SPECIFICATION Spec
CONSTANTS
  s1 = s1
  e1 = e1
  Stage <- NoOwners
  Echo <- EchoOwners
  MaxCalls = 1
  Fits = TRUE
INVARIANTS
  ErrorReaps
