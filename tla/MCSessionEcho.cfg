SPECIFICATION Spec
CONSTANTS
  s1 = s1
  e1 = e1
  Stage <- NoOwners
  Echo <- EchoOwners
  MaxCalls = 3
  Fits = TRUE
INVARIANTS
  TypeOK
  OwnAnswer
PROPERTIES
  Returns
  OrphansEnd
