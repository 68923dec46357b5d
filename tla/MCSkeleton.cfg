SPECIFICATION Spec
CONSTANTS
  a = a
  b = b
  c = c
  z = z
  Tasks = {a, b, c}
  Retired = {z}
  MaxTime = 5
  Requests <- AllRequests
CHECK_DEADLOCK FALSE
INVARIANTS
  TypeOK
  NoDoubleBooking
  CalendarHolds
  ProtectedKept
  DependencyOrder
  RefusalsJustified
  FirstFit
  ReportHonest
PROPERTIES
  Returns
  ImplementsContract
