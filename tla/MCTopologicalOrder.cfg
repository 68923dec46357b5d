SPECIFICATION Spec
CONSTANTS
  Tasks = {1, 2, 3}
  Graphs <- AllGraphs
  Provided <- SomeOrders
CHECK_DEADLOCK FALSE
INVARIANTS
  TypeOK
  RefusalsExact
  AnswerHolds
  OrderCanonical
