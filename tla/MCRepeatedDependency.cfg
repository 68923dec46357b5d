SPECIFICATION Spec
CONSTANTS
  Tasks = {1, 2, 3}
  Graphs <- AllGraphs
  Provided <- NoOrders
CHECK_DEADLOCK FALSE
INVARIANTS
  SameOrder
