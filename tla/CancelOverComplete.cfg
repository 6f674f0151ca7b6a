SPECIFICATION Spec
CONSTANTS
  Orders = {o1}
  Drivers = {d1}
  Rows = {a1}
  Slots = {s1, s2}
  None = None
  Handlers = {"create", "broadcast", "accept", "arrived", "start", "complete", "cancelByOperator"}
SYMMETRY Symmetry
PROPERTIES OperatorCancelsOnlyOpenOrders
