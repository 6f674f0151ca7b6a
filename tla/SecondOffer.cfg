SPECIFICATION Spec
CONSTANTS
  Orders = {o1, o2}
  Drivers = {d1}
  Rows = {a1, a2}
  Slots = {s1}
  None = None
  Handlers = {"create", "broadcast", "presence"}
SYMMETRY Symmetry
INVARIANTS SinglePendingPerDriver
