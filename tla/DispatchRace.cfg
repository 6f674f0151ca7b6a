SPECIFICATION Spec
CONSTANTS
  Orders = {o1}
  Drivers = {d1, d2}
  Rows = {a1, a2}
  Slots = {s1, s2}
  None = None
  Handlers = {"create", "broadcast", "offer", "accept", "reject", "cancelByOperator", "presence",
              "lapse", "abort"}
SYMMETRY Symmetry
INVARIANTS TypeOK ClaimAgrees
PROPERTIES ClaimImplemented
