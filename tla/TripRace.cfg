SPECIFICATION Spec
CONSTANTS
  Orders = {o1}
  Drivers = {d1, d2}
  Rows = {a1, a2}
  Slots = {s1, s2}
  None = None
  Handlers = {"create", "broadcast", "accept", "cancelByOperator", "cancelByDriver", "noShow",
              "arrived", "start", "dispute", "resolve", "complete", "suspend", "abort"}
SYMMETRY Symmetry
INVARIANT ChargedAfterPickup
PROPERTIES ClaimImplemented
