SPECIFICATION Spec
CONSTANTS
  Orders = {o1, o2}
  Drivers = {d1, d2}
  Rows = {a1, a2, a3}
  Slots = {s1}
  None = None
  Handlers = {"create", "broadcast", "offer", "accept", "reject", "cancelByOperator", "cancelByDriver",
              "noShow", "arrived", "start", "dispute", "resolve", "complete", "presence", "lapse"}
SYMMETRY Symmetry
INVARIANTS TripFollowsOrder ChargedExactlyOnce NoOfferOnTakenOrder OfferedMeansPending BusyMeansOnTrip
PROPERTIES LifecycleImplemented
