SPECIFICATION Spec
CONSTANTS
  Drivers = {d1}
  Slots = {s1, s2, s3}
  Amounts <- MCAmounts
  Fares <- MCFares
  Rates <- MCRates
  Bound = 3
  None = None
SYMMETRY Symmetry
INVARIANTS TypeOK OnlyCommissionOverdraws DriftNeedsLostUpdate PayoutsCovered
