SPECIFICATION Spec
CONSTANTS
  Patches = {r1, r2}
  BpsCap = 1
  AmountCap = 1
  EnvBps = 1
  EnvMin = 0
  EnvLow = 1
  Absent = Absent
  Files = {f1, f2}
  MaxBanners = 2
  Uploads = {r1, r2}
  Callers = {r1, r2}
  MaxKm = 1
  MaxFee = 1
  Starting <- TwoRings
  MaxRings = 4
  MaxProfiles = 2
  MaxEdits = 1
  Nobody = Nobody
  Batches = {r1, r2}
  TrackedZones = {z1, z2}
  Paths <- Roads
  EndOfTime = 2
  MaxAge = 1
  MaxRows = 3
  Nowhere = Nowhere
SYMMETRY Alike
INVARIANTS
  SettingsServe QuotedFromOneTariff ChargedAsPromised RoadIsTrue
CHECK_DEADLOCK FALSE
