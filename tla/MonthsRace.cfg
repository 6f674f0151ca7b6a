SPECIFICATION Spec
CONSTANTS
  d1 = d1
  d2 = d2
  d3 = d3
  Payers = {d1, d2}
  Trips = {t1, t2}
  Closers = {k1, k2}
  Syncs = {r1, r2}
  LastMonth = 1
  MaxDue = 0
  Commissions = {1}
  NoSettlement = NoSettlement
  Racers = {d1, d2, d3}
  Rating <- Ratings
  Limit = 1
  TripPts = 2
  CancelPts = 1
  MaxScore = 1
  MaxEvents = 3
  MaxOverrides = 1
  NoOverride = NoOverride
  Admins = {r1, r2}
  MaxMonth = 4
  Tiers = {1, 2, 3}
  XpTier <- TierMarks
  MaxBonus = 1
  Uniform = 1
  TripXp = 2
  MaxGains = 2
  MaxTarget = 1
  Null = Null
SYMMETRY Alike
INVARIANTS
  SettledForGood OneBoard EditsAddUp
CHECK_DEADLOCK FALSE
