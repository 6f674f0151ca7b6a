SPECIFICATION Spec
CONSTANTS
  Drivers = {d1}
  Operators = {p1}
  Admins = {w1}
  Tokens = {t1, t2, t3}
  Codes = {c1}
  Slots = {s1, s2}
  OtpLogin = TRUE
  None = None
SYMMETRY Symmetry
INVARIANTS TypeOK SingleUse EndedForGood
CHECK_DEADLOCK FALSE
