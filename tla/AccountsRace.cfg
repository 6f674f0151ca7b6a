SPECIFICATION MCSpec
CONSTANTS
  Drivers = {d1,d2}
  Operators = {p1}
  Phones = {n1, n2}
  Codes = {k1, k2}
  Slots = {s1, s2}
  None = None
SYMMETRY Symmetry
INVARIANTS TypeOK RowsAgree UncontestedIsSound
PROPERTIES ApplicationImplemented
CHECK_DEADLOCK FALSE
