SPECIFICATION Spec
CONSTANTS
  Messages = {m1, m2}
  MaxRetries = 1
  MaxDeaths = 1
  Drivers = {d1}
  Devices = {f1, f2}
  Pushes = {q1, q2}
  Zones = {z1, z2}
  News = {b1}
  ChatMessages = {c1, c2}
  MaxTime = 3
  NoValue = NoValue
INVARIANTS
  TypeOK OutcomeIsTrue DeviceReachable AudienceRight ThreadsTell
PROPERTIES QueuedIsSettled
CHECK_DEADLOCK FALSE
