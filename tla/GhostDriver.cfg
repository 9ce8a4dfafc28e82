SPECIFICATION Spec
CONSTANTS
  Rides = {r1}
  Drivers = {d1}
  Riders = {u1}
  Keys = {}
  EmptyKey = EmptyKey
  Tokens = {t1}
  Handlers = {h1, h2}
  Workers = {w1}
  None = None
  Ops = {"availability", "location"}
  OnDuty = {d1}
  KnownRiders = {u1}
  MaxQueue = 1
  Faults = FALSE
  Serial = FALSE
  OffDutyOnly = FALSE
INVARIANT OfflineLeavesGeo
