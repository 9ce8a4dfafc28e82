SPECIFICATION Spec
CONSTANTS
  Rides = {r1}
  Drivers = {d1}
  Riders = {u1}
  Keys = {}
  EmptyKey = EmptyKey
  Tokens = {t1}
  Handlers = {h1, h2, h3}
  Workers = {}
  None = None
  Ops = {"availability", "location"}
  OnDuty = {}
  KnownRiders = {u1}
  MaxQueue = 1
  Faults = TRUE
  Serial = FALSE
  OffDutyOnly = FALSE
SYMMETRY SlotSymmetry
PROPERTY LocationKeepsStatus
