SPECIFICATION Spec
CONSTANTS
  Rides = {r1, r2}
  Drivers = {d1}
  Riders = {u1, u2}
  Keys = {}
  EmptyKey = EmptyKey
  Tokens = {t1, t2}
  Handlers = {h1}
  Workers = {w1}
  None = None
  Ops = {"create", "pending", "accept", "cancel", "start", "pause", "resume", "end", "availability", "location"}
  OnDuty = {d1}
  KnownRiders = {u1, u2}
  MaxQueue = 1
  Faults = TRUE
  Serial = TRUE
  OffDutyOnly = TRUE
SYMMETRY SlotSymmetry
INVARIANT OneActiveRide
INVARIANT OfflineNotInGeo
PROPERTY LifecycleSpec
