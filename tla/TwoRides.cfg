SPECIFICATION Spec
CONSTANTS
  Rides = {r1, r2}
  Drivers = {d1}
  Riders = {u1}
  Keys = {}
  EmptyKey = EmptyKey
  Tokens = {t1, t2, t3}
  Handlers = {h1, h2}
  Workers = {w1}
  None = None
  Ops = {"create"}
  OnDuty = {}
  KnownRiders = {u1}
  MaxQueue = 1
  Faults = FALSE
  Serial = FALSE
  OffDutyOnly = FALSE
CHECK_DEADLOCK FALSE
INVARIANT OneActiveRide
