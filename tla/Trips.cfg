SPECIFICATION FairSpec
CONSTANTS
  Rides = {r1}
  Drivers = {d1}
  Riders = {u1}
  Keys = {}
  EmptyKey = EmptyKey
  Tokens = {t1}
  Handlers = {h1, h2}
  Workers = {w1}
  None = None
  Ops = {"create", "pending", "accept", "cancel", "start", "end"}
  OnDuty = {d1}
  KnownRiders = {u1}
  MaxQueue = 1
  Faults = TRUE
  Serial = FALSE
  OffDutyOnly = FALSE
INVARIANT LocksHeldInside
INVARIANT DriverBehindTrip
INVARIANT DeadlockCostsNoRide
PROPERTY IllegalMoveIsStale
PROPERTY CallsEnd
