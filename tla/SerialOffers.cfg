SPECIFICATION Spec
CONSTANTS
  Rides = {r1, r2}
  Drivers = {d1, d2}
  Riders = {u1, u2}
  Keys = {k1, empty}
  EmptyKey = empty
  Tokens = {t1, t2}
  Handlers = {h1}
  Workers = {w1}
  None = None
  Ops = {"create", "pending", "accept", "reject", "cancel"}
  OnDuty = {d1, d2}
  KnownRiders = {u1, u2}
  MaxQueue = 1
  Faults = TRUE
  Serial = TRUE
  OffDutyOnly = TRUE
SYMMETRY FullSymmetry
INVARIANT ReverseLookup
INVARIANT OneChance
INVARIANT ReplayAnswered
