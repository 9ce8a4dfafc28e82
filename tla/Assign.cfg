SPECIFICATION Spec
CONSTANTS
  Rides = {r1}
  Drivers = {d1, d2}
  Riders = {u1}
  Keys = {}
  EmptyKey = EmptyKey
  Tokens = {t1, t2, t3}
  Handlers = {h1, h2}
  Workers = {w1}
  None = None
  Ops = {"create", "pending", "accept", "reject", "cancel"}
  OnDuty = {d1, d2}
  KnownRiders = {u1}
  MaxQueue = 1
  Faults = TRUE
  Serial = FALSE
  OffDutyOnly = FALSE
SYMMETRY FullSymmetry
INVARIANT TypeOK
INVARIANT MatchingAgreement
INVARIANT OneInside
PROPERTY OfferOnlyInMatching
PROPERTY ChanceKept
PROPERTY AssignmentSpec
