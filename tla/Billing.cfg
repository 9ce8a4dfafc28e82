SPECIFICATION FairSpec
CONSTANTS
  None = None
  Trips = {t1}
  Zones = {z1}
  Multipliers = {50, 150}
  Distances = {53}
  OtherStatuses = {"IN_PROGRESS"}
  Enders = {e1}
  Faults = TRUE
  Calls = {c1, c2}
  Keys = {k1, empty}
  EmptyKey = empty
  Amounts = {1050, 1099}
INVARIANT TypeOK
INVARIANT SameAnswer
INVARIANT DeclineRetried
INVARIANT NeverBelowPlainFare
PROPERTY LedgerSpec
PROPERTY PaymentsEnd
