SPECIFICATION FairSpec
CONSTANTS
  Sockets = {s1, s2}
  Channels = {ride}
  Requests = {q1, q2}
  q1 = q1
  q2 = q2
  None = None
  Pool = 1
  Env = "local"
  RateLimited = TRUE
  Asked <- MCAsked
  RideChannel = ride
  DriverChannel = ride
CHECK_DEADLOCK FALSE
PROPERTY HealthAnswers
