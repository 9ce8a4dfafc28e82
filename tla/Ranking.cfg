SPECIFICATION Spec
CONSTANTS
  Drivers = {d1, d2, d3}
  Positions = {10000, 43000}
  Ratings <- MCRatings
  Radius = 50000
  Count = 2
  Away = Away
  NoRating = NoRating
  None = None
SYMMETRY DriverSymmetry
INVARIANT TypeOK
PROPERTY NobodyMissed
PROPERTY DetourBounded
