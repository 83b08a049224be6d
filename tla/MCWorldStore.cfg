SPECIFICATION WorldSpec
CONSTANTS
  Restorers = {r1, r2}
  Movers = {m1}
  Backers = {b1}
  BackupsOverlap = FALSE
  NoOne = NoOne
  MaxFaults = 2
  MaxCrashes = 2
INVARIANT AWorldSurvives
  
SYMMETRY AnyRestorer
CHECK_DEADLOCK FALSE
