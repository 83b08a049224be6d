SPECIFICATION WorldSpec
CONSTANTS
  Restorers = {r1}
  Movers = {}
  Backers = {b1}
  BackupsOverlap = TRUE
  NoOne = NoOne
  MaxFaults = 0
  MaxCrashes = 0
INVARIANTS AWorldSurvives
CHECK_DEADLOCK FALSE
