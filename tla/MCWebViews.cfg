SPECIFICATION Spec
CONSTANTS
  Subjects = {1, 2}
  MaxEdits = 1
  MaxSwitches = 1
  MaxMisses = 1
  Paths = {1, 2}
  MaxOpens = 2
  MaxTyped = 2
  MaxRefused = 1
  Hosts = {1, 2}
  MaxChanges = 1
  MaxVisits = 1
  MaxLapses = 1
  Results = {1, 2}
  MaxAsked = 2
  MaxInstalls = 1
  MaxBroken = 1
  PackMods = {1, 2}
  Requires <- Circle
  Depth = 1
  MaxOps = 2
  MaxElsewhere = 1
  MaxMissed = 1
INVARIANTS FormIsOfServer AnswersAreNewest 
PROPERTIES  WaitsEnd
CHECK_DEADLOCK FALSE
