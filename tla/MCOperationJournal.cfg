SPECIFICATION JournalFairSpec
CONSTANTS
  Servers = {s1}
  Keys = {k1, k2}
  Callers = {c1, c2}
  Containers = {a, b}
  MaxFaults = 1
INVARIANTS NoInterleaving AtMostOnce NilMeansWorked OrphansAreReviewed
PROPERTIES LockSpec ReviewDrains
