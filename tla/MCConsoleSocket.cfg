SPECIFICATION ConsoleSpec
CONSTANTS
  Servers = {A, B}
  MaxSockets = 3
  MaxActs = 3
  MaxLosses = 2
  MaxQueue = 2
INVARIANTS OneLiveSocket 
PROPERTIES Recovers
CHECK_DEADLOCK FALSE
