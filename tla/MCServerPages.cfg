SPECIFICATION PagesSpec
CONSTANTS
  Servers = {1, 2}
  Keys = {11}
  MaxMoves = 2
  MaxFaults = 1
INVARIANTS KeysAreOwned
PROPERTIES ShowsItsServer 
