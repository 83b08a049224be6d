SPECIFICATION SessionSpec
CONSTANTS
  Tabs = {1}
  Tokens = {11, 12}
  Accesses = {"accounts", "anonymous", "open"}
  Requests = {"data"}
  MaxMoves = 1
  MaxFaults = 1
 
PROPERTIES RefusedLeaves
