SPECIFICATION Spec
CONSTANTS
  Containers = {1, 2, 3, 4}
  MaxFaults = 2
  MaxChanges = 2
  MaxFailures = 1
INVARIANTS OneWorldOpen SuccessKeepsIntent OpenWorldIsFound RestartOwesTheChange
PROPERTIES WindowHolds 
