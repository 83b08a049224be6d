SPECIFICATION UploadSpec
CONSTANTS
  Tabs = {1, 2}
  PageOf <- TwoPages
  Sessions = {11, 12, 13}
  Streams = {21, 22}
  Versions = {1}
  N = 2
  MaxUploads = 3
  MaxFaults = 1
INVARIANTS SavedIsWhole  
PROPERTIES UploadEnds
CHECK_DEADLOCK FALSE
