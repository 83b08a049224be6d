SPECIFICATION SchedulerSpec
CONSTANTS
  parent = parent
  child = child
  Tasks = {parent, child}
  Children <- ChildrenOf
  Schedule <- ScheduleOf
  Gated = {child}
  Continues = {parent}
  Runs = {1, 2}
  MaxOccurrences = 2
  MaxRequests = 1
  MaxExits = 1
  MaxFaults = 1
INVARIANTS RootRunsOnce RowsFollowRuns OncePerOccurrence
CHECK_DEADLOCK FALSE
