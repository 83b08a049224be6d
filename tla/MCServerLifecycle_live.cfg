SPECIFICATION LifecycleFairSpec
CONSTANTS
  Threads = {t1, t2}
  Reconciler = rec
  Requests = {r1}
  Ops = {"start", "stop_task", "restart_task", "start_task"}
  Staged = {FALSE}
  MaxContainers = 5
  MaxCalls = 2
  MaxMishaps = 1
  MaxFaults = 1
PROPERTIES RowCatchesUp
