SPECIFICATION LifecycleSpec
CONSTANTS
  Threads = {t1, t2}
  Reconciler = rec
  Requests = {r1}
  Ops = {"start", "stop", "restart", "recreate", "freeze", "thaw"}
  Staged = {FALSE, TRUE}
  MaxContainers = 5
  MaxCalls = 2
  MaxMishaps = 1
  MaxFaults = 1
INVARIANTS OneMutator IdentityTracked SuccessMeansUp
PROPERTIES StopIsNotUndone
SYMMETRY AnyThread
