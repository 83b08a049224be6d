--------------------------- MODULE MCTaskScheduler ---------------------------
(* Model-checking instance of TaskScheduler: a recurring task with a chain step *)
(* that an event also starts by itself.        *)
EXTENDS TaskScheduler, TLC
CONSTANTS parent, child
ChildrenOf == parent :> <<child>> @@ child :> <<>>
ScheduleOf == parent :> "recurring" @@ child :> "event"
==============================================================================
