--------------------------- MODULE TaskScheduler ---------------------------
(***************************************************************************)
(* The task scheduler: the loop that dispatches due tasks, manual triggers *)
(* and events, the execution of a task and of its chain of children, the   *)
(* execution rows in the database, cancellation, shutdown and restart.     *)
(*                                                                         *)
(* A run is a goroutine (or a request) that executes a root task; its      *)
(* stack has a frame for the task and one for each chain step it is in     *)
(* (executeTaskAtDepth calls runChildChain, which calls it again).  Time   *)
(* is the nondeterministic arrival of a task's next run.                   *)
(***************************************************************************)
EXTENDS Integers, Sequences, SequencesExt

CONSTANTS
  Tasks,
  Children,        \* Children[t]: the chain steps of t, in step order
  Schedule,        \* Schedule[t]: "recurring" (cron, interval), "once" or "event"
  Gated,           \* the tasks with RequireOnline
  Continues,       \* the tasks with ContinueOnFailure
  Runs,            \* slots for goroutines and requests, one for each task at least
  MaxOccurrences,  \* bound on scheduled times that arrive
  MaxRequests,     \* bound on manual triggers, cancellations and events
  MaxExits,        \* bound on crashes and shutdowns
  MaxFaults        \* bound on failing database calls

ASSUME SchedulerAssumption ==
  /\ Children \in [Tasks -> Seq(Tasks)] /\ \A t \in Tasks : ~Contains(Children[t], t)
  /\ Schedule \in [Tasks -> {"recurring", "once", "event"}]
  /\ Gated \subseteq Tasks /\ Continues \subseteq Tasks
  /\ MaxOccurrences \in Nat /\ MaxRequests \in Nat /\ MaxExits \in Nat /\ MaxFaults \in Nat

VARIABLES
  panel,       \* whether the process and its scheduler run
  next,        \* next_run of each task: none, in the future, or due
  row,         \* the task_executions table, in order of creation
  listed,      \* the due tasks the loop's current pass has still to dispatch
  claimed,     \* runningTasks
  run,         \* the goroutines
  registered,  \* the rows whose cancel function is in runningExecutions
  signalled,   \* the rows whose execution context has been cancelled
  left,        \* the requests whose client has gone
  cancelling,  \* the row a CancelExecution took for an orphan
  owed,        \* scheduled times that arrived, less scheduled runs begun
  occurrences, requests, exits, faults

schedulerVars == <<panel, next, row, listed, claimed, run, registered, signalled, left,
                   cancelling, owed, occurrences, requests, exits, faults>>

None == 0
MaxChainDepth == 4

Statuses == {"running", "completed", "failed", "cancelled", "skipped"}
Triggers == {"scheduled", "manual", "event"}
Row == [task: Tasks, status: Statuses, trigger: Triggers]
Pcs == {"open", "register", "work", "write", "chain", "unwind"}
Frame == [task: Tasks, pc: Pcs, row: Nat, outcome: Statuses, kids: Seq(Tasks)]
Idle == [trigger |-> "none", stack |-> <<>>]

NewFrame(t) == [task |-> t, pc |-> "open", row |-> None, outcome |-> "running", kids |-> <<>>]
Active(r) == run[r] # Idle
Root(r) == Head(run[r].stack).task
Top(r) == Last(run[r].stack)
At(r, pc) == Active(r) /\ Top(r).pc = pc
Rows == 1..Len(row)
IsRunning(i) == row[i].status = "running"

SchedulerInit ==
  /\ panel = "up"
  /\ next = [t \in Tasks |-> IF Schedule[t] = "event" THEN "none" ELSE "later"]
  /\ row = <<>>
  /\ listed = {} /\ claimed = {}
  /\ run = [r \in Runs |-> Idle]
  /\ registered = {} /\ signalled = {} /\ left = {} /\ cancelling = None
  /\ owed = [t \in Tasks |-> 0]
  /\ occurrences = 0 /\ requests = 0 /\ exits = 0 /\ faults = 0

-----------------------------------------------------------------------------
Fails(n) == faults + n <= MaxFaults /\ faults' = faults + n
NoFault == UNCHANGED faults
NoContext == UNCHANGED <<registered, signalled, left, cancelling>>
NoClock == UNCHANGED <<panel, occurrences, exits>>

SetTop(r, f) == run' = [run EXCEPT ![r].stack = ReplaceAt(@, Len(@), f)]
Goto(r, pc) == SetTop(r, [Top(r) EXCEPT !.pc = pc])

\* Mutant: a recurring task is left for the next pass to advance.
UpdateNextRun_OnlyOnce(t, failed) ==
  next' = IF failed = 1 \/ Schedule[t] = "recurring" THEN next ELSE [next EXCEPT ![t] = "none"]

\* updateNextRun: only a cron or interval task has a next run.  An error is dropped.
UpdateNextRun(t, failed) ==
  next' = IF failed = 1 THEN next
          ELSE [next EXCEPT ![t] = IF Schedule[t] = "recurring" THEN "later" ELSE "none"]

\* tryClaimTask: neither claimed in memory nor running in the table; a table that
\* cannot be read does not refuse.
Recorded(t) == \E i \in Rows : row[i].task = t /\ IsRunning(i)
\* Mutant: only the table is asked.
TryClaim_RowsOnly(t, failed) == failed = 1 \/ ~Recorded(t)

TryClaim(t, failed) == t \notin claimed /\ (failed = 1 \/ ~Recorded(t))

Begin(t, trigger) ==
  /\ claimed' = claimed \union {t}
  /\ \E r \in Runs : ~Active(r)
  /\ LET r == CHOOSE r \in Runs : ~Active(r)
     IN run' = [run EXCEPT ![r] = [trigger |-> trigger, stack |-> <<NewFrame(t)>>]]

-----------------------------------------------------------------------------
(* The loop and the triggers *)

Elapse(t) ==
  /\ next[t] = "later" /\ occurrences < MaxOccurrences
  /\ next' = [next EXCEPT ![t] = "due"]
  /\ owed' = [owed EXCEPT ![t] = @ + 1]
  /\ occurrences' = occurrences + 1
  /\ UNCHANGED <<panel, row, listed, claimed, run, requests, exits, faults>> /\ NoContext

\* checkAndRunDueTasks lists once, then claims, advances and dispatches one by one.
Tick ==
  /\ panel = "up" /\ listed = {}
  /\ \E t \in Tasks : next[t] = "due"
  /\ listed' = {t \in Tasks : next[t] = "due"}
  /\ UNCHANGED <<next, row, claimed, run, owed, requests, faults>> /\ NoClock /\ NoContext

Dispatch(t) ==
  /\ t \in listed /\ listed' = listed \ {t}
  /\ \/ \E read, write \in 0..1 :
          /\ Fails(read + write)
          /\ TryClaim(t, read) /\ UpdateNextRun(t, write) /\ Begin(t, "scheduled")
          /\ owed' = [owed EXCEPT ![t] = @ - 1]
     \/ ~TryClaim(t, 0) /\ UNCHANGED <<next, claimed, run, owed, faults>>
  /\ UNCHANGED <<row, requests>> /\ NoClock /\ NoContext

Request == requests < MaxRequests /\ requests' = requests + 1
Requested(t, trigger) ==
  /\ Request
  /\ \E read \in 0..1 : Fails(read) /\ TryClaim(t, read) /\ Begin(t, trigger)
  /\ UNCHANGED <<next, row, listed, owed>> /\ NoClock /\ NoContext

\* The server no longer takes requests when the scheduler stops; events still come.
Trigger(t) == panel = "up" /\ Requested(t, "manual")
Event(t) == panel # "down" /\ Schedule[t] = "event" /\ Requested(t, "event")

-----------------------------------------------------------------------------
(* One execution: executeTaskAtDepth and runChildChain *)

NoLoop == UNCHANGED <<listed, owed, requests>>
Gone(r) == r \in left       \* the caller's context is cancelled

Register(r) ==
  /\ At(r, "register") /\ Goto(r, "work")
  /\ registered' = registered \union {Top(r).row}
  /\ UNCHANGED <<next, row, claimed, signalled, left, cancelling, faults>> /\ NoLoop /\ NoClock

\* The attempts, all of them, and what they end with, as execCtx.Err() classifies it
\* (a deadline that passed is a failure here, whoever cancelled afterwards).
Cancelled(r) == Gone(r) \/ Top(r).row \in signalled
Work(r) ==
  /\ At(r, "work")
  /\ \E end \in {"completed", "failed"} \union (IF Cancelled(r) THEN {"cancelled"} ELSE {}) :
       SetTop(r, [Top(r) EXCEPT !.pc = "write", !.outcome = end])
  /\ UNCHANGED <<next, row, claimed, faults>> /\ NoLoop /\ NoClock /\ NoContext

\* UpdateTaskExecution saves the whole row.
Settle(i, status) == row' = [row EXCEPT ![i].status = status]

Succeeded(f) == f.outcome \in {"completed", "skipped"}
Chains(r, f) == Len(run[r].stack) <= MaxChainDepth /\ (Succeeded(f) \/ f.task \in Continues)
Fork(r, f, failed) ==
  SetTop(r, [f EXCEPT !.pc = "chain",
                      !.kids = IF Chains(r, f) /\ ~Gone(r) /\ failed = 0 THEN Children[f.task] ELSE <<>>])

\* GetServer and CreateTaskExecution, which fail when the caller's context is gone.
Record(r, status) ==
  row' = Append(row, [task |-> Top(r).task, status |-> status, trigger |-> run[r].trigger])

Open(r) ==
  /\ At(r, "open")
  /\ \/ /\ ~Gone(r) /\ NoFault /\ Record(r, "running")
        /\ SetTop(r, [Top(r) EXCEPT !.pc = "register", !.row = Len(row) + 1])
     \/ /\ ~Gone(r) /\ Top(r).task \in Gated /\ Record(r, "skipped")
        /\ \E list \in 0..1 : Fails(list) /\ Fork(r, [Top(r) EXCEPT !.outcome = "skipped"], list)
     \/ /\ IF Gone(r) THEN NoFault ELSE Fails(1)
        /\ SetTop(r, [Top(r) EXCEPT !.pc = "unwind", !.outcome = "failed"])
        /\ UNCHANGED row
  /\ UNCHANGED <<next, claimed>> /\ NoLoop /\ NoClock /\ NoContext

\* Mutant: the row of a step with a chain is not saved before the chain.
Write_AfterChain(r) ==
  /\ At(r, "write") /\ NoFault
  /\ Fork(r, Top(r), 0)
  /\ IF Gone(r) \/ Children[Top(r).task] # <<>> THEN UNCHANGED row
     ELSE Settle(Top(r).row, Top(r).outcome)
  /\ UNCHANGED <<next, claimed>> /\ NoLoop /\ NoClock /\ NoContext

\* The row is saved under the caller's context, and an error is dropped; then the
\* chain steps are listed, or none if that fails.
Write(r) ==
  /\ At(r, "write")
  /\ \E write, list \in 0..1 :
       /\ Fails(write + list) /\ Fork(r, Top(r), list)
       /\ IF Gone(r) \/ write = 1 THEN UNCHANGED row ELSE Settle(Top(r).row, Top(r).outcome)
  /\ UNCHANGED <<next, claimed>> /\ NoLoop /\ NoClock /\ NoContext

\* The next chain step; the wait before it (TimeOffsetSecs) gives up with the caller.
NextKid(r) ==
  /\ At(r, "chain") /\ Top(r).kids # <<>>
  /\ \/ run' = [run EXCEPT ![r].stack =
                  Append(ReplaceAt(@, Len(@), [Top(r) EXCEPT !.kids = Tail(@)]),
                         NewFrame(Head(Top(r).kids)))]
     \/ Gone(r) /\ SetTop(r, [Top(r) EXCEPT !.kids = <<>>])
  /\ UNCHANGED <<next, row, claimed, faults>> /\ NoLoop /\ NoClock /\ NoContext

\* Back to the caller: a step that failed ends its parent's chain, unless it
\* continues; a root releases its claim.
Unwind(r) ==
  LET f == Top(r)
      rest == Front(run[r].stack)
      aborts == ~Succeeded(f) /\ f.task \notin Continues
  IN IF rest = <<>>
     THEN /\ run' = [run EXCEPT ![r] = Idle]
          /\ claimed' = claimed \ {f.task} /\ left' = left \ {r}
     ELSE /\ run' = [run EXCEPT ![r].stack =
                       IF aborts THEN ReplaceAt(rest, Len(rest), [Last(rest) EXCEPT !.kids = <<>>])
                       ELSE rest]
          /\ UNCHANGED <<claimed, left>>

Close(r) ==
  /\ \/ /\ At(r, "chain") /\ Top(r).kids = <<>>
        /\ IF run[r].trigger = "scheduled" THEN UNCHANGED next /\ NoFault
           ELSE \E write \in 0..1 : Fails(write) /\ UpdateNextRun(Top(r).task, write)
     \/ At(r, "unwind") /\ UNCHANGED next /\ NoFault
  /\ Unwind(r)
  /\ registered' = registered \ {Top(r).row} /\ signalled' = signalled \ {Top(r).row}
  /\ UNCHANGED <<row, cancelling>> /\ NoLoop /\ NoClock

ClientLeaves(r) ==
  /\ Active(r) /\ run[r].trigger = "manual" /\ left' = left \union {r} /\ left' # left
  /\ UNCHANGED <<next, row, claimed, run, registered, signalled, cancelling, faults>>
  /\ NoLoop /\ NoClock

-----------------------------------------------------------------------------
(* Cancellation, shutdown, restart *)

\* CancelExecution: signal what is registered, or take a running row for an orphan.
Cancel(i) ==
  /\ panel = "up" /\ cancelling = None /\ Request
  /\ \/ i \in registered \ signalled /\ signalled' = signalled \union {i} /\ UNCHANGED cancelling
     \/ i \notin registered /\ IsRunning(i) /\ cancelling' = i /\ UNCHANGED signalled
  /\ UNCHANGED <<next, row, listed, owed, claimed, run, registered, left, faults>> /\ NoClock

CancelOrphan ==
  /\ cancelling # None /\ cancelling' = None
  /\ \/ Settle(cancelling, "cancelled") /\ NoFault
     \/ Fails(1) /\ UNCHANGED row
  /\ UNCHANGED <<next, claimed, run, registered, signalled, left>> /\ NoLoop /\ NoClock

\* Stop: the loop ends after its pass; every goroutine is waited for, and only
\* then is what remains, the requests' executions, cancelled.
Stop ==
  /\ panel = "up" /\ exits < MaxExits /\ exits' = exits + 1
  /\ panel' = "stopping"
  /\ UNCHANGED <<next, row, claimed, run, occurrences, faults>> /\ NoLoop /\ NoContext

Stopped ==
  /\ panel = "stopping" /\ listed = {}
  /\ \A r \in Runs : run[r].trigger \in {"none", "manual"}
  /\ panel' = "stopped"
  /\ signalled' = signalled \union registered /\ registered' = {}
  /\ UNCHANGED <<next, row, claimed, run, left, cancelling, occurrences, exits, faults>> /\ NoLoop

\* The process ends: all that is in memory goes.
Exit ==
  /\ \/ panel = "stopped" /\ UNCHANGED exits
     \/ panel # "down" /\ exits < MaxExits /\ exits' = exits + 1
  /\ panel' = "down" /\ listed' = {} /\ claimed' = {} /\ run' = [r \in Runs |-> Idle]
  /\ registered' = {} /\ signalled' = {} /\ left' = {} /\ cancelling' = None
  /\ UNCHANGED <<next, row, owed, occurrences, requests, faults>>

\* Mutant: running rows of a prior process are kept.
Start_TrustsRows ==
  /\ panel = "down" /\ panel' = "up"
  /\ NoFault /\ UNCHANGED row
  /\ UNCHANGED <<next, claimed, run, occurrences, exits>> /\ NoLoop /\ NoContext

\* Start fails what a prior process left running; an error is only logged.
Start ==
  /\ panel = "down" /\ panel' = "up"
  /\ \/ /\ NoFault
        /\ row' = [i \in Rows |-> IF IsRunning(i) THEN [row[i] EXCEPT !.status = "failed"] ELSE row[i]]
     \/ Fails(1) /\ UNCHANGED row
  /\ UNCHANGED <<next, claimed, run, occurrences, exits>> /\ NoLoop /\ NoContext

Step(r) ==
  Open(r) \/ Register(r) \/ Work(r) \/ Write(r) \/ NextKid(r) \/ Close(r)

SchedulerNext ==
  \/ Tick \/ \E t \in Tasks : Elapse(t) \/ Dispatch(t) \/ Trigger(t) \/ Event(t)
  \/ \E r \in Runs : Step(r) \/ ClientLeaves(r)
  \/ \E i \in Rows : Cancel(i)
  \/ CancelOrphan \/ Stop \/ Stopped \/ Exit \/ Start

SchedulerSpec == SchedulerInit /\ [][SchedulerNext]_schedulerVars

-----------------------------------------------------------------------------
SchedulerTypeOK ==
  /\ panel \in {"up", "stopping", "stopped", "down"}
  /\ next \in [Tasks -> {"none", "later", "due"}]
  /\ row \in Seq(Row)
  /\ listed \subseteq Tasks /\ claimed \subseteq Tasks
  /\ \A r \in Runs : Active(r) => run[r].trigger \in Triggers /\ run[r].stack \in Seq(Frame)
  /\ registered \subseteq Rows /\ signalled \subseteq Rows /\ left \subseteq Runs
  /\ cancelling \in 0..Len(row)
  /\ owed \in [Tasks -> Int]
  /\ occurrences \in 0..MaxOccurrences /\ requests \in 0..MaxRequests
  /\ exits \in 0..MaxExits /\ faults \in 0..MaxFaults

\* SCH-5: two goroutines or requests are never both started for the same task,
\* whatever claims, rows and releases cross (a chain step is started by none).
RootRunsOnce ==
  \A r, s \in Runs : (Active(r) /\ Active(s) /\ Root(r) = Root(s)) => r = s

HasRunner(i) == \E r \in Runs : \E k \in 1..Len(run[r].stack) : run[r].stack[k].row = i

\* As long as the database answers, a row says "running" in a panel that is up
\* only while something runs it, unless it was started by hand.
RunningRowHasRunner ==
  (faults = 0 /\ panel # "down") =>
    \A i \in Rows : (IsRunning(i) /\ row[i].trigger # "manual") => HasRunner(i)

\* A chain step starts only after the row of the step before it says how that
\* ended, so that a crash in the chain fails the step and not what preceded it.
ParentSettlesFirst ==
  faults = 0 => \A r \in Runs : \A k \in 1..(Len(run[r].stack) - 1) :
    LET f == run[r].stack[k] IN f.row # None => ~IsRunning(f.row)

\* A scheduled time starts at most one scheduled run, over stale lists, manual
\* runs in between and crashes.
OncePerOccurrence == faults = 0 => \A t \in Tasks : owed[t] >= 0

\* The tasks claimed are the ones a goroutine or a request was started for: no path
\* through an execution, failed or abandoned, keeps its task from ever running again.
ClaimsAreRuns == claimed = {Root(r) : r \in {s \in Runs : Active(s)}}

\* The rows say what the runs do, while the database answers: "running" where something runs, and
\* settled where a chain has gone on.
RowsFollowRuns == RunningRowHasRunner /\ ParentSettlesFirst
=============================================================================
