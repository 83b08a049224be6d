--------------------------- MODULE ServerLifecycle ---------------------------
(***************************************************************************)
(* The lifecycle of one server: the RPC handlers StartServer, StopServer,  *)
(* RestartServer and RecreateServer, the freezer, the scheduler's power    *)
(* tasks and the reconciler, over the server's row, its Docker container,  *)
(* the process-wide transition lock and the lifecycle journal.             *)
(*                                                                         *)
(* The journal is the lock it promises (LifecycleLock, which               *)
(* OperationJournal is proved to implement), and a replacement is its      *)
(* outcome (ContainerReplacement has its steps).  A handler works on a     *)
(* copy of the row and saves it whole (db/store.go UpdateServer); the      *)
(* freezer and the reconciler write single columns.                        *)
(***************************************************************************)
EXTENDS Naturals

CONSTANTS
  Threads,        \* goroutines that serve requests and tasks
  Reconciler,     \* the reconciler's worker for this server
  Requests,       \* idempotency keys a client may send
  Ops,            \* the operations that may be called
  Staged,         \* whether staged configuration may be pending: a set of BOOLEANs
  MaxContainers,  \* bound on containers created
  MaxCalls,       \* bound on operations called
  MaxMishaps,     \* bound on crashes, game exits and manual removals
  MaxFaults       \* bound on failed Docker calls and failed saves

ASSUME LifecycleAssumption ==
  /\ Reconciler \notin Threads /\ 0 \notin Threads \union {Reconciler}
  /\ Staged \subseteq BOOLEAN /\ Staged # {}
  /\ MaxContainers \in Nat /\ MaxCalls \in Nat /\ MaxMishaps \in Nat /\ MaxFaults \in Nat

NoOne == 0        \* no holder, no container

VARIABLES
  box,        \* the newest container made for the server, and its Docker state
  row,        \* the server's row: status and container id
  lock,       \* the holder of the server's transition
  thread,     \* every goroutine: the operation, where it is, its copy of the row
  fate,       \* the journal, as LifecycleLock has it
  worked,
  digest,     \* the container each key was recorded with
  calls, mishaps, faults

lifecycleVars == <<box, row, lock, thread, fate, worked, digest, calls, mishaps, faults>>

All == Threads \union {Reconciler}
Kinds == {"start_unpause", "start", "stop", "restart", "restart_create", "restart_start"}
RpcOps == {"start", "stop", "restart", "recreate"}
FreezerOps == {"freeze", "thaw"}
TaskOps == {"start_task", "stop_task", "restart_task"}
ASSUME OpsAssumption == Ops \subseteq RpcOps \union FreezerOps \union TaskOps

Journal == INSTANCE LifecycleLock WITH Servers <- {"server"}, Keys <- Requests \X Kinds

Statuses == {"stopped", "starting", "running", "paused", "stopping", "error"}
BoxStates == {"absent", "created", "running", "paused", "exited", "crashed"}
RowSet == [status: Statuses, cid: 0..MaxContainers]

Pcs == {"idle", "acquire", "run", "power", "create", "claim", "enter", "mutate", "commit",
        "after", "replace", "boot", "save", "refreeze", "halt", "column", "return"}
Outcomes == {"none", "ok", "error", "busy", "refused"}
Thread == [op: {"none", "reconcile"} \union Ops, pc: Pcs, then: Pcs, row: RowSet,
           req: Requests, kind: Kinds, answer: Outcomes, live: BOOLEAN, staged: BOOLEAN,
           plan: {"none"} \union Statuses]

Idle == [op |-> "none", pc |-> "idle", then |-> "return", row |-> [status |-> "stopped", cid |-> 0],
         req |-> CHOOSE k \in Requests : TRUE, kind |-> "start", answer |-> "none",
         live |-> FALSE, staged |-> FALSE, plan |-> "none"]

Exists(cid) == cid # NoOne /\ box.id = cid /\ box.state # "absent"
Open(cid) == Exists(cid) /\ box.state \in {"running", "paused"}
WorldOpen == Open(box.id)

LifecycleInit ==
  /\ \E start \in {<<"absent", "stopped", 0>>, <<"running", "running", 1>>, <<"paused", "paused", 1>>} :
       /\ box = [id |-> start[3], state |-> start[1]]
       /\ row = [status |-> start[2], cid |-> start[3]]
  /\ lock = NoOne
  /\ thread = [t \in All |-> Idle]
  /\ Journal!Init
  /\ digest = [id \in Journal!Ids |-> NoOne]
  /\ calls = 0 /\ mishaps = 0 /\ faults = 0

-----------------------------------------------------------------------------
Fault == faults < MaxFaults /\ faults' = faults + 1

At(t, pc) == thread[t].pc = pc
Does(t, ops) == thread[t].op \in ops
Become(t, th) == thread' = [thread EXCEPT ![t] = th]
Goto(t, pc) == Become(t, [thread[t] EXCEPT !.pc = pc])
Answer(t, a) == Become(t, [thread[t] EXCEPT !.pc = "return", !.answer = a])
\* Save the copy with this status and identity, then go on, or return the answer.
SaveThen(t, status, cid, then) ==
  Become(t, [thread[t] EXCEPT !.pc = "save", !.then = then,
                              !.row = [status |-> status, cid |-> cid]])
SaveAs(t, status, cid, a) ==
  Become(t, [thread[t] EXCEPT !.pc = "save", !.then = "return", !.answer = a,
                              !.row = [status |-> status, cid |-> cid]])
JournalAs(t, kind) == Become(t, [thread[t] EXCEPT !.pc = "claim", !.kind = kind])

NoDocker == UNCHANGED box
NoJournal == UNCHANGED <<fate, worked, digest>>
NoBound == UNCHANGED <<calls, mishaps>>

-----------------------------------------------------------------------------
(* Docker: each call is a predicate over the container before and after *)

Becomes(state) == box' = [box EXCEPT !.state = state]

\* Starting a running container changes nothing; a paused one cannot be started.
Startable(cid) == Exists(cid) /\ box.state # "paused"
StartContainer(cid) == Startable(cid) /\ Becomes("running")

Unpausable(cid) == Exists(cid) /\ box.state = "paused"

\* A stopped process ends cleanly or with a code; a container that is gone or
\* stopped is left as it is.
StopContainer(cid) ==
  IF Open(cid) THEN \E end \in {"exited", "crashed"} : Becomes(end) ELSE UNCHANGED box

\* CreateContainer adopts what the label finds alive and replaces what is not.
Adoptable == box.state \in {"created", "running", "paused"}
Fresh(state) == box.id < MaxContainers /\ box' = [id |-> box.id + 1, state |-> state]
CreateContainer == IF Adoptable THEN UNCHANGED box ELSE Fresh("created")

\* RecreateContainer of a tracked container: the replacement runs if the old one
\* did.  Without the tracked container it is CreateContainer.
ReplaceContainer(cid) ==
  IF Exists(cid) /\ box.state # "created"
  THEN Fresh(IF box.state = "running" THEN "running" ELSE "created")
  ELSE CreateContainer
WasRunning(cid) == Exists(cid) /\ box.state = "running"

\* What a replacement that fails leaves: everything, a stopped container, nothing.
ReplaceFails(cid) ==
  IF Exists(cid) THEN \E end \in {box.state, "exited", "absent"} : Becomes(end)
  ELSE UNCHANGED box

-----------------------------------------------------------------------------
(* Calling, the transition lock, the journal *)

\* Tasks are handed the row the scheduler read before they take the lock, and the
\* stop task takes none.
Call(t, op, req) ==
  /\ t \in Threads /\ At(t, "idle") /\ calls < MaxCalls
  /\ calls' = calls + 1
  /\ \E staged \in Staged :
       Become(t, [Idle EXCEPT !.op = op, !.pc = IF op = "stop_task" THEN "run" ELSE "acquire",
                              !.row = row, !.req = req, !.staged = staged])
  /\ UNCHANGED <<box, row, lock, fate, worked, digest, mishaps, faults>>

Sweep ==
  /\ At(Reconciler, "idle") /\ lock = NoOne
  /\ Become(Reconciler, [Idle EXCEPT !.op = "reconcile", !.pc = "acquire"])
  /\ UNCHANGED <<box, row, lock, fate, worked, digest, calls, mishaps, faults>>

\* Mutant: a transition that is held does not keep another caller out.
Acquire_Shared(t) ==
  /\ At(t, "acquire")
  /\ lock' = t
  /\ Become(t, [thread[t] EXCEPT !.pc = "run", !.row = IF Does(t, TaskOps) THEN @ ELSE row])
  /\ UNCHANGED <<box, row, fate, worked, digest, calls, mishaps, faults>>

\* TryBeginServerTransition, and the row read under it.
Acquire(t) ==
  /\ At(t, "acquire")
  /\ \/ /\ lock = NoOne /\ lock' = t
        /\ Become(t, [thread[t] EXCEPT !.pc = "run", !.row = IF Does(t, TaskOps) THEN @ ELSE row])
     \/ lock # NoOne /\ Answer(t, "busy") /\ UNCHANGED lock
  /\ UNCHANGED <<box, row, fate, worked, digest, calls, mishaps, faults>>

Return(t) ==
  /\ At(t, "return")
  /\ Become(t, Idle)
  /\ lock' = IF lock = t THEN NoOne ELSE lock
  /\ UNCHANGED <<box, row, fate, worked, digest, calls, mishaps, faults>>

KeyOf(t) == <<"server", <<thread[t].req, thread[t].kind>>>>
OpenKey == \E id \in Journal!Ids : fate[id] \in Journal!Open

\* RunJournaled: a key completed for the same container answers nil without
\* running, any other recorded key, a server with an open key and a failed write
\* are errors.
Claim(t) ==
  LET id == KeyOf(t)
      replayed == fate[id] = "complete" /\ digest[id] = thread[t].row.cid
      after(a) == Become(t, [thread[t] EXCEPT !.pc = "after", !.answer = a, !.live = FALSE]) IN
  /\ At(t, "claim")
  /\ \/ /\ Journal!Claim(id) /\ Goto(t, "enter") /\ UNCHANGED faults
        /\ digest' = [digest EXCEPT ![id] = thread[t].row.cid]
     \/ replayed /\ after("ok") /\ NoJournal /\ UNCHANGED faults
     \/ /\ ~replayed /\ (fate[id] # "new" \/ OpenKey)
        /\ after("refused") /\ NoJournal /\ UNCHANGED faults
     \/ Fault /\ after("refused") /\ NoJournal
  /\ UNCHANGED <<box, row, lock, calls, mishaps>>

Enter(t) ==
  /\ At(t, "enter")
  /\ \/ Journal!Start(KeyOf(t)) /\ Goto(t, "mutate") /\ UNCHANGED faults
     \/ /\ Fault /\ Become(t, [thread[t] EXCEPT !.pc = "after", !.answer = "refused", !.live = FALSE])
        /\ Journal!Decide(KeyOf(t), "failed")
  /\ UNCHANGED <<box, row, lock, digest, calls, mishaps>>

\* What the journaled closure of each kind does to the container.
Works(t) ==
  LET cid == thread[t].row.cid IN
  CASE thread[t].kind = "start_unpause" -> Unpausable(cid) /\ Becomes("running")
    [] thread[t].kind \in {"start", "restart_start"} -> StartContainer(cid)
    [] thread[t].kind = "stop" -> StopContainer(cid)
    [] thread[t].kind = "restart" -> Exists(cid) /\ Becomes("running")
    [] thread[t].kind = "restart_create" -> CreateContainer

CannotWork(t) ==
  LET cid == thread[t].row.cid IN
  CASE thread[t].kind = "start_unpause" -> ~Unpausable(cid)
    [] thread[t].kind \in {"start", "restart_start"} -> ~Startable(cid)
    [] thread[t].kind = "restart" -> ~Exists(cid)
    [] OTHER -> FALSE

\* A Docker call fails; a restart may have stopped the container by then.
WorksHalf(t) ==
  \/ UNCHANGED box
  \/ thread[t].kind = "restart" /\ StopContainer(thread[t].row.cid)

Mutate(t) ==
  LET done(a) == Become(t, [thread[t] EXCEPT !.pc = "commit", !.answer = a,
                                            !.live = a = "ok" /\ (thread[t].kind = "stop" => Exists(thread[t].row.cid))]) IN
  /\ At(t, "mutate")
  /\ \/ Works(t) /\ Journal!Works(KeyOf(t)) /\ done("ok") /\ UNCHANGED faults
     \/ CannotWork(t) /\ UNCHANGED <<fate, worked>> /\ done("error") /\ UNCHANGED <<box, faults>>
     \/ Fault /\ WorksHalf(t) /\ UNCHANGED <<fate, worked>> /\ done("error")
  /\ UNCHANGED <<row, lock, digest, calls, mishaps>>

\* The final phase; a write that fails is logged and the key stays open.
Commit(t) ==
  /\ At(t, "commit")
  /\ \/ /\ Journal!Decide(KeyOf(t), IF thread[t].answer = "ok" THEN "complete" ELSE "failed")
        /\ UNCHANGED faults
     \/ Fault /\ UNCHANGED <<fate, worked>>
  /\ Goto(t, "after")
  /\ UNCHANGED <<box, row, lock, digest, calls, mishaps>>

\* What each handler does with the answer of its journaled closure.
AfterOk(t) ==
  LET th == thread[t]  cid == th.row.cid IN
  CASE th.kind = "start_unpause" -> SaveAs(t, "running", cid, "ok")
    [] th.kind = "stop" -> SaveAs(t, "stopped", IF th.live THEN cid ELSE NoOne, "ok")
    [] th.kind = "restart_create" ->
         Become(t, [th EXCEPT !.pc = "save", !.then = "claim", !.kind = "restart_start",
                              !.row.cid = IF th.live THEN box.id ELSE NoOne])
    [] OTHER -> SaveAs(t, "starting", cid, "ok")

AfterError(t) ==
  LET th == thread[t] IN
  CASE th.kind \in {"start", "restart"} -> Goto(t, "replace")
    [] th.kind = "restart_start" /\ th.staged -> SaveAs(t, "error", th.row.cid, "error")
    [] OTHER -> Answer(t, "error")

After(t) ==
  /\ At(t, "after")
  /\ IF thread[t].answer = "ok" THEN AfterOk(t) ELSE AfterError(t)
  /\ NoDocker /\ NoJournal /\ NoBound /\ UNCHANGED <<row, lock, faults>>

-----------------------------------------------------------------------------
(* The RPC handlers up to their first journaled or unjournaled mutation *)

StartRuns(t) ==
  LET th == thread[t]  cid == th.row.cid IN
  /\ At(t, "run") /\ Does(t, {"start"})
  /\ CASE cid # NoOne /\ th.staged -> Goto(t, "replace")
       [] cid # NoOne /\ th.row.status = "paused" /\ ~th.staged -> JournalAs(t, "start_unpause")
       [] cid # NoOne /\ th.row.status # "paused" /\ ~th.staged -> JournalAs(t, "start")
       [] cid = NoOne /\ Exists(box.id) ->
            Become(t, [th EXCEPT !.pc = "save", !.then = "claim", !.kind = "start",
                                 !.row.cid = box.id, !.live = FALSE, !.staged = FALSE])
       [] cid = NoOne /\ ~Exists(box.id) -> Become(t, [th EXCEPT !.pc = "create", !.staged = FALSE])
  /\ NoDocker /\ NoJournal /\ NoBound /\ UNCHANGED <<row, lock, faults>>

StartCreates(t) ==
  /\ At(t, "create")
  /\ \/ /\ CreateContainer
        /\ Become(t, [thread[t] EXCEPT !.pc = "save", !.then = "claim", !.kind = "start",
                                       !.row.cid = box'.id, !.live = TRUE])
        /\ UNCHANGED faults
     \/ Fault /\ Answer(t, "error") /\ NoDocker
  /\ NoJournal /\ NoBound /\ UNCHANGED <<row, lock>>

\* StopServer and RestartServer resume a server whose row says paused.
Unfreeze(t) ==
  LET th == thread[t]  cid == th.row.cid IN
  /\ At(t, "run") /\ Does(t, {"stop", "restart"})
  /\ \/ /\ th.row.status # "paused" \/ cid = NoOne
        /\ Goto(t, "power") /\ NoDocker /\ UNCHANGED faults
     \/ /\ th.row.status = "paused" /\ Unpausable(cid)
        /\ Goto(t, "power") /\ Becomes("running") /\ UNCHANGED faults
     \/ /\ th.row.status = "paused" /\ cid # NoOne /\ ~Unpausable(cid)
        /\ Answer(t, "error") /\ NoDocker /\ UNCHANGED faults
     \/ /\ th.row.status = "paused" /\ cid # NoOne /\ Fault /\ Answer(t, "error") /\ NoDocker
  /\ NoJournal /\ NoBound /\ UNCHANGED <<row, lock>>

StopPowers(t) ==
  /\ At(t, "power") /\ Does(t, {"stop"})
  /\ IF thread[t].row.cid = NoOne THEN SaveAs(t, "stopped", NoOne, "ok")
     ELSE Become(t, [thread[t] EXCEPT !.pc = "save", !.then = "claim", !.kind = "stop",
                                      !.row.status = "stopping"])
  /\ NoDocker /\ NoJournal /\ NoBound /\ UNCHANGED <<row, lock, faults>>

RestartPowers(t) ==
  LET cid == thread[t].row.cid IN
  /\ At(t, "power") /\ Does(t, {"restart"})
  /\ CASE cid = NoOne -> Become(t, [thread[t] EXCEPT !.pc = "claim", !.kind = "restart_create", !.staged = FALSE])
       [] cid # NoOne /\ thread[t].staged -> Goto(t, "replace")
       [] cid # NoOne /\ ~thread[t].staged -> JournalAs(t, "restart")
  /\ NoDocker /\ NoJournal /\ NoBound /\ UNCHANGED <<row, lock, faults>>

RecreateRuns(t) ==
  /\ At(t, "run") /\ Does(t, {"recreate"})
  /\ Goto(t, "replace")
  /\ NoDocker /\ NoJournal /\ NoBound /\ UNCHANGED <<row, lock, faults>>

-----------------------------------------------------------------------------
(* Replacing the container: no journal row *)

\* Mutant: the row keeps naming the container that was replaced.
Replaced_KeepsOld(t, live) ==
  LET th == [thread[t] EXCEPT !.live = live] IN
  CASE th.op \in {"start", "restart"} /\ th.staged ->
         Become(t, [th EXCEPT !.pc = "save", !.then = "boot"])
    [] th.op = "restart" /\ ~th.staged ->
         Become(t, [th EXCEPT !.pc = "save", !.then = "return", !.answer = "ok", !.row.status = "starting"])
    [] OTHER -> Become(t, [th EXCEPT !.pc = "boot"])

\* Staged configuration saves the new identity first; the fallback of StartServer
\* and RecreateServer start what they made; the fallback of RestartServer saves
\* "starting" for it.
Replaced(t, live) ==
  LET th == [thread[t] EXCEPT !.row.cid = box'.id, !.live = live] IN
  CASE th.op \in {"start", "restart"} /\ th.staged ->
         Become(t, [th EXCEPT !.pc = "save", !.then = "boot"])
    [] th.op = "restart" /\ ~th.staged ->
         Become(t, [th EXCEPT !.pc = "save", !.then = "return", !.answer = "ok", !.row.status = "starting"])
    [] OTHER -> Become(t, [th EXCEPT !.pc = "boot"])

Replace(t) ==
  LET cid == thread[t].row.cid IN
  /\ At(t, "replace") /\ t # Reconciler
  /\ \/ ReplaceContainer(cid) /\ Replaced(t, WasRunning(cid)) /\ UNCHANGED faults
     \/ Fault /\ ReplaceFails(cid) /\ SaveAs(t, "error", cid, "error")
  /\ NoJournal /\ NoBound /\ UNCHANGED <<row, lock>>

\* Mutant: what a replacement leaves is taken for running.
Boot_Assumes(t) ==
  /\ At(t, "boot") /\ t # Reconciler
  /\ SaveAs(t, "starting", thread[t].row.cid, "ok")
  /\ NoDocker /\ NoJournal /\ NoBound /\ UNCHANGED <<row, lock, faults>>

\* A replacement that RecreateContainer left stopped is started; RestartServer
\* does so under a journal row.
Boot(t) ==
  LET th == thread[t]  cid == th.row.cid IN
  /\ At(t, "boot") /\ t # Reconciler
  /\ \/ th.live /\ SaveAs(t, "starting", cid, "ok") /\ NoDocker /\ UNCHANGED faults
     \/ ~th.live /\ th.op = "restart" /\ JournalAs(t, "restart_start") /\ NoDocker /\ UNCHANGED faults
     \/ /\ ~th.live /\ th.op # "restart"
        /\ \/ /\ StartContainer(cid) /\ UNCHANGED faults
              /\ Become(t, [th EXCEPT !.pc = "save", !.then = "return", !.answer = "ok",
                                      !.row.status = "starting", !.live = TRUE])
           \/ ~Startable(cid) /\ SaveAs(t, "error", cid, "error") /\ NoDocker /\ UNCHANGED faults
           \/ Fault /\ SaveAs(t, "error", cid, "error") /\ NoDocker
  /\ NoJournal /\ NoBound /\ UNCHANGED <<row, lock>>

\* UpdateServer: the whole copy.  A container whose identity cannot be saved is
\* removed, a resume that cannot be saved is undone; tasks ignore the error.
Save(t) ==
  LET th == thread[t] IN
  /\ At(t, "save")
  /\ \/ /\ row' = th.row /\ Goto(t, th.then)
        /\ NoDocker /\ UNCHANGED faults
     \/ /\ Fault /\ UNCHANGED row
        /\ CASE th.kind = "start_unpause" /\ th.answer = "ok" -> Goto(t, "refreeze") /\ NoDocker
             [] th.op \in {"start", "restart"} /\ th.then = "claim" /\ th.live ->
                  Answer(t, "error") /\ Becomes("absent")
             [] th.op \in {"start_task", "restart_task"} -> Goto(t, th.then) /\ NoDocker
             [] OTHER -> Answer(t, "error") /\ NoDocker
  /\ NoJournal /\ NoBound /\ UNCHANGED lock

\* rollbackPausedResume
Refreeze(t) ==
  LET cid == thread[t].row.cid IN
  /\ At(t, "refreeze")
  /\ \/ /\ Exists(cid) /\ box.state = "running"
        /\ Becomes("paused") /\ Answer(t, "error") /\ UNCHANGED faults
     \/ /\ ~Exists(cid) \/ box.state # "running"
        /\ NoDocker /\ SaveAs(t, "error", cid, "error") /\ UNCHANGED faults
     \/ Fault /\ NoDocker /\ SaveAs(t, "error", cid, "error")
  /\ NoJournal /\ NoBound /\ UNCHANGED <<row, lock>>

-----------------------------------------------------------------------------
(* The freezer: HibernateServer and WakeServer *)

Freeze(t) ==
  LET cid == thread[t].row.cid IN
  /\ At(t, "run") /\ Does(t, {"freeze"})
  /\ \/ /\ thread[t].row.status = "running" /\ Exists(cid) /\ box.state = "running"
        /\ Becomes("paused") /\ UNCHANGED faults
        /\ Become(t, [thread[t] EXCEPT !.pc = "column", !.plan = "paused"])
     \/ /\ thread[t].row.status # "running" \/ ~Exists(cid) \/ box.state # "running"
        /\ Answer(t, "error") /\ NoDocker /\ UNCHANGED faults
     \/ Fault /\ Answer(t, "error") /\ NoDocker
  /\ NoJournal /\ NoBound /\ UNCHANGED <<row, lock>>

\* A failed unpause records what the container then is.
Observed == IF ~Exists(box.id) THEN "error"
            ELSE CASE box.state \in {"running", "paused"} -> box.state [] OTHER -> "stopped"
Thaw(t) ==
  LET cid == thread[t].row.cid
      plan(status) == Become(t, [thread[t] EXCEPT !.pc = "column", !.plan = status]) IN
  /\ At(t, "run") /\ Does(t, {"thaw"})
  /\ \/ /\ thread[t].row.status # "paused" \/ cid = NoOne
        /\ Answer(t, "error") /\ NoDocker /\ UNCHANGED faults
     \/ /\ thread[t].row.status = "paused" /\ Unpausable(cid)
        /\ Becomes("running") /\ plan("running") /\ UNCHANGED faults
     \/ /\ thread[t].row.status = "paused" /\ cid # NoOne /\ ~Unpausable(cid)
        /\ plan(IF Observed = "paused" THEN "error" ELSE Observed) /\ NoDocker /\ UNCHANGED faults
     \/ /\ thread[t].row.status = "paused" /\ cid # NoOne /\ Fault
        /\ plan(IF Observed = "paused" THEN "error" ELSE Observed) /\ NoDocker
  /\ NoJournal /\ NoBound /\ UNCHANGED <<row, lock>>

\* UpdateServerStatus; the freezer undoes a change it cannot record.
Undo(t) ==
  CASE Does(t, {"freeze"}) /\ Open(box.id) -> Becomes("running")
    [] Does(t, {"thaw"}) /\ thread[t].plan = "running" /\ Open(box.id) -> Becomes("paused")
    [] OTHER -> NoDocker

Column(t) ==
  /\ At(t, "column")
  /\ \/ /\ row' = [row EXCEPT !.status = IF thread[t].plan = "none" THEN @ ELSE thread[t].plan]
        /\ Answer(t, "ok") /\ NoDocker /\ UNCHANGED faults
     \/ Fault /\ Undo(t) /\ Answer(t, "error") /\ UNCHANGED row
  /\ NoJournal /\ NoBound /\ UNCHANGED lock

-----------------------------------------------------------------------------
(* The scheduler's power tasks *)

StopTask(t) ==
  LET th == thread[t]  cid == th.row.cid IN
  /\ Does(t, {"stop_task"})
  /\ \/ /\ At(t, "run")
        /\ IF cid = NoOne THEN Answer(t, "error") ELSE SaveThen(t, "stopping", cid, "halt")
        /\ NoDocker /\ UNCHANGED faults
     \/ /\ At(t, "halt") /\ StopContainer(cid)
        /\ SaveAs(t, "stopped", IF Exists(cid) THEN cid ELSE NoOne, "ok") /\ UNCHANGED faults
     \/ At(t, "halt") /\ Fault /\ Answer(t, "error") /\ NoDocker
  /\ NoJournal /\ NoBound /\ UNCHANGED <<row, lock>>

StartTask(t) ==
  LET cid == thread[t].row.cid IN
  /\ At(t, "run") /\ Does(t, {"start_task"})
  /\ \/ StartContainer(cid) /\ SaveAs(t, "starting", cid, "ok") /\ UNCHANGED faults
     \/ ~Startable(cid) /\ Answer(t, "error") /\ NoDocker /\ UNCHANGED faults
     \/ Fault /\ Answer(t, "error") /\ NoDocker
  /\ NoJournal /\ NoBound /\ UNCHANGED <<row, lock>>

\* A container the stop does not find is forgotten; a found one is started again.
RestartTask(t) ==
  LET cid == thread[t].row.cid IN
  /\ Does(t, {"restart_task"})
  /\ \/ /\ At(t, "run") /\ Exists(cid) /\ StopContainer(cid)
        /\ Goto(t, "halt") /\ UNCHANGED faults
     \/ /\ At(t, "run") /\ ~Exists(cid) /\ NoDocker /\ UNCHANGED faults
        /\ IF cid = NoOne THEN Answer(t, "error") ELSE SaveAs(t, "stopped", NoOne, "ok")
     \/ /\ At(t, "halt") /\ StartContainer(cid)
        /\ SaveAs(t, "starting", cid, "ok") /\ UNCHANGED faults
     \/ At(t, "halt") /\ ~Startable(cid) /\ Answer(t, "error") /\ NoDocker /\ UNCHANGED faults
     \/ Fault /\ At(t, "run") /\ Answer(t, "error") /\ NoDocker
     \/ Fault /\ At(t, "halt") /\ Answer(t, "error") /\ NoDocker
  /\ NoJournal /\ NoBound /\ UNCHANGED <<row, lock>>

-----------------------------------------------------------------------------
(* The reconciler *)

\* decide: from the status in the row and what was observed, what to do and the
\* status to write.
Plan(pc, status) == [pc |-> pc, plan |-> status]

\* Mutant: every server that is not stopped gets its container back.
Missing_HealsAll(desired) ==
  IF desired \in {"stopped", "error"} THEN Plan("column", "none") ELSE Plan("replace", "starting")

Missing(desired) ==
  CASE desired \in {"running", "starting"} -> Plan("replace", "starting")
    [] desired \in {"stopping", "paused"}  -> Plan("column", "stopped")
    [] OTHER                               -> Plan("column", "none")

\* Mutant: a recorded stop is never concluded.
Present_ForgetsStop(desired) ==
  CASE desired = "stopping" -> Plan("column", "none")
    [] box.state \in {"running", "paused"} -> Plan("column", box.state)
    [] OTHER -> Plan("column", "stopped")

Present(desired) ==
  CASE box.state = "running" /\ desired = "stopping" -> Plan("halt", "none")
    [] box.state = "running" /\ desired # "stopping" -> Plan("column", "running")
    [] box.state = "paused"                          -> Plan("column", "paused")
    [] box.state = "crashed" /\ desired # "stopping" -> Plan("column", "error")
    [] OTHER                                         -> Plan("column", "stopped")

Decision(desired) == IF Exists(box.id) THEN Present(desired) ELSE Missing(desired)

\* The identity the label finds is adopted in the same pass.
Observe ==
  LET r == thread[Reconciler].row
      dec == Decision(r.status)
      cid == IF Exists(box.id) THEN box.id ELSE r.cid IN
  /\ At(Reconciler, "run")
  /\ \/ /\ row' = IF cid = r.cid THEN row ELSE [row EXCEPT !.cid = cid]
        /\ Become(Reconciler, [thread[Reconciler] EXCEPT !.pc = dec.pc, !.plan = dec.plan, !.row.cid = cid])
        /\ UNCHANGED faults
     \/ Fault /\ Answer(Reconciler, "error") /\ UNCHANGED row
  /\ NoDocker /\ NoJournal /\ NoBound /\ UNCHANGED lock

ResumeStop ==
  /\ At(Reconciler, "halt")
  /\ \/ StopContainer(thread[Reconciler].row.cid) /\ UNCHANGED faults
     \/ Fault /\ NoDocker
  /\ Goto(Reconciler, "column")
  /\ NoJournal /\ NoBound /\ UNCHANGED <<row, lock>>

\* selfHealRecreate: a container that could not be made or started is an error.
SelfHeal ==
  LET cid == thread[Reconciler].row.cid
      fails == Become(Reconciler, [thread[Reconciler] EXCEPT !.pc = "column", !.plan = "error"]) IN
  \/ /\ At(Reconciler, "replace")
     /\ \/ /\ ReplaceContainer(cid)
           /\ row' = [row EXCEPT !.cid = box'.id]
           /\ Become(Reconciler, [thread[Reconciler] EXCEPT !.pc = "boot", !.row.cid = box'.id])
           /\ UNCHANGED faults
        \/ Fault /\ ReplaceFails(cid) /\ row' = [row EXCEPT !.cid = cid] /\ fails
     /\ NoJournal /\ NoBound /\ UNCHANGED lock
  \/ /\ At(Reconciler, "boot")
     /\ \/ StartContainer(cid) /\ Goto(Reconciler, "column") /\ UNCHANGED faults
        \/ ((~Startable(cid) /\ UNCHANGED faults) \/ Fault) /\ fails /\ NoDocker
     /\ NoJournal /\ NoBound /\ UNCHANGED <<row, lock>>

-----------------------------------------------------------------------------
(* The world: crashes, games that end, containers removed by hand, recovery *)

Mishap == mishaps < MaxMishaps /\ mishaps' = mishaps + 1

Crash ==
  /\ Mishap
  /\ thread' = [t \in All |-> Idle] /\ lock' = NoOne
  /\ UNCHANGED <<box, row, fate, worked, digest, calls, faults>>

GameExits ==
  /\ Mishap /\ Exists(box.id) /\ box.state = "running"
  /\ \E end \in {"exited", "crashed"} : Becomes(end)
  /\ UNCHANGED <<row, lock, thread, fate, worked, digest, calls, faults>>

RemovedByHand ==
  /\ Mishap /\ Exists(box.id) /\ Becomes("absent")
  /\ UNCHANGED <<row, lock, thread, fate, worked, digest, calls, faults>>

\* Startup recovery and RetryReview release what no running call owns.
Recover(id) ==
  /\ \A t \in All : KeyOf(t) = id => thread[t].pc \notin {"enter", "mutate", "commit"}
  /\ Journal!Decide(id, "recovered")
  /\ UNCHANGED <<box, row, lock, thread, digest, calls, mishaps, faults>>

Step(t) ==
  \/ Acquire(t) \/ Return(t) \/ Claim(t) \/ Enter(t) \/ Mutate(t) \/ Commit(t) \/ After(t)
  \/ StartRuns(t) \/ StartCreates(t) \/ Unfreeze(t) \/ StopPowers(t) \/ RestartPowers(t)
  \/ RecreateRuns(t) \/ Replace(t) \/ Boot(t) \/ Save(t) \/ Refreeze(t)
  \/ Freeze(t) \/ Thaw(t) \/ Column(t) \/ StopTask(t) \/ StartTask(t) \/ RestartTask(t)

Reconcile == Sweep \/ Acquire(Reconciler) \/ Observe \/ ResumeStop \/ SelfHeal
             \/ Column(Reconciler) \/ Return(Reconciler)

LifecycleNext ==
  \/ \E t \in Threads : Step(t) \/ \E op \in Ops, req \in Requests : Call(t, op, req)
  \/ Reconcile
  \/ Crash \/ GameExits \/ RemovedByHand
  \/ \E id \in Journal!Ids : Recover(id)

LifecycleSpec == LifecycleInit /\ [][LifecycleNext]_lifecycleVars

\* Docker calls are bounded by deadlines, so a handler that runs goes on; the
\* reconciler sweeps for ever.
LifecycleFairness ==
  /\ \A t \in Threads : WF_lifecycleVars(Step(t))
  /\ WF_lifecycleVars(Reconcile)
LifecycleFairSpec == LifecycleSpec /\ LifecycleFairness

-----------------------------------------------------------------------------
LifecycleTypeOK ==
  /\ box \in [id: 0..MaxContainers, state: BoxStates]
  /\ row \in RowSet
  /\ lock \in All \union {NoOne}
  /\ thread \in [All -> Thread]
  /\ Journal!TypeOK
  /\ calls \in 0..MaxCalls /\ mishaps \in 0..MaxMishaps /\ faults \in 0..MaxFaults

Working(t) == thread[t].pc \notin {"idle", "acquire", "return"}

\* ADR 0005: "Mutating a server (create, start, stop, ...) must not race another
\* mutation of the same server": two goroutines are never both inside one.
OneMutator == \A t, u \in All : (Working(t) /\ Working(u)) => t = u

\* The reconciler starts a container only while the row asks for a running server.
StopIsNotUndone ==
  [][(~WorldOpen /\ WorldOpen' /\ thread'[Reconciler] # thread[Reconciler] /\ At(Reconciler, "boot"))
       => row.status \in {"running", "starting"}]_lifecycleVars

\* Without crashes and faults, the row of a server that nobody works on never
\* names another container than the newest.
IdentityTracked ==
  (lock = NoOne /\ mishaps = 0 /\ faults = 0 /\ Exists(box.id)) => row.cid \in {box.id, NoOne}

\* A recreation, and a start that was not answered from the journal, succeed only
\* with the world open, unless the game ended or was removed meanwhile.
SuccessMeansUp ==
  \A t \in Threads :
    (/\ At(t, "return") /\ thread[t].answer = "ok" /\ mishaps = 0
     /\ Does(t, {"recreate"}) \/ (Does(t, {"start"}) /\ thread[t].live)) => WorldOpen

\* Once calls and accidents cease, the row and the container agree for good.
Agree ==
  CASE WorldOpen -> row.status = box.state /\ row.cid = box.id
    [] OTHER -> row.status \in {"stopped", "error"} /\ (Exists(box.id) => row.cid = box.id)
RowCatchesUp == <>[]Agree

=============================================================================
