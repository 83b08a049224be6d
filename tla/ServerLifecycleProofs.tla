----------------------- MODULE ServerLifecycleProofs -----------------------
(***************************************************************************)
(* Theorems about the lifecycle of one server, for any goroutines,         *)
(* requests, containers, mishaps and faults: while no power task runs that *)
(* takes no lock, two goroutines are never both inside a mutation, the     *)
(* reconciler undoes no stop, the row keeps the newest container's         *)
(* identity, and success means that the world is open.                     *)
(***************************************************************************)
EXTENDS ServerLifecycle, TLAPS

Fields == {"op", "pc", "then", "row", "req", "kind", "answer", "live", "staged", "plan"}
RowShape(r) == r = [f \in {"status", "cid"} |-> r[f]]
Shape(th) == th = [f \in Fields |-> th[f]] /\ RowShape(th.row)

\* The inductive invariant: whoever works holds the lock.
LockInv ==
  /\ thread = [t \in All |-> thread[t]]
  /\ \A t \in All : Shape(thread[t])
  /\ RowShape(row)
  /\ \A t \in All : Working(t) => lock = t

\* A step of goroutine t alone.
Moved(t) == thread' = [thread EXCEPT ![t] = thread'[t]] /\ Shape(thread'[t])

\* A step of a goroutine that works and keeps the lock.
Goes(t) == Working(t) /\ Moved(t) /\ UNCHANGED lock

-----------------------------------------------------------------------------
(* Records *)

LEMMA IdleShape == Shape(Idle) /\ Idle.pc = "idle"
  BY DEF Shape, RowShape, Fields, Idle

LEMMA BecomeMoves ==
  ASSUME LockInv, NEW t \in All, NEW th, Shape(th), Become(t, th)
  PROVE  Moved(t) /\ thread'[t] = th
  <1>1. thread' = [thread EXCEPT ![t] = th] /\ thread = [u \in All |-> thread[u]]
    BY DEF Become, LockInv
  <1>2. thread'[t] = th
    BY <1>1
  <1> QED
    BY <1>1, <1>2 DEF Moved

LEMMA Moves ==
  ASSUME LockInv, NEW t \in All
  PROVE  /\ \A pc : Goto(t, pc) => Moved(t)
         /\ \A a : Answer(t, a) => Moved(t) /\ thread'[t].pc = "return"
         /\ \A status, cid, then : SaveThen(t, status, cid, then) => Moved(t)
         /\ \A status, cid, a : SaveAs(t, status, cid, a) => Moved(t)
         /\ \A kind : JournalAs(t, kind) => Moved(t)
  <1>1. Shape(thread[t])
    BY DEF LockInv
  <1>2. ASSUME NEW pc, Goto(t, pc) PROVE Moved(t)
    <2>1. Shape([thread[t] EXCEPT !.pc = pc])
      BY <1>1 DEF Shape, RowShape, Fields
    <2> QED
      BY <1>2, <2>1, BecomeMoves DEF Goto
  <1>3. ASSUME NEW a, Answer(t, a) PROVE Moved(t) /\ thread'[t].pc = "return"
    <2>1. Shape([thread[t] EXCEPT !.pc = "return", !.answer = a])
          /\ [thread[t] EXCEPT !.pc = "return", !.answer = a].pc = "return"
      BY <1>1 DEF Shape, RowShape, Fields
    <2> QED
      BY <1>3, <2>1, BecomeMoves DEF Answer
  <1>4. ASSUME NEW status, NEW cid, NEW then, SaveThen(t, status, cid, then) PROVE Moved(t)
    <2>1. Shape([thread[t] EXCEPT !.pc = "save", !.then = then, !.row = [status |-> status, cid |-> cid]])
      BY <1>1 DEF Shape, RowShape, Fields
    <2> QED
      BY <1>4, <2>1, BecomeMoves DEF SaveThen
  <1>5. ASSUME NEW status, NEW cid, NEW a, SaveAs(t, status, cid, a) PROVE Moved(t)
    <2>1. Shape([thread[t] EXCEPT !.pc = "save", !.then = "return", !.answer = a,
                                  !.row = [status |-> status, cid |-> cid]])
      BY <1>1 DEF Shape, RowShape, Fields
    <2> QED
      BY <1>5, <2>1, BecomeMoves DEF SaveAs
  <1>6. ASSUME NEW kind, JournalAs(t, kind) PROVE Moved(t)
    <2>1. Shape([thread[t] EXCEPT !.pc = "claim", !.kind = kind])
      BY <1>1 DEF Shape, RowShape, Fields
    <2> QED
      BY <1>6, <2>1, BecomeMoves DEF JournalAs
  <1> QED
    BY <1>2, <1>3, <1>4, <1>5, <1>6

-----------------------------------------------------------------------------
(* The steps of a goroutine that works *)

LEMMA WorkingGoes ==
  ASSUME LockInv, NEW t \in All, Goes(t), RowShape(row)'
  PROVE  LockInv'
  <1>1. thread = [u \in All |-> thread[u]] /\ thread' = [thread EXCEPT ![t] = thread'[t]] /\ Shape(thread'[t])
        /\ lock' = lock /\ lock = t
    BY DEF LockInv, Goes, Moved
  <1>2. thread' = [u \in All |-> thread'[u]] /\ \A u \in All : u # t => thread'[u] = thread[u]
    BY <1>1
  <1>3. \A u \in All : Shape(thread'[u])
    BY <1>1, <1>2 DEF LockInv
  <1>4. \A u \in All : Working(u)' => lock' = u
    BY <1>1, <1>2 DEF LockInv, Working
  <1> QED
    BY <1>2, <1>3, <1>4 DEF LockInv, Shape

LEMMA JournalSteps ==
  ASSUME LockInv, NEW t \in All, Claim(t) \/ Enter(t) \/ Mutate(t) \/ Commit(t)
  PROVE  Goes(t)
  <1>1. Shape(thread[t])
    BY DEF LockInv
  <1>2. \A a : /\ Shape([thread[t] EXCEPT !.pc = "after", !.answer = a, !.live = FALSE])
               /\ \A live : Shape([thread[t] EXCEPT !.pc = "commit", !.answer = a, !.live = live])
    BY <1>1 DEF Shape, RowShape, Fields
  <1>3. CASE Claim(t)
    BY <1>2, <1>3, BecomeMoves, Moves DEF Claim, Goes, Working, At
  <1>4. CASE Enter(t)
    BY <1>2, <1>4, BecomeMoves, Moves DEF Enter, Goes, Working, At
  <1>5. CASE Mutate(t)
    BY <1>2, <1>5, BecomeMoves, Moves DEF Mutate, Goes, Working, At
  <1>6. CASE Commit(t)
    BY <1>6, Moves DEF Commit, Goes, Working, At
  <1> QED
    BY <1>3, <1>4, <1>5, <1>6

\* The shapes of what the handlers build besides.
LEMMA HandlerShapes ==
  ASSUME LockInv, NEW t \in All
  PROVE  /\ \A then, kind, cid : Shape([thread[t] EXCEPT !.pc = "save", !.then = then, !.kind = kind, !.row.cid = cid])
         /\ \A then, kind, cid, live, staged :
              Shape([thread[t] EXCEPT !.pc = "save", !.then = then, !.kind = kind, !.row.cid = cid,
                                      !.live = live, !.staged = staged])
         /\ \A then, kind, cid, live :
              Shape([thread[t] EXCEPT !.pc = "save", !.then = then, !.kind = kind, !.row.cid = cid, !.live = live])
         /\ \A pc, staged : Shape([thread[t] EXCEPT !.pc = pc, !.staged = staged])
         /\ \A then, kind, status :
              Shape([thread[t] EXCEPT !.pc = "save", !.then = then, !.kind = kind, !.row.status = status])
         /\ \A kind, staged : Shape([thread[t] EXCEPT !.pc = "claim", !.kind = kind, !.staged = staged])
         /\ \A plan : Shape([thread[t] EXCEPT !.pc = "column", !.plan = plan])
         /\ \A pc, plan, cid : Shape([thread[t] EXCEPT !.pc = pc, !.plan = plan, !.row.cid = cid])
         /\ \A pc, cid : Shape([thread[t] EXCEPT !.pc = pc, !.row.cid = cid])
  <1> DEFINE th == thread[t]
  <1>1. Shape(th)
    BY DEF LockInv
  <1> HIDE DEF th
  <1>2. ASSUME NEW q, Shape(q), NEW x
        PROVE  /\ Shape([q EXCEPT !.pc = x]) /\ Shape([q EXCEPT !.then = x]) /\ Shape([q EXCEPT !.kind = x])
               /\ Shape([q EXCEPT !.live = x]) /\ Shape([q EXCEPT !.staged = x]) /\ Shape([q EXCEPT !.plan = x])
    BY <1>2 DEF Shape, RowShape, Fields
  <1>3. ASSUME NEW q, Shape(q), NEW x
        PROVE  Shape([q EXCEPT !.row.cid = x]) /\ Shape([q EXCEPT !.row.status = x])
    BY <1>3 DEF Shape, RowShape, Fields
  <1>4. \A then, kind : Shape([th EXCEPT !.pc = "save", !.then = then, !.kind = kind])
    BY <1>1, <1>2
  <1>5. \A then, kind, cid : Shape([th EXCEPT !.pc = "save", !.then = then, !.kind = kind, !.row.cid = cid])
    BY <1>4, <1>3
  <1>6. \A then, kind, cid, live :
          Shape([th EXCEPT !.pc = "save", !.then = then, !.kind = kind, !.row.cid = cid, !.live = live])
    BY <1>5, <1>2
  <1>7. \A then, kind, cid, live, staged :
          Shape([th EXCEPT !.pc = "save", !.then = then, !.kind = kind, !.row.cid = cid, !.live = live, !.staged = staged])
    BY <1>6, <1>2
  <1>8. \A then, kind, status : Shape([th EXCEPT !.pc = "save", !.then = then, !.kind = kind, !.row.status = status])
    BY <1>4, <1>3
  <1>9. \A pc, staged : Shape([th EXCEPT !.pc = pc, !.staged = staged])
    BY <1>1, <1>2
  <1>10. \A kind, staged : Shape([th EXCEPT !.pc = "claim", !.kind = kind, !.staged = staged])
    BY <1>1, <1>2
  <1>11. \A plan : Shape([th EXCEPT !.pc = "column", !.plan = plan])
    BY <1>1, <1>2
  <1>12. \A pc, plan, cid : Shape([th EXCEPT !.pc = pc, !.plan = plan, !.row.cid = cid])
    BY <1>1, <1>2, <1>3
  <1>13. \A pc, cid : Shape([th EXCEPT !.pc = pc, !.row.cid = cid])
    BY <1>1, <1>2, <1>3
  <1> QED
    BY <1>5, <1>6, <1>7, <1>8, <1>9, <1>10, <1>11, <1>12, <1>13 DEF th

LEMMA AfterGoes ==
  ASSUME LockInv, NEW t \in All, After(t)
  PROVE  Goes(t)
  <1>1. AfterOk(t) => Moved(t)
    <2> DEFINE saved(cid) == [thread[t] EXCEPT !.pc = "save", !.then = "claim", !.kind = "restart_start", !.row.cid = cid]
    <2>1. AfterOk(t) => \/ \E status, cid, a : SaveAs(t, status, cid, a)
                        \/ \E cid : Become(t, saved(cid))
      BY DEF AfterOk
    <2>2. \A cid : Shape(saved(cid))
      BY HandlerShapes
    <2> HIDE DEF saved
    <2> QED
      BY <2>1, <2>2, BecomeMoves, Moves
  <1>2. AfterError(t) => Moved(t)
    BY Moves DEF AfterError
  <1> QED
    BY <1>1, <1>2 DEF After, Goes, Working, At

LEMMA HandlersGo ==
  ASSUME LockInv, NEW t \in All,
         StartRuns(t) \/ StartCreates(t) \/ Unfreeze(t) \/ StopPowers(t) \/ RestartPowers(t) \/ RecreateRuns(t)
  PROVE  Goes(t)
  <1>1. CASE StartRuns(t)
    <2> DEFINE saved(cid) == [thread[t] EXCEPT !.pc = "save", !.then = "claim", !.kind = "start", !.row.cid = cid,
                                               !.live = FALSE, !.staged = FALSE]
               creates == [thread[t] EXCEPT !.pc = "create", !.staged = FALSE]
    <2>1. \/ \E pc : Goto(t, pc)
          \/ \E kind : JournalAs(t, kind)
          \/ \E cid : Become(t, saved(cid))
          \/ Become(t, creates)
      BY <1>1 DEF StartRuns
    <2>2. (\A cid : Shape(saved(cid))) /\ Shape(creates)
      BY HandlerShapes
    <2> HIDE DEF saved, creates
    <2>3. Moved(t)
      BY <2>1, <2>2, BecomeMoves, Moves
    <2> QED
      BY <1>1, <2>3 DEF StartRuns, Goes, Working, At
  <1>2. CASE StartCreates(t)
    <2> DEFINE saved(cid) == [thread[t] EXCEPT !.pc = "save", !.then = "claim", !.kind = "start", !.row.cid = cid,
                                               !.live = TRUE]
    <2>1. (\E cid : Become(t, saved(cid))) \/ \E a : Answer(t, a)
      BY <1>2 DEF StartCreates
    <2>2. \A cid : Shape(saved(cid))
      BY HandlerShapes
    <2> HIDE DEF saved
    <2>3. Moved(t)
      BY <2>1, <2>2, BecomeMoves, Moves
    <2> QED
      BY <1>2, <2>3 DEF StartCreates, Goes, Working, At
  <1>3. CASE Unfreeze(t)
    BY <1>3, Moves DEF Unfreeze, Goes, Working, At
  <1>4. CASE StopPowers(t)
    <2> DEFINE saved == [thread[t] EXCEPT !.pc = "save", !.then = "claim", !.kind = "stop", !.row.status = "stopping"]
    <2>1. Become(t, saved) \/ \E status, cid, a : SaveAs(t, status, cid, a)
      BY <1>4 DEF StopPowers
    <2>2. Shape(saved)
      BY HandlerShapes
    <2> HIDE DEF saved
    <2>3. Moved(t)
      BY <2>1, <2>2, BecomeMoves, Moves
    <2> QED
      BY <1>4, <2>3 DEF StopPowers, Goes, Working, At
  <1>5. CASE RestartPowers(t)
    BY <1>5, HandlerShapes, BecomeMoves, Moves DEF RestartPowers, Goes, Working, At
  <1>6. CASE RecreateRuns(t)
    BY <1>6, Moves DEF RecreateRuns, Goes, Working, At
  <1> QED
    BY <1>1, <1>2, <1>3, <1>4, <1>5, <1>6

LEMMA ReplacingGoes ==
  ASSUME LockInv, NEW t \in All, Replace(t) \/ Boot(t) \/ Save(t) \/ Refreeze(t)
  PROVE  Goes(t)
  <1>1. CASE Replace(t)
    <2>1. ASSUME NEW live, Replaced(t, live) PROVE Moved(t)
      <3> DEFINE th == [thread[t] EXCEPT !.row.cid = box'.id, !.live = live]
      <3>1. Shape(th)
        BY DEF LockInv, Shape, RowShape, Fields
      <3> HIDE DEF th
      <3>2. /\ Shape([th EXCEPT !.pc = "save", !.then = "boot"])
            /\ Shape([th EXCEPT !.pc = "save", !.then = "return", !.answer = "ok", !.row.status = "starting"])
            /\ Shape([th EXCEPT !.pc = "boot"])
        BY <3>1 DEF Shape, RowShape, Fields
      <3>3. \/ Become(t, [th EXCEPT !.pc = "save", !.then = "boot"])
            \/ Become(t, [th EXCEPT !.pc = "save", !.then = "return", !.answer = "ok", !.row.status = "starting"])
            \/ Become(t, [th EXCEPT !.pc = "boot"])
        BY <2>1 DEF Replaced, th
      <3> QED
        BY <3>2, <3>3, BecomeMoves
    <2> QED
      BY <1>1, <2>1, Moves DEF Replace, Goes, Working, At
  <1>2. CASE Boot(t)
    <2>1. Shape([thread[t] EXCEPT !.pc = "save", !.then = "return", !.answer = "ok",
                                  !.row.status = "starting", !.live = TRUE])
      BY DEF LockInv, Shape, RowShape, Fields
    <2> QED
      BY <1>2, <2>1, BecomeMoves, Moves DEF Boot, Goes, Working, At
  <1>3. CASE Save(t)
    BY <1>3, Moves DEF Save, Goes, Working, At
  <1>4. CASE Refreeze(t)
    BY <1>4, Moves DEF Refreeze, Goes, Working, At
  <1> QED
    BY <1>1, <1>2, <1>3, <1>4

LEMMA FreezerAndTasksGo ==
  ASSUME LockInv, NEW t \in All,
         Freeze(t) \/ Thaw(t) \/ Column(t) \/ StopTask(t) \/ StartTask(t) \/ RestartTask(t)
  PROVE  Goes(t)
  <1>1. CASE Freeze(t)
    BY <1>1, HandlerShapes, BecomeMoves, Moves DEF Freeze, Goes, Working, At
  <1>2. CASE Thaw(t)
    BY <1>2, HandlerShapes, BecomeMoves, Moves DEF Thaw, Goes, Working, At
  <1>3. CASE Column(t)
    BY <1>3, Moves DEF Column, Goes, Working, At
  <1>4. CASE StopTask(t)
    BY <1>4, Moves DEF StopTask, Goes, Working, At
  <1>5. CASE StartTask(t)
    BY <1>5, Moves DEF StartTask, Goes, Working, At
  <1>6. CASE RestartTask(t)
    BY <1>6, Moves DEF RestartTask, Goes, Working, At
  <1> QED
    BY <1>1, <1>2, <1>3, <1>4, <1>5, <1>6

LEMMA ReconcilerGoes ==
  ASSUME LockInv, Observe \/ ResumeStop \/ SelfHeal
  PROVE  Goes(Reconciler)
  <1>1. Reconciler \in All
    BY DEF All
  <1>2. CASE Observe
    <2> DEFINE observed(pc, plan, cid) == [thread[Reconciler] EXCEPT !.pc = pc, !.plan = plan, !.row.cid = cid]
    <2>1. (\E pc, plan, cid : Become(Reconciler, observed(pc, plan, cid))) \/ \E a : Answer(Reconciler, a)
      BY <1>2 DEF Observe
    <2>2. \A pc, plan, cid : Shape(observed(pc, plan, cid))
      BY <1>1, HandlerShapes
    <2> HIDE DEF observed
    <2>3. Moved(Reconciler)
      BY <1>1, <2>1, <2>2, BecomeMoves, Moves
    <2> QED
      BY <1>2, <2>3 DEF Observe, Goes, Working, At
  <1>3. CASE ResumeStop
    BY <1>1, <1>3, Moves DEF ResumeStop, Goes, Working, At
  <1>4. CASE SelfHeal
    <2> DEFINE made(cid) == [thread[Reconciler] EXCEPT !.pc = "boot", !.row.cid = cid]
               fails == [thread[Reconciler] EXCEPT !.pc = "column", !.plan = "error"]
    <2>1. \/ \E cid : Become(Reconciler, made(cid))
          \/ Become(Reconciler, fails)
          \/ \E pc : Goto(Reconciler, pc)
      BY <1>4 DEF SelfHeal
    <2>2. (\A cid : Shape(made(cid))) /\ Shape(fails)
      BY <1>1, HandlerShapes
    <2> HIDE DEF made, fails
    <2>3. Moved(Reconciler)
      BY <1>1, <2>1, <2>2, BecomeMoves, Moves
    <2> QED
      BY <1>4, <2>3 DEF SelfHeal, Goes, Working, At
  <1> QED
    BY <1>2, <1>3, <1>4

\* The row stays a row.
LEMMA RowKept ==
  ASSUME LockInv, NEW t \in All, Step(t)
  PROVE  RowShape(row)'
  <1>1. RowShape(row) /\ RowShape(thread[t].row)
    BY DEF LockInv, Shape
  <1>2. CASE Save(t)
    BY <1>1, <1>2 DEF Save, RowShape
  <1>3. CASE Column(t)
    BY <1>1, <1>3 DEF Column, RowShape
  <1>4. CASE row' = row
    BY <1>1, <1>4 DEF RowShape
  <1> QED
    BY <1>2, <1>3, <1>4 DEF Step, Acquire, Return, Claim, Enter, Mutate, Commit, After, StartRuns, StartCreates,
       Unfreeze, StopPowers, RestartPowers, RecreateRuns, Replace, Boot, Refreeze, Freeze, Thaw, StopTask,
       StartTask,
       RestartTask

LEMMA ReconcilerRow ==
  ASSUME LockInv, Observe \/ ResumeStop \/ SelfHeal \/ Column(Reconciler)
  PROVE  RowShape(row)'
  <1>1. RowShape(row)
    BY DEF LockInv
  <1>2. \A cid : RowShape([row EXCEPT !.cid = cid])
    BY <1>1 DEF RowShape
  <1>3. \A status : RowShape([row EXCEPT !.status = status])
    BY <1>1 DEF RowShape
  <1>4. \/ row' = row
        \/ \E cid : row' = [row EXCEPT !.cid = cid]
        \/ \E status : row' = [row EXCEPT !.status = status]
    BY DEF Observe, ResumeStop, SelfHeal, Column
  <1> QED
    BY <1>1, <1>2, <1>3, <1>4 DEF RowShape

-----------------------------------------------------------------------------
(* Calling, the lock, and the world *)

\* A goroutine that does not work afterwards takes a step that leaves the lock to its holder.
LEMMA RestingKeeps ==
  ASSUME LockInv, NEW t \in All, Moved(t), ~Working(t)', lock' = lock \/ lock = t, row' = row
  PROVE  LockInv'
  <1>1. thread = [u \in All |-> thread[u]] /\ thread' = [thread EXCEPT ![t] = thread'[t]] /\ Shape(thread'[t])
    BY DEF LockInv, Moved
  <1>2. thread' = [u \in All |-> thread'[u]] /\ \A u \in All : u # t => thread'[u] = thread[u]
    BY <1>1
  <1>3. \A u \in All : Shape(thread'[u])
    BY <1>1, <1>2 DEF LockInv
  <1>4. \A u \in All : Working(u)' => lock' = u
    BY <1>2 DEF LockInv, Working
  <1> QED
    BY <1>2, <1>3, <1>4 DEF LockInv, Shape

LEMMA CallKeeps ==
  ASSUME LockInv, "stop_task" \notin Ops, NEW t \in Threads, NEW op \in Ops, NEW req \in Requests, Call(t, op, req)
  PROVE  LockInv'
  <1> DEFINE called(staged) == [Idle EXCEPT !.op = op, !.pc = IF op = "stop_task" THEN "run" ELSE "acquire",
                                            !.row = row, !.req = req, !.staged = staged]
  <1>1. t \in All /\ op # "stop_task"
    BY DEF All
  <1>2. PICK staged \in Staged : Become(t, called(staged)) /\ lock' = lock /\ row' = row
    BY DEF Call
  <1>3. Shape(called(staged)) /\ called(staged).pc = "acquire"
    BY <1>1, IdleShape DEF LockInv, Shape, Fields
  <1>4. Moved(t) /\ thread'[t] = called(staged)
    BY <1>1, <1>2, <1>3, BecomeMoves
  <1> QED
    BY <1>1, <1>2, <1>3, <1>4, RestingKeeps DEF Working

LEMMA SweepKeeps ==
  ASSUME LockInv, Sweep
  PROVE  LockInv'
  <1> DEFINE swept == [Idle EXCEPT !.op = "reconcile", !.pc = "acquire"]
  <1>1. Reconciler \in All /\ Become(Reconciler, swept) /\ lock' = lock /\ row' = row
    BY DEF Sweep, All
  <1>2. Shape(swept) /\ swept.pc = "acquire"
    BY IdleShape DEF Shape, RowShape, Fields
  <1>3. Moved(Reconciler) /\ thread'[Reconciler] = swept
    BY <1>1, <1>2, BecomeMoves
  <1> QED
    BY <1>1, <1>2, <1>3, RestingKeeps DEF Working

LEMMA ReturnKeeps ==
  ASSUME LockInv, NEW t \in All, Return(t)
  PROVE  LockInv'
  <1>1. Moved(t) /\ thread'[t] = Idle
    BY IdleShape, BecomeMoves DEF Return
  <1>2. (lock' = lock \/ lock = t) /\ row' = row
    BY DEF Return
  <1> QED
    BY <1>1, <1>2, IdleShape, RestingKeeps DEF Working

LEMMA AcquireKeeps ==
  ASSUME LockInv, NEW t \in All, Acquire(t)
  PROVE  LockInv'
  <1>0. row' = row
    BY DEF Acquire
  <1>1. CASE Answer(t, "busy") /\ UNCHANGED lock
    <2>1. Moved(t) /\ thread'[t].pc = "return"
      BY <1>1, Moves
    <2> QED
      BY <1>0, <1>1, <2>1, RestingKeeps DEF Working
  <1>2. CASE /\ lock = NoOne /\ lock' = t
             /\ Become(t, [thread[t] EXCEPT !.pc = "run", !.row = IF Does(t, TaskOps) THEN @ ELSE row])
    <2>1. Moved(t)
      <3>1. \A r : RowShape(r) => Shape([thread[t] EXCEPT !.pc = "run", !.row = r])
        BY DEF LockInv, Shape, Fields
      <3>2. RowShape(IF Does(t, TaskOps) THEN thread[t].row ELSE row)
        BY DEF LockInv, Shape
      <3> QED
        BY <1>2, <3>1, <3>2, BecomeMoves
    <2>2. \A u \in All : ~Working(u)
      BY <1>2, LifecycleAssumption DEF LockInv, NoOne, All
    <2>3. thread = [u \in All |-> thread[u]] /\ thread' = [thread EXCEPT ![t] = thread'[t]] /\ Shape(thread'[t])
      BY <2>1 DEF LockInv, Moved
    <2>4. thread' = [u \in All |-> thread'[u]] /\ \A u \in All : u # t => thread'[u] = thread[u]
      BY <2>3
    <2>5. \A u \in All : Shape(thread'[u])
      BY <2>3, <2>4 DEF LockInv
    <2>6. \A u \in All : Working(u)' => lock' = u
      BY <1>2, <2>2, <2>4 DEF Working
    <2> QED
      BY <1>0, <2>4, <2>5, <2>6 DEF LockInv, Shape, RowShape
  <1> QED
    BY <1>1, <1>2 DEF Acquire

LEMMA WorldKeeps ==
  ASSUME LockInv, Crash \/ GameExits \/ RemovedByHand \/ (\E id \in Journal!Ids : Recover(id)) \/ UNCHANGED lifecycleVars
  PROVE  LockInv'
  <1>1. CASE Crash
    BY <1>1, IdleShape DEF Crash, LockInv, Working, Shape
  <1>2. CASE thread' = thread /\ lock' = lock /\ row' = row
    BY <1>2 DEF LockInv, Working, Shape, RowShape
  <1> QED
    BY <1>1, <1>2 DEF GameExits, RemovedByHand, Recover, lifecycleVars

-----------------------------------------------------------------------------
(* The theorem *)

LEMMA NextKeepsLock ==
  ASSUME LockInv, "stop_task" \notin Ops, [LifecycleNext]_lifecycleVars
  PROVE  LockInv'
  <1>1. ASSUME NEW t \in Threads, Step(t) PROVE LockInv'
    <2>1. t \in All
      BY DEF All
    <2>2. CASE Acquire(t)
      BY <2>1, <2>2, AcquireKeeps
    <2>3. CASE Return(t)
      BY <2>1, <2>3, ReturnKeeps
    <2>4. CASE ~Acquire(t) /\ ~Return(t)
      <3>1. Goes(t)
        BY <1>1, <2>1, <2>4, JournalSteps, AfterGoes, HandlersGo, ReplacingGoes, FreezerAndTasksGo DEF Step
      <3> QED
        BY <1>1, <2>1, <2>4, <3>1, RowKept, WorkingGoes
    <2> QED
      BY <2>2, <2>3, <2>4
  <1>2. ASSUME Reconcile PROVE LockInv'
    <2>1. Reconciler \in All
      BY DEF All
    <2>2. CASE Sweep
      BY <2>2, SweepKeeps
    <2>3. CASE Acquire(Reconciler)
      BY <2>1, <2>3, AcquireKeeps
    <2>4. CASE Return(Reconciler)
      BY <2>1, <2>4, ReturnKeeps
    <2>5. CASE Observe \/ ResumeStop \/ SelfHeal \/ Column(Reconciler)
      BY <2>1, <2>5, ReconcilerGoes, FreezerAndTasksGo, ReconcilerRow, WorkingGoes
    <2> QED
      BY <1>2, <2>2, <2>3, <2>4, <2>5 DEF Reconcile
  <1>3. ASSUME NEW t \in Threads, NEW op \in Ops, NEW req \in Requests, Call(t, op, req) PROVE LockInv'
    BY <1>3, CallKeeps
  <1> QED
    BY <1>1, <1>2, <1>3, WorldKeeps DEF LifecycleNext

LEMMA InitLock == LifecycleInit => LockInv
  <1> SUFFICES ASSUME LifecycleInit PROVE LockInv
    OBVIOUS
  <1>1. RowShape(row)
    BY DEF LifecycleInit, RowShape
  <1> QED
    BY <1>1, IdleShape DEF LifecycleInit, LockInv, Working, Shape

\* Two goroutines are never both inside a mutation of the server, over crashes, failed calls
\* and games that end, as long as the power task that takes no lock (scheduler.go) is not run.
THEOREM OneMutatorHolds == "stop_task" \notin Ops => (LifecycleSpec => []OneMutator)
  <1> SUFFICES ASSUME "stop_task" \notin Ops PROVE LifecycleSpec => []OneMutator
    OBVIOUS
  <1>1. LifecycleInit => LockInv
    BY InitLock
  <1>2. LockInv /\ [LifecycleNext]_lifecycleVars => LockInv'
    BY NextKeepsLock
  <1>3. LockInv => OneMutator
    BY DEF LockInv, OneMutator
  <1> QED
    BY <1>1, <1>2, <1>3, PTL DEF LifecycleSpec

-----------------------------------------------------------------------------
(* The reconciler and the stop *)

\* From the row the reconciler has read to the container it starts, the row asks for a running server.
AskedInv ==
  /\ At(Reconciler, "acquire") => thread[Reconciler].op = "reconcile"
  /\ At(Reconciler, "run") => thread[Reconciler].row = row
  /\ (At(Reconciler, "replace") \/ At(Reconciler, "boot")) => row.status \in {"running", "starting"}

\* A step of another goroutine that works finds the reconciler without the lock.
LEMMA OthersKeepAsked ==
  ASSUME LockInv, AskedInv, NEW t \in All, t # Reconciler, Moved(t), Working(t) \/ row' = row
  PROVE  AskedInv'
  <1>1. Reconciler \in All
    BY DEF All
  <1>2. thread'[Reconciler] = thread[Reconciler]
    BY <1>1 DEF LockInv, Moved
  <1>3. CASE Working(t)
    <2>1. ~Working(Reconciler)
      BY <1>1, <1>3 DEF LockInv
    <2> QED
      BY <1>2, <2>1 DEF AskedInv, Working, At
  <1>4. CASE row' = row
    BY <1>2, <1>4 DEF AskedInv, At
  <1> QED
    BY <1>3, <1>4

LEMMA ObserveKeepsAsked ==
  ASSUME LockInv, AskedInv, Observe
  PROVE  AskedInv'
  <1> DEFINE th(pc, plan, cid) == [thread[Reconciler] EXCEPT !.pc = pc, !.plan = plan, !.row.cid = cid]
             desired == thread[Reconciler].row.status
  <1>1. Reconciler \in All /\ Shape(thread[Reconciler]) /\ RowShape(row) /\ desired = row.status
    BY DEF All, LockInv, Observe, AskedInv
  <1>2. CASE \E a : Answer(Reconciler, a)
    <2>1. thread'[Reconciler].pc = "return"
      BY <1>1, <1>2, Moves
    <2> QED
      BY <2>1 DEF AskedInv, At
  <1>3. CASE /\ row' = row \/ \E cid : row' = [row EXCEPT !.cid = cid]
             /\ \E cid : Become(Reconciler, th(Decision(desired).pc, Decision(desired).plan, cid))
    <2>1. row'.status = row.status
      BY <1>1, <1>3 DEF RowShape
    <2>2. Decision(desired).pc = "replace" => desired \in {"running", "starting"}
      BY DEF Decision, Present, Missing, Plan
    <2>3. Decision(desired).pc \in {"replace", "column", "halt"}
      BY DEF Decision, Present, Missing, Plan
    <2>4. PICK cid : Become(Reconciler, th(Decision(desired).pc, Decision(desired).plan, cid))
      BY <1>3
    <2>5. ASSUME NEW pc, NEW plan PROVE Shape(th(pc, plan, cid)) /\ th(pc, plan, cid).pc = pc
      <3>1. Shape(th(pc, plan, cid))
        BY <1>1, HandlerShapes
      <3>2. th(pc, plan, cid).pc = pc
        BY <1>1 DEF Shape, Fields
      <3> QED
        BY <3>1, <3>2
    <2> HIDE DEF th
    <2>6. thread'[Reconciler].pc = Decision(desired).pc
      BY <1>1, <2>4, <2>5, BecomeMoves
    <2> HIDE DEF desired
    <2> QED
      BY <1>1, <2>1, <2>2, <2>3, <2>6 DEF AskedInv, At
  <1>4. (\E a : Answer(Reconciler, a)) \/
        (/\ row' = row \/ \E cid : row' = [row EXCEPT !.cid = cid]
         /\ \E cid : Become(Reconciler, th(Decision(desired).pc, Decision(desired).plan, cid)))
    BY DEF Observe
  <1> QED
    BY <1>2, <1>3, <1>4

LEMMA HealKeepsAsked ==
  ASSUME LockInv, AskedInv, SelfHeal \/ ResumeStop \/ Column(Reconciler)
  PROVE  AskedInv'
  <1> DEFINE made(cid) == [thread[Reconciler] EXCEPT !.pc = "boot", !.row.cid = cid]
             fails == [thread[Reconciler] EXCEPT !.pc = "column", !.plan = "error"]
  <1>1. Reconciler \in All /\ Shape(thread[Reconciler]) /\ RowShape(row)
    BY DEF All, LockInv
  <1>2. Shape(fails) /\ fails.pc = "column"
    <2>1. fails.pc = "column"
      BY <1>1 DEF Shape, Fields
    <2> QED
      BY <1>1, <2>1, HandlerShapes
  <1>3. \A cid : Shape(made(cid))
    BY <1>1, HandlerShapes
  <1>4. \A pc : Goto(Reconciler, pc) => thread'[Reconciler].pc = pc
    <2>1. ASSUME NEW pc, Goto(Reconciler, pc) PROVE thread'[Reconciler].pc = pc
      <3>1. Shape([thread[Reconciler] EXCEPT !.pc = pc]) /\ [thread[Reconciler] EXCEPT !.pc = pc].pc = pc
        BY <1>1 DEF Shape, Fields
      <3> QED
        BY <1>1, <2>1, <3>1, BecomeMoves DEF Goto
    <2> QED
      BY <2>1
  <1>5. CASE /\ At(Reconciler, "replace")
             /\ \E cid : Become(Reconciler, made(cid)) /\ row' = [row EXCEPT !.cid = cid]
    <2>1. PICK cid : Become(Reconciler, made(cid)) /\ row' = [row EXCEPT !.cid = cid]
      BY <1>5
    <2>2. row'.status = row.status
      BY <1>1, <2>1 DEF RowShape
    <2>3. made(cid).pc = "boot"
      BY <1>1 DEF Shape, Fields
    <2> HIDE DEF made
    <2>4. thread'[Reconciler].pc = "boot"
      BY <1>1, <1>3, <2>1, <2>3, BecomeMoves
    <2> QED
      BY <1>5, <2>2, <2>4 DEF AskedInv, At
  <1>6. CASE Become(Reconciler, fails)
    <2> HIDE DEF fails
    <2>1. thread'[Reconciler].pc = "column"
      BY <1>1, <1>2, <1>6, BecomeMoves
    <2> QED
      BY <2>1 DEF AskedInv, At
  <1>7. CASE Goto(Reconciler, "column") \/ \E a : Answer(Reconciler, a)
    <2>1. thread'[Reconciler].pc \in {"column", "return"}
      BY <1>1, <1>4, <1>7, Moves
    <2> QED
      BY <2>1 DEF AskedInv, At
  <1>8. \/ At(Reconciler, "replace") /\ \E cid : Become(Reconciler, made(cid)) /\ row' = [row EXCEPT !.cid = cid]
        \/ Become(Reconciler, fails)
        \/ Goto(Reconciler, "column")
        \/ \E a : Answer(Reconciler, a)
    BY DEF SelfHeal, ResumeStop, Column
  <1> QED
    BY <1>5, <1>6, <1>7, <1>8

LEMMA AcquireKeepsAsked ==
  ASSUME LockInv, AskedInv, Acquire(Reconciler) \/ Return(Reconciler) \/ Sweep
  PROVE  AskedInv'
  <1>1. Reconciler \in All /\ Shape(thread[Reconciler]) /\ RowShape(row) /\ row' = row
    BY DEF All, LockInv, Acquire, Return, Sweep
  <1>2. CASE Answer(Reconciler, "busy")
    <2>1. thread'[Reconciler].pc = "return"
      BY <1>1, <1>2, Moves
    <2> QED
      BY <2>1 DEF AskedInv, At
  <1>3. CASE At(Reconciler, "acquire") /\ Become(Reconciler,
               [thread[Reconciler] EXCEPT !.pc = "run", !.row = IF Does(Reconciler, TaskOps) THEN @ ELSE row])
    <2>1. ~Does(Reconciler, TaskOps)
      BY <1>3 DEF AskedInv, Does, TaskOps
    <2> DEFINE th == [thread[Reconciler] EXCEPT !.pc = "run", !.row = row]
    <2>2. Become(Reconciler, th)
      BY <1>3, <2>1
    <2>3. Shape(th) /\ th.pc = "run" /\ th.row = row
      BY <1>1 DEF Shape, Fields
    <2> HIDE DEF th
    <2>4. thread'[Reconciler] = th
      BY <1>1, <2>2, <2>3, BecomeMoves
    <2> QED
      BY <1>1, <2>3, <2>4 DEF AskedInv, At
  <1>4. CASE Become(Reconciler, Idle)
    <2>1. thread'[Reconciler] = Idle
      BY <1>1, <1>4, IdleShape, BecomeMoves
    <2> QED
      BY <2>1, IdleShape DEF AskedInv, At
  <1>5. CASE Become(Reconciler, [Idle EXCEPT !.op = "reconcile", !.pc = "acquire"])
    <2> DEFINE swept == [Idle EXCEPT !.op = "reconcile", !.pc = "acquire"]
    <2>1. Shape(swept) /\ swept.pc = "acquire" /\ swept.op = "reconcile"
      BY IdleShape DEF Shape, RowShape, Fields
    <2> HIDE DEF swept
    <2>2. thread'[Reconciler] = swept
      BY <1>1, <1>5, <2>1, BecomeMoves DEF swept
    <2> QED
      BY <2>1, <2>2 DEF AskedInv, At
  <1> QED
    BY <1>2, <1>3, <1>4, <1>5 DEF Acquire, Return, Sweep

LEMMA NextKeepsAsked ==
  ASSUME LockInv, AskedInv, "stop_task" \notin Ops, [LifecycleNext]_lifecycleVars
  PROVE  AskedInv'
  <1>1. ASSUME NEW t \in Threads, Step(t) PROVE AskedInv'
    <2>1. t \in All /\ t # Reconciler
      BY LifecycleAssumption DEF All
    <2>2. CASE Acquire(t)
      <3>1. \A r : RowShape(r) => Shape([thread[t] EXCEPT !.pc = "run", !.row = r])
        BY <2>1 DEF LockInv, Shape, Fields
      <3>2. RowShape(IF Does(t, TaskOps) THEN thread[t].row ELSE row)
        BY <2>1 DEF LockInv, Shape
      <3>3. Moved(t) /\ row' = row
        BY <2>1, <2>2, <3>1, <3>2, BecomeMoves, Moves DEF Acquire
      <3> QED
        BY <2>1, <3>3, OthersKeepAsked
    <2>3. CASE Return(t)
      <3>1. Moved(t) /\ row' = row
        BY <2>1, <2>3, IdleShape, BecomeMoves DEF Return
      <3> QED
        BY <2>1, <3>1, OthersKeepAsked
    <2>4. CASE ~Acquire(t) /\ ~Return(t)
      <3>1. Goes(t)
        BY <1>1, <2>1, <2>4, JournalSteps, AfterGoes, HandlersGo, ReplacingGoes, FreezerAndTasksGo DEF Step
      <3> QED
        BY <2>1, <3>1, OthersKeepAsked DEF Goes
    <2> QED
      BY <2>2, <2>3, <2>4
  <1>2. ASSUME NEW t \in Threads, NEW op \in Ops, NEW req \in Requests, Call(t, op, req) PROVE AskedInv'
    <2> DEFINE called(staged) == [Idle EXCEPT !.op = op, !.pc = IF op = "stop_task" THEN "run" ELSE "acquire",
                                              !.row = row, !.req = req, !.staged = staged]
    <2>1. t \in All /\ t # Reconciler /\ row' = row /\ \E staged : Become(t, called(staged))
      BY <1>2, LifecycleAssumption DEF All, Call
    <2>2. \A staged : Shape(called(staged))
      BY IdleShape DEF LockInv, Shape, Fields
    <2> HIDE DEF called
    <2>3. Moved(t)
      BY <2>1, <2>2, BecomeMoves
    <2> QED
      BY <2>1, <2>3, OthersKeepAsked
  <1>3. CASE Reconcile
    BY <1>3, AcquireKeepsAsked, ObserveKeepsAsked, HealKeepsAsked DEF Reconcile
  <1>4. CASE Crash
    BY <1>4, IdleShape DEF Crash, AskedInv, At, All
  <1>5. CASE thread' = thread /\ row' = row
    BY <1>5 DEF AskedInv, At
  <1> QED
    BY <1>1, <1>2, <1>3, <1>4, <1>5 DEF LifecycleNext, GameExits, RemovedByHand, Recover, lifecycleVars

\* The reconciler, which acts on the row it read when it took the lock, never starts the container
\* of a server whose row asks for none: a stop that was recorded is not undone (reconciler.go).
THEOREM StopIsNotUndoneHolds == "stop_task" \notin Ops => (LifecycleSpec => StopIsNotUndone)
  <1> SUFFICES ASSUME "stop_task" \notin Ops PROVE LifecycleSpec => StopIsNotUndone
    OBVIOUS
  <1>1. LifecycleInit => LockInv /\ AskedInv
    <2>1. LifecycleInit => thread[Reconciler] = Idle
      BY DEF LifecycleInit, All
    <2> QED
      BY <2>1, InitLock, IdleShape DEF AskedInv, At
  <1>2. LockInv /\ AskedInv /\ [LifecycleNext]_lifecycleVars => LockInv' /\ AskedInv'
    BY NextKeepsLock, NextKeepsAsked
  <1>3. AskedInv /\ [LifecycleNext]_lifecycleVars =>
          [(~WorldOpen /\ WorldOpen' /\ thread'[Reconciler] # thread[Reconciler] /\ At(Reconciler, "boot"))
             => row.status \in {"running", "starting"}]_lifecycleVars
    BY DEF AskedInv
  <1> QED
    BY <1>1, <1>2, <1>3, PTL DEF LifecycleSpec, StopIsNotUndone

-----------------------------------------------------------------------------
(* What the row and the answers know of the container *)

\* Types: a container's identity is a number, failures are counted, journal kinds are kinds;
\* the stop task does not run.
BoxShape(b) == b = [f \in {"id", "state"} |-> b[f]] /\ b.id \in Nat
BaseInv ==
  /\ BoxShape(box)
  /\ mishaps \in Nat /\ faults \in Nat
  /\ \A t \in All : thread[t].kind \in Kinds /\ thread[t].op # "stop_task"

Newest(cid) == cid \in {box.id, NoOne}
JournalPcs == {"claim", "enter", "mutate", "commit", "after"}

\* A copy of the row that names a new container and is yet to be saved.
Pending(t) == At(t, "save") \/ (At(t, "boot") /\ ~Does(t, {"restart"}))

\* Who works on the server has the newest container in its copy of the row, or none, but for a task
\* that is yet to look for the one it was handed.
TrackedAt(t) ==
  /\ (Working(t) /\ ~(Does(t, TaskOps) /\ thread[t].pc \in {"run", "halt"})) => Newest(thread[t].row.cid)
  /\ (thread[t].pc \in {"run", "power"} /\ ~Does(t, TaskOps)) => thread[t].row.cid = row.cid
  /\ (thread[t].pc \in JournalPcs /\ thread[t].kind = "restart_create") => thread[t].row.cid = NoOne /\ row.cid = NoOne
  /\ (At(t, "save") /\ thread[t].then = "claim") => thread[t].kind # "restart_create"

\* Without accidents the row names the newest container unless a goroutine is about to save it.
TrackInv ==
  (mishaps = 0 /\ faults = 0) =>
    /\ Newest(row.cid) \/ \E t \in Threads : Pending(t)
    /\ \A t \in Threads : TrackedAt(t)

\* A goroutine that answers ok, or goes on behind a container it takes for running, has the world open.
Claims(t) == Does(t, {"recreate"}) \/ (Does(t, {"start"}) /\ thread[t].live)
UpAt(t) ==
  /\ (/\ Does(t, {"start", "recreate"}) /\ thread[t].live
      /\ At(t, "boot") \/ (At(t, "save") /\ thread[t].then = "boot")) => WorldOpen
  /\ (Claims(t) /\ thread[t].answer = "ok" /\ thread[t].pc \in {"commit", "after", "save", "return"}) => WorldOpen
  /\ thread[t].pc \in {"acquire", "run", "create"} => thread[t].answer # "ok"
  /\ At(t, "save") => thread[t].then \in {"return", "claim", "boot"}
  /\ Does(t, {"start"}) => thread[t].kind \in {"start", "start_unpause"} /\ ~At(t, "column")
  /\ Does(t, {"recreate"}) =>
       /\ thread[t].kind = "start" /\ thread[t].pc \in {"acquire", "run", "replace", "boot", "save", "return"}
       /\ At(t, "save") => thread[t].then = "return"

\* Whoever answers ok still holds the lock; until an accident what it says of the world is true.
UpInv ==
  /\ \A t \in All : (At(t, "return") /\ thread[t].answer = "ok") => lock = t
  /\ mishaps = 0 => \A t \in Threads : UpAt(t)

\* What a step of t leaves in its record.
Sets(t, pc, then, cid, kind, answer, live) ==
  /\ thread'[t].op = thread[t].op /\ thread'[t].pc = pc /\ thread'[t].then = then /\ thread'[t].row.cid = cid
  /\ thread'[t].kind = kind /\ thread'[t].answer = answer /\ thread'[t].live = live

LEMMA BecomeSets ==
  ASSUME LockInv, NEW t \in All, NEW th, Shape(th), th.op = thread[t].op, Become(t, th)
  PROVE  Sets(t, th.pc, th.then, th.row.cid, th.kind, th.answer, th.live)
  BY BecomeMoves DEF Sets

LEMMA MovesSet ==
  ASSUME LockInv, NEW t \in All, NEW th, th = thread[t]
  PROVE  /\ \A pc : Goto(t, pc) => Sets(t, pc, th.then, th.row.cid, th.kind, th.answer, th.live)
         /\ \A a : Answer(t, a) => Sets(t, "return", th.then, th.row.cid, th.kind, a, th.live)
         /\ \A status, cid, then :
              SaveThen(t, status, cid, then) => Sets(t, "save", then, cid, th.kind, th.answer, th.live)
         /\ \A status, cid, a : SaveAs(t, status, cid, a) => Sets(t, "save", "return", cid, th.kind, a, th.live)
         /\ \A kind : JournalAs(t, kind) => Sets(t, "claim", th.then, th.row.cid, kind, th.answer, th.live)
  <1>1. Shape(th)
    BY DEF LockInv
  <1>2. ASSUME NEW pc, Goto(t, pc)
        PROVE  Sets(t, pc, th.then, th.row.cid, th.kind, th.answer, th.live)
    <2> DEFINE q == [th EXCEPT !.pc = pc]
    <2>1. /\ Shape(q) /\ q.op = th.op /\ q.pc = pc /\ q.then = th.then /\ q.row.cid = th.row.cid
          /\ q.kind = th.kind /\ q.answer = th.answer /\ q.live = th.live
      BY <1>1 DEF Shape, RowShape, Fields
    <2>2. Become(t, q)
      BY <1>2 DEF Goto
    <2> HIDE DEF q
    <2> QED
      BY <2>1, <2>2, BecomeSets
  <1>3. ASSUME NEW a, Answer(t, a)
        PROVE  Sets(t, "return", th.then, th.row.cid, th.kind, a, th.live)
    <2> DEFINE q == [th EXCEPT !.pc = "return", !.answer = a]
    <2>1. /\ Shape(q) /\ q.op = th.op /\ q.pc = "return" /\ q.then = th.then /\ q.row.cid = th.row.cid
          /\ q.kind = th.kind /\ q.answer = a /\ q.live = th.live
      BY <1>1 DEF Shape, RowShape, Fields
    <2>2. Become(t, q)
      BY <1>3 DEF Answer
    <2> HIDE DEF q
    <2> QED
      BY <2>1, <2>2, BecomeSets
  <1>4. ASSUME NEW status, NEW cid, NEW then, SaveThen(t, status, cid, then)
        PROVE  Sets(t, "save", then, cid, th.kind, th.answer, th.live)
    <2> DEFINE q == [th EXCEPT !.pc = "save", !.then = then, !.row = [status |-> status, cid |-> cid]]
    <2>1. /\ Shape(q) /\ q.op = th.op /\ q.pc = "save" /\ q.then = then /\ q.row.cid = cid
          /\ q.kind = th.kind /\ q.answer = th.answer /\ q.live = th.live
      BY <1>1 DEF Shape, RowShape, Fields
    <2>2. Become(t, q)
      BY <1>4 DEF SaveThen
    <2> HIDE DEF q
    <2> QED
      BY <2>1, <2>2, BecomeSets
  <1>5. ASSUME NEW status, NEW cid, NEW a, SaveAs(t, status, cid, a)
        PROVE  Sets(t, "save", "return", cid, th.kind, a, th.live)
    <2> DEFINE q == [th EXCEPT !.pc = "save", !.then = "return", !.answer = a,
                               !.row = [status |-> status, cid |-> cid]]
    <2>1. /\ Shape(q) /\ q.op = th.op /\ q.pc = "save" /\ q.then = "return" /\ q.row.cid = cid
          /\ q.kind = th.kind /\ q.answer = a /\ q.live = th.live
      BY <1>1 DEF Shape, RowShape, Fields
    <2>2. Become(t, q)
      BY <1>5 DEF SaveAs
    <2> HIDE DEF q
    <2> QED
      BY <2>1, <2>2, BecomeSets
  <1>6. ASSUME NEW kind, JournalAs(t, kind)
        PROVE  Sets(t, "claim", th.then, th.row.cid, kind, th.answer, th.live)
    <2> DEFINE q == [th EXCEPT !.pc = "claim", !.kind = kind]
    <2>1. /\ Shape(q) /\ q.op = th.op /\ q.pc = "claim" /\ q.then = th.then /\ q.row.cid = th.row.cid
          /\ q.kind = kind /\ q.answer = th.answer /\ q.live = th.live
      BY <1>1 DEF Shape, RowShape, Fields
    <2>2. Become(t, q)
      BY <1>6 DEF JournalAs
    <2> HIDE DEF q
    <2> QED
      BY <2>1, <2>2, BecomeSets
  <1> QED
    BY <1>2, <1>3, <1>4, <1>5, <1>6

-----------------------------------------------------------------------------
(* Docker's calls *)

LEMMA DockerCalls ==
  ASSUME BoxShape(box)
  PROVE  /\ \A state : Becomes(state) => BoxShape(box') /\ box'.id = box.id /\ box'.state = state
         /\ \A state : Fresh(state) => BoxShape(box') /\ box'.id = box.id + 1 /\ box'.id # NoOne /\ box'.state = state
  BY DEF BoxShape, Becomes, Fresh, NoOne

LEMMA ContainerCalls ==
  ASSUME BoxShape(box), NEW cid
  PROVE  /\ StartContainer(cid) => BoxShape(box') /\ box'.id = box.id /\ cid = box.id /\ WorldOpen'
         /\ StopContainer(cid) => BoxShape(box') /\ box'.id = box.id
         /\ CreateContainer => BoxShape(box')
         /\ ReplaceContainer(cid) => BoxShape(box') /\ (WasRunning(cid) => WorldOpen')
         /\ ReplaceFails(cid) => BoxShape(box') /\ box'.id = box.id
  <1>1. StartContainer(cid) => BoxShape(box') /\ box'.id = box.id /\ cid = box.id /\ WorldOpen'
    BY DockerCalls DEF StartContainer, Startable, Exists, WorldOpen, Open
  <1>2. StopContainer(cid) => BoxShape(box') /\ box'.id = box.id
    BY DockerCalls DEF StopContainer
  <1>3. CreateContainer => BoxShape(box')
    BY DockerCalls DEF CreateContainer
  <1>4. ReplaceContainer(cid) => BoxShape(box') /\ (WasRunning(cid) => WorldOpen')
    BY DockerCalls, <1>3 DEF ReplaceContainer, WasRunning, Exists, WorldOpen, Open
  <1>5. ReplaceFails(cid) => BoxShape(box') /\ box'.id = box.id
    BY DockerCalls DEF ReplaceFails
  <1> QED
    BY <1>1, <1>2, <1>3, <1>4, <1>5

-----------------------------------------------------------------------------
(* One step of a goroutine that works *)

GoodAt(t) ==
  /\ (mishaps = 0 /\ faults = 0) => TrackedAt(t) /\ (Newest(row.cid) \/ Pending(t))
  /\ mishaps = 0 => UpAt(t)

\* A step leaves the container a container and the journal's kind a kind.
Typed(t) == BoxShape(box') /\ thread'[t].kind \in Kinds /\ thread'[t].op = thread[t].op /\ faults' \in Nat /\ mishaps' = mishaps

LEMMA SameBox == box' = box => (WorldOpen' <=> WorldOpen) /\ (BoxShape(box) => BoxShape(box'))
  BY DEF WorldOpen, Open, Exists

LEMMA Faults ==
  ASSUME BaseInv
  PROVE  /\ Fault => faults' \in Nat /\ faults' # 0
         /\ faults' = faults => faults' \in Nat
  BY DEF BaseInv, Fault

LEMMA JournalGood ==
  ASSUME LockInv, BaseInv, NEW t \in Threads, GoodAt(t), Claim(t) \/ Enter(t) \/ Mutate(t) \/ Commit(t)
  PROVE  GoodAt(t)' /\ Typed(t)
  <1> DEFINE th == thread[t]
  <1>1. t \in All /\ Shape(th) /\ BoxShape(box) /\ th.kind \in Kinds /\ mishaps \in Nat /\ faults \in Nat
    BY DEF All, LockInv, BaseInv
  <1>2. \A pc : Goto(t, pc) => Sets(t, pc, th.then, th.row.cid, th.kind, th.answer, th.live)
    BY <1>1, MovesSet
  <1>3. ASSUME NEW pc, NEW a, NEW live, Become(t, [th EXCEPT !.pc = pc, !.answer = a, !.live = live])
        PROVE  Sets(t, pc, th.then, th.row.cid, th.kind, a, live)
    <2> DEFINE q == [th EXCEPT !.pc = pc, !.answer = a, !.live = live]
    <2>1. /\ Shape(q) /\ q.op = th.op /\ q.pc = pc /\ q.then = th.then /\ q.row.cid = th.row.cid
          /\ q.kind = th.kind /\ q.answer = a /\ q.live = live
      BY <1>1 DEF Shape, RowShape, Fields
    <2>2. Become(t, q)
      BY <1>3
    <2> HIDE DEF q
    <2> QED
      BY <1>1, <2>1, <2>2, BecomeSets
  <1> HIDE DEF th
  <1>4. CASE /\ box' = box /\ row' = row /\ mishaps' = mishaps /\ (Fault \/ faults' = faults)
             /\ \/ /\ At(t, "claim") \/ At(t, "enter")
                   /\ \/ \E pc \in {"enter", "mutate"} : Sets(t, pc, th.then, th.row.cid, th.kind, th.answer, th.live)
                      \/ \E a : Sets(t, "after", th.then, th.row.cid, th.kind, a, FALSE)
                \/ At(t, "commit") /\ Sets(t, "after", th.then, th.row.cid, th.kind, th.answer, th.live)
    BY <1>1, <1>4, SameBox, Faults DEF th, GoodAt, Typed, TrackedAt, UpAt, Newest, Pending, Claims, JournalPcs, Sets,
       Working, At, Does
  <1>5. CASE /\ At(t, "mutate") /\ row' = row /\ mishaps' = mishaps
             /\ \E a \in {"ok", "error"}, live \in BOOLEAN :
                  /\ Sets(t, "commit", th.then, th.row.cid, th.kind, a, live)
                  /\ \/ a = "ok" /\ Works(t) /\ faults' = faults
                     \/ a = "error" /\ box' = box /\ faults' = faults
                     \/ a = "error" /\ Fault /\ WorksHalf(t)
    <2>1. PICK a \in {"ok", "error"}, live \in BOOLEAN :
                  /\ Sets(t, "commit", th.then, th.row.cid, th.kind, a, live)
                  /\ \/ a = "ok" /\ Works(t) /\ faults' = faults
                     \/ a = "error" /\ box' = box /\ faults' = faults
                     \/ a = "error" /\ Fault /\ WorksHalf(t)
      BY <1>5
    <2>2. CASE a = "ok" /\ Works(t) /\ faults' = faults
      <3>1. CASE th.kind \in {"start_unpause", "start", "restart", "restart_start"}
        <4>0. Exists(th.row.cid) /\ Becomes("running")
          BY <2>2, <3>1 DEF Works, th, Unpausable, StartContainer, Startable
        <4>1. BoxShape(box') /\ box'.id = box.id /\ WorldOpen'
          BY <1>1, <4>0, DockerCalls DEF Exists, WorldOpen, Open
        <4> QED
          BY <1>1, <1>5, <2>1, <2>2, <3>1, <4>1 DEF th, GoodAt, Typed, TrackedAt, UpAt, Newest, Pending, Claims,
             JournalPcs, Sets, Working, At, Does
      <3>2. CASE th.kind = "stop"
        <4>1. BoxShape(box') /\ box'.id = box.id
          BY <1>1, <2>2, <3>2, ContainerCalls DEF Works, th
        <4> QED
          BY <1>1, <1>5, <2>1, <2>2, <3>2, <4>1 DEF th, GoodAt, Typed, TrackedAt, UpAt, Newest, Pending, Claims,
             JournalPcs, Sets, Working, At, Does
      <3>3. CASE th.kind = "restart_create"
        <4>1. BoxShape(box')
          BY <1>1, <2>2, <3>3, ContainerCalls DEF Works, th
        <4> QED
          BY <1>1, <1>5, <2>1, <2>2, <3>3, <4>1 DEF th, GoodAt, Typed, TrackedAt, UpAt, Newest, Pending, Claims,
             JournalPcs, Sets, Working, At, Does
      <3> QED
        BY <1>1, <3>1, <3>2, <3>3 DEF Kinds
    <2>3. CASE a = "error" /\ box' = box /\ faults' = faults
      BY <1>1, <1>5, <2>1, <2>3, SameBox DEF th, GoodAt, Typed, TrackedAt, UpAt, Newest, Pending, Claims, JournalPcs,
         Sets, Working, At, Does
    <2>4. CASE a = "error" /\ Fault /\ WorksHalf(t)
      <3>1. BoxShape(box') /\ faults' # 0 /\ faults' \in Nat
        BY <1>1, <2>4, ContainerCalls, Faults DEF WorksHalf
      <3> QED
        BY <1>1, <1>5, <2>1, <2>4, <3>1 DEF th, GoodAt, Typed, UpAt, Claims, Sets, At, Does
    <2> QED
      BY <2>1, <2>2, <2>3, <2>4
  <1>6. Claim(t) \/ Enter(t) \/ Commit(t) =>
             /\ box' = box /\ row' = row /\ mishaps' = mishaps /\ (Fault \/ faults' = faults)
             /\ \/ /\ At(t, "claim") \/ At(t, "enter")
                   /\ \/ \E pc \in {"enter", "mutate"} : Sets(t, pc, th.then, th.row.cid, th.kind, th.answer, th.live)
                      \/ \E a : Sets(t, "after", th.then, th.row.cid, th.kind, a, FALSE)
                \/ At(t, "commit") /\ Sets(t, "after", th.then, th.row.cid, th.kind, th.answer, th.live)
    BY <1>2, <1>3 DEF Claim, Enter, Commit, th
  <1>7. Mutate(t) =>
             /\ At(t, "mutate") /\ row' = row /\ mishaps' = mishaps
             /\ \E a \in {"ok", "error"}, live \in BOOLEAN :
                  /\ Sets(t, "commit", th.then, th.row.cid, th.kind, a, live)
                  /\ \/ a = "ok" /\ Works(t) /\ faults' = faults
                     \/ a = "error" /\ box' = box /\ faults' = faults
                     \/ a = "error" /\ Fault /\ WorksHalf(t)
    <2> SUFFICES ASSUME Mutate(t)
                 PROVE  \E a \in {"ok", "error"}, live \in BOOLEAN :
                          /\ Sets(t, "commit", th.then, th.row.cid, th.kind, a, live)
                          /\ \/ a = "ok" /\ Works(t) /\ faults' = faults
                             \/ a = "error" /\ box' = box /\ faults' = faults
                             \/ a = "error" /\ Fault /\ WorksHalf(t)
      BY DEF Mutate
    <2> DEFINE L(a) == a = "ok" /\ (th.kind = "stop" => Exists(th.row.cid))
               done(a) == Become(t, [th EXCEPT !.pc = "commit", !.answer = a, !.live = L(a)])
    <2>1. \/ done("ok") /\ Works(t) /\ faults' = faults
          \/ done("error") /\ box' = box /\ faults' = faults
          \/ done("error") /\ Fault /\ WorksHalf(t)
      BY DEF Mutate, th
    <2>2. \A a : L(a) \in BOOLEAN
      OBVIOUS
    <2>3. \A a : done(a) => Sets(t, "commit", th.then, th.row.cid, th.kind, a, L(a))
      BY <1>3
    <2> HIDE DEF L, done
    <2> QED
      BY <2>1, <2>2, <2>3
  <1> QED
    BY <1>4, <1>5, <1>6, <1>7

LEMMA AfterGood ==
  ASSUME LockInv, BaseInv, NEW t \in Threads, GoodAt(t), After(t)
  PROVE  GoodAt(t)' /\ Typed(t)
  <1> DEFINE th == thread[t]
  <1>1. t \in All /\ Shape(th) /\ BoxShape(box) /\ th.kind \in Kinds /\ mishaps \in Nat /\ faults \in Nat
    BY DEF All, LockInv, BaseInv
  <1>2. ASSUME NEW then, NEW kind, NEW cid,
               Become(t, [th EXCEPT !.pc = "save", !.then = then, !.kind = kind, !.row.cid = cid])
        PROVE  Sets(t, "save", then, cid, kind, th.answer, th.live)
    <2> DEFINE q == [th EXCEPT !.pc = "save", !.then = then, !.kind = kind, !.row.cid = cid]
    <2>1. /\ Shape(q) /\ q.op = th.op /\ q.pc = "save" /\ q.then = then /\ q.row.cid = cid
          /\ q.kind = kind /\ q.answer = th.answer /\ q.live = th.live
      BY <1>1 DEF Shape, RowShape, Fields
    <2>2. Become(t, q)
      BY <1>2
    <2> HIDE DEF q
    <2> QED
      BY <1>1, <2>1, <2>2, BecomeSets
  <1>3. box' = box /\ row' = row /\ mishaps' = mishaps /\ faults' = faults /\ At(t, "after")
    BY DEF After, NoDocker, NoBound
  <1>4. CASE th.answer = "ok"
    <2>1. \/ th.kind # "restart_create" /\ Sets(t, "save", "return", th.row.cid, th.kind, "ok", th.live)
          \/ th.kind = "stop" /\ Sets(t, "save", "return", NoOne, th.kind, "ok", th.live)
          \/ /\ th.kind = "restart_create"
             /\ \E cid \in {box.id, NoOne} : Sets(t, "save", "claim", cid, "restart_start", "ok", th.live)
      BY <1>1, <1>2, <1>4, MovesSet DEF After, AfterOk
    <2> HIDE DEF th
    <2> QED
      BY <1>1, <1>3, <1>4, <2>1, SameBox DEF th, GoodAt, Typed, TrackedAt, UpAt, Newest, Pending, Claims, JournalPcs,
         Sets, Working, At, Does, Kinds
  <1>5. CASE th.answer # "ok"
    <2>1. \/ th.kind \in {"start", "restart"} /\ Sets(t, "replace", th.then, th.row.cid, th.kind, th.answer, th.live)
          \/ Sets(t, "save", "return", th.row.cid, th.kind, "error", th.live)
          \/ Sets(t, "return", th.then, th.row.cid, th.kind, "error", th.live)
      BY <1>1, <1>5, MovesSet DEF After, AfterError
    <2> HIDE DEF th
    <2> QED
      BY <1>1, <1>3, <1>5, <2>1, SameBox DEF th, GoodAt, Typed, TrackedAt, UpAt, Newest, Pending, Claims, JournalPcs,
         Sets, Working, At, Does, Kinds
  <1> QED
    BY <1>4, <1>5

LEMMA HandlersGood ==
  ASSUME LockInv, BaseInv, NEW t \in Threads, GoodAt(t),
         StartRuns(t) \/ Unfreeze(t) \/ StopPowers(t) \/ RestartPowers(t) \/ RecreateRuns(t)
  PROVE  GoodAt(t)' /\ Typed(t)
  <1> DEFINE th == thread[t]
  <1>1. t \in All /\ Shape(th) /\ BoxShape(box) /\ th.kind \in Kinds /\ mishaps \in Nat /\ faults \in Nat
    BY DEF All, LockInv, BaseInv
  <1>2. row' = row /\ mishaps' = mishaps /\ (At(t, "run") \/ At(t, "power"))
    BY DEF StartRuns, Unfreeze, StopPowers, RestartPowers, RecreateRuns, NoBound
  <1>3. CASE StartRuns(t)
    <2> DEFINE saved == [th EXCEPT !.pc = "save", !.then = "claim", !.kind = "start", !.row.cid = box.id,
                                   !.live = FALSE, !.staged = FALSE]
               creates == [th EXCEPT !.pc = "create", !.staged = FALSE]
    <2>1. /\ Shape(saved) /\ saved.op = th.op /\ saved.pc = "save" /\ saved.then = "claim" /\ saved.row.cid = box.id
          /\ saved.kind = "start" /\ saved.answer = th.answer /\ saved.live = FALSE
      BY <1>1 DEF Shape, RowShape, Fields
    <2>2. /\ Shape(creates) /\ creates.op = th.op /\ creates.pc = "create" /\ creates.then = th.then
          /\ creates.row.cid = th.row.cid /\ creates.kind = th.kind /\ creates.answer = th.answer
          /\ creates.live = th.live
      BY <1>1 DEF Shape, RowShape, Fields
    <2>3. \/ Goto(t, "replace")
          \/ JournalAs(t, "start_unpause")
          \/ JournalAs(t, "start")
          \/ Become(t, saved)
          \/ Become(t, creates)
      BY <1>3 DEF StartRuns
    <2>4. box' = box /\ faults' = faults /\ At(t, "run") /\ Does(t, {"start"})
      BY <1>3 DEF StartRuns, NoDocker
    <2> HIDE DEF saved, creates
    <2>5. \/ \E pc \in {"replace", "create"} : Sets(t, pc, th.then, th.row.cid, th.kind, th.answer, th.live)
          \/ \E kind \in {"start_unpause", "start"} : Sets(t, "claim", th.then, th.row.cid, kind, th.answer, th.live)
          \/ Sets(t, "save", "claim", box.id, "start", th.answer, FALSE)
      BY <1>1, <2>1, <2>2, <2>3, MovesSet, BecomeSets
    <2> HIDE DEF th
    <2> QED
      BY <1>1, <1>2, <2>4, <2>5, SameBox DEF th, GoodAt, Typed, TrackedAt, UpAt, Newest, Pending, Claims, JournalPcs,
         Sets, Working, At, Does, Kinds, TaskOps
  <1>4. CASE Unfreeze(t)
    <2>1. /\ At(t, "run") /\ Does(t, {"stop", "restart"}) /\ BoxShape(box') /\ box'.id = box.id
          /\ faults' = faults \/ Fault
      BY <1>1, <1>4, SameBox, DockerCalls DEF Unfreeze, NoDocker
    <2>2. \/ Sets(t, "power", th.then, th.row.cid, th.kind, th.answer, th.live)
          \/ Sets(t, "return", th.then, th.row.cid, th.kind, "error", th.live)
      BY <1>1, <1>4, MovesSet DEF Unfreeze
    <2> HIDE DEF th
    <2> QED
      BY <1>1, <1>2, <2>1, <2>2, Faults DEF th, GoodAt, Typed, TrackedAt, UpAt, Newest, Pending, Claims,
         JournalPcs, Sets, Working, At, Does, Kinds, TaskOps
  <1>5. CASE StopPowers(t)
    <2> DEFINE saved == [th EXCEPT !.pc = "save", !.then = "claim", !.kind = "stop", !.row.status = "stopping"]
    <2>1. /\ Shape(saved) /\ saved.op = th.op /\ saved.pc = "save" /\ saved.then = "claim"
          /\ saved.row.cid = th.row.cid
          /\ saved.kind = "stop" /\ saved.answer = th.answer /\ saved.live = th.live
      BY <1>1 DEF Shape, RowShape, Fields
    <2>2. /\ SaveAs(t, "stopped", NoOne, "ok") \/ Become(t, saved)
          /\ At(t, "power") /\ Does(t, {"stop"}) /\ box' = box /\ faults' = faults
      BY <1>5 DEF StopPowers, NoDocker
    <2> HIDE DEF saved
    <2>3. \/ Sets(t, "save", "return", NoOne, th.kind, "ok", th.live)
          \/ Sets(t, "save", "claim", th.row.cid, "stop", th.answer, th.live)
      BY <1>1, <2>1, <2>2, MovesSet, BecomeSets
    <2> HIDE DEF th
    <2> QED
      BY <1>1, <1>2, <2>2, <2>3, SameBox DEF th, GoodAt, Typed, TrackedAt, UpAt, Newest, Pending, Claims,
         JournalPcs, Sets, Working, At, Does, Kinds, TaskOps
  <1>6. CASE RestartPowers(t)
    <2> DEFINE creates == [th EXCEPT !.pc = "claim", !.kind = "restart_create", !.staged = FALSE]
    <2>1. /\ Shape(creates) /\ creates.op = th.op /\ creates.pc = "claim" /\ creates.then = th.then
          /\ creates.row.cid = th.row.cid
          /\ creates.kind = "restart_create" /\ creates.answer = th.answer /\ creates.live = th.live
      BY <1>1 DEF Shape, RowShape, Fields
    <2>2. /\ \/ th.row.cid = NoOne /\ Become(t, creates)
             \/ Goto(t, "replace")
             \/ JournalAs(t, "restart")
          /\ At(t, "power") /\ Does(t, {"restart"}) /\ box' = box /\ faults' = faults
      BY <1>6 DEF RestartPowers, NoDocker
    <2> HIDE DEF creates
    <2>3. \/ th.row.cid = NoOne /\ Sets(t, "claim", th.then, th.row.cid, "restart_create", th.answer, th.live)
          \/ Sets(t, "replace", th.then, th.row.cid, th.kind, th.answer, th.live)
          \/ Sets(t, "claim", th.then, th.row.cid, "restart", th.answer, th.live)
      BY <1>1, <2>1, <2>2, MovesSet, BecomeSets
    <2> HIDE DEF th
    <2> QED
      BY <1>1, <1>2, <2>2, <2>3, SameBox DEF th, GoodAt, Typed, TrackedAt, UpAt, Newest, Pending, Claims,
         JournalPcs, Sets, Working, At, Does, Kinds, TaskOps
  <1>7. CASE RecreateRuns(t)
    <2>1. /\ Sets(t, "replace", th.then, th.row.cid, th.kind, th.answer, th.live)
          /\ At(t, "run") /\ Does(t, {"recreate"}) /\ box' = box /\ faults' = faults
      BY <1>1, <1>7, MovesSet DEF RecreateRuns, NoDocker
    <2> HIDE DEF th
    <2> QED
      BY <1>1, <1>2, <2>1, SameBox DEF th, GoodAt, Typed, TrackedAt, UpAt, Newest, Pending, Claims,
         JournalPcs, Sets, Working, At, Does, Kinds, TaskOps
  <1> QED
    BY <1>3, <1>4, <1>5, <1>6, <1>7

LEMMA ReplacingGood ==
  ASSUME LockInv, BaseInv, NEW t \in Threads, GoodAt(t), StartCreates(t) \/ Replace(t) \/ Boot(t)
  PROVE  GoodAt(t)' /\ Typed(t)
  <1> DEFINE th == thread[t]
  <1>1. t \in All /\ Shape(th) /\ BoxShape(box) /\ th.kind \in Kinds /\ mishaps \in Nat /\ faults \in Nat
    BY DEF All, LockInv, BaseInv
  <1>2. row' = row /\ mishaps' = mishaps
    BY DEF StartCreates, Replace, Boot, NoBound
  <1>3. CASE StartCreates(t)
    <2> DEFINE saved == [th EXCEPT !.pc = "save", !.then = "claim", !.kind = "start", !.row.cid = box'.id, !.live = TRUE]
    <2>1. /\ Shape(saved) /\ saved.op = th.op /\ saved.pc = "save" /\ saved.then = "claim" /\ saved.row.cid = box'.id
          /\ saved.kind = "start" /\ saved.answer = th.answer /\ saved.live = TRUE
      BY <1>1 DEF Shape, RowShape, Fields
    <2>2. \/ CreateContainer /\ Become(t, saved) /\ faults' = faults
          \/ Fault /\ Answer(t, "error") /\ box' = box
      BY <1>3 DEF StartCreates, NoDocker
    <2>3. At(t, "create")
      BY <1>3 DEF StartCreates
    <2> HIDE DEF saved
    <2>4. \/ CreateContainer /\ Sets(t, "save", "claim", box'.id, "start", th.answer, TRUE) /\ faults' = faults
          \/ Fault /\ Sets(t, "return", th.then, th.row.cid, th.kind, "error", th.live) /\ box' = box
      BY <1>1, <2>1, <2>2, MovesSet, BecomeSets
    <2>5. BoxShape(box')
      BY <1>1, <2>4, SameBox, ContainerCalls
    <2> HIDE DEF th
    <2>6. CASE CreateContainer /\ Sets(t, "save", "claim", box'.id, "start", th.answer, TRUE) /\ faults' = faults
      <3>1. ~Does(t, {"recreate"}) \/ mishaps # 0
        BY <2>3 DEF GoodAt, UpAt, At
      <3> QED
        BY <1>1, <1>2, <2>3, <2>5, <2>6, <3>1 DEF th, GoodAt, Typed, TrackedAt, UpAt, Newest, Pending, Claims,
           JournalPcs, Sets, Working, At, Does, Kinds, TaskOps
    <2>7. CASE Fault /\ Sets(t, "return", th.then, th.row.cid, th.kind, "error", th.live) /\ box' = box
      BY <1>1, <1>2, <2>3, <2>5, <2>7, SameBox, Faults DEF th, GoodAt, Typed, TrackedAt, UpAt, Newest, Pending, Claims,
         JournalPcs, Sets, Working, At, Does, Kinds, TaskOps
    <2> QED
      BY <2>4, <2>6, <2>7
  <1>4. CASE Replace(t)
    <2>1. ASSUME NEW live, Replaced(t, live)
          PROVE  \/ Sets(t, "save", "boot", box'.id, th.kind, th.answer, live) /\ Does(t, {"start", "restart"})
                 \/ Sets(t, "save", "return", box'.id, th.kind, "ok", live) /\ Does(t, {"restart"})
                 \/ Sets(t, "boot", th.then, box'.id, th.kind, th.answer, live) /\ ~Does(t, {"restart"})
      <3> DEFINE q == [th EXCEPT !.row.cid = box'.id, !.live = live]
      <3>1. /\ Shape(q) /\ q.op = th.op /\ q.row.cid = box'.id /\ q.kind = th.kind /\ q.answer = th.answer
            /\ q.live = live /\ q.staged = th.staged /\ q.then = th.then
        BY <1>1 DEF Shape, RowShape, Fields
      <3> DEFINE q1 == [q EXCEPT !.pc = "save", !.then = "boot"]
                 q2 == [q EXCEPT !.pc = "save", !.then = "return", !.answer = "ok", !.row.status = "starting"]
                 q3 == [q EXCEPT !.pc = "boot"]
      <3>2. \/ Become(t, q1) /\ q.op \in {"start", "restart"}
            \/ Become(t, q2) /\ q.op = "restart"
            \/ Become(t, q3) /\ ~(q.op \in {"start", "restart"} /\ q.staged) /\ ~(q.op = "restart" /\ ~q.staged)
        BY <2>1 DEF Replaced
      <3> HIDE DEF q
      <3>3. /\ Shape(q1) /\ q1.op = th.op /\ q1.pc = "save" /\ q1.then = "boot" /\ q1.row.cid = box'.id
            /\ q1.kind = th.kind /\ q1.answer = th.answer /\ q1.live = live
        BY <3>1 DEF Shape, RowShape, Fields
      <3>4. /\ Shape(q2) /\ q2.op = th.op /\ q2.pc = "save" /\ q2.then = "return" /\ q2.row.cid = box'.id
            /\ q2.kind = th.kind /\ q2.answer = "ok" /\ q2.live = live
        BY <3>1 DEF Shape, RowShape, Fields
      <3>5. /\ Shape(q3) /\ q3.op = th.op /\ q3.pc = "boot" /\ q3.then = th.then /\ q3.row.cid = box'.id
            /\ q3.kind = th.kind /\ q3.answer = th.answer /\ q3.live = live
        BY <3>1 DEF Shape, RowShape, Fields
      <3> HIDE DEF q1, q2, q3
      <3>6. CASE Become(t, q1) /\ q.op \in {"start", "restart"}
        BY <1>1, <3>1, <3>3, <3>6, BecomeSets DEF Does
      <3>7. CASE Become(t, q2) /\ q.op = "restart"
        BY <1>1, <3>1, <3>4, <3>7, BecomeSets DEF Does
      <3>8. CASE Become(t, q3) /\ q.op # "restart"
        BY <1>1, <3>1, <3>5, <3>8, BecomeSets DEF Does
      <3> QED
        BY <3>2, <3>6, <3>7, <3>8
    <2>2. \/ ReplaceContainer(th.row.cid) /\ Replaced(t, WasRunning(th.row.cid)) /\ faults' = faults
          \/ Fault /\ ReplaceFails(th.row.cid) /\ Sets(t, "save", "return", th.row.cid, th.kind, "error", th.live)
      BY <1>1, <1>4, MovesSet DEF Replace
    <2>3. At(t, "replace")
      BY <1>4 DEF Replace
    <2> HIDE DEF th
    <2>4. CASE ReplaceContainer(th.row.cid) /\ Replaced(t, WasRunning(th.row.cid)) /\ faults' = faults
      <3> DEFINE live == WasRunning(th.row.cid)
      <3>1. BoxShape(box') /\ (live => WorldOpen')
        BY <1>1, <2>4, ContainerCalls
      <3>2. \/ Sets(t, "save", "boot", box'.id, th.kind, th.answer, live) /\ Does(t, {"start", "restart"})
            \/ Sets(t, "save", "return", box'.id, th.kind, "ok", live) /\ Does(t, {"restart"})
            \/ Sets(t, "boot", th.then, box'.id, th.kind, th.answer, live) /\ ~Does(t, {"restart"})
        BY <2>1, <2>4
      <3> HIDE DEF live
      <3> QED
        BY <1>1, <1>2, <2>3, <2>4, <3>1, <3>2 DEF th, GoodAt, Typed, TrackedAt, UpAt, Newest, Pending, Claims,
           JournalPcs, Sets, Working, At, Does, Kinds, TaskOps
    <2>5. CASE Fault /\ ReplaceFails(th.row.cid) /\ Sets(t, "save", "return", th.row.cid, th.kind, "error", th.live)
      <3>1. BoxShape(box')
        BY <1>1, <2>5, ContainerCalls
      <3> QED
        BY <1>1, <1>2, <2>3, <2>5, <3>1, Faults DEF th, GoodAt, Typed, UpAt, Claims, Sets, At, Does
    <2> QED
      BY <2>2, <2>4, <2>5
  <1>5. CASE Boot(t)
    <2> DEFINE q == [th EXCEPT !.pc = "save", !.then = "return", !.answer = "ok",
                               !.row.status = "starting", !.live = TRUE]
    <2>1. /\ Shape(q) /\ q.op = th.op /\ q.pc = "save" /\ q.then = "return" /\ q.row.cid = th.row.cid
          /\ q.kind = th.kind /\ q.answer = "ok" /\ q.live = TRUE
      BY <1>1 DEF Shape, RowShape, Fields
    <2>2. /\ At(t, "boot")
          /\ \/ th.live /\ SaveAs(t, "starting", th.row.cid, "ok") /\ box' = box /\ faults' = faults
             \/ th.op = "restart" /\ JournalAs(t, "restart_start") /\ box' = box /\ faults' = faults
             \/ StartContainer(th.row.cid) /\ Become(t, q) /\ faults' = faults
             \/ SaveAs(t, "error", th.row.cid, "error") /\ box' = box /\ (faults' = faults \/ Fault)
      BY <1>5 DEF Boot, NoDocker
    <2> HIDE DEF q
    <2>3. \/ /\ th.live /\ Sets(t, "save", "return", th.row.cid, th.kind, "ok", th.live)
             /\ box' = box /\ faults' = faults
          \/ /\ th.op = "restart" /\ Sets(t, "claim", th.then, th.row.cid, "restart_start", th.answer, th.live)
             /\ box' = box /\ faults' = faults
          \/ /\ StartContainer(th.row.cid) /\ Sets(t, "save", "return", th.row.cid, th.kind, "ok", TRUE)
             /\ faults' = faults
          \/ /\ Sets(t, "save", "return", th.row.cid, th.kind, "error", th.live)
             /\ box' = box /\ (faults' = faults \/ Fault)
      BY <1>1, <2>1, <2>2, MovesSet, BecomeSets
    <2> HIDE DEF th
    <2>4. BoxShape(box') /\ box'.id = box.id /\ (StartContainer(th.row.cid) => WorldOpen')
          /\ (box' = box => (WorldOpen' <=> WorldOpen)) /\ faults' \in Nat
      BY <1>1, <2>3, SameBox, ContainerCalls, Faults
    <2> QED
      BY <1>1, <1>2, <2>2, <2>3, <2>4, Faults DEF th, GoodAt, Typed, TrackedAt, UpAt, Newest, Pending, Claims,
         JournalPcs, Sets, Working, At, Does, Kinds, TaskOps
  <1> QED
    BY <1>3, <1>4, <1>5

LEMMA SavingGood ==
  ASSUME LockInv, BaseInv, NEW t \in Threads, GoodAt(t), Save(t) \/ Refreeze(t)
  PROVE  GoodAt(t)' /\ Typed(t)
  <1> DEFINE th == thread[t]
  <1>1. t \in All /\ Shape(th) /\ BoxShape(box) /\ th.kind \in Kinds /\ mishaps \in Nat /\ faults \in Nat
    BY DEF All, LockInv, BaseInv
  <1>2. mishaps' = mishaps
    BY DEF Save, Refreeze, NoBound
  <1>3. CASE Save(t)
    <2>1. At(t, "save")
      BY <1>3 DEF Save
    <2>2. \/ /\ row' = th.row /\ box' = box /\ faults' = faults
             /\ Sets(t, th.then, th.then, th.row.cid, th.kind, th.answer, th.live)
          \/ /\ Fault /\ row' = row
             /\ \/ /\ th.kind = "start_unpause" /\ box' = box
                   /\ Sets(t, "refreeze", th.then, th.row.cid, th.kind, th.answer, th.live)
                \/ /\ Becomes("absent") \/ box' = box
                   /\ Sets(t, "return", th.then, th.row.cid, th.kind, "error", th.live)
                \/ box' = box /\ Sets(t, th.then, th.then, th.row.cid, th.kind, th.answer, th.live)
      BY <1>1, <1>3, MovesSet DEF Save, NoDocker
    <2> HIDE DEF th
    <2>3. CASE /\ row' = th.row /\ box' = box /\ faults' = faults
               /\ Sets(t, th.then, th.then, th.row.cid, th.kind, th.answer, th.live)
      BY <1>1, <1>2, <2>1, <2>3, SameBox DEF th, GoodAt, Typed, TrackedAt, UpAt, Newest, Pending, Claims,
         JournalPcs, Sets, Working, At, Does, Kinds, TaskOps
    <2>4. CASE Fault /\ th.kind = "start_unpause" /\ box' = box
               /\ Sets(t, "refreeze", th.then, th.row.cid, th.kind, th.answer, th.live)
      BY <1>1, <1>2, <2>1, <2>4, SameBox, Faults DEF th, GoodAt, Typed, UpAt, Claims, Sets, At, Does
    <2>5. CASE Fault /\ (Becomes("absent") \/ box' = box)
               /\ Sets(t, "return", th.then, th.row.cid, th.kind, "error", th.live)
      <3>1. BoxShape(box')
        BY <1>1, <2>5, SameBox, DockerCalls
      <3> QED
        BY <1>1, <1>2, <2>1, <2>5, <3>1, Faults DEF th, GoodAt, Typed, UpAt, Claims, Sets, At, Does
    <2>6. CASE Fault /\ box' = box /\ Sets(t, th.then, th.then, th.row.cid, th.kind, th.answer, th.live)
      BY <1>1, <1>2, <2>1, <2>6, SameBox, Faults DEF th, GoodAt, Typed, UpAt, Claims, Sets, At, Does
    <2> QED
      BY <2>2, <2>3, <2>4, <2>5, <2>6
  <1>4. CASE Refreeze(t)
    <2>1. At(t, "refreeze") /\ row' = row /\ (faults' = faults \/ Fault)
      BY <1>4 DEF Refreeze
    <2>2. \/ Becomes("paused") /\ Sets(t, "return", th.then, th.row.cid, th.kind, "error", th.live)
          \/ box' = box /\ Sets(t, "save", "return", th.row.cid, th.kind, "error", th.live)
      BY <1>1, <1>4, MovesSet DEF Refreeze, NoDocker
    <2>3. BoxShape(box') /\ box'.id = box.id
      BY <1>1, <2>2, SameBox, DockerCalls
    <2> HIDE DEF th
    <2> QED
      BY <1>1, <1>2, <2>1, <2>2, <2>3, SameBox, Faults DEF th, GoodAt, Typed, TrackedAt, UpAt, Newest, Pending, Claims,
         JournalPcs, Sets, Working, At, Does, Kinds, TaskOps
  <1> QED
    BY <1>3, <1>4

LEMMA FreezerGood ==
  ASSUME LockInv, BaseInv, NEW t \in Threads, GoodAt(t), Freeze(t) \/ Thaw(t) \/ Column(t)
  PROVE  GoodAt(t)' /\ Typed(t)
  <1> DEFINE th == thread[t]
  <1>1. t \in All /\ Shape(th) /\ BoxShape(box) /\ th.kind \in Kinds /\ mishaps \in Nat /\ faults \in Nat
        /\ RowShape(row)
    BY DEF All, LockInv, BaseInv
  <1>2. ASSUME NEW plan, Become(t, [th EXCEPT !.pc = "column", !.plan = plan])
        PROVE  Sets(t, "column", th.then, th.row.cid, th.kind, th.answer, th.live)
    <2> DEFINE q == [th EXCEPT !.pc = "column", !.plan = plan]
    <2>1. /\ Shape(q) /\ q.op = th.op /\ q.pc = "column" /\ q.then = th.then /\ q.row.cid = th.row.cid
          /\ q.kind = th.kind /\ q.answer = th.answer /\ q.live = th.live
      BY <1>1 DEF Shape, RowShape, Fields
    <2>2. Become(t, q)
      BY <1>2
    <2> HIDE DEF q
    <2> QED
      BY <1>1, <2>1, <2>2, BecomeSets
  <1>3. mishaps' = mishaps /\ (faults' = faults \/ Fault)
    BY DEF Freeze, Thaw, Column, NoBound
  <1>4. BoxShape(box') /\ box'.id = box.id
    <2>1. box' = box \/ \E state : Becomes(state)
      BY DEF Freeze, Thaw, Column, Undo, NoDocker
    <2> QED
      BY <1>1, <2>1, SameBox, DockerCalls
  <1>5. CASE Freeze(t) \/ Thaw(t)
    <2>1. At(t, "run") /\ Does(t, {"freeze", "thaw"}) /\ row' = row
      BY <1>5 DEF Freeze, Thaw, Does
    <2>2. \/ Sets(t, "column", th.then, th.row.cid, th.kind, th.answer, th.live)
          \/ Sets(t, "return", th.then, th.row.cid, th.kind, "error", th.live)
      BY <1>1, <1>2, <1>5, MovesSet DEF Freeze, Thaw
    <2> HIDE DEF th
    <2> QED
      BY <1>1, <1>3, <1>4, <2>1, <2>2, Faults DEF th, GoodAt, Typed, TrackedAt, UpAt, Newest, Pending, Claims,
         JournalPcs, Sets, Working, At, Does, Kinds, TaskOps
  <1>6. CASE Column(t)
    <2>1. At(t, "column") /\ row'.cid = row.cid
      BY <1>1, <1>6 DEF Column, RowShape
    <2>2. \E a \in {"ok", "error"} : Sets(t, "return", th.then, th.row.cid, th.kind, a, th.live)
      BY <1>1, <1>6, MovesSet DEF Column
    <2>3. mishaps = 0 => ~Does(t, {"recreate", "start"})
      BY <2>1 DEF GoodAt, UpAt, At, Does
    <2> HIDE DEF th
    <2> QED
      BY <1>1, <1>3, <1>4, <2>1, <2>2, <2>3, Faults DEF th, GoodAt, Typed, TrackedAt, UpAt, Newest, Pending, Claims,
         JournalPcs, Sets, Working, At, Does, Kinds, TaskOps
  <1> QED
    BY <1>5, <1>6

LEMMA TasksGood ==
  ASSUME LockInv, BaseInv, NEW t \in Threads, GoodAt(t), StartTask(t) \/ RestartTask(t)
  PROVE  GoodAt(t)' /\ Typed(t)
  <1> DEFINE th == thread[t]
  <1>1. t \in All /\ Shape(th) /\ BoxShape(box) /\ th.kind \in Kinds /\ mishaps \in Nat /\ faults \in Nat
    BY DEF All, LockInv, BaseInv
  <1>2. /\ row' = row /\ mishaps' = mishaps /\ (faults' = faults \/ Fault)
        /\ Does(t, TaskOps) /\ (At(t, "run") \/ At(t, "halt"))
    BY DEF StartTask, RestartTask, NoBound, TaskOps, Does
  <1>3. \/ /\ StartContainer(th.row.cid) \/ (box' = box /\ th.row.cid = NoOne)
           /\ Sets(t, "save", "return", th.row.cid, th.kind, "ok", th.live)
        \/ box' = box /\ Sets(t, "save", "return", NoOne, th.kind, "ok", th.live)
        \/ StopContainer(th.row.cid) /\ Sets(t, "halt", th.then, th.row.cid, th.kind, th.answer, th.live)
        \/ box' = box /\ Sets(t, "return", th.then, th.row.cid, th.kind, "error", th.live)
    BY <1>1, MovesSet DEF StartTask, RestartTask, NoDocker
  <1> HIDE DEF th
  <1>4. BoxShape(box') /\ box'.id = box.id /\ (StartContainer(th.row.cid) => th.row.cid = box.id)
    BY <1>1, <1>3, SameBox, ContainerCalls
  <1> QED
    BY <1>1, <1>2, <1>3, <1>4, Faults DEF th, GoodAt, Typed, TrackedAt, UpAt, Newest, Pending, Claims,
       JournalPcs, Sets, Working, At, Does, Kinds, TaskOps

-----------------------------------------------------------------------------
(* All goroutines together *)

KnownInv == LockInv /\ BaseInv /\ TrackInv /\ UpInv

\* Whoever works is alone: nobody else is about to save, or has answered ok.
LEMMA AloneAtWork ==
  ASSUME KnownInv, NEW t \in All, Working(t), NEW u \in All, u # t
  PROVE  ~Working(u) /\ ~Pending(u) /\ ~(At(u, "return") /\ thread[u].answer = "ok")
  <1>1. lock = t /\ ~Working(u)
    BY DEF KnownInv, LockInv
  <1> QED
    BY <1>1 DEF KnownInv, UpInv, Working, Pending, At

LEMMA WorkersAreGood ==
  ASSUME KnownInv, NEW t \in Threads, Working(t)
  PROVE  GoodAt(t)
  <1>1. \A u \in Threads : Pending(u) => u = t
    BY AloneAtWork DEF All
  <1> QED
    BY <1>1 DEF KnownInv, TrackInv, UpInv, GoodAt

LEMMA WorkGood ==
  ASSUME KnownInv, NEW t \in Threads, Step(t), ~Acquire(t), ~Return(t)
  PROVE  Goes(t) /\ GoodAt(t)' /\ Typed(t)
  <1>1. t \in All
    BY DEF All
  <1>2. Goes(t)
    BY <1>1, JournalSteps, AfterGoes, HandlersGo, ReplacingGoes, FreezerAndTasksGo DEF Step, KnownInv
  <1>3. GoodAt(t) /\ LockInv /\ BaseInv
    BY <1>2, WorkersAreGood DEF Goes, KnownInv
  <1>4. ~StopTask(t)
    BY <1>1, <1>3 DEF StopTask, Does, BaseInv
  <1> QED
    BY <1>2, <1>3, <1>4, JournalGood, AfterGood, HandlersGood, ReplacingGood, SavingGood, FreezerGood, TasksGood DEF Step

\* A step of t leaves what holds of the others.
LEMMA OthersKeep ==
  ASSUME KnownInv, NEW t \in All, Moved(t), mishaps' = mishaps, faults' = 0 => faults = 0,
         Working(t) \/ (box' = box /\ row' = row), NEW u \in Threads, u # t
  PROVE  /\ (mishaps' = 0 /\ faults' = 0) => TrackedAt(u)'
         /\ mishaps' = 0 => UpAt(u)'
         /\ Pending(u)' <=> Pending(u)
  <1>1. u \in All
    BY DEF All
  <1>2. thread'[u] = thread[u]
    BY <1>1 DEF KnownInv, LockInv, Moved
  <1>3. /\ (mishaps = 0 /\ faults = 0) => TrackedAt(u)
        /\ mishaps = 0 => UpAt(u)
    BY DEF KnownInv, TrackInv, UpInv
  <1>4. CASE Working(t)
    <2>1. ~Working(u) /\ ~(At(u, "return") /\ thread[u].answer = "ok")
      BY <1>1, <1>4, AloneAtWork
    <2> QED
      BY <1>2, <1>3, <2>1 DEF TrackedAt, UpAt, Pending, Working, At, Does, Claims, JournalPcs
  <1>5. CASE box' = box /\ row' = row
    BY <1>2, <1>3, <1>5, SameBox DEF TrackedAt, UpAt, Pending, Working, At, Does, Claims, JournalPcs, Newest
  <1> QED
    BY <1>4, <1>5

\* So after a step of t it is enough to look at t, the row and the lock.
LEMMA OneMoves ==
  ASSUME KnownInv, LockInv', NEW t \in All, Moved(t), Typed(t) \/ (box' = box /\ faults' = faults /\ mishaps' = mishaps),
         thread'[t].kind \in Kinds, thread'[t].op # "stop_task", faults' = 0 => faults = 0,
         Working(t) \/ (box' = box /\ row' = row),
         t \in Threads => /\ (mishaps' = 0 /\ faults' = 0) => TrackedAt(t)'
                          /\ mishaps' = 0 => UpAt(t)',
         (mishaps' = 0 /\ faults' = 0) => Newest(row.cid)' \/ \E u \in Threads : Pending(u)',
         \A u \in All : (At(u, "return") /\ thread[u].answer = "ok")' => lock' = u
  PROVE  KnownInv'
  <1>1. mishaps' = mishaps /\ BoxShape(box') /\ faults' \in Nat /\ mishaps' \in Nat
    BY SameBox DEF Typed, KnownInv, BaseInv
  <1>2. \A u \in All : u # t => thread'[u] = thread[u]
    BY DEF KnownInv, LockInv, Moved
  <1>3. BaseInv'
    BY <1>1, <1>2 DEF KnownInv, BaseInv
  <1>4. \A u \in Threads : u # t => /\ (mishaps' = 0 /\ faults' = 0) => TrackedAt(u)'
                                    /\ mishaps' = 0 => UpAt(u)'
    BY <1>1, OthersKeep
  <1>5. TrackInv'
    BY <1>4 DEF TrackInv
  <1>6. UpInv'
    BY <1>4 DEF UpInv
  <1> QED
    BY <1>3, <1>5, <1>6 DEF KnownInv

LEMMA WorkKeepsKnown ==
  ASSUME KnownInv, LockInv', NEW t \in Threads, Step(t), ~Acquire(t), ~Return(t)
  PROVE  KnownInv'
  <1>1. t \in All /\ Goes(t) /\ GoodAt(t)' /\ Typed(t)
    BY WorkGood DEF All
  <1>2. faults' = 0 => faults = 0
    <2>1. faults' = faults \/ Fault
      BY DEF Step, Claim, Enter, Mutate, Commit, After, StartRuns, StartCreates, Unfreeze, StopPowers,
         RestartPowers, RecreateRuns, Replace, Boot, Save, Refreeze, Freeze, Thaw, Column, StopTask, StartTask,
         RestartTask
    <2> QED
      BY <2>1, Faults DEF KnownInv
  <1>3. thread'[t].kind \in Kinds /\ thread'[t].op # "stop_task" /\ mishaps' = mishaps
    BY <1>1 DEF Typed, KnownInv, BaseInv
  <1>4. \A u \in All : (At(u, "return") /\ thread[u].answer = "ok")' => lock' = u
    <2>1. \A u \in All : u # t => thread'[u] = thread[u]
      BY <1>1 DEF KnownInv, LockInv, Goes, Moved
    <2>2. lock' = t
      BY <1>1 DEF Goes, KnownInv, LockInv
    <2> QED
      BY <1>1, <2>1, <2>2, AloneAtWork DEF At, Goes
  <1> QED
    BY <1>1, <1>2, <1>3, <1>4, OneMoves DEF GoodAt, Goes

\* When nobody holds the lock the row is settled.
LEMMA SettledRow ==
  ASSUME KnownInv, \A u \in Threads : ~Working(u), mishaps = 0, faults = 0
  PROVE  Newest(row.cid)
  BY DEF KnownInv, TrackInv, Pending, Working, At

LEMMA RestKeepsKnown ==
  ASSUME KnownInv, LockInv', NEW t \in All, Moved(t), ~Working(t), box' = box, row' = row, faults' = faults,
         mishaps' = mishaps, thread'[t].kind \in Kinds, thread'[t].op # "stop_task",
         t \in Threads => /\ (mishaps = 0 /\ faults = 0) => TrackedAt(t)'
                          /\ mishaps = 0 => UpAt(t)',
         \A u \in All : (At(u, "return") /\ thread[u].answer = "ok")' => lock' = u
  PROVE  KnownInv'
  <1>1. (mishaps' = 0 /\ faults' = 0) => Newest(row.cid)' \/ \E u \in Threads : Pending(u)'
    <2> SUFFICES ASSUME mishaps = 0, faults = 0 PROVE Newest(row.cid)' \/ \E u \in Threads : Pending(u)'
      OBVIOUS
    <2>1. Newest(row.cid) \/ \E u \in Threads : Pending(u)
      BY DEF KnownInv, TrackInv
    <2>2. \A u \in Threads : Pending(u) => u # t
      BY DEF Pending, Working, At
    <2>3. \A u \in Threads : u # t => (Pending(u)' <=> Pending(u))
      BY OthersKeep
    <2>4. Newest(row.cid) => Newest(row.cid)'
      BY DEF Newest
    <2> QED
      BY <2>1, <2>2, <2>3, <2>4
  <1> QED
    BY <1>1, OneMoves

LEMMA AcquireKeepsKnown ==
  ASSUME KnownInv, LockInv', NEW t \in All, Acquire(t)
  PROVE  KnownInv'
  <1> DEFINE th == thread[t]
  <1>1. Shape(th) /\ RowShape(row) /\ LockInv /\ BaseInv /\ At(t, "acquire") /\ ~Working(t)
    BY DEF KnownInv, LockInv, Acquire, Working, At
  <1>2. box' = box /\ row' = row /\ faults' = faults /\ mishaps' = mishaps
    BY DEF Acquire
  <1>3. t \in Threads => (mishaps = 0 => UpAt(t))
    BY DEF KnownInv, UpInv
  <1>4. CASE lock # NoOne /\ Answer(t, "busy") /\ UNCHANGED lock
    <2>1. Sets(t, "return", th.then, th.row.cid, th.kind, "busy", th.live) /\ Moved(t)
      BY <1>1, <1>4, MovesSet, Moves
    <2> HIDE DEF th
    <2>2. \A u \in All : u # t => thread'[u] = thread[u]
      BY <2>1 DEF KnownInv, LockInv, Moved
    <2>3. \A u \in All : (At(u, "return") /\ thread[u].answer = "ok")' => lock' = u
      BY <1>4, <2>1, <2>2 DEF KnownInv, UpInv, At, Sets
    <2>4. t \in Threads => TrackedAt(t)' /\ (mishaps = 0 => UpAt(t)')
      BY <1>1, <1>3, <2>1 DEF th, TrackedAt, UpAt, Working, At, Does, JournalPcs, Sets, Claims
    <2>5. thread'[t].kind \in Kinds /\ thread'[t].op # "stop_task"
      BY <1>1, <2>1 DEF th, Sets, BaseInv
    <2> QED
      BY <1>1, <1>2, <2>1, <2>3, <2>4, <2>5, RestKeepsKnown
  <1>5. CASE /\ lock = NoOne /\ lock' = t
             /\ Become(t, [thread[t] EXCEPT !.pc = "run", !.row = IF Does(t, TaskOps) THEN @ ELSE row])
    <2> DEFINE r == IF Does(t, TaskOps) THEN th.row ELSE row
               q == [th EXCEPT !.pc = "run", !.row = r]
    <2>1. RowShape(r)
      BY <1>1 DEF Shape
    <2>2. Become(t, q)
      BY <1>5
    <2> HIDE DEF r
    <2>3. /\ Shape(q) /\ q.op = th.op /\ q.pc = "run" /\ q.then = th.then /\ q.row.cid = r.cid
          /\ q.kind = th.kind /\ q.answer = th.answer /\ q.live = th.live
      BY <1>1, <2>1 DEF Shape, Fields
    <2> HIDE DEF q
    <2>4. Moved(t) /\ Sets(t, "run", th.then, r.cid, th.kind, th.answer, th.live)
      BY <1>1, <2>2, <2>3, BecomeMoves, BecomeSets
    <2>5. \A u \in All : ~Working(u) /\ ~(At(u, "return") /\ thread[u].answer = "ok")
      BY <1>5, LifecycleAssumption DEF KnownInv, LockInv, UpInv, NoOne, All
    <2>6. \A u \in All : u # t => thread'[u] = thread[u]
      BY <2>4 DEF KnownInv, LockInv, Moved
    <2>7. \A u \in All : (At(u, "return") /\ thread[u].answer = "ok")' => lock' = u
      BY <2>4, <2>5, <2>6 DEF At, Sets
    <2> HIDE DEF th
    <2>8. t \in Threads => ((mishaps = 0 /\ faults = 0) => TrackedAt(t)')
      <3> SUFFICES ASSUME t \in Threads, mishaps = 0, faults = 0 PROVE TrackedAt(t)'
        OBVIOUS
      <3>1. Newest(row.cid)
        BY <2>5, SettledRow DEF All
      <3>2. ~Does(t, TaskOps) => r = row
        BY DEF r
      <3> QED
        BY <1>1, <1>2, <2>4, <3>1, <3>2 DEF th, TrackedAt, Newest, Working, At, Does, JournalPcs, Sets
    <2>9. t \in Threads => (mishaps = 0 => UpAt(t)')
      BY <1>1, <1>3, <2>4 DEF th, UpAt, At, Does, Sets, Claims
    <2>10. thread'[t].kind \in Kinds /\ thread'[t].op # "stop_task"
      BY <1>1, <2>4 DEF th, Sets, BaseInv
    <2> QED
      BY <1>1, <1>2, <2>4, <2>7, <2>8, <2>9, <2>10, RestKeepsKnown
  <1> QED
    BY <1>4, <1>5 DEF Acquire

LEMMA ComingKeepsKnown ==
  ASSUME KnownInv, LockInv', NEW t \in All, NEW th, Shape(th), th.pc \in {"idle", "acquire"}, th.kind = "start",
         th.answer = "none", th.op # "stop_task", Become(t, th), ~Working(t), lock' = lock \/ lock = t,
         box' = box, row' = row, faults' = faults, mishaps' = mishaps, th.pc = "idle" => th.op = "none"
  PROVE  KnownInv'
  <1>1. Moved(t) /\ thread'[t] = th
    BY BecomeMoves DEF KnownInv
  <1>2. \A u \in All : u # t => thread'[u] = thread[u]
    BY <1>1 DEF KnownInv, LockInv, Moved
  <1>3. \A u \in All : (At(u, "return") /\ thread[u].answer = "ok")' => lock' = u
    BY <1>1, <1>2 DEF KnownInv, UpInv, At
  <1>4. TrackedAt(t)' /\ UpAt(t)'
    BY <1>1 DEF TrackedAt, UpAt, Working, At, Does, JournalPcs, Claims
  <1>5. thread'[t].kind \in Kinds /\ thread'[t].op # "stop_task"
    BY <1>1 DEF Kinds
  <1> QED
    BY <1>1, <1>3, <1>4, <1>5, RestKeepsKnown

LEMMA EndsKeepKnown ==
  ASSUME KnownInv, LockInv', "stop_task" \notin Ops,
         \/ Sweep
         \/ \E t \in All : Return(t)
         \/ \E t \in Threads, op \in Ops, req \in Requests : Call(t, op, req)
  PROVE  KnownInv'
  <1>1. Idle.kind = "start" /\ Idle.answer = "none" /\ Idle.op = "none"
    BY DEF Idle
  <1>2. ASSUME NEW t \in All, Return(t) PROVE KnownInv'
    <2>1. /\ Become(t, Idle) /\ ~Working(t) /\ (lock' = lock \/ lock = t)
          /\ box' = box /\ row' = row /\ faults' = faults /\ mishaps' = mishaps
      BY <1>2 DEF Return, Working, At
    <2> QED
      BY <1>1, <2>1, IdleShape, ComingKeepsKnown
  <1>3. CASE Sweep
    <2> DEFINE swept == [Idle EXCEPT !.op = "reconcile", !.pc = "acquire"]
    <2>1. Shape(swept) /\ swept.pc = "acquire" /\ swept.op = "reconcile" /\ swept.kind = "start" /\ swept.answer = "none"
      BY <1>1, IdleShape DEF Shape, RowShape, Fields
    <2>2. /\ Become(Reconciler, swept) /\ ~Working(Reconciler) /\ lock' = lock /\ Reconciler \in All
          /\ box' = box /\ row' = row /\ faults' = faults /\ mishaps' = mishaps
      BY <1>3 DEF Sweep, Working, At, All
    <2> HIDE DEF swept
    <2> QED
      BY <2>1, <2>2, ComingKeepsKnown
  <1>4. ASSUME NEW t \in Threads, NEW op \in Ops, NEW req \in Requests, Call(t, op, req) PROVE KnownInv'
    <2> DEFINE called(staged) == [Idle EXCEPT !.op = op, !.pc = IF op = "stop_task" THEN "run" ELSE "acquire",
                                              !.row = row, !.req = req, !.staged = staged]
    <2>1. PICK staged : Become(t, called(staged))
      BY <1>4 DEF Call
    <2>2. /\ Shape(called(staged)) /\ called(staged).pc = "acquire" /\ called(staged).op = op
          /\ called(staged).kind = "start" /\ called(staged).answer = "none"
      <3>1. op # "stop_task" /\ RowShape(row)
        BY DEF KnownInv, LockInv
      <3> QED
        BY <1>1, <3>1, IdleShape DEF Shape, Fields
    <2>3. /\ ~Working(t) /\ lock' = lock /\ t \in All
          /\ box' = box /\ row' = row /\ faults' = faults /\ mishaps' = mishaps
      BY <1>4 DEF Call, Working, At, All
    <2> HIDE DEF called
    <2> QED
      BY <2>1, <2>2, <2>3, ComingKeepsKnown
  <1> QED
    BY <1>2, <1>3, <1>4

LEMMA ReconcilerKeepsKnown ==
  ASSUME KnownInv, LockInv', Observe \/ ResumeStop \/ SelfHeal \/ Column(Reconciler)
  PROVE  KnownInv'
  <1> DEFINE t == Reconciler
             th == thread[t]
             Kept(q) == Shape(q) /\ q.kind = th.kind /\ q.op = th.op
  <1>1. /\ t \in All /\ t \notin Threads /\ Shape(th) /\ RowShape(row) /\ BoxShape(box) /\ LockInv /\ BaseInv
        /\ mishaps' = mishaps /\ (faults' = faults \/ Fault)
    BY LifecycleAssumption DEF All, KnownInv, LockInv, BaseInv, Observe, ResumeStop, SelfHeal, Column, NoBound
  <1>2. Goes(t)
    BY <1>1, ReconcilerGoes, FreezerAndTasksGo
  <1>3. \A u \in Threads : ~Working(u)
    BY <1>1, <1>2, AloneAtWork DEF Goes, All
  <1>4. thread'[t].kind = th.kind /\ thread'[t].op = th.op
    <2> DEFINE q1(pc, plan, cid) == [th EXCEPT !.pc = pc, !.plan = plan, !.row.cid = cid]
               q2(pc, cid) == [th EXCEPT !.pc = pc, !.row.cid = cid]
               q3(pc, plan) == [th EXCEPT !.pc = pc, !.plan = plan]
    <2>2. \/ \E pc, plan, cid : Become(t, q1(pc, plan, cid))
          \/ \E pc, cid : Become(t, q2(pc, cid))
          \/ \E pc, plan : Become(t, q3(pc, plan))
          \/ \E pc : Goto(t, pc)
          \/ \E a : Answer(t, a)
      BY DEF Observe, ResumeStop, SelfHeal, Column
    <2> HIDE DEF th
    <2>3. /\ \A pc, plan, cid : Kept(q1(pc, plan, cid))
          /\ \A pc, cid : Kept(q2(pc, cid))
          /\ \A pc, plan : Kept(q3(pc, plan))
      <3>1. ASSUME NEW pc, NEW plan, NEW cid PROVE Kept(q1(pc, plan, cid))
        <4> DEFINE q == [th EXCEPT !.pc = pc, !.plan = plan]
        <4>1. Kept(q)
          BY <1>1 DEF Shape, RowShape, Fields
        <4> HIDE DEF q
        <4>2. Kept([q EXCEPT !.row.cid = cid])
          BY <4>1 DEF Shape, RowShape, Fields
        <4> QED
          BY <4>2 DEF q
      <3>2. \A pc, cid : Kept(q2(pc, cid))
        BY <1>1 DEF Shape, RowShape, Fields
      <3>3. \A pc, plan : Kept(q3(pc, plan))
        BY <1>1 DEF Shape, RowShape, Fields
      <3> HIDE DEF Kept, q1, q2, q3
      <3> QED
        BY <3>1, <3>2, <3>3
    <2> HIDE DEF q1, q2, q3
    <2>4. \A q : (Kept(q) /\ Become(t, q)) => thread'[t].kind = th.kind /\ thread'[t].op = th.op
      BY <1>1, BecomeMoves DEF th
    <2>5. \A pc : Goto(t, pc) => thread'[t].kind = th.kind /\ thread'[t].op = th.op
      BY <1>1, MovesSet DEF Sets, th
    <2>6. \A a : Answer(t, a) => thread'[t].kind = th.kind /\ thread'[t].op = th.op
      BY <1>1, MovesSet DEF Sets, th
    <2> HIDE DEF Kept
    <2> QED
      BY <2>2, <2>3, <2>4, <2>5, <2>6
  <1>5. faults' = 0 => faults = 0 /\ faults' = faults
    BY <1>1, Faults
  <1>6. /\ BoxShape(box') /\ faults' \in Nat
        /\ (mishaps = 0 /\ faults' = 0) => Newest(row.cid)'
    <2>1. faults' \in Nat /\ ((mishaps = 0 /\ faults = 0) => Newest(row.cid))
      BY <1>1, <1>3, Faults, SettledRow
    <2>2. CASE Observe
      <3>1. box' = box /\ (row' = row \/ row' = [row EXCEPT !.cid = box.id])
        BY <2>2 DEF Observe, NoDocker
      <3>2. row' = row \/ row'.cid = box.id
        BY <1>1, <3>1 DEF RowShape
      <3> QED
        BY <1>1, <1>5, <2>1, <3>1, <3>2, SameBox DEF Newest
    <2>3. CASE ResumeStop \/ Column(Reconciler)
      <3>1. BoxShape(box') /\ box'.id = box.id
        <4>1. StopContainer(thread[Reconciler].row.cid) \/ box' = box \/ \E state : Becomes(state)
          BY <2>3 DEF ResumeStop, Column, Undo, NoDocker
        <4> QED
          BY <1>1, <4>1, SameBox, ContainerCalls, DockerCalls
      <3>2. row'.cid = row.cid
        BY <1>1, <2>3 DEF ResumeStop, Column, RowShape
      <3> QED
        BY <1>5, <2>1, <3>1, <3>2 DEF Newest
    <2>4. CASE SelfHeal
      <3>1. \/ ReplaceContainer(th.row.cid) /\ row' = [row EXCEPT !.cid = box'.id]
            \/ Fault /\ ReplaceFails(th.row.cid)
            \/ row' = row /\ StartContainer(th.row.cid)
            \/ row' = row /\ box' = box
        BY <2>4 DEF SelfHeal, NoDocker
      <3>2. BoxShape(box')
        BY <1>1, <3>1, SameBox, ContainerCalls
      <3>3. CASE ReplaceContainer(th.row.cid) /\ row' = [row EXCEPT !.cid = box'.id]
        BY <1>1, <2>1, <3>2, <3>3 DEF RowShape, Newest
      <3>4. CASE Fault /\ ReplaceFails(th.row.cid)
        BY <1>1, <2>1, <3>2, <3>4, Faults
      <3>5. CASE row' = row /\ (StartContainer(th.row.cid) \/ box' = box)
        BY <1>1, <1>5, <2>1, <3>2, <3>5, ContainerCalls DEF Newest
      <3> QED
        BY <3>1, <3>3, <3>4, <3>5
    <2> QED
      BY <2>2, <2>3, <2>4
  <1>7. \A u \in All : (At(u, "return") /\ thread[u].answer = "ok")' => lock' = u
    <2>1. \A u \in All : u # t => thread'[u] = thread[u]
      BY <1>1, <1>2 DEF LockInv, Goes, Moved
    <2>2. lock' = t
      BY <1>1, <1>2 DEF Goes, LockInv
    <2> QED
      BY <1>1, <1>2, <2>1, <2>2, AloneAtWork DEF At, Goes
  <1>8. Typed(t) /\ thread'[t].kind \in Kinds /\ thread'[t].op # "stop_task"
    BY <1>1, <1>4, <1>6 DEF Typed, BaseInv
  <1> HIDE DEF t
  <1> QED
    BY <1>1, <1>2, <1>5, <1>6, <1>7, <1>8, OneMoves DEF Goes

LEMMA WorldKeepsKnown ==
  ASSUME KnownInv, LockInv',
         Crash \/ GameExits \/ RemovedByHand \/ (\E id \in Journal!Ids : Recover(id)) \/ UNCHANGED lifecycleVars
  PROVE  KnownInv'
  <1>1. BoxShape(box) /\ mishaps \in Nat /\ faults \in Nat /\ BaseInv /\ UpInv /\ TrackInv
    BY DEF KnownInv, BaseInv
  <1>2. CASE Crash
    <2>1. \A t \in All : thread'[t] = Idle
      BY <1>2 DEF Crash
    <2>2. mishaps' # 0 /\ mishaps' \in Nat /\ box' = box /\ faults' = faults
      BY <1>1, <1>2 DEF Crash, Mishap
    <2>3. Idle.kind \in Kinds /\ Idle.op # "stop_task" /\ Idle.pc # "return"
      BY DEF Idle, Kinds
    <2> QED
      BY <1>1, <2>1, <2>2, <2>3, SameBox DEF KnownInv, BaseInv, TrackInv, UpInv, At
  <1>3. CASE GameExits \/ RemovedByHand
    <2>1. /\ mishaps' # 0 /\ mishaps' \in Nat /\ faults' = faults /\ thread' = thread /\ lock' = lock
          /\ \E state : Becomes(state)
      BY <1>1, <1>3 DEF GameExits, RemovedByHand, Mishap
    <2>2. BoxShape(box')
      BY <1>1, <2>1, DockerCalls
    <2> QED
      BY <1>1, <2>1, <2>2 DEF KnownInv, BaseInv, TrackInv, UpInv, At
  <1>4. CASE (\E id \in Journal!Ids : Recover(id)) \/ UNCHANGED lifecycleVars
    <2>1. /\ box' = box /\ row' = row /\ thread' = thread /\ lock' = lock /\ mishaps' = mishaps /\ faults' = faults
      BY <1>4 DEF Recover, lifecycleVars
    <2> QED
      BY <1>1, <2>1, SameBox DEF KnownInv, BaseInv, TrackInv, UpInv, TrackedAt, UpAt, Pending, Working, At, Does,
         Claims, JournalPcs, Newest, WorldOpen, Open, Exists
  <1> QED
    BY <1>2, <1>3, <1>4

LEMMA NextKeepsKnown ==
  ASSUME KnownInv, "stop_task" \notin Ops, [LifecycleNext]_lifecycleVars
  PROVE  KnownInv'
  <1>1. LockInv'
    BY NextKeepsLock DEF KnownInv
  <1>2. ASSUME NEW t \in Threads, Step(t) PROVE KnownInv'
    BY <1>1, <1>2, WorkKeepsKnown, AcquireKeepsKnown, EndsKeepKnown DEF All
  <1>3. CASE Reconcile
    <2>1. Reconciler \in All
      BY DEF All
    <2> QED
      BY <1>1, <1>3, <2>1, ReconcilerKeepsKnown, AcquireKeepsKnown, EndsKeepKnown DEF Reconcile
  <1>4. CASE \E t \in Threads, op \in Ops, req \in Requests : Call(t, op, req)
    BY <1>1, <1>4, EndsKeepKnown
  <1>5. CASE Crash \/ GameExits \/ RemovedByHand \/ (\E id \in Journal!Ids : Recover(id)) \/ UNCHANGED lifecycleVars
    BY <1>1, <1>5, WorldKeepsKnown
  <1> QED
    BY <1>2, <1>3, <1>4, <1>5 DEF LifecycleNext

LEMMA InitKnown == LifecycleInit => KnownInv
  <1> SUFFICES ASSUME LifecycleInit PROVE KnownInv
    OBVIOUS
  <1>1. LockInv
    BY InitLock
  <1>2. Idle.kind = "start" /\ Idle.op = "none" /\ Idle.pc = "idle"
    BY DEF Idle
  <1>3. \A t \in All : thread[t] = Idle
    BY DEF LifecycleInit
  <1>4. BoxShape(box) /\ row.cid = box.id /\ mishaps = 0 /\ faults = 0
    BY DEF LifecycleInit, BoxShape
  <1>5. BaseInv
    BY <1>2, <1>3, <1>4 DEF BaseInv, Kinds
  <1>6. TrackInv /\ UpInv
    BY <1>2, <1>3, <1>4 DEF TrackInv, UpInv, TrackedAt, UpAt, Newest, Working, At, Does, Claims, JournalPcs, All
  <1> QED
    BY <1>1, <1>5, <1>6 DEF KnownInv

\* Over any calls, tasks and sweeps, without accidents the row of a server that nobody works on names
\* the newest container or none (server.go, reconciler.go), as long as the power task that takes no lock
\* is not run.
THEOREM IdentityTrackedHolds == "stop_task" \notin Ops => (LifecycleSpec => []IdentityTracked)
  <1> SUFFICES ASSUME "stop_task" \notin Ops PROVE LifecycleSpec => []IdentityTracked
    OBVIOUS
  <1>1. KnownInv /\ [LifecycleNext]_lifecycleVars => KnownInv'
    BY NextKeepsKnown
  <1>2. KnownInv => IdentityTracked
    <2> SUFFICES ASSUME KnownInv, lock = NoOne, mishaps = 0, faults = 0 PROVE row.cid \in {box.id, NoOne}
      BY DEF IdentityTracked
    <2>1. \A u \in Threads : ~Working(u)
      BY LifecycleAssumption DEF KnownInv, LockInv, NoOne, All
    <2> QED
      BY <2>1, SettledRow DEF Newest
  <1> QED
    BY InitKnown, <1>1, <1>2, PTL DEF LifecycleSpec

\* Whatever Docker calls and saves fail, until a game ends or a container is removed by hand a recreation,
\* and a start that was not answered from the journal, succeed only with the world open (server.go).
THEOREM SuccessMeansUpHolds == "stop_task" \notin Ops => (LifecycleSpec => []SuccessMeansUp)
  <1> SUFFICES ASSUME "stop_task" \notin Ops PROVE LifecycleSpec => []SuccessMeansUp
    OBVIOUS
  <1>1. KnownInv /\ [LifecycleNext]_lifecycleVars => KnownInv'
    BY NextKeepsKnown
  <1>2. KnownInv => SuccessMeansUp
    BY DEF KnownInv, UpInv, UpAt, Claims, At, SuccessMeansUp
  <1> QED
    BY InitKnown, <1>1, <1>2, PTL DEF LifecycleSpec

=============================================================================
