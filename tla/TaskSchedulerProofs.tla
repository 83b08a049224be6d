------------------------ MODULE TaskSchedulerProofs ------------------------
(***************************************************************************)
(* Theorems about the task scheduler, for any tasks, chains, schedules,    *)
(* goroutines and faults: the claims are exactly the roots of what runs,   *)
(* no task is the root of two runs, a scheduled time starts one run, and   *)
(* the rows of the executions say what the goroutines do.                  *)
(***************************************************************************)
EXTENDS TaskScheduler, TLAPS

\* What a goroutine is: nothing, or a trigger with a stack of frames that has a root.
Stack == Seq(Frame) \ {<<>>}
Slot == {Idle} \union [trigger: Triggers, stack: Stack]
RunsOK == run \in [Runs -> Slot] /\ listed \subseteq Tasks /\ row \in Seq(Row)

\* The inductive invariant.
ClaimsInv == RunsOK /\ ClaimsAreRuns /\ RootRunsOnce

-----------------------------------------------------------------------------
(* Stacks *)

LEMMA FrameTypes ==
  ASSUME NEW r \in Runs, RunsOK, Active(r)
  PROVE  /\ run[r] \in [trigger: Triggers, stack: Stack]
         /\ run[r].stack \in Seq(Frame) /\ run[r].stack # <<>> /\ Len(run[r].stack) \in Nat \ {0}
         /\ Top(r) \in Frame /\ run[r].stack[1] \in Frame /\ Root(r) = run[r].stack[1].task /\ Root(r) \in Tasks
  <1>1. run[r] \in [trigger: Triggers, stack: Stack]
    BY DEF RunsOK, Slot, Active
  <1>2. run[r].stack \in Seq(Frame) /\ run[r].stack # <<>>
    BY <1>1 DEF Stack
  <1>3. Len(run[r].stack) \in Nat \ {0} /\ Head(run[r].stack) = run[r].stack[1]
    BY <1>2
  <1>4. run[r].stack[1] \in Frame /\ run[r].stack[Len(run[r].stack)] \in Frame
    BY <1>2, <1>3
  <1> QED
    BY <1>1, <1>2, <1>3, <1>4 DEF Top, Last, Root, Frame

LEMMA FrontOf ==
  ASSUME NEW s \in Stack
  PROVE  /\ Front(s) \in Seq(Frame) /\ Len(Front(s)) = Len(s) - 1
         /\ \A i \in 1 .. Len(Front(s)) : Front(s)[i] = s[i]
         /\ Front(s) = <<>> <=> Len(s) = 1
  <1>1. s \in Seq(Frame) /\ Len(s) \in Nat \ {0}
    BY DEF Stack
  <1>2. Front(s) \in Seq(Frame) /\ Len(Front(s)) = Len(s) - 1 /\ \A i \in 1 .. Len(s) - 1 : Front(s)[i] = s[i]
    <2> DEFINE n == Len(s) - 1
               c == [i \in 1 .. n |-> s[i]]
    <2>1. n \in Nat /\ \A i \in 1 .. n : s[i] \in Frame
      BY <1>1
    <2>2. c \in Seq(Frame) /\ Len(c) = n
      BY <2>1
    <2>3. SubSeq(s, 1, n) = [i \in 1 .. (n - 1 + 1) |-> s[i + 1 - 1]]
      BY <1>1, <2>1
    <2>4. [i \in 1 .. (n - 1 + 1) |-> s[i + 1 - 1]] = c
      BY <2>1
    <2> QED
      BY <2>1, <2>2, <2>3, <2>4 DEF Front
  <1>3. ASSUME NEW t \in Seq(Frame) PROVE t = <<>> <=> Len(t) = 0
    OBVIOUS
  <1> QED
    BY <1>1, <1>2, <1>3

LEMMA NoKids ==
  ASSUME NEW f \in Frame
  PROVE  [f EXCEPT !.kids = <<>>] \in Frame /\ [f EXCEPT !.kids = <<>>].task = f.task
  <1>1. <<>> \in Seq(Tasks)
    OBVIOUS
  <1> QED
    BY <1>1 DEF Frame

\* A frame that is replaced by one of the same task leaves the stack a stack, and its root.
LEMMA SameRoot ==
  ASSUME NEW s \in Stack, NEW f \in Frame, f.task = Last(s).task
  PROVE  /\ ReplaceAt(s, Len(s), f) \in Stack
         /\ Head(ReplaceAt(s, Len(s), f)).task = Head(s).task
  <1> DEFINE t == [s EXCEPT ![Len(s)] = f]
  <1>1. s \in Seq(Frame) /\ Len(s) \in Nat \ {0}
    BY DEF Stack
  <1>2. t \in Seq(Frame) /\ Len(t) = Len(s) /\ \A i \in 1 .. Len(s) : t[i] = IF i = Len(s) THEN f ELSE s[i]
    BY <1>1
  <1>3. Head(t) = t[1] /\ Head(s) = s[1]
    BY <1>1, <1>2
  <1> QED
    BY <1>1, <1>2, <1>3 DEF ReplaceAt, Stack, Last

\* A step that gives one goroutine another stack with the same root keeps the invariant.
LEMMA RootStays ==
  ASSUME ClaimsInv, NEW r \in Runs, Active(r), NEW s \in Stack, Head(s).task = Root(r),
         run' = [run EXCEPT ![r].stack = s], claimed' = claimed, listed' \subseteq Tasks, row' \in Seq(Row)
  PROVE  ClaimsInv'
  <1>1. run[r] \in [trigger: Triggers, stack: Stack]
    BY FrameTypes DEF ClaimsInv
  <1>2. run' = [run EXCEPT ![r] = [trigger |-> run[r].trigger, stack |-> s]]
    <2>1. [run[r] EXCEPT !.stack = s] = [trigger |-> run[r].trigger, stack |-> s]
      BY <1>1
    <2> QED
      BY <2>1
  <1>3. run' \in [Runs -> Slot]
    BY <1>1, <1>2 DEF ClaimsInv, RunsOK, Slot
  <1>4. \A q \in Runs : (Active(q)' <=> Active(q)) /\ (Active(q) => Root(q)' = Root(q))
    BY <1>1, <1>2 DEF Active, Root, Idle, ClaimsInv, RunsOK, Triggers
  <1>5. ClaimsAreRuns'
    BY <1>4 DEF ClaimsInv, ClaimsAreRuns
  <1>6. RootRunsOnce'
    BY <1>4 DEF ClaimsInv, RootRunsOnce
  <1> QED
    BY <1>3, <1>5, <1>6 DEF ClaimsInv, RunsOK

\* The same when the step sets the top frame to one of the same task.
LEMMA SetTopKeeps ==
  ASSUME ClaimsInv, NEW r \in Runs, Active(r), NEW f \in Frame, f.task = Top(r).task, SetTop(r, f),
         claimed' = claimed, listed' \subseteq Tasks, row' \in Seq(Row)
  PROVE  ClaimsInv'
  <1>1. run[r].stack \in Stack /\ f.task = Last(run[r].stack).task
    BY FrameTypes DEF ClaimsInv, Top
  <1>2. run' = [run EXCEPT ![r].stack = ReplaceAt(run[r].stack, Len(run[r].stack), f)]
    BY DEF SetTop
  <1> QED
    BY <1>1, <1>2, SameRoot, RootStays DEF Root

\* And when it goes on to the chain.
LEMMA ForkKeeps ==
  ASSUME ClaimsInv, NEW r \in Runs, Active(r), NEW f \in Frame, f.task = Top(r).task, NEW failed, Fork(r, f, failed),
         claimed' = claimed, listed' \subseteq Tasks, row' \in Seq(Row)
  PROVE  ClaimsInv'
  <1>1. \A k \in Seq(Tasks) : [f EXCEPT !.pc = "chain", !.kids = k] \in Frame /\ [f EXCEPT !.pc = "chain", !.kids = k].task = f.task
    BY DEF Frame, Pcs
  <1>2. f.task \in Tasks /\ Children[f.task] \in Seq(Tasks) /\ <<>> \in Seq(Tasks)
    BY SchedulerAssumption DEF Frame
  <1>3. PICK k \in Seq(Tasks) : SetTop(r, [f EXCEPT !.pc = "chain", !.kids = k])
    BY <1>2 DEF Fork
  <1> QED
    BY <1>1, <1>3, SetTopKeeps

\* What starts a run: a task without a claim, in a free slot.
LEMMA BeginKeeps ==
  ASSUME ClaimsInv, NEW t \in Tasks, t \notin claimed, NEW trigger \in Triggers, Begin(t, trigger),
         listed' \subseteq Tasks, row' \in Seq(Row)
  PROVE  ClaimsInv'
  <1>1. PICK r \in Runs : ~Active(r) /\ run' = [run EXCEPT ![r] = [trigger |-> trigger, stack |-> <<NewFrame(t)>>]]
    BY DEF Begin
  <1>2. NewFrame(t) \in Frame
    BY DEF NewFrame, Frame, Pcs, Statuses, None
  <1>3. <<NewFrame(t)>> \in Stack /\ Head(<<NewFrame(t)>>).task = t
    BY <1>2 DEF Stack, NewFrame
  <1>4. run' \in [Runs -> Slot]
    BY <1>1, <1>3 DEF ClaimsInv, RunsOK, Slot
  <1>5. Active(r)' /\ Root(r)' = t
    BY <1>1, <1>3 DEF ClaimsInv, RunsOK, Active, Root, Idle, Triggers
  <1>6. \A q \in Runs \ {r} : (Active(q)' <=> Active(q)) /\ Root(q)' = Root(q)
    BY <1>1 DEF ClaimsInv, RunsOK, Active, Root
  <1>7. \A q \in Runs : Active(q) => Root(q) # t
    BY DEF ClaimsInv, ClaimsAreRuns
  <1>8. ClaimsAreRuns'
    BY <1>1, <1>5, <1>6 DEF ClaimsInv, ClaimsAreRuns, Begin
  <1>9. RootRunsOnce'
    BY <1>1, <1>5, <1>6, <1>7 DEF ClaimsInv, RootRunsOnce
  <1> QED
    BY <1>4, <1>8, <1>9 DEF ClaimsInv, RunsOK

\* A run that ends releases the claim of its root, which is no other's.
LEMMA EndKeeps ==
  ASSUME ClaimsInv, NEW r \in Runs, Active(r), run' = [run EXCEPT ![r] = Idle], claimed' = claimed \ {Root(r)},
         listed' \subseteq Tasks, row' \in Seq(Row)
  PROVE  ClaimsInv'
  <1>1. run' \in [Runs -> Slot]
    BY DEF ClaimsInv, RunsOK, Slot
  <1>2. ~Active(r)' /\ \A q \in Runs \ {r} : (Active(q)' <=> Active(q)) /\ Root(q)' = Root(q)
    BY DEF ClaimsInv, RunsOK, Active, Root
  <1>3. \A q \in Runs \ {r} : Active(q) => Root(q) # Root(r)
    BY DEF ClaimsInv, RootRunsOnce
  <1>4. ClaimsAreRuns'
    BY <1>2, <1>3 DEF ClaimsInv, ClaimsAreRuns
  <1>5. RootRunsOnce'
    BY <1>2 DEF ClaimsInv, RootRunsOnce
  <1> QED
    BY <1>1, <1>4, <1>5 DEF ClaimsInv, RunsOK

\* A step that leaves goroutines and claims alone keeps the invariant.
LEMMA OthersKeep ==
  ASSUME ClaimsInv, run' = run, claimed' = claimed, listed' \subseteq Tasks, row' \in Seq(Row)
  PROVE  ClaimsInv'
  BY DEF ClaimsInv, RunsOK, ClaimsAreRuns, RootRunsOnce, Active, Root

-----------------------------------------------------------------------------
(* Steps *)

LEMMA RowsStayRows ==
  ASSUME row \in Seq(Row)
  PROVE  /\ \A i : \A s \in Statuses : [row EXCEPT ![i].status = s] \in Seq(Row)
         /\ \A t \in Tasks, s \in Statuses, g \in Triggers : Append(row, [task |-> t, status |-> s, trigger |-> g]) \in Seq(Row)
         /\ [i \in Rows |-> IF IsRunning(i) THEN [row[i] EXCEPT !.status = "failed"] ELSE row[i]] \in Seq(Row)
  <1>1. row \in [1 .. Len(row) -> Row] /\ Len(row) \in Nat
    OBVIOUS
  <1>2. \A q \in Row, s \in Statuses : [q EXCEPT !.status = s] \in Row
    BY DEF Row
  <1>3. ASSUME NEW i, NEW s \in Statuses PROVE [row EXCEPT ![i].status = s] \in Seq(Row)
    <2>1. [row EXCEPT ![i].status = s] = [k \in 1 .. Len(row) |-> IF k = i THEN [row[k] EXCEPT !.status = s] ELSE row[k]]
      BY <1>1
    <2>2. [row EXCEPT ![i].status = s] \in [1 .. Len(row) -> Row]
      BY <1>1, <1>2, <2>1
    <2> QED
      BY <1>1, <2>2
  <1>4. [i \in Rows |-> IF IsRunning(i) THEN [row[i] EXCEPT !.status = "failed"] ELSE row[i]] \in [1 .. Len(row) -> Row]
    BY <1>1, <1>2 DEF Rows, Statuses
  <1>5. \A t \in Tasks, s \in Statuses, g \in Triggers : [task |-> t, status |-> s, trigger |-> g] \in Row
    BY DEF Row
  <1>6. \A q \in Row : Append(row, q) \in Seq(Row)
    OBVIOUS
  <1>7. [i \in Rows |-> IF IsRunning(i) THEN [row[i] EXCEPT !.status = "failed"] ELSE row[i]] \in Seq(Row)
    BY <1>1, <1>4
  <1> QED
    BY <1>3, <1>5, <1>6, <1>7

LEMMA StepClaims == ClaimsInv /\ [SchedulerNext]_schedulerVars => ClaimsInv'
  <1> SUFFICES ASSUME ClaimsInv, [SchedulerNext]_schedulerVars PROVE ClaimsInv'
    OBVIOUS
  <1>0. RunsOK /\ listed \subseteq Tasks /\ row \in Seq(Row) /\ Len(row) + 1 \in Nat
    BY DEF ClaimsInv, RunsOK
  <1>1. ASSUME NEW t \in Tasks, Elapse(t) \/ Dispatch(t) \/ Trigger(t) \/ Event(t) PROVE ClaimsInv'
    <2>1. CASE Elapse(t)
      BY <1>0, <2>1, OthersKeep DEF Elapse
    <2>2. CASE Dispatch(t)
      BY <1>0, <2>2, OthersKeep, BeginKeeps DEF Dispatch, TryClaim, Triggers
    <2>3. CASE Trigger(t) \/ Event(t)
      BY <1>0, <2>3, BeginKeeps DEF Trigger, Event, Requested, TryClaim, Triggers
    <2> QED
      BY <1>1, <2>1, <2>2, <2>3
  <1>2. CASE Tick \/ Stop \/ Stopped \/ CancelOrphan \/ Start \/ \E i \in Rows : Cancel(i)
    <2>1. run' = run /\ claimed' = claimed /\ listed' \subseteq Tasks
      BY <1>0, <1>2 DEF Tick, Stop, Stopped, CancelOrphan, Start, Cancel, NoLoop
    <2>2. row' \in Seq(Row)
      <3>1. CASE CancelOrphan
        BY <1>0, <3>1, RowsStayRows DEF CancelOrphan, Settle, Statuses
      <3>2. CASE Start
        BY <1>0, <3>2, RowsStayRows DEF Start
      <3>3. CASE Tick \/ Stop \/ Stopped \/ \E i \in Rows : Cancel(i)
        BY <1>0, <3>3 DEF Tick, Stop, Stopped, Cancel
      <3> QED
        BY <1>2, <3>1, <3>2, <3>3
    <2> QED
      BY <2>1, <2>2, OthersKeep
  <1>3. CASE Exit
    BY <1>0, <1>3 DEF Exit, ClaimsInv, RunsOK, Slot, ClaimsAreRuns, RootRunsOnce, Active
  <1>4. ASSUME NEW r \in Runs, ClientLeaves(r) PROVE ClaimsInv'
    BY <1>0, <1>4, OthersKeep DEF ClientLeaves, NoLoop
  <1>5. ASSUME NEW r \in Runs, Step(r) PROVE ClaimsInv'
    <2>0. /\ Active(r) /\ Top(r) \in Frame /\ run[r].stack \in Stack
          /\ run[r].trigger \in Triggers /\ Top(r).task \in Tasks
      <3>1. Active(r)
        BY <1>5 DEF Step, Open, Register, Work, Write, NextKid, Close, At
      <3> QED
        BY <1>0, <3>1, FrameTypes DEF Frame
    <2>1. CASE Register(r)
      <3>1. [Top(r) EXCEPT !.pc = "work"] \in Frame /\ [Top(r) EXCEPT !.pc = "work"].task = Top(r).task
        BY <2>0 DEF Frame, Pcs
      <3> QED
        BY <1>0, <2>0, <2>1, <3>1, SetTopKeeps DEF Register, Goto, NoLoop
    <2>2. CASE Work(r)
      <3>1. \A end \in {"completed", "failed", "cancelled"} :
              /\ [Top(r) EXCEPT !.pc = "write", !.outcome = end] \in Frame
              /\ [Top(r) EXCEPT !.pc = "write", !.outcome = end].task = Top(r).task
        BY <2>0 DEF Frame, Pcs, Statuses
      <3>2. PICK end \in {"completed", "failed", "cancelled"} : SetTop(r, [Top(r) EXCEPT !.pc = "write", !.outcome = end])
        BY <2>2 DEF Work
      <3> QED
        BY <1>0, <2>0, <2>2, <3>1, <3>2, SetTopKeeps DEF Work, NoLoop
    <2>3. CASE Write(r)
      <3>1. PICK write \in 0..1, list \in 0..1 :
              Fork(r, Top(r), list) /\ (IF Gone(r) \/ write = 1 THEN UNCHANGED row ELSE Settle(Top(r).row, Top(r).outcome))
        BY <2>3 DEF Write
      <3>2. row' \in Seq(Row)
        <4>1. Top(r).outcome \in Statuses
          BY <2>0 DEF Frame
        <4>2. CASE Gone(r) \/ write = 1
          BY <1>0, <3>1, <4>2
        <4>3. CASE ~(Gone(r) \/ write = 1)
          BY <1>0, <3>1, <4>1, <4>3, RowsStayRows DEF Settle
        <4> QED
          BY <4>2, <4>3
      <3> QED
        BY <1>0, <2>0, <2>3, <3>1, <3>2, ForkKeeps DEF Write, NoLoop
    <2>4. CASE Open(r)
      <3>1. CASE Record(r, "running") /\ SetTop(r, [Top(r) EXCEPT !.pc = "register", !.row = Len(row) + 1])
        <4>1. /\ [Top(r) EXCEPT !.pc = "register", !.row = Len(row) + 1] \in Frame
              /\ [Top(r) EXCEPT !.pc = "register", !.row = Len(row) + 1].task = Top(r).task
          BY <1>0, <2>0 DEF Frame, Pcs
        <4>2. row' \in Seq(Row)
          BY <1>0, <2>0, <3>1, RowsStayRows DEF Record, Statuses
        <4> QED
          BY <1>0, <2>0, <2>4, <3>1, <4>1, <4>2, SetTopKeeps DEF Open, NoLoop
      <3>2. ASSUME NEW list \in 0..1, Record(r, "skipped"), Fork(r, [Top(r) EXCEPT !.outcome = "skipped"], list) PROVE ClaimsInv'
        <4>1. [Top(r) EXCEPT !.outcome = "skipped"] \in Frame /\ [Top(r) EXCEPT !.outcome = "skipped"].task = Top(r).task
          BY <2>0 DEF Frame, Statuses
        <4>2. row' \in Seq(Row)
          BY <1>0, <2>0, <3>2, RowsStayRows DEF Record, Statuses
        <4> QED
          BY <1>0, <2>0, <2>4, <3>2, <4>1, <4>2, ForkKeeps DEF Open, NoLoop
      <3>3. CASE SetTop(r, [Top(r) EXCEPT !.pc = "unwind", !.outcome = "failed"]) /\ row' = row
        <4>1. /\ [Top(r) EXCEPT !.pc = "unwind", !.outcome = "failed"] \in Frame
              /\ [Top(r) EXCEPT !.pc = "unwind", !.outcome = "failed"].task = Top(r).task
          BY <2>0 DEF Frame, Pcs, Statuses
        <4> QED
          BY <1>0, <2>0, <2>4, <3>3, <4>1, SetTopKeeps DEF Open, NoLoop
      <3> QED
        BY <2>4, <3>1, <3>2, <3>3 DEF Open
    <2>5. CASE NextKid(r)
      <3>1. CASE SetTop(r, [Top(r) EXCEPT !.kids = <<>>])
        <4>1. [Top(r) EXCEPT !.kids = <<>>] \in Frame /\ [Top(r) EXCEPT !.kids = <<>>].task = Top(r).task
          BY <2>0, NoKids
        <4> QED
          BY <1>0, <2>0, <2>5, <3>1, <4>1, SetTopKeeps DEF NextKid, NoLoop
      <3>2. CASE run' = [run EXCEPT ![r].stack =
                           Append(ReplaceAt(@, Len(@), [Top(r) EXCEPT !.kids = Tail(@)]), NewFrame(Head(Top(r).kids)))]
        <4> DEFINE f == [Top(r) EXCEPT !.kids = Tail(Top(r).kids)]
                   base == ReplaceAt(run[r].stack, Len(run[r].stack), f)
                   kid == NewFrame(Head(Top(r).kids))
        <4>1. Top(r).kids \in Seq(Tasks) /\ Top(r).kids # <<>>
          BY <2>0, <2>5 DEF NextKid, Frame
        <4>2. Tail(Top(r).kids) \in Seq(Tasks) /\ Head(Top(r).kids) \in Tasks
          BY <4>1
        <4>3. f \in Frame /\ f.task = Top(r).task
          BY <2>0, <4>2 DEF Frame
        <4>4. kid \in Frame
          BY <4>2 DEF NewFrame, Frame, Pcs, Statuses, None
        <4>5. base \in Stack /\ Head(base).task = Root(r)
          BY <2>0, <4>3, SameRoot DEF Top, Root
        <4> HIDE DEF f, base, kid
        <4>6. Append(base, kid) \in Stack /\ Head(Append(base, kid)) = Head(base)
          BY <4>4, <4>5 DEF Stack
        <4>7. run' = [run EXCEPT ![r].stack = Append(base, kid)]
          BY <3>2 DEF base, f, kid
        <4> QED
          BY <1>0, <2>0, <2>5, <4>5, <4>6, <4>7, RootStays DEF NextKid, NoLoop
      <3> QED
        BY <2>5, <3>1, <3>2 DEF NextKid
    <2>6. CASE Close(r)
      <3> DEFINE rest == Front(run[r].stack)
      <3>1. row' \in Seq(Row) /\ listed' \subseteq Tasks
        BY <1>0, <2>6 DEF Close, NoLoop
      <3>2. CASE rest = <<>>
        <4>1. Len(run[r].stack) = 1
          BY <2>0, <3>2, FrontOf
        <4>2. Top(r).task = Root(r)
          BY <2>0, <4>1 DEF Top, Last, Root, Stack
        <4> QED
          BY <2>0, <2>6, <3>1, <3>2, <4>2, EndKeeps DEF Close, Unwind
      <3>3. CASE rest # <<>>
        <4>1. rest \in Stack /\ Head(rest) = Head(run[r].stack)
          <5>1. run[r].stack \in Seq(Frame) /\ Len(run[r].stack) \in Nat \ {0}
            BY <2>0 DEF Stack
          <5>2. Len(run[r].stack) # 1
            BY <2>0, <3>3, FrontOf
          <5>3. /\ rest \in Seq(Frame) /\ Len(rest) = Len(run[r].stack) - 1
                /\ \A i \in 1 .. Len(rest) : rest[i] = run[r].stack[i]
            BY <2>0, FrontOf
          <5> QED
            BY <3>3, <5>1, <5>2, <5>3 DEF Stack
        <4>2. Last(rest) \in Frame
          BY <4>1 DEF Last, Stack
        <4>3. [Last(rest) EXCEPT !.kids = <<>>] \in Frame /\ [Last(rest) EXCEPT !.kids = <<>>].task = Last(rest).task
          BY <4>2, NoKids
        <4>4. /\ ReplaceAt(rest, Len(rest), [Last(rest) EXCEPT !.kids = <<>>]) \in Stack
              /\ Head(ReplaceAt(rest, Len(rest), [Last(rest) EXCEPT !.kids = <<>>])).task = Root(r)
          BY <4>1, <4>3, SameRoot DEF Root
        <4>5. \E s \in Stack : run' = [run EXCEPT ![r].stack = s] /\ Head(s).task = Root(r)
          BY <2>6, <3>3, <4>1, <4>4 DEF Close, Unwind, Root
        <4> QED
          BY <2>0, <2>6, <3>1, <3>3, <4>5, RootStays DEF Close, Unwind
      <3> QED
        BY <3>2, <3>3
    <2> QED
      BY <1>5, <2>1, <2>2, <2>3, <2>4, <2>5, <2>6 DEF Step
  <1>6. CASE UNCHANGED schedulerVars
    BY <1>0, <1>6, OthersKeep DEF schedulerVars
  <1> QED
    BY <1>1, <1>2, <1>3, <1>4, <1>5, <1>6 DEF SchedulerNext

-----------------------------------------------------------------------------
LEMMA SchedulerStarts == SchedulerInit => ClaimsInv
  BY DEF SchedulerInit, ClaimsInv, RunsOK, Slot, ClaimsAreRuns, RootRunsOnce, Active

\* The claims in memory (runningTasks) are the roots of what runs, over every error path and restart: no
\* task stays claimed after its run, and none runs without its claim.
THEOREM ClaimsAreTheRuns == SchedulerSpec => []ClaimsAreRuns
  <1>1. ClaimsInv => ClaimsAreRuns
    BY DEF ClaimsInv
  <1> QED
    BY <1>1, SchedulerStarts, StepClaims, PTL DEF SchedulerSpec

\* tryClaimTask never lets two goroutines start one task, whatever the table of executions says.
THEOREM RootRunsOnceHolds == SchedulerSpec => []RootRunsOnce
  <1>1. ClaimsInv => RootRunsOnce
    BY DEF ClaimsInv
  <1> QED
    BY <1>1, SchedulerStarts, StepClaims, PTL DEF SchedulerSpec

-----------------------------------------------------------------------------
(* Scheduled times *)

\* A task that is due, or that the loop's pass still has on its list, is owed a run.
OnceInv ==
  /\ faults \in Nat
  /\ owed \in [Tasks -> Int] /\ next \in [Tasks -> {"none", "later", "due"}]
  /\ faults = 0 => \A t \in Tasks : owed[t] >= 0 /\ ((next[t] = "due" \/ t \in listed) => owed[t] >= 1)

LEMMA FaultsCounted ==
  ASSUME faults \in Nat, NEW n \in 0 .. 2, Fails(n)
  PROVE  faults' \in Nat /\ (faults' = 0 => faults = 0 /\ n = 0)
  BY DEF Fails

LEMMA NextRunNotDue ==
  ASSUME OnceInv, NEW t \in Tasks, NEW failed \in 0 .. 1, UpdateNextRun(t, failed)
  PROVE  /\ next' \in [Tasks -> {"none", "later", "due"}]
         /\ \A u \in Tasks : next'[u] = "due" => next[u] = "due"
         /\ failed = 0 => next'[t] # "due"
  BY DEF UpdateNextRun, OnceInv

LEMMA DispatchKeepsOnce ==
  ASSUME OnceInv, NEW t \in Tasks, Dispatch(t)
  PROVE  OnceInv'
  <1>1. CASE UNCHANGED <<next, claimed, run, owed, faults>>
    BY <1>1 DEF OnceInv, Dispatch
  <1>2. ASSUME NEW read \in 0 .. 1, NEW write \in 0 .. 1, Fails(read + write), UpdateNextRun(t, write),
               owed' = [owed EXCEPT ![t] = @ - 1]
        PROVE  OnceInv'
    <2>1. read + write \in 0 .. 2 /\ (read + write = 0 => write = 0)
      OBVIOUS
    <2>2. faults' \in Nat /\ (faults' = 0 => faults = 0 /\ write = 0)
      BY <1>2, <2>1, FaultsCounted DEF OnceInv
    <2>3. /\ next' \in [Tasks -> {"none", "later", "due"}]
          /\ \A u \in Tasks : next'[u] = "due" => next[u] = "due"
          /\ write = 0 => next'[t] # "due"
      BY <1>2, NextRunNotDue
    <2>4. listed' = listed \ {t} /\ t \in listed
      BY DEF Dispatch
    <2>5. owed' \in [Tasks -> Int] /\ owed'[t] = owed[t] - 1 /\ \A u \in Tasks : u # t => owed'[u] = owed[u]
      BY <1>2 DEF OnceInv
    <2> QED
      BY <2>2, <2>3, <2>4, <2>5 DEF OnceInv
  <1> QED
    BY <1>1, <1>2 DEF Dispatch

\* A pass of the loop lists only what is due, and a list is gone with the process.
LEMMA NextKeepsOnce ==
  ASSUME OnceInv, [SchedulerNext]_schedulerVars
  PROVE  OnceInv'
  <1>1. ASSUME NEW t \in Tasks, Elapse(t) PROVE OnceInv'
    BY <1>1 DEF Elapse, OnceInv
  <1>2. CASE Tick
    BY <1>2 DEF Tick, OnceInv
  <1>3. ASSUME owed' = owed, next' = next, listed' \subseteq listed, faults' \in Nat, faults' = 0 => faults = 0
        PROVE  OnceInv'
    BY <1>3 DEF OnceInv
  <1>4. ASSUME NEW t \in Tasks, Trigger(t) \/ Event(t) PROVE OnceInv'
    <2>1. PICK read \in 0 .. 1 : Fails(read)
      BY <1>4 DEF Trigger, Event, Requested
    <2>2. faults' \in Nat /\ (faults' = 0 => faults = 0)
      BY <2>1, FaultsCounted DEF OnceInv
    <2> QED
      BY <1>3, <1>4, <2>2 DEF Trigger, Event, Requested
  <1>5. ASSUME NEW r \in Runs, Step(r) PROVE OnceInv'
    <2>1. owed' = owed /\ listed' = listed
      BY <1>5 DEF Step, Open, Register, Work, Write, NextKid, Close, NoLoop
    <2>2. CASE Register(r) \/ Work(r) \/ NextKid(r)
      BY <1>3, <2>1, <2>2 DEF Register, Work, NextKid, OnceInv
    <2>3. CASE Open(r) \/ Write(r)
      <3>1. next' = next /\ (faults' = faults \/ \E n \in 0 .. 2 : Fails(n))
        BY <2>3 DEF Open, Write, NoFault
      <3>2. faults' \in Nat /\ (faults' = 0 => faults = 0)
        BY <3>1, FaultsCounted DEF OnceInv
      <3> QED
        BY <1>3, <2>1, <3>1, <3>2
    <2>4. CASE Close(r)
      <3>1. CASE UNCHANGED next /\ NoFault
        BY <1>3, <2>1, <3>1 DEF NoFault, OnceInv
      <3>2. ASSUME NEW write \in 0 .. 1, Fails(write), UpdateNextRun(Top(r).task, write) PROVE OnceInv'
        <4>1. faults' \in Nat /\ (faults' = 0 => faults = 0)
          BY <3>2, FaultsCounted DEF OnceInv
        <4>2. next' \in [Tasks -> {"none", "later", "due"}] /\ \A u \in Tasks : next'[u] = "due" => next[u] = "due"
          BY <3>2 DEF UpdateNextRun, OnceInv
        <4> QED
          BY <2>1, <4>1, <4>2 DEF OnceInv
      <3> QED
        BY <2>4, <3>1, <3>2 DEF Close
    <2> QED
      BY <1>5, <2>2, <2>3, <2>4 DEF Step
  <1>6. ASSUME NEW r \in Runs, ClientLeaves(r) PROVE OnceInv'
    BY <1>3, <1>6 DEF ClientLeaves, NoLoop, OnceInv
  <1>7. CASE CancelOrphan \/ Start
    <2>1. faults' = faults \/ Fails(1)
      BY <1>7 DEF CancelOrphan, Start, NoFault
    <2>2. faults' \in Nat /\ (faults' = 0 => faults = 0)
      BY <2>1, FaultsCounted DEF OnceInv
    <2> QED
      BY <1>3, <1>7, <2>2 DEF CancelOrphan, Start, NoLoop
  <1>8. CASE Stop \/ Stopped \/ Exit \/ UNCHANGED schedulerVars \/ \E i \in Rows : Cancel(i)
    <2>1. owed' = owed /\ next' = next /\ listed' \subseteq listed /\ faults' = faults
      BY <1>8 DEF Stop, Stopped, Exit, Cancel, NoLoop, schedulerVars
    <2> QED
      BY <1>3, <2>1 DEF OnceInv
  <1> QED
    BY <1>1, <1>2, <1>4, <1>5, <1>6, <1>7, <1>8, DispatchKeepsOnce DEF SchedulerNext

\* A scheduled time starts at most one scheduled run, over lists that went stale while the loop dispatched,
\* manual runs that advanced the schedule in between, and restarts, while the database answers.
THEOREM OncePerOccurrenceHolds == SchedulerSpec => []OncePerOccurrence
  <1>1. SchedulerInit => OnceInv
    BY DEF SchedulerInit, OnceInv
  <1>2. OnceInv /\ [SchedulerNext]_schedulerVars => OnceInv'
    BY NextKeepsOnce
  <1>3. OnceInv => OncePerOccurrence
    BY DEF OnceInv, OncePerOccurrence
  <1> QED
    BY <1>1, <1>2, <1>3, PTL DEF SchedulerSpec

-----------------------------------------------------------------------------
(* What the rows say of the runs *)

\* What the row of a frame says, where the database answers.
Told(f, trigger) ==
  /\ f.row # None => f.row \in Rows /\ row[f.row].trigger = trigger
  /\ f.pc = "open" => f.row = None
  /\ f.pc \in {"register", "work", "write"} => f.row # None
  /\ f.pc = "write" => f.outcome # "running"
  /\ (f.pc \in {"chain", "unwind"} /\ f.row # None /\ (f.kids # <<>> \/ trigger # "manual")) => ~IsRunning(f.row)

\* A frame with a chain step on top of it.
Behind(f) == f.pc = "chain" /\ (f.row # None => ~IsRunning(f.row))

StackTold(s, trigger) ==
  \A k \in 1 .. Len(s) : Told(s[k], trigger) /\ (k < Len(s) => Behind(s[k]))

\* Only a request can be left by its client; a process that is down runs nothing; the frames and
\* their rows agree.
RowsInv ==
  /\ faults \in Nat
  /\ \A r \in left : r \in Runs /\ run[r].trigger = "manual"
  /\ panel = "down" => listed = {} /\ \A r \in Runs : ~Active(r)
  /\ faults = 0 => RunningRowHasRunner /\ \A r \in Runs : StackTold(run[r].stack, run[r].trigger)

\* Rows are added and settled, and never set running again.
RowsGrow ==
  /\ Rows \subseteq Rows'
  /\ \A i \in Rows : row'[i].trigger = row[i].trigger /\ (IsRunning(i)' => IsRunning(i))

LEMMA ToldStays ==
  ASSUME RowsGrow, NEW f, NEW trigger
  PROVE  /\ Told(f, trigger) => Told(f, trigger)'
         /\ f.row \in Rows \union {None} => (Behind(f) => Behind(f)')
  BY DEF RowsGrow, Told, Behind

LEMMA StackStays ==
  ASSUME RowsGrow, NEW s, NEW trigger, StackTold(s, trigger)
  PROVE  StackTold(s, trigger)'
  <1> SUFFICES ASSUME NEW k \in 1 .. Len(s) PROVE Told(s[k], trigger)' /\ (k < Len(s) => Behind(s[k])')
    BY DEF StackTold
  <1>1. Told(s[k], trigger) /\ (k < Len(s) => Behind(s[k]))
    BY DEF StackTold
  <1>2. s[k].row \in Rows \union {None}
    BY <1>1 DEF Told
  <1> QED
    BY <1>1, <1>2, ToldStays

LEMMA RowsSettle ==
  ASSUME row \in Seq(Row), NEW i, NEW status, status # "running", Settle(i, status)
  PROVE  RowsGrow /\ Rows' = Rows /\ (i \in Rows => ~IsRunning(i)')
  <1>1. row' = [row EXCEPT ![i].status = status] /\ row \in [1 .. Len(row) -> Row] /\ Len(row) \in Nat
    BY DEF Settle
  <1>2. row' = [k \in 1 .. Len(row) |-> IF k = i THEN [row[k] EXCEPT !.status = status] ELSE row[k]]
    BY <1>1
  <1>3. Len(row') = Len(row)
    BY <1>1, <1>2
  <1>4. \A k \in 1 .. Len(row) : row'[k].trigger = row[k].trigger /\ row'[k].status = IF k = i THEN status ELSE row[k].status
    BY <1>1, <1>2 DEF Row
  <1> QED
    BY <1>3, <1>4 DEF RowsGrow, Rows, IsRunning

LEMMA RowsRecord ==
  ASSUME row \in Seq(Row), NEW r, NEW status, Record(r, status)
  PROVE  /\ RowsGrow /\ Rows' = Rows \union {Len(row) + 1} /\ Len(row) \in Nat
         /\ row'[Len(row) + 1].trigger = run[r].trigger /\ row'[Len(row) + 1].status = status
  <1> DEFINE q == [task |-> Top(r).task, status |-> status, trigger |-> run[r].trigger]
  <1>1. row' = Append(row, q) /\ Len(row) \in Nat
    BY DEF Record
  <1>2. q.trigger = run[r].trigger /\ q.status = status
    OBVIOUS
  <1> HIDE DEF q
  <1>3. Len(row') = Len(row) + 1 /\ row'[Len(row) + 1] = q /\ \A k \in 1 .. Len(row) : row'[k] = row[k]
    BY <1>1
  <1> QED
    BY <1>1, <1>2, <1>3 DEF RowsGrow, Rows, IsRunning

LEMMA SameRows == row' = row => RowsGrow /\ Rows' = Rows
  BY DEF RowsGrow, Rows, IsRunning

-----------------------------------------------------------------------------
(* Steps on a stack *)

\* What r leaves running has its frame in s, unless it is not of r's making.
Covers(r, s) ==
  \A i \in Rows' : (IsRunning(i)' /\ row'[i].trigger # "manual") =>
    \/ \E k \in 1 .. Len(s) : s[k].row = i
    \/ i \in Rows /\ \A k \in 1 .. Len(run[r].stack) : run[r].stack[k].row # i

\* One goroutine gets another stack; what its old frames leave running is in a frame of the new one.
LEMMA StackStep ==
  ASSUME ClaimsInv, RowsInv, faults' = 0 => RowsGrow, NEW r \in Runs, NEW slot, NEW s, NEW trigger,
         run' = [run EXCEPT ![r] = slot], slot.stack = s, slot.trigger = trigger, slot = Idle \/ panel # "down",
         panel' = panel, listed' \subseteq listed, faults' \in Nat, faults' = 0 => faults = 0,
         left' \subseteq left, r \in left' => trigger = "manual",
         faults' = 0 => StackTold(s, trigger)',
         faults' = 0 => Covers(r, s)
  PROVE  RowsInv'
  <1>1. run'[r] = slot /\ \A q \in Runs : q # r => run'[q] = run[q]
    BY DEF ClaimsInv, RunsOK
  <1>2. \A q \in left' : q \in Runs /\ run'[q].trigger = "manual"
    BY <1>1 DEF RowsInv
  <1>3. panel' = "down" => listed' = {} /\ \A q \in Runs : ~Active(q)'
    BY <1>1 DEF RowsInv, Active
  <1>4. ASSUME faults' = 0 PROVE \A q \in Runs : StackTold(run[q].stack, run[q].trigger)'
    <2> SUFFICES ASSUME NEW q \in Runs PROVE StackTold(run[q].stack, run[q].trigger)'
      OBVIOUS
    <2>1. CASE q = r
      BY <1>1, <1>4, <2>1 DEF StackTold, Told, Behind
    <2>2. CASE q # r
      <3> DEFINE st == run[q].stack
                 g == run[q].trigger
      <3>1. PICK c, d : c = st /\ d = g
        OBVIOUS
      <3>2. StackTold(c, d)
        BY <1>4, <3>1 DEF RowsInv
      <3>3. StackTold(c, d)'
        BY <1>4, <3>2, StackStays
      <3> QED
        BY <1>1, <2>2, <3>1, <3>3 DEF StackTold, Told, Behind
    <2> QED
      BY <2>1, <2>2
  <1>5. ASSUME faults' = 0 PROVE RunningRowHasRunner'
    <2> SUFFICES ASSUME panel' # "down", NEW i \in Rows', IsRunning(i)', row'[i].trigger # "manual"
                 PROVE  HasRunner(i)'
      BY DEF RunningRowHasRunner
    <2>0. \/ \E k \in 1 .. Len(s) : s[k].row = i
          \/ i \in Rows /\ \A k \in 1 .. Len(run[r].stack) : run[r].stack[k].row # i
      BY <1>5 DEF Covers
    <2>1. CASE \E k \in 1 .. Len(s) : s[k].row = i
      BY <1>1, <2>1 DEF HasRunner
    <2>2. CASE i \in Rows /\ \A k \in 1 .. Len(run[r].stack) : run[r].stack[k].row # i
      <3>1. IsRunning(i) /\ row[i].trigger # "manual"
        BY <1>5, <2>2 DEF RowsGrow
      <3>2. HasRunner(i)
        BY <1>5, <2>2, <3>1 DEF RowsInv, RunningRowHasRunner
      <3> QED
        BY <1>1, <2>2, <3>2 DEF HasRunner
    <2> QED
      BY <2>0, <2>1, <2>2
  <1> QED
    BY <1>2, <1>3, <1>4, <1>5 DEF RowsInv

\* The same when only the stack changes.
LEMMA StackMoves ==
  ASSUME ClaimsInv, RowsInv, faults' = 0 => RowsGrow, NEW r \in Runs, Active(r), NEW s, NEW trigger, trigger = run[r].trigger,
         run' = [run EXCEPT ![r].stack = s], panel' = panel, listed' = listed,
         faults' \in Nat, faults' = 0 => faults = 0, left' \subseteq left,
         faults' = 0 => StackTold(s, trigger)',
         faults' = 0 => Covers(r, s)
  PROVE  RowsInv'
  <1> DEFINE slot == [run[r] EXCEPT !.stack = s]
  <1>1. run[r] \in [trigger: Triggers, stack: Stack]
    BY FrameTypes DEF ClaimsInv
  <1>2. slot.stack = s /\ slot.trigger = trigger
    BY <1>1
  <1>3. run' = [run EXCEPT ![r] = slot]
    OBVIOUS
  <1>4. panel # "down" /\ (r \in left' => trigger = "manual")
    BY DEF RowsInv
  <1> HIDE DEF slot
  <1> QED
    BY <1>2, <1>3, <1>4, StackStep

\* The same when the step sets the top frame.
LEMMA TopMoves ==
  ASSUME ClaimsInv, RowsInv, faults' = 0 => RowsGrow, NEW r \in Runs, Active(r), NEW f \in Frame, SetTop(r, f),
         NEW trigger, trigger = run[r].trigger, panel' = panel, listed' = listed,
         faults' \in Nat, faults' = 0 => faults = 0, left' \subseteq left,
         faults' = 0 => Told(f, trigger)',
         faults' = 0 => \A i \in Rows' : (IsRunning(i)' /\ row'[i].trigger # "manual") =>
                          f.row = i \/ (i \in Rows /\ Top(r).row # i)
  PROVE  RowsInv'
  <1> DEFINE s == ReplaceAt(run[r].stack, Len(run[r].stack), f)
             n == Len(run[r].stack)
  <1>1. run[r].stack \in Seq(Frame) /\ n \in Nat \ {0} /\ Top(r) = run[r].stack[n]
    BY FrameTypes DEF ClaimsInv, Top, Last
  <1>2. Len(s) = n /\ \A k \in 1 .. n : s[k] = IF k = n THEN f ELSE run[r].stack[k]
    <2>1. [run[r].stack EXCEPT ![n] = f] \in Seq(Frame)
      BY <1>1
    <2> QED
      BY <1>1, <2>1 DEF ReplaceAt
  <1>3. run' = [run EXCEPT ![r].stack = s]
    BY DEF SetTop
  <1>4. PICK old : old = run[r].stack
    OBVIOUS
  <1>5. PICK new : new = s
    OBVIOUS
  <1> HIDE DEF s
  <1>6. ASSUME faults' = 0 PROVE StackTold(new, trigger)'
    <2>1. StackTold(old, trigger)'
      BY <1>4, <1>6, StackStays DEF RowsInv
    <2> SUFFICES ASSUME NEW k \in 1 .. Len(new) PROVE Told(new[k], trigger)' /\ (k < Len(new) => Behind(new[k])')
      BY DEF StackTold
    <2>2. CASE k = n
      BY <1>2, <1>5, <1>6, <2>2
    <2>3. CASE k # n
      <3>1. k \in 1 .. Len(old) /\ k < Len(old) /\ new[k] = old[k]
        BY <1>1, <1>2, <1>4, <1>5, <2>3
      <3> QED
        BY <2>1, <3>1 DEF StackTold
    <2> QED
      BY <2>2, <2>3
  <1>7. ASSUME faults' = 0, NEW i \in Rows', IsRunning(i)', row'[i].trigger # "manual"
        PROVE  \/ \E k \in 1 .. Len(new) : new[k].row = i
               \/ i \in Rows /\ \A k \in 1 .. Len(run[r].stack) : run[r].stack[k].row # i
    <2>1. CASE f.row = i
      BY <1>1, <1>2, <1>5, <2>1
    <2>2. CASE i \in Rows /\ Top(r).row # i
      BY <1>1, <1>2, <1>5, <2>2
    <2> QED
      BY <1>7, <2>1, <2>2
  <1>8. run' = [run EXCEPT ![r].stack = new]
    BY <1>3, <1>5
  <1>9. faults' = 0 => Covers(r, new)
    BY <1>7 DEF Covers
  <1> QED
    BY <1>6, <1>8, <1>9, StackMoves

\* A step that leaves the goroutines alone and records nothing.
LEMMA RunsStay ==
  ASSUME RowsInv, faults' = 0 => RowsGrow /\ Rows' = Rows, run' = run, panel' = "down" <=> panel = "down", panel = "down" => listed' = {},
         faults' \in Nat, faults' = 0 => faults = 0, \A r \in left' : r \in Runs /\ run[r].trigger = "manual"
  PROVE  RowsInv'
  <1>1. ASSUME faults' = 0, NEW r \in Runs PROVE StackTold(run[r].stack, run[r].trigger)'
    <2>1. PICK c, d : c = run[r].stack /\ d = run[r].trigger
      OBVIOUS
    <2>2. StackTold(c, d)'
      BY <1>1, <2>1, StackStays DEF RowsInv
    <2> QED
      BY <2>1, <2>2 DEF StackTold, Told, Behind
  <1>2. ASSUME faults' = 0 PROVE RunningRowHasRunner'
    BY <1>2 DEF RowsInv, RunningRowHasRunner, RowsGrow, HasRunner
  <1>3. panel' = "down" => listed' = {} /\ \A r \in Runs : ~Active(r)'
    BY DEF RowsInv, Active
  <1> QED
    BY <1>1, <1>2, <1>3 DEF RowsInv

-----------------------------------------------------------------------------
(* The steps of a goroutine, and the others *)

\* What is known of a goroutine that takes a step.
LEMMA Stepping ==
  ASSUME ClaimsInv, RowsInv, NEW r \in Runs, Active(r), NEW f, f = Top(r)
  PROVE  /\ run[r].stack \in Stack /\ f \in Frame /\ run[r].trigger \in Triggers /\ row \in Seq(Row)
         /\ Len(run[r].stack) \in Nat \ {0} /\ f = run[r].stack[Len(run[r].stack)]
         /\ faults = 0 => Told(f, run[r].trigger)
         /\ faults = 0 => \A k \in 1 .. Len(run[r].stack) - 1 : Behind(run[r].stack[k])
         /\ Gone(r) => run[r].trigger = "manual"
  <1>1. /\ run[r].stack \in Stack /\ f \in Frame /\ run[r].trigger \in Triggers /\ row \in Seq(Row)
        /\ Len(run[r].stack) \in Nat \ {0} /\ f = run[r].stack[Len(run[r].stack)]
    BY FrameTypes DEF ClaimsInv, RunsOK, Top, Last
  <1>2. faults = 0 => StackTold(run[r].stack, run[r].trigger)
    BY DEF RowsInv
  <1>3. \A k \in 1 .. Len(run[r].stack) - 1 : k \in 1 .. Len(run[r].stack) /\ k < Len(run[r].stack)
    BY <1>1
  <1>4. Len(run[r].stack) \in 1 .. Len(run[r].stack)
    BY <1>1
  <1> QED
    BY <1>1, <1>2, <1>3, <1>4 DEF StackTold, RowsInv, Gone

LEMMA QuietSteps ==
  ASSUME ClaimsInv, RowsInv, NEW r \in Runs, Register(r) \/ Work(r)
  PROVE  RowsInv'
  <1> DEFINE f == Top(r)
  <1>1. /\ Active(r) /\ row' = row /\ faults' = faults /\ left' = left /\ panel' = panel /\ listed' = listed
        /\ faults \in Nat
    BY DEF Register, Work, At, NoLoop, NoClock, NoContext, RowsInv
  <1>2. f \in Frame /\ (faults = 0 => Told(f, run[r].trigger))
    BY <1>1, Stepping
  <1>3. RowsGrow /\ Rows' = Rows
    BY <1>1, SameRows
  <1> DEFINE g == IF f.pc = "register" THEN [f EXCEPT !.pc = "work"] ELSE f
  <1>4. PICK new \in Frame : /\ SetTop(r, new) /\ new.row = f.row /\ new.pc \in {"work", "write"}
                             /\ f.pc \in {"register", "work"}
                             /\ new.pc = "write" => new.outcome # "running"
    <2>1. CASE Register(r)
      <3>1. [f EXCEPT !.pc = "work"] \in Frame /\ [f EXCEPT !.pc = "work"].row = f.row /\ [f EXCEPT !.pc = "work"].pc = "work"
        BY <1>2 DEF Frame, Pcs
      <3>2. f.pc = "register" /\ SetTop(r, [f EXCEPT !.pc = "work"])
        BY <2>1 DEF Register, Goto, At
      <3> HIDE DEF f
      <3> QED
        BY <3>1, <3>2
    <2>2. CASE Work(r)
      <3>1. PICK end \in {"completed", "failed", "cancelled"} : SetTop(r, [f EXCEPT !.pc = "write", !.outcome = end])
        BY <2>2 DEF Work
      <3>2. f.pc = "work"
        BY <2>2 DEF Work, At
      <3> DEFINE q == [f EXCEPT !.pc = "write", !.outcome = end]
      <3>3. q \in Frame /\ q.row = f.row /\ q.pc = "write" /\ q.outcome # "running"
        BY <1>2 DEF Frame, Pcs, Statuses
      <3> HIDE DEF f, q
      <3> QED
        BY <3>1, <3>2, <3>3 DEF q
    <2> QED
      BY <2>1, <2>2
  <1> HIDE DEF f
  <1>5. PICK trigger : trigger = run[r].trigger
    OBVIOUS
  <1>6. faults' = 0 => Told(new, trigger)'
    <2>1. faults' = 0 => Told(new, trigger)
      BY <1>1, <1>2, <1>4, <1>5 DEF Told
    <2> QED
      BY <1>3, <2>1, ToldStays
  <1>7. \A i \in Rows' : new.row = i \/ (i \in Rows /\ Top(r).row # i)
    BY <1>3, <1>4 DEF f
  <1> QED
    BY <1>1, <1>3, <1>4, <1>5, <1>6, <1>7, TopMoves

\* What Fork makes of a frame.
LEMMA Forks ==
  ASSUME NEW r, NEW f \in Frame, NEW failed, Fork(r, f, failed)
  PROVE  \E new \in Frame : /\ SetTop(r, new) /\ new.row = f.row /\ new.pc = "chain"
                            /\ Gone(r) => new.kids = <<>>
  <1>1. \A k \in Seq(Tasks) : LET q == [f EXCEPT !.pc = "chain", !.kids = k] IN
          q \in Frame /\ q.row = f.row /\ q.pc = "chain" /\ q.kids = k
    BY DEF Frame, Pcs
  <1>2. Children[f.task] \in Seq(Tasks) /\ <<>> \in Seq(Tasks)
    BY SchedulerAssumption DEF Frame
  <1>3. PICK k \in Seq(Tasks) : SetTop(r, [f EXCEPT !.pc = "chain", !.kids = k]) /\ (Gone(r) => k = <<>>)
    BY <1>2 DEF Fork
  <1> QED
    BY <1>1, <1>3

LEMMA WriteKeepsRows ==
  ASSUME ClaimsInv, RowsInv, NEW r \in Runs, Write(r)
  PROVE  RowsInv'
  <1>0. PICK f : f = Top(r)
    OBVIOUS
  <1>1. /\ Active(r) /\ f.pc = "write" /\ left' = left /\ panel' = panel /\ listed' = listed /\ faults \in Nat
    BY <1>0 DEF Write, At, NoLoop, NoClock, NoContext, RowsInv
  <1>2. /\ f \in Frame /\ row \in Seq(Row) /\ (faults = 0 => Told(f, run[r].trigger))
        /\ Gone(r) => run[r].trigger = "manual"
    BY <1>0, <1>1, Stepping
  <1>3. PICK write \in 0 .. 1, list \in 0 .. 1 :
          /\ Fails(write + list) /\ Fork(r, f, list)
          /\ IF Gone(r) \/ write = 1 THEN UNCHANGED row ELSE Settle(f.row, f.outcome)
    BY <1>0 DEF Write
  <1>4. write + list \in 0 .. 2 /\ (write + list = 0 => write = 0)
    OBVIOUS
  <1>5. faults' \in Nat /\ (faults' = 0 => faults = 0 /\ write = 0)
    BY <1>1, <1>3, <1>4, FaultsCounted
  <1>6. PICK new \in Frame : /\ SetTop(r, new) /\ new.row = f.row /\ new.pc = "chain"
                             /\ Gone(r) => new.kids = <<>>
    BY <1>2, <1>3, Forks
  <1>7. ASSUME faults' = 0
        PROVE  RowsGrow /\ Rows' = Rows /\ ((~Gone(r) /\ f.row \in Rows) => ~IsRunning(f.row)')
    <2>1. f.outcome # "running"
      BY <1>0, <1>1, <1>2, <1>5, <1>7 DEF Told
    <2>2. CASE Gone(r)
      BY <1>3, <2>2, SameRows
    <2>3. CASE ~Gone(r)
      <3>1. Settle(f.row, f.outcome)
        BY <1>3, <1>5, <1>7, <2>3
      <3>2. RowsGrow /\ Rows' = Rows /\ (f.row \in Rows => ~IsRunning(f.row)')
        BY <1>2, <2>1, <3>1, RowsSettle
      <3> QED
        BY <3>2
    <2> QED
      BY <2>2, <2>3
  <1>8. PICK trigger : trigger = run[r].trigger
    OBVIOUS
  <1>9. ASSUME faults' = 0 PROVE Told(new, trigger)'
    <2>1. Told(f, trigger) /\ f.row # None
      BY <1>0, <1>1, <1>2, <1>5, <1>8, <1>9 DEF Told
    <2>2. new.row \in Rows' /\ row'[new.row].trigger = trigger
      BY <1>6, <1>7, <1>9, <2>1 DEF Told, RowsGrow
    <2>3. Gone(r) => new.kids = <<>> /\ trigger = "manual"
      BY <1>2, <1>6, <1>8
    <2>4. ~Gone(r) => ~IsRunning(new.row)'
      BY <1>6, <1>7, <1>9, <2>1 DEF Told
    <2> QED
      BY <1>6, <2>1, <2>2, <2>3, <2>4 DEF Told
  <1>10. faults' = 0 => \A i \in Rows' : new.row = i \/ (i \in Rows /\ Top(r).row # i)
    BY <1>0, <1>6, <1>7
  <1> QED
    BY <1>1, <1>5, <1>6, <1>7, <1>8, <1>9, <1>10, TopMoves

LEMMA OpenKeepsRows ==
  ASSUME ClaimsInv, RowsInv, NEW r \in Runs, Open(r)
  PROVE  RowsInv'
  <1>0. PICK f : f = Top(r)
    OBVIOUS
  <1>1. /\ Active(r) /\ f.pc = "open" /\ left' = left /\ panel' = panel /\ listed' = listed /\ faults \in Nat
    BY <1>0 DEF Open, At, NoLoop, NoClock, NoContext, RowsInv
  <1>2. f \in Frame /\ row \in Seq(Row) /\ (faults = 0 => Told(f, run[r].trigger))
    BY <1>0, <1>1, Stepping
  <1>3. PICK trigger : trigger = run[r].trigger
    OBVIOUS
  <1>4. faults = 0 => f.row = None
    BY <1>1, <1>2 DEF Told
  <1>5. CASE NoFault /\ Record(r, "running") /\ SetTop(r, [f EXCEPT !.pc = "register", !.row = Len(row) + 1])
    <2>0. PICK new : new = [f EXCEPT !.pc = "register", !.row = Len(row) + 1]
      OBVIOUS
    <2>1. /\ RowsGrow /\ Rows' = Rows \union {Len(row) + 1} /\ Len(row) \in Nat
          /\ row'[Len(row) + 1].trigger = trigger
      BY <1>2, <1>3, <1>5, RowsRecord
    <2>2. new \in Frame /\ new.row = Len(row) + 1 /\ new.pc = "register"
      <3>1. Len(row) + 1 \in Nat
        BY <2>1
      <3> QED
        BY <1>2, <2>0, <3>1 DEF Frame, Pcs
    <2>3. SetTop(r, new)
      BY <1>5, <2>0
    <2>4. Told(new, trigger)'
      BY <2>1, <2>2 DEF Told, None
    <2>5. faults' = 0 => \A i \in Rows' : new.row = i \/ (i \in Rows /\ Top(r).row # i)
      BY <1>0, <1>4, <1>5, <2>1, <2>2 DEF NoFault, None, Rows
    <2>6. faults' = faults
      BY <1>5 DEF NoFault
    <2> QED
      BY <1>1, <1>3, <2>1, <2>2, <2>3, <2>4, <2>5, <2>6, TopMoves
  <1>6. ASSUME NEW list \in 0 .. 1, Record(r, "skipped"), Fails(list), Fork(r, [f EXCEPT !.outcome = "skipped"], list)
        PROVE  RowsInv'
    <2> DEFINE g == [f EXCEPT !.outcome = "skipped"]
    <2>1. g \in Frame /\ g.row = f.row
      BY <1>2 DEF Frame, Statuses
    <2>2. Fork(r, g, list)
      BY <1>6
    <2> HIDE DEF g
    <2>3. PICK new \in Frame : SetTop(r, new) /\ new.row = g.row /\ new.pc = "chain"
      BY <2>1, <2>2, Forks
    <2>4. /\ RowsGrow /\ Rows' = Rows \union {Len(row) + 1} /\ Len(row) \in Nat
          /\ row'[Len(row) + 1].status = "skipped"
      BY <1>2, <1>6, RowsRecord
    <2>5. faults' \in Nat /\ (faults' = 0 => faults = 0)
      BY <1>1, <1>6, FaultsCounted
    <2>6. faults' = 0 => Told(new, trigger)'
      BY <1>4, <2>1, <2>3, <2>5 DEF Told
    <2>7. faults' = 0 => \A i \in Rows' : IsRunning(i)' => (i \in Rows /\ Top(r).row # i)
      BY <1>0, <1>4, <2>4, <2>5 DEF None, Rows, IsRunning
    <2> QED
      BY <1>1, <1>3, <2>3, <2>4, <2>5, <2>6, <2>7, TopMoves
  <1>7. CASE /\ NoFault \/ Fails(1)
             /\ SetTop(r, [f EXCEPT !.pc = "unwind", !.outcome = "failed"]) /\ row' = row
    <2>0. PICK new : new = [f EXCEPT !.pc = "unwind", !.outcome = "failed"]
      OBVIOUS
    <2>1. new \in Frame /\ new.row = f.row /\ new.pc = "unwind"
      BY <1>2, <2>0 DEF Frame, Pcs, Statuses
    <2>2. SetTop(r, new)
      BY <1>7, <2>0
    <2>3. faults' \in Nat /\ (faults' = 0 => faults = 0)
      BY <1>1, <1>7, FaultsCounted DEF NoFault
    <2>4. RowsGrow /\ Rows' = Rows
      BY <1>7, SameRows
    <2>5. faults' = 0 => Told(new, trigger)'
      BY <1>4, <2>1, <2>3 DEF Told
    <2>6. faults' = 0 => \A i \in Rows' : i \in Rows /\ Top(r).row # i
      BY <1>0, <1>4, <2>3, <2>4 DEF None, Rows
    <2> QED
      BY <1>1, <1>3, <2>1, <2>2, <2>3, <2>4, <2>5, <2>6, TopMoves
  <1> QED
    BY <1>0, <1>5, <1>6, <1>7 DEF Open

LEMMA NextKidKeepsRows ==
  ASSUME ClaimsInv, RowsInv, NEW r \in Runs, NextKid(r)
  PROVE  RowsInv'
  <1>0. PICK f : f = Top(r)
    OBVIOUS
  <1> DEFINE n == Len(run[r].stack)
  <1>1. /\ Active(r) /\ f.pc = "chain" /\ f.kids # <<>> /\ row' = row /\ faults' = faults
        /\ left' = left /\ panel' = panel /\ listed' = listed /\ faults \in Nat
    BY <1>0 DEF NextKid, At, NoLoop, NoClock, NoContext, RowsInv
  <1>2. /\ run[r].stack \in Stack /\ f \in Frame /\ n \in Nat \ {0} /\ f = run[r].stack[n]
        /\ faults = 0 => Told(f, run[r].trigger)
        /\ faults = 0 => \A k \in 1 .. n - 1 : Behind(run[r].stack[k])
    BY <1>0, <1>1, Stepping
  <1>3. RowsGrow /\ Rows' = Rows
    BY <1>1, SameRows
  <1>4. PICK trigger : trigger = run[r].trigger
    OBVIOUS
  <1>5. CASE SetTop(r, [f EXCEPT !.kids = <<>>])
    <2>0. PICK new : new = [f EXCEPT !.kids = <<>>]
      OBVIOUS
    <2>1. new \in Frame /\ new.row = f.row /\ new.pc = "chain" /\ new.kids = <<>>
      BY <1>1, <1>2, <2>0, NoKids DEF Frame
    <2>2. SetTop(r, new)
      BY <1>0, <1>5, <2>0
    <2>3. faults' = 0 => Told(new, trigger)'
      <3>1. faults' = 0 => Told(new, trigger)
        BY <1>1, <1>2, <1>4, <2>1 DEF Told
      <3> QED
        BY <1>3, <3>1, ToldStays
    <2>4. \A i \in Rows' : new.row = i \/ (i \in Rows /\ Top(r).row # i)
      BY <1>0, <1>3, <2>1
    <2> QED
      BY <1>1, <1>3, <1>4, <2>1, <2>2, <2>3, <2>4, TopMoves
  <1>6. CASE run' = [run EXCEPT ![r].stack =
                       Append(ReplaceAt(@, Len(@), [Top(r) EXCEPT !.kids = Tail(@)]), NewFrame(Head(Top(r).kids)))]
    <2>0. PICK g, kid : g = [f EXCEPT !.kids = Tail(f.kids)] /\ kid = NewFrame(Head(f.kids))
      OBVIOUS
    <2> DEFINE base == ReplaceAt(run[r].stack, n, g)
    <2>1. f.kids \in Seq(Tasks) /\ Tail(f.kids) \in Seq(Tasks) /\ Head(f.kids) \in Tasks
      BY <1>1, <1>2 DEF Frame
    <2>2. g \in Frame /\ g.row = f.row /\ g.pc = "chain"
      BY <1>1, <1>2, <2>0, <2>1 DEF Frame
    <2>3. kid \in Frame /\ kid.row = None /\ kid.pc = "open"
      BY <2>0, <2>1 DEF NewFrame, Frame, Pcs, Statuses, None
    <2>4. base \in Seq(Frame) /\ Len(base) = n /\ \A k \in 1 .. n : base[k] = IF k = n THEN g ELSE run[r].stack[k]
      <3>1. run[r].stack \in Seq(Frame)
        BY <1>2 DEF Stack
      <3> QED
        BY <1>2, <2>2, <3>1 DEF ReplaceAt
    <2> HIDE DEF base
    <2>5. PICK new : new = Append(base, kid)
      OBVIOUS
    <2>6. Len(new) = n + 1 /\ \A k \in 1 .. n + 1 : new[k] = IF k = n + 1 THEN kid ELSE base[k]
      BY <1>2, <2>3, <2>4, <2>5
    <2>7. run' = [run EXCEPT ![r].stack = new]
      BY <1>0, <1>6, <2>0, <2>5 DEF base
    <2>8. PICK old : old = run[r].stack
      OBVIOUS
    <2>9. ASSUME faults' = 0 PROVE StackTold(new, trigger)'
      <3>1. faults = 0
        BY <1>1, <2>9
      <3>2. Told(f, trigger) /\ (\A k \in 1 .. n - 1 : Behind(old[k]))
        BY <1>2, <1>4, <2>8, <3>1
      <3>3. Told(g, trigger) /\ Behind(g)
        BY <1>1, <2>2, <3>2 DEF Told, Behind
      <3>4. Told(kid, trigger)'
        BY <2>3 DEF Told
      <3>5. \A k \in 1 .. n - 1 : new[k] = old[k]
        BY <1>2, <2>4, <2>6, <2>8
      <3>6. new[n] = g /\ new[n + 1] = kid
        BY <1>2, <2>4, <2>6
      <3>7. StackTold(old, trigger)
        BY <1>4, <2>8, <3>1 DEF RowsInv
      <3>8. n = Len(old)
        BY <2>8
      <3>9. StackTold(old, trigger)'
        BY <1>3, <3>7, StackStays
      <3>10. Told(g, trigger)' /\ Behind(g)'
        <4>1. g.row \in Rows \union {None}
          BY <3>3 DEF Told
        <4> QED
          BY <1>3, <3>3, <4>1, ToldStays
      <3> HIDE DEF n
      <3>11. ASSUME NEW k \in 1 .. n + 1 PROVE Told(new[k], trigger)' /\ (k < n + 1 => Behind(new[k])')
        <4>1. CASE k = n + 1
          BY <1>2, <3>4, <3>6, <4>1
        <4>2. CASE k = n
          BY <1>2, <3>6, <3>10, <4>2
        <4>3. CASE k \in 1 .. n - 1
          <5>1. k \in 1 .. Len(old) /\ k < Len(old) /\ new[k] = old[k]
            BY <1>2, <3>5, <3>8, <4>3
          <5> QED
            BY <3>9, <5>1 DEF StackTold
        <4> QED
          BY <1>2, <4>1, <4>2, <4>3
      <3> QED
        BY <2>6, <3>11 DEF StackTold
    <2>10. Covers(r, new)
      <3> SUFFICES ASSUME NEW i \in Rows'
                   PROVE  \/ \E k \in 1 .. Len(new) : new[k].row = i
                          \/ i \in Rows /\ \A k \in 1 .. Len(run[r].stack) : run[r].stack[k].row # i
        BY DEF Covers
      <3>1. \A k \in 1 .. n : new[k].row = run[r].stack[k].row /\ k \in 1 .. Len(new)
        BY <1>2, <2>2, <2>4, <2>6
      <3> QED
        BY <1>3, <3>1
    <2> QED
      BY <1>1, <1>3, <1>4, <2>7, <2>9, <2>10, StackMoves
  <1> QED
    BY <1>0, <1>5, <1>6 DEF NextKid

\* What a run goes back to its caller with is settled, or was started by hand.
LEMMA CloseKeepsRows ==
  ASSUME ClaimsInv, RowsInv, NEW r \in Runs, Close(r)
  PROVE  RowsInv'
  <1>0. PICK f, old, trigger, n : f = Top(r) /\ old = run[r].stack /\ trigger = run[r].trigger /\ n = Len(old)
    OBVIOUS
  <1>1. /\ Active(r) /\ f.pc \in {"chain", "unwind"} /\ row' = row /\ panel' = panel /\ listed' = listed
        /\ Unwind(r) /\ faults \in Nat /\ \E k \in 0 .. 2 : faults' = faults \/ Fails(k)
    BY <1>0 DEF Close, At, NoLoop, NoClock, NoFault, RowsInv
  <1>2. /\ old \in Stack /\ f \in Frame /\ trigger \in Triggers /\ n \in Nat \ {0} /\ f = old[n]
        /\ faults = 0 => Told(f, trigger)
        /\ faults = 0 => \A k \in 1 .. n - 1 : Behind(old[k])
    BY <1>0, <1>1, Stepping
  <1>3. faults' \in Nat /\ (faults' = 0 => faults = 0)
    BY <1>1, FaultsCounted
  <1>4. RowsGrow /\ Rows' = Rows
    BY <1>1, SameRows
  <1>5. ASSUME faults' = 0, NEW i \in Rows', IsRunning(i)', row'[i].trigger # "manual"
        PROVE  i \in Rows /\ f.row # i
    <2>1. i \in Rows /\ IsRunning(i) /\ row[i].trigger # "manual" /\ i # None
      BY <1>4, <1>5 DEF RowsGrow, Rows, None
    <2>2. Told(f, trigger)
      BY <1>2, <1>3, <1>5
    <2> QED
      BY <1>1, <2>1, <2>2 DEF Told
  <1>6. faults = 0 => StackTold(old, trigger)
    BY <1>0 DEF RowsInv
  <1>7. CASE Front(old) = <<>>
    <2>1. run' = [run EXCEPT ![r] = Idle] /\ left' = left \ {r}
      BY <1>0, <1>1, <1>7 DEF Unwind
    <2>2. n = 1
      BY <1>0, <1>2, <1>7, FrontOf
    <2>3. PICK s : s = <<>>
      OBVIOUS
    <2>4. Len(s) = 0
      BY <2>3
    <2>5. faults' = 0 => Covers(r, s)
      BY <1>0, <1>2, <1>5, <2>2 DEF Covers
    <2>6. StackTold(s, "none")'
      BY <2>4 DEF StackTold
    <2>7. Idle.stack = s /\ Idle.trigger = "none"
      BY <2>3 DEF Idle
    <2> QED
      BY <1>1, <1>3, <1>4, <2>1, <2>5, <2>6, <2>7, StackStep
  <1>8. CASE Front(old) # <<>>
    <2>1. PICK rest : rest = Front(old)
      OBVIOUS
    <2>2. /\ rest \in Seq(Frame) /\ Len(rest) = n - 1 /\ n > 1
          /\ \A k \in 1 .. n - 1 : rest[k] = old[k]
      BY <1>0, <1>2, <1>8, <2>1, FrontOf
    <2>3. PICK s : /\ run' = [run EXCEPT ![r].stack = s] /\ left' = left
                   /\ s = rest \/ s = ReplaceAt(rest, Len(rest), [Last(rest) EXCEPT !.kids = <<>>])
      BY <1>0, <1>1, <1>8, <2>1 DEF Unwind
    <2>4. PICK m \in 1 .. n - 1 : m = n - 1
      BY <1>2, <2>2
    <2>5. PICK g \in Frame : g = [rest[m] EXCEPT !.kids = <<>>] /\ g.row = rest[m].row /\ g.pc = rest[m].pc /\ g.kids = <<>>
      <3>1. rest[m] \in Frame
        BY <2>2, <2>4
      <3> QED
        BY <3>1, NoKids DEF Frame
    <2>6. Len(s) = m /\ s[m] \in {rest[m], g} /\ \A k \in 1 .. m - 1 : s[k] = rest[k]
      <3>1. CASE s = rest
        BY <2>2, <2>4, <3>1
      <3>2. CASE s = ReplaceAt(rest, Len(rest), [Last(rest) EXCEPT !.kids = <<>>])
        <4>1. s = [rest EXCEPT ![m] = g]
          BY <2>2, <2>4, <2>5, <3>2 DEF ReplaceAt, Last
        <4>2. [rest EXCEPT ![m] = g] \in Seq(Frame)
          BY <2>2, <2>4, <2>5
        <4> QED
          BY <2>2, <2>4, <4>1, <4>2
      <3> QED
        BY <2>3, <3>1, <3>2
    <2>7. ASSUME faults' = 0 PROVE StackTold(s, trigger)'
      <3>1. StackTold(old, trigger) /\ Behind(old[m])
        BY <1>2, <1>3, <1>6, <2>4, <2>7
      <3>2. StackTold(old, trigger)'
        BY <1>4, <3>1, StackStays
      <3>3. Told(rest[m], trigger) /\ Behind(rest[m])
        BY <1>0, <1>2, <2>2, <2>4, <3>1 DEF StackTold
      <3>4. Told(s[m], trigger)
        BY <2>5, <2>6, <3>3 DEF Told, Behind
      <3>5. Told(s[m], trigger)'
        BY <1>4, <3>4, ToldStays
      <3> SUFFICES ASSUME NEW k \in 1 .. Len(s) PROVE Told(s[k], trigger)' /\ (k < Len(s) => Behind(s[k])')
        BY DEF StackTold
      <3>6. CASE k = m
        BY <2>6, <3>5, <3>6
      <3>7. CASE k # m
        <4>1. k \in 1 .. Len(old) /\ k < Len(old) /\ s[k] = old[k]
          BY <1>0, <1>2, <2>2, <2>4, <2>6, <3>7
        <4> QED
          BY <3>2, <4>1 DEF StackTold
      <3> QED
        BY <3>6, <3>7
    <2>8. ASSUME faults' = 0 PROVE Covers(r, s)
      <3>1. \A k \in 1 .. n : k = n \/ (k \in 1 .. Len(s) /\ s[k].row = old[k].row)
        <4> SUFFICES ASSUME NEW k \in 1 .. n, k # n PROVE k \in 1 .. Len(s) /\ s[k].row = old[k].row
          OBVIOUS
        <4>1. k \in 1 .. m /\ rest[k] = old[k] /\ Len(s) = m
          BY <1>2, <2>2, <2>4, <2>6
        <4>2. CASE k = m
          BY <2>5, <2>6, <4>1, <4>2
        <4>3. CASE k # m
          BY <2>4, <2>6, <4>1, <4>3
        <4> QED
          BY <4>2, <4>3
      <3> QED
        BY <1>0, <1>2, <1>5, <2>8, <3>1 DEF Covers
    <2> QED
      BY <1>0, <1>1, <1>3, <1>4, <2>3, <2>7, <2>8, StackMoves
  <1> QED
    BY <1>7, <1>8

LEMMA BeginKeepsRows ==
  ASSUME ClaimsInv, RowsInv, NEW t \in Tasks, NEW trigger, Begin(t, trigger), panel # "down", panel' = panel,
         listed' \subseteq listed, row' = row, left' = left, faults' \in Nat, faults' = 0 => faults = 0
  PROVE  RowsInv'
  <1>1. PICK r \in Runs : ~Active(r) /\ run' = [run EXCEPT ![r] = [trigger |-> trigger, stack |-> <<NewFrame(t)>>]]
    BY DEF Begin
  <1>2. PICK new, kid : new = <<kid>> /\ kid = NewFrame(t)
    OBVIOUS
  <1>3. PICK slot : slot = [trigger |-> trigger, stack |-> new]
    OBVIOUS
  <1>4. run' = [run EXCEPT ![r] = slot] /\ slot.stack = new /\ slot.trigger = trigger
    BY <1>1, <1>2, <1>3
  <1>5. RowsGrow /\ Rows' = Rows
    BY SameRows
  <1>6. Len(run[r].stack) = 0 /\ run[r].trigger = "none"
    BY <1>1 DEF Active, Idle
  <1>7. r \notin left'
    BY <1>6 DEF RowsInv
  <1>8. StackTold(new, trigger)'
    <2>1. Told(kid, trigger)'
      BY <1>2 DEF Told, NewFrame, None
    <2>2. Len(new) = 1 /\ new[1] = kid
      BY <1>2
    <2> QED
      BY <2>1, <2>2 DEF StackTold
  <1>9. Covers(r, new)
    BY <1>5, <1>6 DEF Covers
  <1> QED
    BY <1>4, <1>5, <1>7, <1>8, <1>9, StackStep

\* A process that has stopped runs nothing; one that starts fails what it finds running.
LEMMA RestartKeepsRows ==
  ASSUME ClaimsInv, RowsInv, Exit \/ Start
  PROVE  RowsInv'
  <1>1. CASE Exit
    <2>1. \A r \in Runs : run'[r] = Idle
      BY <1>1 DEF Exit
    <2>2. \A r \in Runs : ~Active(r)' /\ StackTold(run[r].stack, run[r].trigger)'
      BY <2>1 DEF Active, Idle, StackTold
    <2> QED
      BY <1>1, <2>2 DEF Exit, RowsInv, RunningRowHasRunner
  <1>2. CASE Start
    <2>0. /\ panel = "down" /\ panel' = "up" /\ run' = run /\ left' = left /\ row \in Seq(Row)
          /\ faults \in Nat /\ (faults' = faults \/ Fails(1))
      BY <1>2 DEF Start, NoLoop, NoContext, NoFault, RowsInv, ClaimsInv, RunsOK
    <2>1. faults' \in Nat
      BY <2>0, FaultsCounted
    <2>2. \A r \in Runs : ~Active(r)
      BY <2>0 DEF RowsInv
    <2>3. \A r \in Runs : run'[r] = Idle
      BY <2>0, <2>2 DEF Active
    <2>4. \A r \in Runs : StackTold(run[r].stack, run[r].trigger)'
      BY <2>3 DEF Idle, StackTold
    <2>5. ASSUME faults' = 0 PROVE RunningRowHasRunner'
      <3>1. faults = 0 /\ ~Fails(1)
        BY <2>0, <2>5, FaultsCounted
      <3>2. row' = [i \in Rows |-> IF IsRunning(i) THEN [row[i] EXCEPT !.status = "failed"] ELSE row[i]]
        BY <1>2, <3>1 DEF Start
      <3>3. \A i \in 1 .. Len(row) : row[i] \in Row
        BY <2>0
      <3>4. \A i \in Rows : ~IsRunning(i)'
        BY <3>2, <3>3 DEF Rows, IsRunning, Row
      <3>5. Rows' = Rows
        <4>1. Len(row) \in Nat /\ DOMAIN row' = 1 .. Len(row)
          BY <2>0, <3>2 DEF Rows
        <4>2. row' \in [1 .. Len(row) -> Row]
          BY <2>0, <3>2, RowsStayRows DEF Rows
        <4>3. row' \in Seq(Row) /\ Len(row') = Len(row)
          BY <4>1, <4>2
        <4> QED
          BY <4>3 DEF Rows
      <3> QED
        BY <3>4, <3>5 DEF RunningRowHasRunner
    <2> QED
      BY <2>0, <2>1, <2>3, <2>4, <2>5 DEF RowsInv, Idle
  <1> QED
    BY <1>1, <1>2

LEMMA NextKeepsRows == ClaimsInv /\ RowsInv /\ [SchedulerNext]_schedulerVars => RowsInv'
  <1> SUFFICES ASSUME ClaimsInv, RowsInv, [SchedulerNext]_schedulerVars PROVE RowsInv'
    OBVIOUS
  <1>0. faults \in Nat /\ row \in Seq(Row)
    BY DEF RowsInv, ClaimsInv, RunsOK
  <1>1. ASSUME NEW t \in Tasks, Dispatch(t) PROVE RowsInv'
    <2>0. panel' = panel /\ listed' \subseteq listed /\ row' = row /\ left' = left /\ panel # "down"
      BY <1>1 DEF Dispatch, NoClock, NoContext, RowsInv
    <2>1. CASE UNCHANGED <<next, claimed, run, owed, faults>>
      BY <1>0, <2>0, <2>1, SameRows, RunsStay DEF RowsInv
    <2>2. ASSUME NEW read \in 0 .. 1, NEW write \in 0 .. 1, Fails(read + write), Begin(t, "scheduled") PROVE RowsInv'
      <3>1. read + write \in 0 .. 2
        OBVIOUS
      <3> QED
        BY <1>0, <2>0, <2>2, <3>1, FaultsCounted, BeginKeepsRows
    <2> QED
      BY <1>1, <2>1, <2>2 DEF Dispatch
  <1>2. ASSUME NEW t \in Tasks, NEW trigger, Requested(t, trigger), panel # "down" PROVE RowsInv'
    <2>1. PICK read \in 0 .. 1 : Fails(read) /\ Begin(t, trigger)
      BY <1>2 DEF Requested
    <2>2. panel' = panel /\ listed' = listed /\ row' = row /\ left' = left
      BY <1>2 DEF Requested, NoClock, NoContext
    <2>3. read \in 0 .. 2
      OBVIOUS
    <2> QED
      BY <1>0, <1>2, <2>1, <2>2, <2>3, FaultsCounted, BeginKeepsRows
  <1>3. ASSUME NEW r \in Runs, Step(r) PROVE RowsInv'
    BY <1>3, OpenKeepsRows, QuietSteps, WriteKeepsRows, NextKidKeepsRows, CloseKeepsRows DEF Step
  <1>4. ASSUME NEW r \in Runs, ClientLeaves(r) PROVE RowsInv'
    <2>1. /\ run' = run /\ row' = row /\ faults' = faults /\ panel' = panel /\ listed' = listed
          /\ left' = left \union {r} /\ run[r].trigger = "manual"
      BY <1>4 DEF ClientLeaves, NoLoop, NoClock
    <2> QED
      BY <1>0, <2>1, SameRows, RunsStay DEF RowsInv
  <1>5. CASE CancelOrphan
    <2>1. /\ run' = run /\ panel' = panel /\ listed' = listed /\ left' = left /\ (faults' = faults \/ Fails(1))
          /\ Settle(cancelling, "cancelled") \/ row' = row
      BY <1>5 DEF CancelOrphan, NoLoop, NoClock, NoFault
    <2>2. RowsGrow /\ Rows' = Rows
      BY <1>0, <2>1, RowsSettle, SameRows
    <2>3. faults' \in Nat /\ (faults' = 0 => faults = 0)
      BY <1>0, <2>1, FaultsCounted
    <2> QED
      BY <2>1, <2>2, <2>3, RunsStay DEF RowsInv
  <1>6. CASE Tick \/ Stop \/ Stopped \/ (\E i \in Rows : Cancel(i)) \/ (\E t \in Tasks : Elapse(t)) \/ UNCHANGED schedulerVars
    <2>1. /\ run' = run /\ row' = row /\ faults' = faults /\ left' = left
          /\ panel' = "down" <=> panel = "down"
          /\ panel = "down" => listed' = listed
      BY <1>6 DEF Tick, Stop, Stopped, Cancel, Elapse, NoLoop, NoClock, NoContext, schedulerVars
    <2> QED
      BY <1>0, <2>1, SameRows, RunsStay DEF RowsInv
  <1> QED
    BY <1>1, <1>2, <1>3, <1>4, <1>5, <1>6, RestartKeepsRows DEF SchedulerNext, Trigger, Event

LEMMA RowsFollow ==
  ASSUME ClaimsInv, RowsInv
  PROVE  RowsFollowRuns
  <1>1. faults # 0 => RunningRowHasRunner
    BY DEF RunningRowHasRunner
  <1>2. ASSUME faults = 0, NEW r \in Runs, NEW k \in 1 .. (Len(run[r].stack) - 1)
        PROVE  run[r].stack[k].row # None => ~IsRunning(run[r].stack[k].row)
    <2>1. Len(run[r].stack) \in Nat
      <3>1. CASE Active(r)
        BY <3>1, FrameTypes DEF ClaimsInv
      <3>2. CASE ~Active(r)
        BY <3>2 DEF Active, Idle
      <3> QED
        BY <3>1, <3>2
    <2>2. k \in 1 .. Len(run[r].stack) /\ k < Len(run[r].stack)
      BY <2>1
    <2> QED
      BY <1>2, <2>2 DEF RowsInv, StackTold, Behind
  <1> QED
    BY <1>1, <1>2 DEF RowsInv, RowsFollowRuns, ParentSettlesFirst

\* While the database answers, a row of a panel that is up says "running" only where a goroutine runs it
\* (runs started by hand apart), and a chain goes on only from rows that say how their step ended.
THEOREM RowsFollowRunsHolds == SchedulerSpec => []RowsFollowRuns
  <1>1. SchedulerInit => RowsInv
    <2> SUFFICES ASSUME SchedulerInit PROVE RowsInv
      OBVIOUS
    <2>1. \A r \in Runs : run[r] = Idle
      BY DEF SchedulerInit
    <2>2. \A r \in Runs : StackTold(run[r].stack, run[r].trigger)
      BY <2>1 DEF Idle, StackTold
    <2>3. Rows = {} /\ faults = 0 /\ left = {} /\ panel = "up"
      BY DEF SchedulerInit, Rows
    <2> QED
      BY <2>2, <2>3 DEF RowsInv, RunningRowHasRunner
  <1>2. ClaimsInv /\ RowsInv => RowsFollowRuns
    BY RowsFollow
  <1> QED
    BY <1>1, <1>2, SchedulerStarts, StepClaims, NextKeepsRows, PTL DEF SchedulerSpec

=============================================================================
