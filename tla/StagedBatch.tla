----------------------------- MODULE StagedBatch -----------------------------
(***************************************************************************)
(* Staged updates of one server that has a container: internal/staging,    *)
(* internal/db/staged_config.go and the operations that publish what was   *)
(* staged.  A row brings one file or one field of the configuration.  The  *)
(* sweep publishes the open batch when its window has come and holds no    *)
(* transition; start and restart publish what waits for a restart under    *)
(* the transition; a direct edit saves and recreates under it.  Staging a  *)
(* field holds the transition too, staging a file does not.                *)
(*                                                                         *)
(* The window of a batch is the next restart, or timed: a time or an idle  *)
(* stretch, which may have come whenever the sweep looks.  The intents of  *)
(* other operations only make a sweep wait.                                *)
(***************************************************************************)
EXTENDS Naturals, Sequences, SequencesExt, FiniteSets

CONSTANTS
  MaxChanges,    \* bound on the rows staged and the direct edits of the configuration
  MaxFailures    \* bound on failed writes and container calls

ASSUME StagedAssumption == {MaxChanges, MaxFailures} \subseteq Nat

VARIABLES
  batches,     \* server_update_batches in the order of their creation
  rows,        \* staged rows in the order of their creation
  live,        \* the file on disk and the field in the configuration
  built,       \* the field the container was created from
  settled,     \* the rows whose applied_at is not after server.last_started
  transition,  \* who holds the server's transition
  sweep,       \* staging.Sweep on the open batch
  power,       \* the start, restart or edit in progress
  staging,     \* a request that stages, for each kind of row
  edits,       \* direct edits so far
  failures,    \* failed writes and container calls so far
  cut          \* history: "window", the two writes that move a window were cut apart; "sweep", a
               \* sweep of fields was cut short, or ran beside a start, restart or edit

stagedVars == <<batches, rows, live, built, settled, transition, sweep, power, staging,
                edits, failures, cut>>

Kinds == {"file", "field"}
Windows == {"next_restart", "timed"}

\* Row r brings the value r, the i-th edit the value MaxChanges + i; zero is what was there.
Values == 0..(2 * MaxChanges)
RowIds == DOMAIN rows
BatchIds == DOMAIN batches

OpenBatches == {b \in BatchIds : batches[b].open}

\* The bounds: room for a change, and for a batch if none is open.
Changes == Len(rows) + edits + Cardinality({k \in Kinds : staging[k].pc # "idle"})
Room == Changes < MaxChanges /\ (OpenBatches = {} => Len(batches) < MaxChanges)

\* The staged rows of a batch: ListBatchConfig and ListBatchContent, both oldest first.
Waiting(k, b) ==
  {r \in RowIds : rows[r].kind = k /\ rows[r].batch = b /\ rows[r].status = "staged"}

\* The staged fields that wait for a restart, of whatever batch; they are listed newest first.
OnRestart ==
  {r \in RowIds : rows[r].kind = "field" /\ rows[r].mode = "next_restart" /\ rows[r].status = "staged"}

\* A job that publishes: the settled rows as it read the server, the files it listed, the rows it
\* has still to work on, the fields it applied, the file it will put back, the configuration it
\* recreates from; and, for the properties, what was live and whether it and its undo had their way.
Resting == [pc |-> "idle", batch |-> 0, since |-> {}, content |-> {}, todo |-> {},
            done |-> <<>>, snap |-> 0, config |-> 0, was |-> [file |-> 0, field |-> 0], clean |-> TRUE]
NotStaging == [pc |-> "idle", window |-> "next_restart", base |-> 0, batch |-> 0]

CallFails == failures < MaxFailures /\ failures' = failures + 1

\* The sweep has fields in hand; a start, restart or edit is under way.
Publishes(job) == job.pc \in {"files", "fields", "recreate", "undo"} /\ (job.todo # {} \/ job.done # <<>>)
UnderWay == power.pc \notin {"idle", "finish"}
CutIf(p, what) == cut' = IF p THEN cut \union {what} ELSE cut

StagedInit ==
  /\ batches = <<>> /\ rows = <<>>
  /\ live = [file |-> 0, field |-> 0] /\ built = 0 /\ settled = {}
  /\ transition = "free" /\ sweep = Resting /\ power = Resting
  /\ staging = [k \in Kinds |-> NotStaging]
  /\ edits = 0 /\ failures = 0 /\ cut = {}

-----------------------------------------------------------------------------
(* Staging, and discarding what was staged. *)

\* ensureOpenBatch: the open batch, or a new one; the unique key decides between two requests.
EnsureOpenBatch(k, w) ==
  /\ batches' = IF OpenBatches # {} THEN batches ELSE Append(batches, [window |-> w, open |-> TRUE])
  /\ staging' = [staging EXCEPT ![k] =
       [pc |-> IF k = "field" THEN "window" ELSE "insert", window |-> w, base |-> live.field,
        batch |-> IF OpenBatches # {} THEN CHOOSE b \in OpenBatches : TRUE ELSE Len(batches) + 1]]

\* UpdateServerConfig with stage set takes the transition, reads the live field and finds the batch.
StageField_Unlocked(w) ==
  /\ staging["field"].pc = "idle" /\ Room
  /\ EnsureOpenBatch("field", w)
  /\ UNCHANGED <<rows, live, built, settled, transition, sweep, power, edits, failures, cut>>

StageField(w) ==
  /\ staging["field"].pc = "idle" /\ transition = "free" /\ Room
  /\ transition' = "staging"
  /\ EnsureOpenBatch("field", w)
  /\ UNCHANGED <<rows, live, built, settled, sweep, power, edits, failures, cut>>

\* stageContentBytes has written the bytes aside; it takes no transition.
StageFile ==
  /\ staging["file"].pc = "idle" /\ Room
  /\ EnsureOpenBatch("file", "next_restart")
  /\ UNCHANGED <<rows, live, built, settled, transition, sweep, power, edits, failures, cut>>

\* The request is over, and the one for a field releases the transition.
StagingEnds(k) ==
  /\ staging' = [staging EXCEPT ![k] = NotStaging]
  /\ transition' = IF k = "field" /\ transition = "staging" THEN "free" ELSE transition

\* Save writes the whole batch as it was read, with the new window: a batch that was closed
\* meanwhile is open again, unless another one is.
SaveWindow ==
  LET s == staging["field"]
  IN  /\ s.pc = "window"
      /\ \/ /\ OpenBatches \subseteq {s.batch}
            /\ batches' = [batches EXCEPT ![s.batch] = [window |-> s.window, open |-> TRUE]]
            /\ staging' = [staging EXCEPT !["field"].pc = "mode"]
            /\ UNCHANGED transition
         \/ /\ ~(OpenBatches \subseteq {s.batch})
            /\ StagingEnds("field") /\ UNCHANGED batches
      /\ UNCHANGED <<rows, live, built, settled, sweep, power, edits, failures, cut>>

\* The fields that are staged in the batch adopt its window.
AdoptWindow ==
  LET s == staging["field"]
  IN  /\ s.pc = "mode"
      /\ rows' = [r \in RowIds |->
           IF rows[r].kind = "field" /\ rows[r].batch = s.batch /\ rows[r].status = "staged"
           THEN [rows[r] EXCEPT !.mode = s.window] ELSE rows[r]]
      /\ staging' = [staging EXCEPT !["field"].pc = "insert"]
      /\ UNCHANGED <<batches, live, built, settled, transition, sweep, power, edits, failures, cut>>

InsertRow(k) ==
  LET s == staging[k]
  IN  /\ s.pc = "insert"
      /\ rows' = Append(rows, [kind |-> k, batch |-> s.batch, mode |-> s.window, base |-> s.base,
                               prev |-> 0, status |-> "staged"])
      /\ StagingEnds(k)
      /\ UNCHANGED <<batches, live, built, settled, sweep, power, edits, failures, cut>>

\* A write of the request fails.
StagingFails(k) ==
  /\ staging[k].pc \in {"window", "mode", "insert"} /\ CallFails
  /\ StagingEnds(k)
  /\ CutIf(staging[k].pc = "mode", "window")
  /\ UNCHANGED <<batches, rows, live, built, settled, sweep, power, edits>>

\* DiscardUpdateBatch of one item, and closeBatchIfEmpty.
DiscardItem(r) ==
  /\ rows[r].status = "staged"
  /\ rows' = [rows EXCEPT ![r].status = "discarded"]
  /\ batches' = [b \in BatchIds |->
       IF \A q \in RowIds \ {r} : rows[q].batch # b \/ rows[q].status # "staged"
       THEN [batches[b] EXCEPT !.open = FALSE] ELSE batches[b]]
  /\ UNCHANGED <<live, built, settled, transition, sweep, power, staging, edits, failures, cut>>

-----------------------------------------------------------------------------
(* What the two publishers do alike. *)

\* commitFiles reads the staged bytes, which a discard has removed.
Readable(content) == \A r \in content : rows[r].status # "discarded"

\* ApplyStagedConfigChange, in one transaction: the row is claimed and the field has not moved.
StillMatches(r) == rows[r].status = "staged" /\ rows[r].base = live.field
ApplyField(r) ==
  /\ rows' = [rows EXCEPT ![r].status = "applied", ![r].prev = live.field]
  /\ live' = [live EXCEPT !.field = r]

\* RollbackStagedConfigChange of the fields a job applied, and restoreFiles.
Revertible(done) == {i \in DOMAIN done : rows[done[i]].status = "applied"}
FieldBefore(done) ==
  IF Revertible(done) = {} THEN live.field ELSE rows[done[Max(Revertible(done))]].prev
FileBefore(job) == IF job.content = {} THEN live.file ELSE job.snap

\* undoApply of a job: the files, the fields it applied, and the rows it marked; each may fail.
UndoApply_FilesOnly(job, marked, lost) ==
  /\ lost # {} => CallFails
  /\ lost = {} => UNCHANGED failures
  /\ live' = [live EXCEPT !.file = IF "file" \in lost THEN @ ELSE FileBefore(job)]
  /\ rows' = [r \in RowIds |->
       IF r \in marked /\ rows[r].status = "applied" THEN [rows[r] EXCEPT !.status = "staged"] ELSE rows[r]]

UndoApply(job, marked, lost) ==
  /\ lost # {} => CallFails
  /\ lost = {} => UNCHANGED failures
  /\ live' = [file |-> IF "file" \in lost THEN live.file ELSE FileBefore(job),
              field |-> IF "field" \in lost THEN live.field ELSE FieldBefore(job.done)]
  /\ rows' = [r \in RowIds |->
       IF r \in Range(job.done) /\ rows[r].status = "applied" /\ "field" \notin lost
       THEN [rows[r] EXCEPT !.status = "rolled_back"]
       ELSE IF r \in marked /\ rows[r].status = "applied" THEN [rows[r] EXCEPT !.status = "staged"]
       ELSE rows[r]]

\* A job whose files or field another job has written.
Disturbed(job) == [job EXCEPT !.clean = @ /\ job.pc = "idle"]

-----------------------------------------------------------------------------
(* The sweep: ApplyBatch on a batch whose window has come. *)

SweepEnds == sweep' = Resting

SweepReads(b) ==
  /\ sweep.pc = "idle" /\ batches[b].open /\ batches[b].window = "timed"
  /\ sweep' = [Resting EXCEPT !.pc = "list", !.batch = b, !.since = settled]
  /\ UNCHANGED <<batches, rows, live, built, settled, transition, power, staging, edits, failures, cut>>

\* A live field that moved stops the apply before anything is written.
SweepLists ==
  LET fields == Waiting("field", sweep.batch)
  IN  /\ sweep.pc = "list"
      /\ \/ (\E r \in fields : rows[r].base # live.field) /\ SweepEnds
         \/ /\ \A r \in fields : rows[r].base = live.field
            /\ sweep' = [sweep EXCEPT !.pc = "files", !.content = Waiting("file", sweep.batch),
                                      !.todo = fields, !.was = live]
      /\ CutIf(Publishes(sweep') /\ UnderWay, "sweep")
      /\ UNCHANGED <<batches, rows, live, built, settled, transition, power, staging, edits, failures>>

SweepFiles ==
  /\ sweep.pc = "files"
  /\ \/ /\ sweep.content = {}
        /\ sweep' = [sweep EXCEPT !.pc = "fields"]
        /\ UNCHANGED <<live, power, failures>>
     \/ /\ sweep.content # {} /\ Readable(sweep.content)
        /\ live' = [live EXCEPT !.file = Max(sweep.content)]
        /\ sweep' = [sweep EXCEPT !.pc = "fields", !.snap = live.file]
        /\ power' = Disturbed(power) /\ UNCHANGED failures
     \/ /\ \/ ~Readable(sweep.content) /\ UNCHANGED failures
           \/ Readable(sweep.content) /\ sweep.content # {} /\ CallFails
        /\ SweepEnds /\ UNCHANGED <<live, power>>
  /\ UNCHANGED <<batches, rows, built, settled, transition, staging, edits, cut>>

SweepApplies ==
  /\ sweep.pc = "fields" /\ sweep.todo # {}
  /\ LET r == Min(sweep.todo)
     IN  \/ /\ StillMatches(r) /\ ApplyField(r)
            /\ sweep' = [sweep EXCEPT !.todo = @ \ {r}, !.done = Append(@, r)]
            /\ power' = Disturbed(power) /\ UNCHANGED failures
         \/ /\ (~StillMatches(r) /\ UNCHANGED failures) \/ (StillMatches(r) /\ CallFails)
            /\ sweep' = [sweep EXCEPT !.pc = "undo"]
            /\ UNCHANGED <<live, rows, power>>
  /\ UNCHANGED <<batches, built, settled, transition, staging, edits, cut>>

\* publishStagedBatch: a restart keeps the container; a changed field has it recreated from the
\* configuration of this moment.
SweepPublishes ==
  /\ sweep.pc = "fields" /\ sweep.todo = {}
  /\ \/ /\ sweep.done # <<>>
        /\ sweep' = [sweep EXCEPT !.pc = "recreate", !.config = live.field]
        /\ UNCHANGED failures
     \/ /\ sweep.done = <<>>
        /\ sweep' = [sweep EXCEPT !.pc = "mark", !.todo = sweep.content]
        /\ UNCHANGED failures
     \/ sweep.done = <<>> /\ CallFails /\ sweep' = [sweep EXCEPT !.pc = "undo"]
  /\ UNCHANGED <<batches, rows, live, built, settled, transition, power, staging, edits, cut>>

\* The new container's id is saved with the whole row, as it was before the journal was claimed.
SweepRecreates ==
  /\ sweep.pc = "recreate"
  /\ \/ /\ built' = sweep.config /\ settled' = sweep.since
        /\ sweep' = [sweep EXCEPT !.pc = "mark", !.todo = sweep.content]
        /\ UNCHANGED failures
     \/ /\ CallFails /\ built' \in {built, sweep.config} /\ settled' \in {settled, sweep.since}
        /\ sweep' = [sweep EXCEPT !.pc = "undo"]
  /\ UNCHANGED <<batches, rows, live, transition, power, staging, edits, cut>>

SweepUndoes ==
  /\ sweep.pc = "undo" /\ SweepEnds
  /\ \E lost \in SUBSET {"file", "field"} : UndoApply(sweep, {}, lost)
  /\ power' = IF live' = live THEN power ELSE Disturbed(power)
  /\ UNCHANGED <<batches, built, settled, transition, staging, edits, cut>>

\* MarkStagedContentApplied; its failure undoes nothing.
SweepMarks ==
  /\ sweep.pc = "mark" /\ sweep.todo # {}
  /\ LET r == Min(sweep.todo)
     IN  \/ /\ rows[r].status = "staged" /\ UNCHANGED failures
            /\ rows' = [rows EXCEPT ![r].status = "applied"]
            /\ sweep' = [sweep EXCEPT !.todo = @ \ {r}]
         \/ /\ (rows[r].status # "staged" /\ UNCHANGED failures) \/ (rows[r].status = "staged" /\ CallFails)
            /\ SweepEnds /\ UNCHANGED rows
  /\ UNCHANGED <<batches, live, built, settled, transition, power, staging, edits, cut>>

\* CloseUpdateBatch, whatever has been staged in the batch meanwhile.
SweepCloses ==
  /\ sweep.pc = "mark" /\ sweep.todo = {}
  /\ batches' = [batches EXCEPT ![sweep.batch].open = FALSE]
  /\ SweepEnds
  /\ UNCHANGED <<rows, live, built, settled, transition, power, staging, edits, failures, cut>>

-----------------------------------------------------------------------------
(* Start, restart and the direct edit, under the transition. *)

PowerEnds == power' = Resting /\ transition' = "free"

PowerBegins ==
  /\ power.pc = "idle" /\ transition = "free"
  /\ transition' = "power"
  /\ power' = [Resting EXCEPT !.pc = "look", !.since = settled]
  /\ CutIf(Publishes(sweep), "sweep")
  /\ UNCHANGED <<batches, rows, live, built, settled, sweep, staging, edits, failures>>

\* UpdateServerConfig without staging saves the field, and recreates.
EditSaves ==
  /\ power.pc = "idle" /\ transition = "free" /\ Changes < MaxChanges
  /\ transition' = "power" /\ edits' = edits + 1
  /\ live' = [live EXCEPT !.field = MaxChanges + edits + 1]
  /\ power' = [Resting EXCEPT !.pc = "recreate edited", !.since = settled,
                              !.config = MaxChanges + edits + 1]
  /\ sweep' = Disturbed(sweep)
  /\ CutIf(Publishes(sweep), "sweep")
  /\ UNCHANGED <<batches, rows, built, settled, staging, failures>>

\* CommitNextRestartFiles leaves a batch alone that waits for a time or an idle stretch.
PowerLooks ==
  LET due == {b \in OpenBatches : batches[b].window = "next_restart"}
  IN  /\ power.pc = "look"
      /\ power' = [power EXCEPT !.pc = "files", !.was = live,
                     !.content = IF due = {} THEN {} ELSE Waiting("file", CHOOSE b \in due : TRUE)]
      /\ UNCHANGED <<batches, rows, live, built, settled, transition, sweep, staging, edits, failures, cut>>

PowerFiles ==
  /\ power.pc = "files"
  /\ \/ /\ power.content = {}
        /\ power' = [power EXCEPT !.pc = "fields", !.todo = OnRestart]
        /\ UNCHANGED <<live, sweep, failures, transition>>
     \/ /\ power.content # {} /\ Readable(power.content)
        /\ live' = [live EXCEPT !.file = Max(power.content)]
        /\ power' = [power EXCEPT !.pc = "mark", !.snap = live.file]
        /\ sweep' = Disturbed(sweep) /\ UNCHANGED <<failures, transition>>
     \/ /\ \/ ~Readable(power.content) /\ UNCHANGED failures
           \/ Readable(power.content) /\ power.content # {} /\ CallFails
        /\ PowerEnds /\ UNCHANGED <<live, sweep>>
  /\ UNCHANGED <<batches, rows, built, settled, staging, edits, cut>>

\* The rows are marked, or those that were are put back with the files.
PowerMarks ==
  LET content == power.content
      marks == \A r \in content : rows[r].status = "staged"
  IN  /\ power.pc = "mark"
      /\ \/ /\ marks /\ UNCHANGED <<live, sweep, failures, transition>>
            /\ rows' = [r \in RowIds |-> IF r \in content THEN [rows[r] EXCEPT !.status = "applied"] ELSE rows[r]]
            /\ power' = [power EXCEPT !.pc = "fields", !.todo = OnRestart]
         \/ /\ (~marks /\ UNCHANGED failures) \/ (marks /\ CallFails)
            /\ live' = [live EXCEPT !.file = power.snap]
            /\ sweep' = Disturbed(sweep)
            /\ PowerEnds /\ UNCHANGED rows
      /\ UNCHANGED <<batches, built, settled, staging, edits, cut>>

\* A field that cannot be applied has the files put back, and what was applied before it stays.
PowerApplies ==
  /\ power.pc = "fields" /\ power.todo # {}
  /\ LET r == Max(power.todo)
     IN  \/ /\ StillMatches(r) /\ ApplyField(r)
            /\ power' = [power EXCEPT !.todo = @ \ {r}, !.done = Append(@, r)]
            /\ sweep' = Disturbed(sweep) /\ UNCHANGED <<failures, transition>>
         \/ /\ (~StillMatches(r) /\ UNCHANGED failures) \/ (StillMatches(r) /\ CallFails)
            /\ live' = [live EXCEPT !.file = FileBefore(power)]
            /\ rows' = [q \in RowIds |-> IF q \in power.content /\ rows[q].status = "applied"
                                         THEN [rows[q] EXCEPT !.status = "staged"] ELSE rows[q]]
            /\ sweep' = IF live' = live THEN sweep ELSE Disturbed(sweep)
            /\ PowerEnds
  /\ UNCHANGED <<batches, built, settled, staging, edits, cut>>

\* HasPendingRestartStagedConfigRecreate, by the row as the operation read it.
Pending_Never == FALSE
Pending ==
  \E r \in RowIds : /\ rows[r].kind = "field" /\ rows[r].mode = "next_restart"
                    /\ rows[r].status = "applied" /\ r \notin power.since

\* The container is recreated, or restarted as it is: files alone make a start recreate and a restart
\* not.  When a restart fails, or the journal refuses it, the fallback recreates.
PowerDecides ==
  LET changed == power.done # <<>> \/ Pending
  IN  /\ power.pc = "fields" /\ power.todo = {}
      /\ \/ /\ changed \/ power.content # {}
            /\ power' = [power EXCEPT !.pc = "recreate", !.config = live.field]
            /\ UNCHANGED <<built, failures, transition>>
         \/ /\ ~changed /\ UNCHANGED <<failures, transition>>
            /\ built' \in {built} \union (IF sweep.pc = "idle" THEN {} ELSE {live.field})
            /\ power' = [power EXCEPT !.pc = "save"]
         \/ /\ ~changed /\ CallFails /\ built' = live.field /\ UNCHANGED transition
            /\ power' = [power EXCEPT !.pc = "save"]
         \/ ~changed /\ CallFails /\ PowerEnds /\ UNCHANGED built
      /\ UNCHANGED <<batches, rows, live, settled, sweep, staging, edits, cut>>

AppliedFields == {r \in RowIds : rows[r].kind = "field" /\ rows[r].status = "applied"}

\* The replacement is saved with the row as it was read.  A failure is undone, unless it is that of
\* the save.
PowerRecreates ==
  /\ power.pc = "recreate"
  /\ \/ /\ built' = power.config /\ settled' = power.since
        /\ power' = [power EXCEPT !.pc = "save"] /\ UNCHANGED <<failures, transition>>
     \/ /\ CallFails /\ built' \in {built, power.config} /\ settled' = power.since
        /\ power' = [power EXCEPT !.pc = "undo"] /\ UNCHANGED transition
     \/ CallFails /\ built' = power.config /\ PowerEnds /\ UNCHANGED settled
  /\ UNCHANGED <<batches, rows, live, sweep, staging, edits, cut>>

\* A server that was running is started with the edit.
EditRecreates ==
  /\ power.pc = "recreate edited" /\ PowerEnds
  /\ \/ built' = power.config /\ settled' \in {power.since, AppliedFields} /\ UNCHANGED failures
     \/ CallFails /\ built' \in {built, power.config} /\ settled' \in {settled, power.since}
  /\ UNCHANGED <<batches, rows, live, sweep, staging, edits, cut>>

PowerUndoes ==
  /\ power.pc = "undo" /\ PowerEnds
  /\ \E lost \in SUBSET {"file", "field"} : UndoApply(power, power.content, lost)
  /\ sweep' = IF live' = live THEN sweep ELSE Disturbed(sweep)
  /\ UNCHANGED <<batches, built, settled, staging, edits, cut>>

\* The start is recorded and the transition released.
PowerSaves ==
  /\ power.pc = "save"
  /\ \/ /\ settled' = AppliedFields /\ transition' = "free"
        /\ power' = [Resting EXCEPT !.pc = "finish"] /\ UNCHANGED failures
     \/ CallFails /\ PowerEnds /\ UNCHANGED settled
  /\ UNCHANGED <<batches, rows, live, built, sweep, staging, edits, cut>>

\* FinishNextRestartBatch, after the release.
PowerFinishes ==
  /\ power.pc = "finish" /\ power' = Resting
  /\ batches' = [b \in BatchIds |->
       IF /\ batches[b].window = "next_restart"
          /\ Waiting("file", b) = {} /\ Waiting("field", b) = {}
       THEN [batches[b] EXCEPT !.open = FALSE] ELSE batches[b]]
  /\ UNCHANGED <<rows, live, built, settled, transition, sweep, staging, edits, failures, cut>>

-----------------------------------------------------------------------------
\* The panel dies: the transition and the requests are gone; rows, files and container stay.
PanelDies ==
  /\ {sweep.pc, power.pc, staging["field"].pc, staging["file"].pc} # {"idle"}
  /\ cut' = cut \union (IF Publishes(sweep) THEN {"sweep"} ELSE {})
                 \union (IF staging["field"].pc = "mode" THEN {"window"} ELSE {})
  /\ transition' = "free" /\ sweep' = Resting /\ power' = Resting
  /\ staging' = [k \in Kinds |-> NotStaging]
  /\ UNCHANGED <<batches, rows, live, built, settled, edits, failures>>

StagedNext ==
  \/ \E w \in Windows : StageField(w)
  \/ StageFile \/ SaveWindow \/ AdoptWindow
  \/ \E k \in Kinds : InsertRow(k) \/ StagingFails(k)
  \/ \E r \in RowIds : DiscardItem(r)
  \/ \E b \in BatchIds : SweepReads(b)
  \/ SweepLists \/ SweepFiles \/ SweepApplies \/ SweepPublishes \/ SweepRecreates
  \/ SweepUndoes \/ SweepMarks \/ SweepCloses
  \/ PowerBegins \/ EditSaves
  \/ PowerLooks \/ PowerFiles \/ PowerMarks \/ PowerApplies \/ PowerDecides \/ PowerRecreates \/ EditRecreates
  \/ PowerUndoes \/ PowerSaves \/ PowerFinishes
  \/ PanelDies

StagedSpec == StagedInit /\ [][StagedNext]_stagedVars

-----------------------------------------------------------------------------
\* Every variable has its type, and at most one batch is open.
StagedTypeOK ==
  /\ batches \in Seq([window : Windows, open : BOOLEAN])
  /\ Cardinality(OpenBatches) <= 1
  /\ rows \in Seq([kind : Kinds, batch : BatchIds, mode : Windows, base : Values, prev : Values,
                   status : {"staged", "applied", "discarded", "rolled_back"}])
  /\ live \in [file : Values, field : Values] /\ built \in Values /\ settled \subseteq RowIds
  /\ transition \in {"free", "staging", "power"}
  /\ edits \in 0..MaxChanges /\ failures \in 0..MaxFailures /\ cut \subseteq {"window", "sweep"}

\* What waits for a time or an idle stretch survives an incidental start or restart
\* (knowledge/invariants/staged-updates.md): such an operation applies a file only of a batch whose
\* window is the next restart, however the window moves meanwhile, and a field too unless the two
\* writes that move the window were cut apart.
WindowHolds ==
  [][PowerMarks \/ PowerApplies =>
       \A r \in RowIds :
         rows[r].status = "staged" /\ rows'[r].status = "applied" /\ (rows[r].kind = "file" \/ "window" \notin cut)
           => batches[rows[r].batch].window = "next_restart"]_stagedVars

\* A field that a restart has applied reaches the container, over any number of crashes: while no
\* call has failed, the container was created from it or the next start still counts it as pending,
\* which is what HasPendingRestartStagedConfigRecreate is for.
RestartOwesTheChange ==
  failures = 0 /\ "sweep" \notin cut =>
    \A r \in RowIds : rows[r].kind = "field" /\ rows[r].mode = "next_restart"
                        /\ rows[r].status = "applied" /\ live.field = r
                      => built = r \/ r \notin settled

\* The undo of a publish that failed, if no part of it fails and nobody else wrote meanwhile, leaves
\* the file and the field as the job found them, and no row of its applied.
FailureRestores ==
  [][\A job \in {sweep, power} :
       /\ job.pc = "undo" /\ job.clean
       /\ IF job = sweep THEN SweepUndoes ELSE PowerUndoes
       /\ failures' = failures
       => /\ live' = job.was
          /\ \A r \in job.content : rows'[r].status # "applied"
          /\ \A r \in Range(job.done) : rows'[r].status = "rolled_back"]_stagedVars
===============================================================================
