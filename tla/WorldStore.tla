----------------------------- MODULE WorldStore -----------------------------
(***************************************************************************)
(* The world data of one server: the journaled swap of internal/worldstore *)
(* and the three jobs that open it, RestoreBackup, the world transfer of   *)
(* MigrateServer and the scheduler's backup task.                          *)
(*                                                                         *)
(* Restores and migrations hold the server's transition, backups hold      *)
(* nothing.  Every open runs Recover on the server's journal directory,    *)
(* which all stores of the server share.  The panel may crash between two  *)
(* file operations, and a file operation may fail.  A journal is named     *)
(* after the job that wrote it.                                            *)
(***************************************************************************)
EXTENDS Naturals, FiniteSets

CONSTANTS
  Restorers,       \* RestoreBackup calls
  Movers,          \* MigrateServer calls, from "home" to "away"
  Backers,         \* runs of the backup task
  BackupsOverlap,  \* whether a schedule lets a backup meet a restore or a migration
  NoOne,
  MaxFaults,       \* bound on failed file operations
  MaxCrashes       \* bound on panel crashes

ASSUME WorldStoreAssumption ==
  /\ Restorers \cap Movers = {} /\ Restorers \cap Backers = {} /\ Movers \cap Backers = {}
  /\ NoOne \notin Restorers \union Movers \union Backers
  /\ BackupsOverlap \in BOOLEAN
  /\ MaxFaults \in Nat /\ MaxCrashes \in Nat

Writers == Restorers \union Movers
Jobs == Writers \union Backers

VARIABLES
  owner,       \* the node of the server row
  world,       \* the data directory on each node
  stage, old,  \* .worldstore-stage-<id> and .worldstore-old-<id> beside it
  entry,       \* the journal file of each writer
  transition,  \* the holder of the server's transition
  job,         \* the program counter and locals of each job
  faults, crashes

worldVars == <<owner, world, stage, old, entry, transition, job, faults, crashes>>

Nodes == {"home", "away"}
Whole == {"original", "archived", "played"}
Trees == Whole \union {"none", "empty", "partial"}

Phases == {"intent", "extracted", "old_moved", "new_moved", "complete"}
Entry == [phase: Phases \union {"none"}, node: Nodes, had_old: BOOLEAN]
NoEntry == [phase |-> "none", node |-> "home", had_old |-> FALSE]

SwapSteps == {"stage", "extract", "extract_rest", "save_extracted", "move_old", "save_old_moved",
              "move_new", "save_new_moved", "drop_old", "finish"}
Pcs == SwapSteps \union {"idle", "acquire", "open", "recover", "decide", "put_back", "sweep",
                         "copy", "verify", "answered", "dead"}
\* found is the journal a recovery works on, before the world as the swap found it.
Job == [pc: Pcs, node: Nodes, found: Jobs \union {NoOne}, phase: Phases \union {"none"},
        had_old: BOOLEAN, archive: Trees, before: Trees, rolling: BOOLEAN,
        answer: {"none", "ok", "error"}]
Unstarted(j) == [pc |-> "idle", node |-> "home", found |-> NoOne, phase |-> "none", had_old |-> FALSE,
                 archive |-> IF j \in Restorers THEN "archived" ELSE "none",
                 before |-> "none", rolling |-> FALSE, answer |-> "none"]

WorldInit ==
  /\ owner = "home"
  /\ world = [n \in Nodes |-> IF n = "home" THEN "original" ELSE "none"]
  /\ stage = [j \in Writers |-> "none"] /\ old = [j \in Writers |-> "none"]
  /\ entry = [j \in Writers |-> NoEntry]
  /\ transition = NoOne
  /\ job = [j \in Jobs |-> Unstarted(j)]
  /\ faults = 0 /\ crashes = 0

-----------------------------------------------------------------------------
At(j, pc) == job[j].pc = pc
Become(j, r) == job' = [job EXCEPT ![j] = r]
Goto(j, pc) == Become(j, [job[j] EXCEPT !.pc = pc])
Fault == faults < MaxFaults /\ faults' = faults + 1

\* The handler returns and its transition is released.
Answer(j, a) ==
  /\ Become(j, [job[j] EXCEPT !.pc = "answered", !.answer = a])
  /\ transition' = IF transition = j THEN NoOne ELSE transition
Fails(j) == Answer(j, "error")
Holds == UNCHANGED transition
Files == <<world, stage, old, entry>>
Rest == UNCHANGED <<owner, crashes>>

Exists(tree) == tree # "none"
Made(tree) == IF Exists(tree) THEN tree ELSE "empty"
Clear(trees, j) == trees' = [trees EXCEPT ![j] = "none"]
SavePhase(j, phase) == entry' = [entry EXCEPT ![j] = [phase |-> phase, node |-> job[j].node,
                                                      had_old |-> job[j].had_old]]
RemoveEntry(j) == entry' = [entry EXCEPT ![j] = NoEntry]

Running(j) == job[j].pc \notin {"idle", "answered", "dead"}

-----------------------------------------------------------------------------
(* Starting: EnsureDataRoot, the transition, OpenServerWorlds *)

\* RestoreBackup makes the data directory before it asks for the transition.
Begin(j) ==
  /\ At(j, "idle")
  /\ IF j \in Backers
     THEN /\ BackupsOverlap \/ \A w \in Writers : ~Running(w)
          /\ Become(j, [job[j] EXCEPT !.pc = "open", !.node = owner]) /\ UNCHANGED world
     ELSE /\ BackupsOverlap \/ \A b \in Backers : ~Running(b)
          /\ Goto(j, "acquire")
          /\ world' = IF j \in Restorers THEN [world EXCEPT ![owner] = Made(@)] ELSE world
  /\ Holds /\ Rest /\ UNCHANGED <<stage, old, entry, faults>>

\* MigrateServer refuses a source that is not there, or is the target, and makes
\* the target's directory under the transition.
Acquire(j) ==
  /\ At(j, "acquire")
  /\ \/ transition # NoOne /\ Fails(j) /\ UNCHANGED world
     \/ /\ transition = NoOne /\ j \in Movers /\ (owner = "away" \/ ~Exists(world[owner]))
        /\ Fails(j) /\ UNCHANGED world
     \/ /\ transition = NoOne /\ (j \in Movers => owner = "home" /\ Exists(world[owner]))
        /\ transition' = j
        /\ Become(j, [job[j] EXCEPT !.pc = "open", !.node = owner])
        /\ world' = IF j \in Movers THEN [world EXCEPT !["away"] = Made(@)] ELSE world
  /\ Rest /\ UNCHANGED <<stage, old, entry, faults>>

\* NewLocal resolves the data directory before it recovers.
Open(j) ==
  /\ At(j, "open")
  /\ \/ Exists(world[job[j].node]) /\ Goto(j, "recover") /\ Holds /\ UNCHANGED faults
     \/ ~Exists(world[job[j].node]) /\ Fails(j) /\ UNCHANGED faults
     \/ Fault /\ Fails(j)
  /\ Rest /\ UNCHANGED Files

-----------------------------------------------------------------------------
(* Recover, recoverOne and rollback *)

Opened(j) ==
  IF j \in Movers /\ job[j].node = owner THEN [job[j] EXCEPT !.pc = "open", !.node = "away"]
  ELSE [job[j] EXCEPT !.pc = IF j \in Restorers THEN "stage" ELSE "copy"]

\* The next journal is read; one of another node's store fails closed.
Recover(j) ==
  /\ At(j, "recover")
  /\ \/ /\ \A w \in Writers : entry[w] = NoEntry
        /\ Become(j, Opened(j)) /\ Holds
     \/ \E w \in Writers :
          /\ entry[w] # NoEntry
          /\ IF entry[w].node # job[j].node THEN Fails(j)
             ELSE /\ Become(j, [job[j] EXCEPT !.pc = "decide", !.found = w, !.rolling = FALSE,
                                              !.phase = entry[w].phase, !.had_old = entry[w].had_old])
                  /\ Holds
  /\ Rest /\ UNCHANGED Files /\ UNCHANGED faults

\* Mutant: what new_moved committed is rolled back as well.
Decide_RollsBackAll(j) ==
  LET w == job[j].found  n == job[j].node IN
  /\ At(j, "decide")
  /\ IF Exists(old[w]) THEN world' = [world EXCEPT ![n] = "none"] /\ Goto(j, "put_back")
     ELSE Goto(j, "sweep") /\ UNCHANGED world
  /\ Holds /\ Rest /\ UNCHANGED <<stage, old, entry, faults>>

\* A committed swap goes forward.  Otherwise the old tree replaces whatever is in
\* its place; without an old tree, a world whose stage is gone was swapped in.
Decide(j) ==
  LET w == job[j].found  n == job[j].node
      committed == job[j].phase \in {"new_moved", "complete"}
      back == ~committed /\ job[j].had_old /\ Exists(old[w])
      swapped == ~committed /\ ~job[j].had_old /\ ~Exists(stage[w]) IN
  /\ At(j, "decide")
  /\ \/ /\ ~back /\ ~swapped /\ Goto(j, "sweep") /\ Holds
        /\ UNCHANGED <<world, faults>>
     \/ /\ back \/ swapped
        /\ Goto(j, IF back THEN "put_back" ELSE "sweep") /\ Holds
        /\ world' = [world EXCEPT ![n] = "none"] /\ UNCHANGED faults
     \/ /\ back \/ swapped
        /\ Fault /\ Exists(world[n]) /\ Fails(j)
        /\ world' = [world EXCEPT ![n] = "partial"]
  /\ Rest /\ UNCHANGED <<stage, old, entry>>

\* A rename does not replace a directory with something in it.
PutBack(j) ==
  LET w == job[j].found  n == job[j].node
      possible == Exists(old[w]) /\ world[n] \in {"none", "empty"} IN
  /\ At(j, "put_back")
  /\ \/ /\ possible /\ Goto(j, "sweep") /\ Holds /\ UNCHANGED faults
        /\ world' = [world EXCEPT ![n] = old[w]] /\ Clear(old, w)
     \/ ~possible /\ Fails(j) /\ UNCHANGED <<world, old, faults>>
     \/ Fault /\ Fails(j) /\ UNCHANGED <<world, old>>
  /\ Rest /\ UNCHANGED <<stage, entry>>

\* Mutant: a swap that was rolled back answers success.
Sweep_Succeeds(j) ==
  LET w == job[j].found IN
  /\ At(j, "sweep")
  /\ Clear(stage, w) /\ Clear(old, w) /\ RemoveEntry(w)
  /\ IF job[j].rolling THEN Answer(j, "ok") ELSE Goto(j, "recover") /\ Holds
  /\ Rest /\ UNCHANGED <<world, faults>>

\* The stage and the old tree go, then the journal.  A swap that called rollback
\* answers its own error.
Sweep(j) ==
  LET w == job[j].found IN
  /\ At(j, "sweep")
  /\ \/ /\ Clear(stage, w) /\ Clear(old, w) /\ RemoveEntry(w) /\ UNCHANGED faults
        /\ IF job[j].rolling THEN Fails(j) ELSE Goto(j, "recover") /\ Holds
     \/ /\ Fault /\ Fails(j) /\ UNCHANGED entry
        /\ Clear(stage, w)
        /\ old' = IF Exists(old[w]) THEN [old EXCEPT ![w] = "partial"] ELSE old
  /\ Rest /\ UNCHANGED world

-----------------------------------------------------------------------------
(* stageAndSwap *)

\* The intent, then the stage directory.
Stage(j) ==
  LET had == Exists(world[job[j].node])
      e == [phase |-> "intent", node |-> job[j].node, had_old |-> had] IN
  /\ At(j, "stage")
  /\ \/ /\ entry' = [entry EXCEPT ![j] = e] /\ stage' = [stage EXCEPT ![j] = "empty"]
        /\ Become(j, [job[j] EXCEPT !.pc = "extract", !.had_old = had, !.before = world[job[j].node]])
        /\ Holds /\ UNCHANGED faults
     \/ Fault /\ Fails(j) /\ UNCHANGED <<entry, stage>>
     \/ Fault /\ Fails(j) /\ entry' = [entry EXCEPT ![j] = e] /\ UNCHANGED stage
  /\ Rest /\ UNCHANGED <<world, old>>

\* Extraction makes the directories it needs again; files it wrote before do not
\* come back with them.
Extract(j) ==
  /\ \/ /\ At(j, "extract") /\ Goto(j, "extract_rest")
        /\ stage' = [stage EXCEPT ![j] = "partial"] /\ Holds /\ UNCHANGED <<entry, faults>>
     \/ /\ At(j, "extract_rest") /\ Goto(j, "save_extracted")
        /\ stage' = [stage EXCEPT ![j] = IF Exists(@) THEN job[j].archive ELSE "partial"]
        /\ Holds /\ UNCHANGED <<entry, faults>>
     \/ /\ At(j, "extract_rest") /\ Fault /\ Fails(j)
        /\ Clear(stage, j) /\ RemoveEntry(j)
  /\ Rest /\ UNCHANGED <<world, old>>

SaveExtracted(j) ==
  /\ At(j, "save_extracted")
  /\ \/ SavePhase(j, "extracted") /\ Goto(j, "move_old") /\ Holds /\ UNCHANGED <<stage, faults>>
     \/ Fault /\ Fails(j) /\ Clear(stage, j) /\ UNCHANGED entry
  /\ Rest /\ UNCHANGED <<world, old>>

MoveOld(j) ==
  LET n == job[j].node IN
  /\ At(j, "move_old")
  /\ \/ /\ ~job[j].had_old /\ Goto(j, "save_old_moved") /\ Holds
        /\ UNCHANGED Files /\ UNCHANGED faults
     \/ /\ job[j].had_old /\ Exists(world[n]) /\ Goto(j, "save_old_moved") /\ Holds
        /\ old' = [old EXCEPT ![j] = world[n]] /\ world' = [world EXCEPT ![n] = "none"]
        /\ UNCHANGED <<stage, entry, faults>>
     \/ /\ job[j].had_old
        /\ (~Exists(world[n]) /\ UNCHANGED faults) \/ Fault
        /\ Fails(j) /\ Clear(stage, j) /\ RemoveEntry(j) /\ UNCHANGED <<world, old>>
  /\ Rest

\* Mutant: the commit is written before the new tree is in place.
SaveMoved_CommitsEarly(j) ==
  /\ At(j, "save_old_moved") \/ At(j, "save_new_moved")
  /\ \/ /\ SavePhase(j, "new_moved") /\ Holds /\ UNCHANGED faults
        /\ Goto(j, IF At(j, "save_old_moved") THEN "move_new" ELSE "drop_old")
     \/ Fault /\ Fails(j) /\ UNCHANGED entry
  /\ Rest /\ UNCHANGED <<world, stage, old>>

\* A phase that cannot be written leaves everything to the next recovery.
SaveMoved(j) ==
  LET phase == IF At(j, "save_old_moved") THEN "old_moved" ELSE "new_moved" IN
  /\ At(j, "save_old_moved") \/ At(j, "save_new_moved")
  /\ \/ /\ SavePhase(j, phase) /\ Holds /\ UNCHANGED faults
        /\ Goto(j, IF phase = "old_moved" THEN "move_new" ELSE "drop_old")
     \/ Fault /\ Fails(j) /\ UNCHANGED entry
  /\ Rest /\ UNCHANGED <<world, stage, old>>

\* Mutant: a swap that cannot put the stage in place forgets its journal.
MoveNew_LeavesIt(j) ==
  LET n == job[j].node IN
  /\ At(j, "move_new")
  /\ \/ /\ Exists(stage[j]) /\ world[n] \in {"none", "empty"}
        /\ world' = [world EXCEPT ![n] = stage[j]] /\ Clear(stage, j)
        /\ Goto(j, "save_new_moved") /\ Holds /\ UNCHANGED <<faults, entry>>
     \/ Fault /\ Fails(j) /\ RemoveEntry(j) /\ UNCHANGED <<world, stage>>
  /\ Rest /\ UNCHANGED old

MoveNew(j) ==
  LET n == job[j].node
      possible == Exists(stage[j]) /\ world[n] \in {"none", "empty"} IN
  /\ At(j, "move_new")
  /\ \/ /\ possible /\ Goto(j, "save_new_moved") /\ UNCHANGED faults
        /\ world' = [world EXCEPT ![n] = stage[j]] /\ Clear(stage, j)
     \/ /\ (~possible /\ UNCHANGED faults) \/ Fault
        /\ Become(j, [job[j] EXCEPT !.pc = "decide", !.found = j, !.rolling = TRUE, !.phase = "old_moved"])
        /\ UNCHANGED <<world, stage>>
  /\ Holds /\ Rest /\ UNCHANGED <<old, entry>>

DropOld(j) ==
  /\ At(j, "drop_old")
  /\ \/ Clear(old, j) /\ Goto(j, "finish") /\ Holds /\ UNCHANGED faults
     \/ Fault /\ Fails(j) /\ old' = [old EXCEPT ![j] = IF Exists(@) THEN "partial" ELSE @]
  /\ Rest /\ UNCHANGED <<world, stage, entry>>

\* Mutant: a restore whose journal is gone can still answer an error.
Finish_ReportsLate(j) ==
  /\ At(j, "finish")
  /\ RemoveEntry(j)
  /\ \/ UNCHANGED faults /\ IF j \in Restorers THEN Answer(j, "ok") ELSE Goto(j, "verify") /\ Holds
     \/ Fault /\ Fails(j)
  /\ Rest /\ UNCHANGED <<world, stage, old>>

\* The phase complete and the removal of the journal.
Finish(j) ==
  /\ At(j, "finish")
  /\ \/ /\ RemoveEntry(j) /\ UNCHANGED faults
        /\ IF j \in Restorers THEN Answer(j, "ok") ELSE Goto(j, "verify") /\ Holds
     \/ Fault /\ Fails(j) /\ SavePhase(j, "complete")
  /\ Rest /\ UNCHANGED <<world, stage, old>>

-----------------------------------------------------------------------------
(* What migrations and backups do besides *)

\* BackupTo: the archive of the server's world, as the manifest will describe it.
Copy(j) ==
  /\ At(j, "copy")
  /\ \/ /\ Exists(world[owner]) /\ UNCHANGED faults
        /\ IF j \in Backers THEN Answer(j, "ok")
           ELSE Become(j, [job[j] EXCEPT !.pc = "stage", !.archive = world[owner]]) /\ Holds
     \/ ((~Exists(world[owner]) /\ UNCHANGED faults) \/ Fault) /\ Fails(j)
  /\ Rest /\ UNCHANGED Files

\* The target is archived again and compared, then the server row moves.
Verify(j) ==
  /\ At(j, "verify")
  /\ \/ world["away"] = job[j].archive /\ owner' = "away" /\ Answer(j, "ok") /\ UNCHANGED faults
     \/ /\ (world["away"] # job[j].archive /\ UNCHANGED faults) \/ Fault
        /\ Fails(j) /\ UNCHANGED owner
  /\ UNCHANGED crashes /\ UNCHANGED Files

-----------------------------------------------------------------------------
(* The game, and crashes *)

\* CreateContainer makes the data directory; the game plays on what it finds.
Play ==
  /\ transition = NoOne
  /\ \/ ~Exists(world[owner]) /\ world' = [world EXCEPT ![owner] = "empty"]
     \/ world[owner] \in Whole \union {"empty"} /\ world' = [world EXCEPT ![owner] = "played"]
  /\ Holds /\ Rest /\ UNCHANGED <<stage, old, entry, job, faults>>

Crash ==
  /\ crashes < MaxCrashes /\ crashes' = crashes + 1
  /\ job' = [j \in Jobs |-> IF Running(j) THEN [job[j] EXCEPT !.pc = "dead"] ELSE job[j]]
  /\ transition' = NoOne
  /\ UNCHANGED <<owner, faults>> /\ UNCHANGED Files

Step(j) ==
  \/ Begin(j) \/ Open(j) \/ Recover(j) \/ Decide(j) \/ PutBack(j) \/ Sweep(j) \/ Copy(j)
  \/ j \in Writers /\ (\/ Acquire(j) \/ Stage(j) \/ Extract(j) \/ SaveExtracted(j) \/ MoveOld(j)
                       \/ SaveMoved(j) \/ MoveNew(j) \/ DropOld(j) \/ Finish(j) \/ Verify(j))

WorldNext == (\E j \in Jobs : Step(j)) \/ Play \/ Crash

WorldSpec == WorldInit /\ [][WorldNext]_worldVars

-----------------------------------------------------------------------------
WorldStoreTypeOK ==
  /\ owner \in Nodes
  /\ world \in [Nodes -> Trees]
  /\ stage \in [Writers -> Trees] /\ old \in [Writers -> Trees]
  /\ entry \in [Writers -> Entry]
  /\ transition \in Writers \union {NoOne}
  /\ job \in [Jobs -> Job]
  /\ faults \in 0..MaxFaults /\ crashes \in 0..MaxCrashes

NoJournals == \A w \in Writers : entry[w] = NoEntry

\* Whenever no journal is left, the server's world is a whole one: the swap that
\* removed the last journal, on success, on failure or in a recovery, left no half.
\* (store.go: "Restore replaces the complete data root".)
SettledWorldIsWhole == NoJournals => world[owner] \in Whole

\* data-safety.md:29: "losing a world is not recoverable": at every step, with
\* every crash, the server still has a whole world, in place or set aside.
AWorldSurvives ==
  \/ world[owner] \in Whole
  \/ \E w \in Writers : old[w] \in Whole

\* A restore answers success only with the archive's world in place, and a
\* migration only with the world it archived at the node it made the owner.
SuccessIsTheArchive ==
  [][\A j \in Writers :
       (job[j].answer = "none" /\ job'[j].answer = "ok") => world'[owner'] = job[j].archive]_worldVars

\* A failed swap that leaves no journal leaves the world that it found.
FailureKeepsTheWorld ==
  [][\A j \in Writers :
       (/\ job[j].answer = "none" /\ job'[j].answer = "error"
        /\ job[j].pc \in SwapSteps \ {"stage"} \/ job[j].rolling
        /\ entry'[j] = NoEntry)
       => world'[job[j].node] = job[j].before]_worldVars

\* What the caller is told is what happened to the tree: with success the new world is in place,
\* and with a failure the one that was there before.
AnswersAreTrue == SuccessIsTheArchive /\ FailureKeepsTheWorld

\* The tree that a journal of the owner's node still promises to put back.
Uncommitted == {"intent", "extracted", "old_moved"}
Promises(w) == entry[w].phase \in Uncommitted /\ entry[w].node = owner /\ old[w] \in Whole

\* The swap is "the journaled, atomic replacement of the authorized data root" (store.go:369): the
\* world changes in one step, the save of the phase new_moved.  Until then the server's world is the
\* tree set aside, from then on the one in place, whatever crashes, failures and recoveries follow.
Kept == IF \E w \in Writers : Promises(w) THEN old[CHOOSE w \in Writers : Promises(w)]
        ELSE world[owner]
Call == [j \in Jobs |-> CASE job[j].pc = "answered" -> job[j].answer
                          [] job[j].pc = "dead"     -> "dead"
                          [] j \in Restorers /\ job[j].pc \in {"drop_old", "finish"} -> "replaced"
                          [] OTHER                  -> "open"]
Atomic == INSTANCE AtomicWorld WITH kept <- Kept, call <- Call
AtomicSpec == Atomic!Spec
=============================================================================
