-------------------------- MODULE WorldStoreProofs --------------------------
(***************************************************************************)
(* The world of a server survives every restore, migration and backup of   *)
(* internal/worldstore, while no backup meets a restore or a migration.    *)
(*                                                                         *)
(* The invariant relates the files (trees and journals), the transition    *)
(* and what each job knows: Safe says where a whole world is, Journals     *)
(* what a journal on disk promises, Swapping what a swap has done so far,  *)
(* Recovering what a recovery may still do with the journal it has read.   *)
(***************************************************************************)
EXTENDS WorldStore, TLAPS
-----------------------------------------------------------------------------
(* The invariant *)

Committed == {"new_moved", "complete"}
Recoveries == {"decide", "put_back", "sweep"}
Active(j) == job[j].pc \notin {"idle", "acquire", "answered", "dead"}

\* The transition is held by the one writer that is past asking for it.
Holding == \A j \in Writers : transition = j <=> Active(j)

\* Backups and writers keep apart.
Apart == (\A b \in Backers : ~Running(b)) \/ (\A w \in Writers : ~Running(w))

\* There is one journal at most, no tree is set aside without one, and a journal of the owner's
\* node that commits nothing has a whole tree set aside, or none yet.
Journals ==
  /\ \A w \in Writers : entry[w].phase = "none" => entry[w] = NoEntry /\ old[w] = "none"
  /\ \A v, w \in Writers : entry[v].phase # "none" /\ entry[w].phase # "none" => v = w
  /\ \A w \in Writers : entry[w].phase \in Uncommitted /\ entry[w].node = owner
                          => entry[w].had_old /\ old[w] \in Whole \union {"none"}
  /\ \A w \in Writers : entry[w].phase \in Uncommitted /\ ~entry[w].had_old => old[w] = "none"

\* The server's world is whole in its place, or set aside where a recovery puts it back.
Safe ==
  \/ world[owner] \in Whole
  \/ \E w \in Writers : entry[w].phase \in Uncommitted /\ entry[w].node = owner /\ old[w] \in Whole

\* A recovery works on the journal as it is, unless another backup's recovery has done with it.
Recovering(j) ==
  LET w == job[j].found IN
  job[j].pc \in Recoveries =>
    /\ w \in Writers /\ job[j].phase \in Uncommitted \union Committed
    /\ entry[w].phase # "none" => entry[w] = [phase |-> job[j].phase, node |-> job[j].node, had_old |-> job[j].had_old]
    /\ job[j].phase \in Uncommitted /\ job[j].node = owner => job[j].had_old
    /\ job[j].pc = "put_back" => job[j].phase \in Uncommitted
    /\ job[j].pc = "sweep" => job[j].phase \in Committed \/ old[w] = "none"
    /\ job[j].rolling => j \in Writers /\ w = j

\* The journal of a running swap is in one of these phases.
Wrote(j, phases) ==
  /\ entry[j].phase \in phases
  /\ entry[j].node = job[j].node /\ entry[j].had_old = job[j].had_old

\* Where the trees of a running swap are: the one it found, and the archive's.  A restore that only
\* begins makes the missing directory of the server again.
InPlace(j) == world[job[j].node] = job[j].before /\ old[j] = "none"
SetAside(j) ==
  /\ old[j] = job[j].before
  /\ world[job[j].node] = "none" \/ (world[job[j].node] = "empty" /\ job[j].node = owner)
Replaced(j) == world[job[j].node] = job[j].archive

Swapping(j) ==
  LET pc == job[j].pc IN
  /\ j \in Restorers => job[j].archive = "archived"
  /\ j \in Restorers /\ Active(j) => job[j].node = owner
  /\ pc = "copy" => j \notin Restorers
  /\ pc \in {"stage", "copy", "verify"} => \A w \in Writers : entry[w].phase = "none"
  /\ pc \in SwapSteps \union {"verify"} => job[j].archive \in Whole
  /\ pc \in {"extract", "extract_rest", "save_extracted"} => Wrote(j, {"intent"}) /\ InPlace(j)
  /\ pc = "move_old" => Wrote(j, {"extracted"}) /\ InPlace(j)
  /\ pc = "save_old_moved" => Wrote(j, {"extracted"}) /\ SetAside(j)
  /\ pc = "move_new" => Wrote(j, {"old_moved"}) /\ SetAside(j)
  /\ pc = "save_new_moved" => Wrote(j, {"old_moved"}) /\ Replaced(j)
  /\ pc \in {"drop_old", "finish"} => Wrote(j, {"new_moved"}) /\ Replaced(j)
  /\ pc = "finish" => old[j] = "none"
  /\ pc = "extract_rest" => stage[j] = "partial"
  /\ pc \in {"save_extracted", "move_old", "save_old_moved", "move_new"} => stage[j] = job[j].archive
  /\ pc \in {"extract", "extract_rest", "save_extracted", "move_old", "save_old_moved", "move_new"} =>
       job[j].had_old <=> job[j].before # "none"
  /\ job[j].rolling /\ pc \in Recoveries =>
       job[j].phase = "old_moved" /\ (job[j].had_old <=> job[j].before # "none")
  /\ job[j].rolling /\ pc \in {"decide", "put_back"} => SetAside(j) /\ Exists(stage[j])
  /\ job[j].rolling /\ pc = "sweep" => world[job[j].node] = job[j].before

WorldInv ==
  /\ WorldStoreTypeOK /\ Holding /\ Apart /\ Journals /\ Safe
  /\ (\A j \in Jobs : Recovering(j)) /\ (\A j \in Writers : Swapping(j))

-----------------------------------------------------------------------------
(* Jobs *)

\* Only job j moves, to pc; what else it knows stays.
Moves(j, pc) ==
  /\ job' \in [Jobs -> Job] /\ \A i \in Jobs : i # j => job'[i] = job[i]
  /\ job'[j].pc = pc
Knows(j) ==
  /\ job'[j].node = job[j].node /\ job'[j].found = job[j].found /\ job'[j].phase = job[j].phase
  /\ job'[j].had_old = job[j].had_old /\ job'[j].archive = job[j].archive
  /\ job'[j].before = job[j].before /\ job'[j].rolling = job[j].rolling

\* Goto moves the program counter and nothing else.
LEMMA GotoMoves ==
  ASSUME WorldStoreTypeOK, NEW j \in Jobs, NEW pc \in Pcs, Goto(j, pc)
  PROVE  Moves(j, pc) /\ Knows(j) /\ job'[j].answer = job[j].answer
  BY DEF WorldStoreTypeOK, Goto, Become, Moves, Knows, Job

\* An answer ends the job and releases its transition.
LEMMA AnswerMoves ==
  ASSUME WorldStoreTypeOK, NEW j \in Jobs, NEW a \in {"ok", "error"}, Answer(j, a)
  PROVE  /\ Moves(j, "answered") /\ Knows(j) /\ job'[j].answer = a
         /\ transition' = IF transition = j THEN NoOne ELSE transition
  BY DEF WorldStoreTypeOK, Answer, Become, Moves, Knows, Job, Pcs

\* Writers and backups are different jobs, and NoOne is none.
LEMMA JobsAre ==
  /\ Writers \subseteq Jobs /\ Backers \subseteq Jobs /\ Writers \cap Backers = {} /\ NoOne \notin Jobs
  /\ Jobs = Writers \union Backers
  BY WorldStoreAssumption DEF Writers, Jobs

\* A writer that is past asking for the transition is alone; a backup runs beside backups only.
LEMMA Alone ==
  ASSUME WorldInv, NEW j \in Jobs, Active(j)
  PROVE  /\ j \in Writers => transition = j /\ transition # NoOne /\ \A i \in Jobs : i # j => ~Active(i)
         /\ j \notin Writers => transition = NoOne /\ \A w \in Writers : ~Active(w) /\ ~Running(w)
  BY JobsAre DEF WorldInv, WorldStoreTypeOK, Holding, Apart, Active, Running

-----------------------------------------------------------------------------
(* What a step leaves of the invariant whatever else it does *)

\* Nothing is set aside, and no journal is written anew.
Shrinks ==
  \A w \in Writers : entry'[w] \in {entry[w], NoEntry} /\ (old[w] = "none" => old'[w] = "none")

\* The other jobs, when job j goes on or ends.
LEMMA Frame ==
  ASSUME WorldInv, NEW j \in Jobs, Active(j), NEW pc \in Pcs \ {"idle", "acquire"}, Moves(j, pc), UNCHANGED owner,
         transition' = IF pc \in {"answered", "dead"} /\ transition = j THEN NoOne ELSE transition,
         j \in Writers \/ Shrinks
  PROVE  /\ Holding' /\ Apart'
         /\ \A i \in Jobs : i # j => Recovering(i)'
         /\ \A i \in Writers : i # j => Swapping(i)'
  <1> USE JobsAre
  <1>1. /\ \A i \in Jobs : i # j => job'[i] = job[i] /\ Recovering(i)
        /\ \A i \in Writers : Swapping(i)
        /\ job'[j].pc = pc /\ Holding /\ Apart
    BY DEF Moves, WorldInv
  <1>2. ASSUME j \in Writers PROVE Holding' /\ Apart' /\ \A i \in Jobs : i # j => Recovering(i)'
    <2>1. transition = j /\ \A i \in Jobs : i # j => ~Active(i)
      BY <1>2, Alone
    <2>2. Holding'
      BY <1>1, <1>2, <2>1 DEF Holding, Active
    <2>3. Apart'
      BY <1>1, <1>2, <2>1 DEF Apart, Active, Running
    <2>4. \A i \in Jobs : i # j => Recovering(i)'
      BY <1>1, <2>1 DEF Recovering, Recoveries, Active
    <2> QED
      BY <2>2, <2>3, <2>4
  <1>3. ASSUME j \notin Writers PROVE Holding' /\ Apart' /\ \A i \in Jobs : i # j => Recovering(i)'
    <2>1. transition = NoOne /\ Shrinks /\ \A w \in Writers : ~Active(w) /\ ~Running(w)
      BY <1>3, Alone
    <2>2. Holding'
      BY <1>1, <1>3, <2>1 DEF Holding, Active
    <2>3. Apart'
      BY <1>1, <1>3, <2>1 DEF Apart, Active, Running
    <2>4. ASSUME NEW i \in Jobs, i # j PROVE Recovering(i)'
      <3>1. job'[i] = job[i] /\ Recovering(i)
        BY <1>1, <2>4
      <3> QED
        BY <2>1, <3>1 DEF Recovering, Recoveries, Shrinks, NoEntry
    <2> QED
      BY <2>2, <2>3, <2>4
  <1>4. ASSUME NEW i \in Writers, i # j PROVE Swapping(i)'
    <2>1. ~Active(i)
      BY <1>4, Alone
    <2>2. job'[i] = job[i] /\ Swapping(i)
      BY <1>1, <1>4
    <2> QED
      BY <2>1, <2>2 DEF Swapping, SwapSteps, Active, Recoveries
  <1> QED
    BY <1>2, <1>3, <1>4

\* A job that has ended has nothing to keep.
LEMMA Ended ==
  ASSUME WorldInv, NEW j \in Jobs, Moves(j, "answered"), Knows(j)
  PROVE  Recovering(j)' /\ (j \in Writers => Swapping(j)')
  <1>1. job'[j].archive = job[j].archive /\ job'[j].pc = "answered"
    BY DEF Moves, Knows
  <1>2. j \in Writers => Swapping(j)
    BY DEF WorldInv
  <1> QED
    BY <1>1, <1>2 DEF Swapping, SwapSteps, Active, Recovering, Recoveries

\* What is left to show of a step of an active job.
LEMMA Keeps ==
  ASSUME WorldInv, NEW j \in Jobs, Active(j), NEW pc \in Pcs \ {"idle", "acquire"}, Moves(j, pc), UNCHANGED owner,
         transition' = IF pc \in {"answered", "dead"} /\ transition = j THEN NoOne ELSE transition,
         j \in Writers \/ Shrinks,
         WorldStoreTypeOK', Journals', Safe', pc = "answered" => Knows(j),
         pc # "answered" => Recovering(j)' /\ (j \in Writers => Swapping(j)')
  PROVE  WorldInv'
  <1>1. Recovering(j)' /\ (j \in Writers => Swapping(j)')
    BY Ended
  <1> QED
    BY <1>1, Frame DEF WorldInv

-----------------------------------------------------------------------------
(* The swap *)

\* The world that was there is set aside.
LEMMA MoveOldKeeps ==
  ASSUME WorldInv, NEW j \in Writers, MoveOld(j)
  PROVE  WorldInv'
  <1> USE JobsAre DEF At, Holds, Rest, Fault
  <1> DEFINE n == job[j].node
  <1>1. /\ j \in Jobs /\ Active(j) /\ Swapping(j) /\ job[j].pc = "move_old" /\ WorldStoreTypeOK
        /\ transition = j /\ Journals /\ Safe /\ n \in Nodes
    BY Alone DEF MoveOld, Active, WorldInv, WorldStoreTypeOK, Job
  <1>2. Wrote(j, {"extracted"}) /\ InPlace(j) /\ stage[j] = job[j].archive /\ job[j].archive \in Whole
        /\ (job[j].had_old <=> job[j].before # "none")
    BY <1>1 DEF Swapping, SwapSteps
  <1>3. CASE /\ Goto(j, "save_old_moved") /\ UNCHANGED <<owner, crashes, transition, entry, stage, faults>>
             /\ old' = [old EXCEPT ![j] = world[n]] /\ world' = [world EXCEPT ![n] = "none"]
    <2>1. Moves(j, "save_old_moved") /\ Knows(j)
      BY <1>1, <1>3, GotoMoves DEF Pcs, SwapSteps
    <2>2. WorldStoreTypeOK'
      BY <1>1, <1>3, <2>1 DEF WorldStoreTypeOK, Moves, Trees
    <2>3. world'[job[j].node] = "none" /\ old'[j] = job[j].before /\ (\A w \in Writers : w # j => old'[w] = old[w])
          /\ \A m \in Nodes : m # job[j].node => world'[m] = world[m]
      BY <1>1, <1>2, <1>3 DEF WorldStoreTypeOK, InPlace
    <2>4. Journals'
      BY <1>1, <1>2, <1>3, <2>3 DEF Journals, Safe, Wrote, InPlace, Uncommitted, Whole
    <2>5. Safe'
      BY <1>1, <1>2, <1>3, <2>3 DEF Journals, Safe, Wrote, InPlace, Uncommitted, WorldStoreTypeOK
    <2>6. Recovering(j)'
      BY <2>1 DEF Moves, Recovering, Recoveries
    <2>7. Swapping(j)'
      <3>1. Wrote(j, {"extracted"})'
        BY <1>1, <1>2, <1>3, <2>1 DEF Wrote, Knows
      <3> QED
      BY <3>1, <1>1, <1>2, <1>3, <2>1, <2>3 DEF Moves, Knows, Swapping, SwapSteps, SetAside, Active, Recoveries
    <2> QED
      BY <1>1, <1>3, <2>1, <2>2, <2>4, <2>5, <2>6, <2>7, Keeps DEF Pcs, SwapSteps
  <1>4. CASE Fails(j) /\ Clear(stage, j) /\ RemoveEntry(j) /\ UNCHANGED <<owner, crashes, world, old>> /\ faults' \in 0..MaxFaults
    <2>1. Moves(j, "answered") /\ Knows(j) /\ transition' = NoOne
      BY <1>1, <1>4, AnswerMoves DEF Fails
    <2>2. WorldStoreTypeOK'
      BY <1>1, <1>4, <2>1 DEF WorldStoreTypeOK, Moves, Trees, Clear, RemoveEntry, NoEntry, Entry, Nodes
    <2>4. Journals'
      BY <1>1, <1>2, <1>4 DEF Journals, InPlace, RemoveEntry, NoEntry, Uncommitted, WorldStoreTypeOK
    <2>5. Safe'
      BY <1>1, <1>2, <1>4 DEF Safe, InPlace, RemoveEntry, NoEntry, Uncommitted, Whole, WorldStoreTypeOK
    <2> QED
      BY <1>1, <1>4, <2>1, <2>2, <2>4, <2>5, Keeps DEF Pcs
  <1>5. CASE ~job[j].had_old
    BY <1>1, <1>2, <1>3, <1>5 DEF MoveOld, Files, WorldStoreTypeOK, InPlace
  <1>6. CASE job[j].had_old
    BY <1>1, <1>3, <1>4, <1>6, WorldStoreAssumption DEF MoveOld, WorldStoreTypeOK
  <1> QED
    BY <1>5, <1>6

\* The intent and the stage directory.
LEMMA StageKeeps ==
  ASSUME WorldInv, NEW j \in Writers, Stage(j)
  PROVE  WorldInv'
  <1> USE JobsAre DEF At, Holds, Rest, Fault
  <1> DEFINE n == job[j].node
             had == Exists(world[n])
             e == [phase |-> "intent", node |-> n, had_old |-> had]
  <1>1. /\ j \in Jobs /\ Active(j) /\ Swapping(j) /\ job[j].pc = "stage" /\ WorldStoreTypeOK
        /\ transition = j /\ Journals /\ Safe /\ n \in Nodes /\ UNCHANGED <<owner, crashes, world, old>>
    BY Alone DEF Stage, Active, WorldInv, WorldStoreTypeOK, Job
  <1>2. job[j].archive \in Whole /\ (\A w \in Writers : entry[w].phase = "none") /\ world[owner] \in Whole
    BY <1>1 DEF Swapping, SwapSteps, Safe, Uncommitted
  <1>3. ASSUME entry' = [entry EXCEPT ![j] = e] PROVE Journals' /\ entry' \in [Writers -> Entry] /\ entry'[j] = e
    <2>1. entry'[j] = e /\ (\A w \in Writers : w # j => entry'[w] = entry[w]) /\ entry' \in [Writers -> Entry]
      BY <1>1, <1>3 DEF WorldStoreTypeOK, Entry, Phases, Exists
    <2>2. n = owner => had
      BY <1>2 DEF Exists, Whole
    <2>3. old[j] = "none"
      BY <1>1, <1>2 DEF Journals
    <2> QED
      BY <1>1, <1>2, <2>1, <2>2, <2>3 DEF Journals
  <1>4. Safe'
    BY <1>1, <1>2 DEF Safe
  <1>5. CASE /\ entry' = [entry EXCEPT ![j] = e] /\ stage' = [stage EXCEPT ![j] = "empty"]
             /\ Become(j, [job[j] EXCEPT !.pc = "extract", !.had_old = had, !.before = world[n]])
             /\ UNCHANGED <<transition, faults>>
    <2>1. /\ Moves(j, "extract") /\ job'[j].node = n /\ job'[j].archive = job[j].archive
          /\ job'[j].had_old = had /\ job'[j].before = world[n] /\ job'[j].rolling = job[j].rolling
      <3> DEFINE r == [job[j] EXCEPT !.pc = "extract", !.had_old = had, !.before = world[n]]
      <3>1. had \in BOOLEAN /\ world[n] \in Trees /\ job[j] \in Job /\ "extract" \in Pcs
        BY <1>1 DEF WorldStoreTypeOK, Exists, Pcs, SwapSteps
      <3>2. /\ r \in Job /\ r.pc = "extract" /\ r.node = n /\ r.archive = job[j].archive
            /\ r.had_old = had /\ r.before = world[n] /\ r.rolling = job[j].rolling
        <4> HIDE DEF had
        <4> QED
          BY <3>1 DEF Job
      <3> HIDE DEF r
      <3>3. job' = [job EXCEPT ![j] = r]
        BY <1>5 DEF Become, r
      <3> QED
        BY <1>1, <3>2, <3>3 DEF WorldStoreTypeOK, Moves
    <2>2. WorldStoreTypeOK'
      BY <1>1, <1>3, <1>5, <2>1 DEF WorldStoreTypeOK, Moves, Trees
    <2>3. Recovering(j)'
      BY <2>1 DEF Moves, Recovering, Recoveries
    <2>4. Swapping(j)'
      <3>1. Wrote(j, {"intent"})' /\ InPlace(j)'
        BY <1>1, <1>2, <1>5, <2>1 DEF Wrote, InPlace, WorldStoreTypeOK, Journals
      <3> QED
        BY <3>1, <1>1, <1>2, <2>1 DEF Moves, Swapping, SwapSteps, Active, Recoveries, Exists
    <2> QED
      BY <1>1, <1>3, <1>4, <1>5, <2>1, <2>2, <2>3, <2>4, Keeps DEF Pcs, SwapSteps
  <1>6. CASE /\ Fails(j) /\ faults' \in 0..MaxFaults /\ stage' = stage
             /\ entry' = entry \/ entry' = [entry EXCEPT ![j] = e]
    <2>1. Moves(j, "answered") /\ Knows(j) /\ transition' = NoOne
      BY <1>1, <1>6, AnswerMoves DEF Fails
    <2>2. WorldStoreTypeOK'
      BY <1>1, <1>3, <1>6, <2>1 DEF WorldStoreTypeOK, Moves
    <2>3. Journals'
      BY <1>1, <1>3, <1>6 DEF Journals
    <2> QED
      BY <1>1, <1>4, <1>6, <2>1, <2>2, <2>3, Keeps DEF Pcs
  <1> QED
    BY <1>1, <1>5, <1>6, WorldStoreAssumption DEF Stage, WorldStoreTypeOK

\* The archive is unpacked into the stage directory.
LEMMA ExtractKeeps ==
  ASSUME WorldInv, NEW j \in Writers, Extract(j)
  PROVE  WorldInv'
  <1> USE JobsAre DEF At, Holds, Rest, Fault
  <1>1. /\ j \in Jobs /\ Active(j) /\ Swapping(j) /\ job[j].pc \in {"extract", "extract_rest"} /\ WorldStoreTypeOK
        /\ transition = j /\ Journals /\ Safe /\ UNCHANGED <<owner, crashes, world, old>>
    BY Alone DEF Extract, Active, WorldInv, WorldStoreTypeOK
  <1>2. /\ Wrote(j, {"intent"}) /\ InPlace(j) /\ job[j].archive \in Whole
        /\ (job[j].had_old <=> job[j].before # "none")
        /\ job[j].pc = "extract_rest" => stage[j] = "partial"
    BY <1>1 DEF Swapping, SwapSteps
  <1>3. ASSUME NEW pc \in {"extract_rest", "save_extracted"}, Goto(j, pc), UNCHANGED <<transition, entry, faults>>,
               NEW tree \in Trees, stage' = [stage EXCEPT ![j] = tree],
               tree = IF pc = "extract_rest" THEN "partial" ELSE job[j].archive
        PROVE  WorldInv'
    <2>1. Moves(j, pc) /\ Knows(j)
      BY <1>1, <1>3, GotoMoves DEF Pcs, SwapSteps
    <2>2. WorldStoreTypeOK'
      BY <1>1, <1>3, <2>1 DEF WorldStoreTypeOK, Moves
    <2>3. Journals' /\ Safe'
      BY <1>1, <1>3 DEF Journals, Safe
    <2>4. Recovering(j)'
      BY <2>1, <1>3 DEF Moves, Recovering, Recoveries
    <2>5. Swapping(j)'
      <3>1. Wrote(j, {"intent"})' /\ InPlace(j)' /\ stage'[j] = tree
        BY <1>1, <1>2, <1>3, <2>1 DEF Wrote, InPlace, Knows, WorldStoreTypeOK
      <3> QED
        BY <3>1, <1>1, <1>2, <1>3, <2>1 DEF Moves, Knows, Swapping, SwapSteps, Active, Recoveries
    <2> QED
      BY <1>1, <1>3, <2>1, <2>2, <2>3, <2>4, <2>5, Keeps DEF Pcs, SwapSteps
  <1>4. CASE Fails(j) /\ Clear(stage, j) /\ RemoveEntry(j) /\ faults' \in 0..MaxFaults
    <2>1. Moves(j, "answered") /\ Knows(j) /\ transition' = NoOne
      BY <1>1, <1>4, AnswerMoves DEF Fails
    <2>2. WorldStoreTypeOK'
      BY <1>1, <1>4, <2>1 DEF WorldStoreTypeOK, Moves, Trees, Clear, RemoveEntry, NoEntry, Entry, Nodes
    <2>3. Journals'
      BY <1>1, <1>2, <1>4 DEF Journals, InPlace, RemoveEntry, NoEntry, Uncommitted, WorldStoreTypeOK
    <2>4. Safe'
      BY <1>1, <1>2, <1>4 DEF Safe, InPlace, RemoveEntry, NoEntry, Uncommitted, Whole, WorldStoreTypeOK
    <2> QED
      BY <1>1, <1>4, <2>1, <2>2, <2>3, <2>4, Keeps DEF Pcs
  <1>5. CASE /\ Goto(j, "extract_rest") /\ stage' = [stage EXCEPT ![j] = "partial"]
             /\ UNCHANGED <<transition, entry, faults>>
    BY <1>1, <1>3, <1>5 DEF Trees
  <1>6. CASE /\ At(j, "extract_rest") /\ Goto(j, "save_extracted") /\ UNCHANGED <<transition, entry, faults>>
             /\ stage' = [stage EXCEPT ![j] = IF Exists(@) THEN job[j].archive ELSE "partial"]
    <2>1. stage' = [stage EXCEPT ![j] = job[j].archive]
      BY <1>1, <1>2, <1>6 DEF Exists, WorldStoreTypeOK
    <2> QED
      BY <1>2, <1>3, <1>6, <2>1 DEF Trees
  <1>7. CASE Fault /\ Fails(j) /\ Clear(stage, j) /\ RemoveEntry(j)
    BY <1>1, <1>4, <1>7, WorldStoreAssumption DEF WorldStoreTypeOK
  <1> QED
    BY <1>5, <1>6, <1>7 DEF Extract

\* The phase after the extraction.
LEMMA SaveExtractedKeeps ==
  ASSUME WorldInv, NEW j \in Writers, SaveExtracted(j)
  PROVE  WorldInv'
  <1> USE JobsAre DEF At, Holds, Rest, Fault
  <1>1. /\ j \in Jobs /\ Active(j) /\ Swapping(j) /\ job[j].pc = "save_extracted" /\ WorldStoreTypeOK
        /\ transition = j /\ Journals /\ Safe /\ UNCHANGED <<owner, crashes, world, old>>
    BY Alone DEF SaveExtracted, Active, WorldInv, WorldStoreTypeOK
  <1>2. /\ Wrote(j, {"intent"}) /\ InPlace(j) /\ job[j].archive \in Whole /\ stage[j] = job[j].archive
        /\ (job[j].had_old <=> job[j].before # "none")
    BY <1>1 DEF Swapping, SwapSteps
  <1>3. CASE SavePhase(j, "extracted") /\ Goto(j, "move_old") /\ UNCHANGED <<transition, stage, faults>>
    <2>1. Moves(j, "move_old") /\ Knows(j)
      BY <1>1, <1>3, GotoMoves DEF Pcs, SwapSteps
    <2>2. WorldStoreTypeOK'
      BY <1>1, <1>3, <2>1 DEF WorldStoreTypeOK, Moves, SavePhase, Entry, Phases, Job
    <2>3. /\ entry'[j] = [phase |-> "extracted", node |-> entry[j].node, had_old |-> entry[j].had_old]
          /\ \A w \in Writers : w # j => entry'[w] = entry[w]
      BY <1>1, <1>2, <1>3 DEF SavePhase, Wrote, WorldStoreTypeOK
    <2>4. Journals' /\ Safe'
      BY <1>1, <1>2, <2>3 DEF Journals, Safe, Uncommitted, Wrote
    <2>5. Recovering(j)'
      BY <2>1 DEF Moves, Recovering, Recoveries
    <2>6. Swapping(j)'
      <3>1. Wrote(j, {"extracted"})' /\ InPlace(j)'
        BY <1>1, <1>2, <2>1, <2>3 DEF Wrote, InPlace, Knows
      <3> QED
        BY <3>1, <1>1, <1>2, <1>3, <2>1 DEF Moves, Knows, Swapping, SwapSteps, Active, Recoveries
    <2> QED
      BY <1>1, <1>3, <2>1, <2>2, <2>4, <2>5, <2>6, Keeps DEF Pcs, SwapSteps
  <1>4. CASE Fails(j) /\ Clear(stage, j) /\ UNCHANGED entry /\ faults' \in 0..MaxFaults
    <2>1. Moves(j, "answered") /\ Knows(j) /\ transition' = NoOne
      BY <1>1, <1>4, AnswerMoves DEF Fails
    <2>2. WorldStoreTypeOK'
      BY <1>1, <1>4, <2>1 DEF WorldStoreTypeOK, Moves, Trees, Clear
    <2>3. Journals' /\ Safe'
      BY <1>1, <1>4 DEF Journals, Safe
    <2> QED
      BY <1>1, <1>4, <2>1, <2>2, <2>3, Keeps DEF Pcs
  <1> QED
    BY <1>1, <1>3, <1>4, WorldStoreAssumption DEF SaveExtracted, WorldStoreTypeOK

\* The phases after the two moves.
LEMMA SaveMovedKeeps ==
  ASSUME WorldInv, NEW j \in Writers, SaveMoved(j)
  PROVE  WorldInv'
  <1> USE JobsAre DEF At, Holds, Rest, Fault
  <1> DEFINE phase == IF job[j].pc = "save_old_moved" THEN "old_moved" ELSE "new_moved"
             next == IF job[j].pc = "save_old_moved" THEN "move_new" ELSE "drop_old"
  <1>1. /\ j \in Jobs /\ Active(j) /\ Swapping(j) /\ job[j].pc \in {"save_old_moved", "save_new_moved"}
        /\ WorldStoreTypeOK /\ transition = j /\ Journals /\ Safe /\ UNCHANGED <<owner, crashes, world, stage, old>>
    BY Alone DEF SaveMoved, Active, WorldInv, WorldStoreTypeOK
  <1>2. /\ job[j].pc = "save_old_moved" =>
             /\ Wrote(j, {"extracted"}) /\ SetAside(j) /\ stage[j] = job[j].archive
             /\ (job[j].had_old <=> job[j].before # "none")
        /\ job[j].pc = "save_new_moved" => Wrote(j, {"old_moved"}) /\ Replaced(j)
        /\ job[j].archive \in Whole
    BY <1>1 DEF Swapping, SwapSteps
  <1>3. CASE SavePhase(j, phase) /\ Goto(j, next) /\ UNCHANGED <<transition, faults>>
    <2>1. Moves(j, next) /\ Knows(j)
      BY <1>1, <1>3, GotoMoves DEF Pcs, SwapSteps
    <2>2. WorldStoreTypeOK'
      BY <1>1, <1>3, <2>1 DEF WorldStoreTypeOK, Moves, SavePhase, Entry, Phases, Job
    <2>3. /\ entry'[j] = [phase |-> phase, node |-> entry[j].node, had_old |-> entry[j].had_old]
          /\ \A w \in Writers : w # j => entry'[w] = entry[w]
      BY <1>1, <1>2, <1>3 DEF SavePhase, Wrote, WorldStoreTypeOK
    <2>4. Journals'
      BY <1>1, <1>2, <2>3 DEF Journals, Uncommitted, Wrote
    <2>5. Safe'
      BY <1>1, <1>2, <2>3 DEF Safe, Uncommitted, Wrote, Replaced
    <2>6. Recovering(j)'
      BY <1>1, <2>1 DEF Moves, Recovering, Recoveries
    <2>7. Swapping(j)'
      <3>2. CASE job[j].pc = "save_old_moved"
        <4>1. Wrote(j, {"old_moved"})' /\ SetAside(j)' /\ job'[j].pc = "move_new"
          BY <3>2, <1>1, <1>2, <2>1, <2>3 DEF Wrote, SetAside, Knows, Moves
        <4> QED
          BY <4>1, <3>2, <1>1, <1>2, <2>1 DEF Knows, Swapping, SwapSteps, Active, Recoveries
      <3>3. CASE job[j].pc = "save_new_moved"
        <4>1. Wrote(j, {"new_moved"})' /\ Replaced(j)' /\ job'[j].pc = "drop_old"
          BY <3>3, <1>1, <1>2, <2>1, <2>3 DEF Wrote, Replaced, Knows, Moves
        <4> QED
          BY <4>1, <3>3, <1>1, <1>2, <2>1 DEF Knows, Swapping, SwapSteps, Active, Recoveries
      <3> QED
        BY <1>1, <3>2, <3>3
    <2> QED
      BY <1>1, <1>3, <2>1, <2>2, <2>4, <2>5, <2>6, <2>7, Keeps DEF Pcs, SwapSteps
  <1>4. CASE Fails(j) /\ UNCHANGED entry /\ faults' \in 0..MaxFaults
    <2>1. Moves(j, "answered") /\ Knows(j) /\ transition' = NoOne
      BY <1>1, <1>4, AnswerMoves DEF Fails
    <2>2. WorldStoreTypeOK'
      BY <1>1, <1>4, <2>1 DEF WorldStoreTypeOK, Moves
    <2>3. Journals' /\ Safe'
      BY <1>1, <1>4 DEF Journals, Safe
    <2> QED
      BY <1>1, <1>4, <2>1, <2>2, <2>3, Keeps DEF Pcs
  <1>5. CASE SavePhase(j, phase) /\ UNCHANGED <<transition, faults>> /\ Goto(j, IF phase = "old_moved" THEN "move_new" ELSE "drop_old")
    BY <1>1, <1>3, <1>5
  <1> QED
    BY <1>1, <1>4, <1>5, WorldStoreAssumption DEF SaveMoved, WorldStoreTypeOK

\* The stage is put in place, or the swap is rolled back.
LEMMA MoveNewKeeps ==
  ASSUME WorldInv, NEW j \in Writers, MoveNew(j)
  PROVE  WorldInv'
  <1> USE JobsAre DEF At, Holds, Rest, Fault
  <1> DEFINE n == job[j].node
  <1>1. /\ j \in Jobs /\ Active(j) /\ Swapping(j) /\ job[j].pc = "move_new" /\ WorldStoreTypeOK /\ n \in Nodes
        /\ transition = j /\ Journals /\ Safe /\ UNCHANGED <<owner, crashes, transition, old, entry>>
    BY Alone DEF MoveNew, Active, WorldInv, WorldStoreTypeOK, Job
  <1>2. /\ Wrote(j, {"old_moved"}) /\ SetAside(j) /\ stage[j] = job[j].archive /\ job[j].archive \in Whole
        /\ (job[j].had_old <=> job[j].before # "none")
        /\ j \in Restorers => job[j].archive = "archived" /\ n = owner
    BY <1>1 DEF Swapping, SwapSteps
  <1>3. Journals'
    BY <1>1 DEF Journals
  <1>4. CASE /\ Goto(j, "save_new_moved") /\ UNCHANGED faults
             /\ world' = [world EXCEPT ![n] = stage[j]] /\ Clear(stage, j)
    <2>1. Moves(j, "save_new_moved") /\ Knows(j)
      BY <1>1, <1>4, GotoMoves DEF Pcs, SwapSteps
    <2>2. WorldStoreTypeOK'
      BY <1>1, <1>4, <2>1 DEF WorldStoreTypeOK, Moves, Clear, Trees
    <2>3. world'[n] = job[j].archive /\ \A m \in Nodes : m # n => world'[m] = world[m]
      BY <1>1, <1>2, <1>4 DEF WorldStoreTypeOK
    <2>4. Safe'
      BY <1>1, <1>2, <2>3 DEF Safe, WorldStoreTypeOK
    <2>5. Recovering(j)'
      BY <2>1 DEF Moves, Recovering, Recoveries
    <2>6. Swapping(j)'
      <3>1. Wrote(j, {"old_moved"})' /\ Replaced(j)' /\ job'[j].pc = "save_new_moved"
        BY <1>1, <1>2, <2>1, <2>3 DEF Wrote, Replaced, Knows, Moves
      <3> QED
        BY <3>1, <1>1, <1>2, <2>1 DEF Knows, Swapping, SwapSteps, Active, Recoveries
    <2> QED
      BY <1>1, <1>3, <2>1, <2>2, <2>4, <2>5, <2>6, Keeps DEF Pcs, SwapSteps
  <1>5. CASE /\ Become(j, [job[j] EXCEPT !.pc = "decide", !.found = j, !.rolling = TRUE, !.phase = "old_moved"])
             /\ UNCHANGED <<world, stage>> /\ faults' \in 0..MaxFaults
    <2>1. /\ Moves(j, "decide") /\ job'[j].node = n /\ job'[j].archive = job[j].archive
          /\ job'[j].had_old = job[j].had_old /\ job'[j].before = job[j].before /\ job'[j].rolling = TRUE
          /\ job'[j].found = j /\ job'[j].phase = "old_moved"
      <3> DEFINE r == [job[j] EXCEPT !.pc = "decide", !.found = j, !.rolling = TRUE, !.phase = "old_moved"]
      <3>1. job[j] \in Job /\ "decide" \in Pcs /\ "old_moved" \in Phases /\ j \in Jobs
        BY <1>1 DEF WorldStoreTypeOK, Pcs, Phases
      <3>2. /\ r \in Job /\ r.pc = "decide" /\ r.node = n /\ r.archive = job[j].archive
            /\ r.had_old = job[j].had_old /\ r.before = job[j].before /\ r.rolling = TRUE
            /\ r.found = j /\ r.phase = "old_moved"
        BY <3>1 DEF Job
      <3> HIDE DEF r
      <3>3. job' = [job EXCEPT ![j] = r]
        BY <1>5 DEF Become, r
      <3> QED
        BY <1>1, <3>2, <3>3 DEF WorldStoreTypeOK, Moves
    <2>2. WorldStoreTypeOK'
      BY <1>1, <1>5, <2>1 DEF WorldStoreTypeOK, Moves
    <2>3. Safe'
      BY <1>1, <1>5 DEF Safe
    <2>4. Recovering(j)'
      <3>1. entry[j] = [phase |-> "old_moved", node |-> n, had_old |-> job[j].had_old]
        BY <1>1, <1>2 DEF Wrote, WorldStoreTypeOK, Entry
      <3>2. n = owner => job[j].had_old
        BY <1>1, <3>1 DEF Journals, Uncommitted
      <3> QED
        BY <1>1, <2>1, <3>1, <3>2 DEF Recovering, Recoveries, Moves, Uncommitted
    <2>5. Swapping(j)'
      <3>1. SetAside(j)' /\ Exists(stage[j])'
        BY <1>1, <1>2, <1>5, <2>1 DEF SetAside, Exists, Whole
      <3> QED
        BY <3>1, <1>1, <1>2, <2>1 DEF Moves, Swapping, SwapSteps, Active, Recoveries
    <2> QED
      BY <1>1, <1>3, <2>1, <2>2, <2>3, <2>4, <2>5, Keeps DEF Pcs
  <1> QED
    BY <1>1, <1>4, <1>5, WorldStoreAssumption DEF MoveNew, WorldStoreTypeOK

\* The tree that was set aside goes.
LEMMA DropOldKeeps ==
  ASSUME WorldInv, NEW j \in Writers, DropOld(j)
  PROVE  WorldInv'
  <1> USE JobsAre DEF At, Holds, Rest, Fault
  <1>1. /\ j \in Jobs /\ Active(j) /\ Swapping(j) /\ job[j].pc = "drop_old" /\ WorldStoreTypeOK
        /\ transition = j /\ Journals /\ Safe /\ UNCHANGED <<owner, crashes, world, stage, entry>>
    BY Alone DEF DropOld, Active, WorldInv, WorldStoreTypeOK, Job
  <1>2. Wrote(j, {"new_moved"}) /\ Replaced(j) /\ job[j].archive \in Whole
        /\ (j \in Restorers => job[j].archive = "archived" /\ job[j].node = owner)
    BY <1>1 DEF Swapping, SwapSteps
  <1>3. ASSUME NEW tree \in Trees, old' = [old EXCEPT ![j] = tree] PROVE Journals' /\ Safe' /\ old' \in [Writers -> Trees]
    <2>1. old' \in [Writers -> Trees] /\ \A w \in Writers : w # j => old'[w] = old[w]
      BY <1>1, <1>3 DEF WorldStoreTypeOK
    <2> QED
      BY <1>1, <1>2, <2>1 DEF Journals, Safe, Wrote, Uncommitted
  <1>4. CASE Clear(old, j) /\ Goto(j, "finish") /\ UNCHANGED <<transition, faults>>
    <2>1. Moves(j, "finish") /\ Knows(j)
      BY <1>1, <1>4, GotoMoves DEF Pcs, SwapSteps
    <2>2. Journals' /\ Safe' /\ WorldStoreTypeOK' /\ old'[j] = "none"
      BY <1>1, <1>3, <1>4, <2>1 DEF WorldStoreTypeOK, Moves, Clear, Trees
    <2>3. Recovering(j)'
      BY <2>1 DEF Moves, Recovering, Recoveries
    <2>4. Swapping(j)'
      <3>1. Wrote(j, {"new_moved"})' /\ Replaced(j)' /\ job'[j].pc = "finish"
        BY <1>1, <1>2, <2>1 DEF Wrote, Replaced, Knows, Moves
      <3> QED
        BY <3>1, <1>1, <1>2, <2>1, <2>2 DEF Knows, Swapping, SwapSteps, Active, Recoveries
    <2> QED
      BY <1>1, <1>4, <2>1, <2>2, <2>3, <2>4, Keeps DEF Pcs, SwapSteps
  <1>5. CASE /\ Fails(j) /\ faults' \in 0..MaxFaults
             /\ old' = [old EXCEPT ![j] = IF Exists(@) THEN "partial" ELSE @]
    <2>1. Moves(j, "answered") /\ Knows(j) /\ transition' = NoOne
      BY <1>1, <1>5, AnswerMoves DEF Fails
    <2>2. Journals' /\ Safe' /\ WorldStoreTypeOK'
      BY <1>1, <1>3, <1>5, <2>1 DEF WorldStoreTypeOK, Moves, Trees
    <2> QED
      BY <1>1, <1>5, <2>1, <2>2, Keeps DEF Pcs
  <1> QED
    BY <1>1, <1>4, <1>5, WorldStoreAssumption DEF DropOld, WorldStoreTypeOK

\* The journal goes.
LEMMA FinishKeeps ==
  ASSUME WorldInv, NEW j \in Writers, Finish(j)
  PROVE  WorldInv'
  <1> USE JobsAre DEF At, Holds, Rest, Fault
  <1>1. /\ j \in Jobs /\ Active(j) /\ Swapping(j) /\ job[j].pc = "finish" /\ WorldStoreTypeOK
        /\ transition = j /\ Journals /\ Safe /\ UNCHANGED <<owner, crashes, world, stage, old>>
    BY Alone DEF Finish, Active, WorldInv, WorldStoreTypeOK, Job
  <1>2. Wrote(j, {"new_moved"}) /\ Replaced(j) /\ job[j].archive \in Whole /\ old[j] = "none"
        /\ (j \in Restorers => job[j].archive = "archived" /\ job[j].node = owner)
    BY <1>1 DEF Swapping, SwapSteps
  <1>3. ASSUME RemoveEntry(j)
        PROVE  Journals' /\ Safe' /\ entry' \in [Writers -> Entry] /\ \A w \in Writers : entry'[w].phase = "none"
    <2>1. /\ entry' \in [Writers -> Entry] /\ entry'[j] = NoEntry /\ \A w \in Writers : w # j => entry'[w] = entry[w]
      BY <1>1, <1>3 DEF WorldStoreTypeOK, RemoveEntry, Entry, NoEntry, Nodes
    <2>2. \A w \in Writers : entry'[w].phase = "none"
      BY <1>1, <1>2, <2>1 DEF Journals, Wrote, NoEntry
    <2>3. Safe'
      BY <1>1, <1>2, <2>1 DEF Safe, Wrote, Uncommitted
    <2>4. Journals'
      BY <1>1, <1>2, <2>1, <2>2 DEF Journals, Uncommitted
    <2> QED
      BY <2>1, <2>2, <2>3, <2>4
  <1>4. CASE RemoveEntry(j) /\ Goto(j, "verify") /\ UNCHANGED <<transition, faults>>
    <2>1. Moves(j, "verify") /\ Knows(j)
      BY <1>1, <1>4, GotoMoves DEF Pcs
    <2>2. Journals' /\ Safe' /\ WorldStoreTypeOK' /\ \A w \in Writers : entry'[w].phase = "none"
      BY <1>1, <1>3, <1>4, <2>1 DEF WorldStoreTypeOK, Moves
    <2>3. Recovering(j)'
      BY <2>1 DEF Moves, Recovering, Recoveries
    <2>4. Swapping(j)'
      BY <1>1, <1>2, <2>1, <2>2 DEF Moves, Knows, Swapping, SwapSteps, Active, Recoveries
    <2> QED
      BY <1>1, <1>4, <2>1, <2>2, <2>3, <2>4, Keeps DEF Pcs
  <1>5. CASE RemoveEntry(j) /\ Answer(j, "ok") /\ UNCHANGED faults
    <2>1. Moves(j, "answered") /\ Knows(j) /\ transition' = NoOne
      BY <1>1, <1>5, AnswerMoves
    <2>2. Journals' /\ Safe' /\ WorldStoreTypeOK'
      BY <1>1, <1>3, <1>5, <2>1 DEF WorldStoreTypeOK, Moves
    <2> QED
      BY <1>1, <1>5, <2>1, <2>2, Keeps DEF Pcs
  <1>6. CASE Fails(j) /\ SavePhase(j, "complete") /\ faults' \in 0..MaxFaults
    <2>1. Moves(j, "answered") /\ Knows(j) /\ transition' = NoOne
      BY <1>1, <1>6, AnswerMoves DEF Fails
    <2>2. WorldStoreTypeOK'
      BY <1>1, <1>6, <2>1 DEF WorldStoreTypeOK, Moves, SavePhase, Entry, Phases, Job
    <2>3. /\ entry'[j] = [phase |-> "complete", node |-> entry[j].node, had_old |-> entry[j].had_old]
          /\ \A w \in Writers : w # j => entry'[w] = entry[w]
      BY <1>1, <1>2, <1>6 DEF SavePhase, Wrote, WorldStoreTypeOK
    <2>4. Journals' /\ Safe'
      BY <1>1, <1>2, <2>3 DEF Journals, Safe, Uncommitted, Wrote
    <2> QED
      BY <1>1, <1>6, <2>1, <2>2, <2>4, Keeps DEF Pcs
  <1> QED
    BY <1>1, <1>4, <1>5, <1>6, WorldStoreAssumption DEF Finish, WorldStoreTypeOK

\* The row moves with the world that was verified.
LEMMA VerifyKeeps ==
  ASSUME WorldInv, NEW j \in Writers, Verify(j)
  PROVE  WorldInv'
  <1> USE JobsAre DEF At, Holds, Rest, Fault
  <1>1. /\ j \in Jobs /\ Active(j) /\ Swapping(j) /\ job[j].pc = "verify" /\ WorldStoreTypeOK
        /\ transition = j /\ Journals /\ Safe /\ UNCHANGED <<crashes, world, stage, old, entry>>
    BY Alone DEF Verify, Active, WorldInv, WorldStoreTypeOK, Job, Files
  <1>2. job[j].archive \in Whole /\ \A w \in Writers : entry[w].phase = "none"
    BY <1>1 DEF Swapping, SwapSteps
  <1>3. \A i \in Jobs : i # j => ~Active(i)
    BY <1>1, Alone
  <1>4. PICK a \in {"ok", "error"} : /\ Answer(j, a) /\ faults' \in 0..MaxFaults
                                     /\ owner' # owner => owner' = "away" /\ world["away"] = job[j].archive
    <2>1. CASE world["away"] = job[j].archive /\ owner' = "away" /\ Answer(j, "ok") /\ UNCHANGED faults
      BY <1>1, <2>1 DEF WorldStoreTypeOK
    <2>2. CASE Answer(j, "error") /\ UNCHANGED owner /\ (UNCHANGED faults \/ Fault)
      BY <1>1, <2>2, WorldStoreAssumption DEF WorldStoreTypeOK
    <2> QED
      BY <2>1, <2>2 DEF Verify, Fails
  <1>5. Moves(j, "answered") /\ Knows(j) /\ transition' = NoOne
    BY <1>1, <1>4, AnswerMoves
  <1>6. WorldStoreTypeOK'
    BY <1>1, <1>4, <1>5 DEF WorldStoreTypeOK, Moves, Nodes
  <1>7. Journals'
    BY <1>1, <1>2 DEF Journals, Uncommitted
  <1>8. Safe'
    BY <1>1, <1>2, <1>4 DEF Safe, Uncommitted
  <1>9. Holding' /\ Apart'
    BY <1>1, <1>3, <1>5 DEF WorldInv, WorldStoreTypeOK, Holding, Apart, Active, Running, Moves
  <1>10. ASSUME NEW i \in Jobs PROVE Recovering(i)' /\ (i \in Writers => Swapping(i)')
    <2>1. ~Active(i)' /\ job'[i].archive = job[i].archive
      BY <1>3, <1>5 DEF Moves, Knows, Active
    <2>2. i \in Writers => Swapping(i)
      BY DEF WorldInv
    <2> QED
      BY <2>1, <2>2 DEF Active, Recovering, Swapping, Recoveries, SwapSteps
  <1> QED
    BY <1>6, <1>7, <1>8, <1>9, <1>10 DEF WorldInv

-----------------------------------------------------------------------------
(* Starting *)

\* A job begins apart from the others, on a data directory that may be made first.
LEMMA BeginKeeps ==
  ASSUME WorldInv, ~BackupsOverlap, NEW j \in Jobs, Begin(j)
  PROVE  WorldInv'
  <1> USE JobsAre DEF At, Holds, Rest
  <1>1. /\ job[j].pc = "idle" /\ ~Active(j) /\ WorldStoreTypeOK /\ Journals /\ Safe /\ Holding /\ Apart
        /\ UNCHANGED <<owner, crashes, transition, stage, old, entry, faults>>
        /\ \A w \in Writers : j # w => j \in Backers \/ j \in Writers
    BY DEF Begin, Active, WorldInv
  <1>2. PICK pc \in {"open", "acquire"} :
             /\ Moves(j, pc) /\ job'[j].archive = job[j].archive /\ job'[j].rolling = job[j].rolling
             /\ pc = "open" => j \notin Writers /\ (\A w \in Writers : ~Running(w)) /\ UNCHANGED world
             /\ pc = "acquire" => j \in Writers /\ (\A b \in Backers : ~Running(b))
             /\ world' = world \/ (j \in Restorers /\ world' = [world EXCEPT ![owner] = Made(@)])
    <2>1. CASE j \in Backers
      <3>1. Become(j, [job[j] EXCEPT !.pc = "open", !.node = owner])
        BY <2>1 DEF Begin
      <3>2. Moves(j, "open") /\ job'[j].archive = job[j].archive /\ job'[j].rolling = job[j].rolling
        <4> DEFINE r == [job[j] EXCEPT !.pc = "open", !.node = owner]
        <4>1. job[j] \in Job /\ owner \in Nodes /\ "open" \in Pcs
          BY <1>1 DEF WorldStoreTypeOK, Pcs
        <4>2. r \in Job /\ r.pc = "open" /\ r.archive = job[j].archive /\ r.rolling = job[j].rolling
          BY <4>1 DEF Job
        <4> HIDE DEF r
        <4>3. job' = [job EXCEPT ![j] = r]
          BY <3>1 DEF Become, r
        <4> QED
          BY <1>1, <4>2, <4>3 DEF WorldStoreTypeOK, Moves
      <3> QED
        BY <2>1, <3>2 DEF Begin
    <2>2. CASE j \notin Backers
      <3>1. Goto(j, "acquire") /\ j \in Writers
        BY <2>2 DEF Begin
      <3>2. Moves(j, "acquire") /\ Knows(j)
        BY <1>1, <3>1, GotoMoves DEF Pcs
      <3> QED
        BY <2>2, <3>1, <3>2 DEF Begin, Knows
    <2> QED
      BY <2>1, <2>2
  <1>3. /\ world' \in [Nodes -> Trees] /\ \A m \in Nodes : m # owner => world'[m] = world[m]
        /\ world'[owner] = world[owner] \/ (world[owner] = "none" /\ world'[owner] = "empty")
    BY <1>1, <1>2 DEF WorldStoreTypeOK, Made, Exists, Trees
  <1>4. WorldStoreTypeOK'
    BY <1>1, <1>2, <1>3 DEF WorldStoreTypeOK, Moves
  <1>5. Journals'
    BY <1>1 DEF Journals
  <1>6. Safe'
    BY <1>1, <1>3 DEF Safe, Whole
  <1>7. Holding'
    BY <1>1, <1>2 DEF Holding, Active, Moves
  <1>8. Apart'
    BY <1>1, <1>2 DEF Apart, Running, Moves
  <1>9. ASSUME NEW i \in Jobs PROVE Recovering(i)'
    BY <1>1, <1>2, <1>9 DEF Recovering, Recoveries, Moves, WorldInv
  <1>10. ASSUME NEW i \in Writers PROVE Swapping(i)'
    <2>1. CASE i = j
      BY <1>1, <1>2, <2>1 DEF Swapping, SwapSteps, Active, Recoveries, Moves, WorldInv
    <2>2. CASE i # j
      <3>1. job'[i] = job[i] /\ Swapping(i) /\ Recovering(i) /\ job[i] \in Job
        BY <1>1, <1>2, <2>2 DEF Moves, WorldInv, WorldStoreTypeOK
      <3>2. \/ world'[job[i].node] = world[job[i].node]
            \/ job[i].node = owner /\ world[job[i].node] = "none" /\ world'[job[i].node] = "empty"
        BY <1>3, <3>1 DEF Job
      <3>3. ASSUME job[i].pc \in {"extract", "extract_rest", "save_extracted", "move_old"} PROVE InPlace(i)'
        <4>1. InPlace(i) /\ Wrote(i, Uncommitted) /\ (job[i].had_old <=> job[i].before # "none")
          BY <3>1, <3>3 DEF Swapping, Wrote, Uncommitted
        <4> QED
          BY <1>1, <3>1, <3>2, <4>1 DEF InPlace, Wrote, Journals
      <3>4. SetAside(i) => SetAside(i)'
        BY <1>1, <3>1, <3>2 DEF SetAside
      <3>5. ASSUME Replaced(i), job[i].archive \in Whole PROVE Replaced(i)'
        BY <3>1, <3>2, <3>5 DEF Replaced, Whole
      <3>6. ASSUME job[i].rolling, job[i].pc = "sweep" PROVE world'[job[i].node] = job[i].before
        BY <3>1, <3>2, <3>6 DEF Swapping, Recovering, Recoveries, Uncommitted
      <3>7. /\ entry' = entry /\ stage' = stage /\ old' = old /\ owner' = owner /\ job'[i] = job[i]
        BY <1>1, <3>1
      <3>8. Wrote(i, {"intent"})' = Wrote(i, {"intent"}) /\ Wrote(i, {"extracted"})' = Wrote(i, {"extracted"})
            /\ Wrote(i, {"old_moved"})' = Wrote(i, {"old_moved"}) /\ Wrote(i, {"new_moved"})' = Wrote(i, {"new_moved"})
        BY <3>7 DEF Wrote
      <3> QED
        BY <3>1, <3>3, <3>4, <3>5, <3>6, <3>7, <3>8 DEF Swapping, SwapSteps, Active, Exists
    <2> QED
      BY <2>1, <2>2
  <1> QED
    BY <1>4, <1>5, <1>6, <1>7, <1>8, <1>9, <1>10 DEF WorldInv

\* The transition goes to one writer.
LEMMA AcquireKeeps ==
  ASSUME WorldInv, NEW j \in Writers, Acquire(j)
  PROVE  WorldInv'
  <1> USE JobsAre DEF At, Rest
  <1>1. /\ j \in Jobs /\ job[j].pc = "acquire" /\ ~Active(j) /\ Running(j) /\ WorldStoreTypeOK /\ Journals /\ Safe
        /\ Holding /\ Apart /\ UNCHANGED <<owner, crashes, stage, old, entry, faults>> /\ Swapping(j)
    BY DEF Acquire, Active, Running, WorldInv
  <1>2. Journals'
    BY <1>1 DEF Journals
  <1>3. CASE Fails(j) /\ UNCHANGED world
    <2>1. Moves(j, "answered") /\ Knows(j) /\ transition' = transition /\ transition # j
      BY <1>1, <1>3, AnswerMoves DEF Fails, Holding
    <2>2. WorldStoreTypeOK' /\ Safe'
      BY <1>1, <1>3, <2>1 DEF WorldStoreTypeOK, Moves, Safe
    <2>3. Holding' /\ Apart'
      BY <1>1, <2>1 DEF Holding, Apart, Active, Running, Moves
    <2>4. ASSUME NEW i \in Jobs, i # j PROVE Recovering(i)' /\ (i \in Writers => Swapping(i)')
      <3>1. job'[i] = job[i] /\ Recovering(i) /\ (i \in Writers => Swapping(i))
        BY <2>1, <2>4 DEF Moves, WorldInv
      <3> QED
        BY <1>1, <1>3, <3>1
           DEF Recovering, Swapping, Active, Wrote, InPlace, SetAside, Replaced, Exists
    <2> QED
      BY <1>2, <2>1, <2>2, <2>3, <2>4, Ended DEF WorldInv
  <1>4. CASE /\ transition = NoOne /\ (j \in Movers => owner = "home") /\ transition' = j
             /\ Become(j, [job[j] EXCEPT !.pc = "open", !.node = owner])
             /\ world' = IF j \in Movers THEN [world EXCEPT !["away"] = Made(@)] ELSE world
    <2>1. /\ Moves(j, "open") /\ job'[j].archive = job[j].archive /\ job'[j].rolling = job[j].rolling
          /\ job'[j].node = owner
      <3> DEFINE r == [job[j] EXCEPT !.pc = "open", !.node = owner]
      <3>1. job[j] \in Job /\ owner \in Nodes /\ "open" \in Pcs
        BY <1>1 DEF WorldStoreTypeOK, Pcs
      <3>2. r \in Job /\ r.pc = "open" /\ r.archive = job[j].archive /\ r.rolling = job[j].rolling /\ r.node = owner
        BY <3>1 DEF Job
      <3> HIDE DEF r
      <3>3. job' = [job EXCEPT ![j] = r]
        BY <1>4 DEF Become, r
      <3> QED
        BY <1>1, <3>2, <3>3 DEF WorldStoreTypeOK, Moves
    <2>2. world' \in [Nodes -> Trees] /\ world'[owner] = world[owner]
      BY <1>1, <1>4 DEF WorldStoreTypeOK, Made, Exists, Trees, Nodes
    <2>3. WorldStoreTypeOK' /\ Safe'
      BY <1>1, <1>4, <2>1, <2>2 DEF WorldStoreTypeOK, Moves, Safe
    <2>4. \A w \in Writers : ~Active(w)
      BY <1>1, <1>4 DEF Holding
    <2>5. \A b \in Backers : ~Running(b)
      BY <1>1 DEF Apart
    <2>6. Holding' /\ Apart'
      BY <1>1, <1>4, <2>1, <2>4, <2>5 DEF Holding, Apart, Active, Running, Moves
    <2>7. ASSUME NEW i \in Jobs PROVE Recovering(i)' /\ (i \in Writers => Swapping(i)')
      <3>1. CASE i = j
        BY <1>1, <2>1, <3>1 DEF Recovering, Swapping, SwapSteps, Recoveries, Active, Moves
      <3>2. CASE i # j
        <4>1. job'[i] = job[i] /\ ~Active(i) /\ (i \in Writers => Swapping(i))
          BY <2>1, <2>4, <2>5, <2>7, <3>2 DEF Moves, WorldInv, Active, Running
        <4> QED
          BY <4>1 DEF Recovering, Swapping, SwapSteps, Recoveries, Active
      <3> QED
        BY <3>1, <3>2
    <2> QED
      BY <1>2, <2>3, <2>6, <2>7 DEF WorldInv
  <1> QED
    BY <1>1, <1>3, <1>4 DEF Acquire

\* The stores are opened one by one; nothing is written.
LEMMA OpenKeeps ==
  ASSUME WorldInv, NEW j \in Jobs, Open(j)
  PROVE  WorldInv'
  <1> USE JobsAre DEF At, Holds, Rest, Fault, Files
  <1>1. /\ job[j].pc = "open" /\ Active(j) /\ WorldStoreTypeOK /\ Journals /\ Safe
        /\ UNCHANGED <<owner, crashes, world, stage, old, entry>> /\ (j \in Writers => Swapping(j))
    BY DEF Open, Active, WorldInv
  <1>2. Journals' /\ Safe' /\ Shrinks
    BY <1>1 DEF Journals, Safe, Shrinks
  <1>3. CASE Goto(j, "recover") /\ UNCHANGED <<transition, faults>>
    <2>1. Moves(j, "recover") /\ Knows(j)
      BY <1>1, <1>3, GotoMoves DEF Pcs
    <2>2. WorldStoreTypeOK'
      BY <1>1, <1>3, <2>1 DEF WorldStoreTypeOK, Moves
    <2>3. Recovering(j)' /\ (j \in Writers => Swapping(j)')
      BY <1>1, <2>1 DEF Recovering, Swapping, SwapSteps, Recoveries, Active, Moves, Knows
    <2> QED
      BY <1>1, <1>2, <1>3, <2>1, <2>2, <2>3, Keeps DEF Pcs
  <1>4. CASE Fails(j) /\ faults' \in 0..MaxFaults
    <2>1. Moves(j, "answered") /\ Knows(j) /\ transition' = IF transition = j THEN NoOne ELSE transition
      BY <1>1, <1>4, AnswerMoves DEF Fails
    <2>2. WorldStoreTypeOK'
      BY <1>1, <1>4, <2>1 DEF WorldStoreTypeOK, Moves
    <2> QED
      BY <1>1, <1>2, <1>4, <2>1, <2>2, Keeps DEF Pcs
  <1> QED
    BY <1>1, <1>3, <1>4, WorldStoreAssumption DEF Open, WorldStoreTypeOK

\* An archive is made of the server's world.
LEMMA CopyKeeps ==
  ASSUME WorldInv, NEW j \in Jobs, Copy(j)
  PROVE  WorldInv'
  <1> USE JobsAre DEF At, Holds, Rest, Fault, Files
  <1>1. /\ job[j].pc = "copy" /\ Active(j) /\ WorldStoreTypeOK /\ Journals /\ Safe
        /\ UNCHANGED <<owner, crashes, world, stage, old, entry>> /\ (j \in Writers => Swapping(j))
    BY DEF Copy, Active, WorldInv
  <1>2. Journals' /\ Safe' /\ Shrinks
    BY <1>1 DEF Journals, Safe, Shrinks
  <1>3. ASSUME NEW a \in {"ok", "error"}, Answer(j, a), faults' \in 0..MaxFaults PROVE WorldInv'
    <2>1. Moves(j, "answered") /\ Knows(j) /\ transition' = IF transition = j THEN NoOne ELSE transition
      BY <1>1, <1>3, AnswerMoves
    <2>2. WorldStoreTypeOK'
      BY <1>1, <1>3, <2>1 DEF WorldStoreTypeOK, Moves
    <2> QED
      BY <1>1, <1>2, <1>3, <2>1, <2>2, Keeps DEF Pcs
  <1>4. CASE /\ j \in Writers /\ Become(j, [job[j] EXCEPT !.pc = "stage", !.archive = world[owner]])
             /\ UNCHANGED <<transition, faults>>
    <2>1. /\ Moves(j, "stage") /\ job'[j].archive = world[owner] /\ job'[j].rolling = job[j].rolling
          /\ job'[j].node = job[j].node
      <3> DEFINE r == [job[j] EXCEPT !.pc = "stage", !.archive = world[owner]]
      <3>1. job[j] \in Job /\ world[owner] \in Trees /\ "stage" \in Pcs
        BY <1>1 DEF WorldStoreTypeOK, Pcs, SwapSteps
      <3>2. r \in Job /\ r.pc = "stage" /\ r.archive = world[owner] /\ r.rolling = job[j].rolling /\ r.node = job[j].node
        BY <3>1 DEF Job
      <3> HIDE DEF r
      <3>3. job' = [job EXCEPT ![j] = r]
        BY <1>4 DEF Become, r
      <3> QED
        BY <1>1, <3>2, <3>3 DEF WorldStoreTypeOK, Moves
    <2>2. (\A w \in Writers : entry[w].phase = "none") /\ world[owner] \in Whole
      BY <1>1, <1>4 DEF Swapping, Safe, Uncommitted
    <2>3. WorldStoreTypeOK'
      BY <1>1, <1>4, <2>1 DEF WorldStoreTypeOK, Moves
    <2>4. Recovering(j)'
      BY <2>1 DEF Recovering, Recoveries, Moves
    <2>5. Swapping(j)'
      BY <1>1, <1>4, <2>1, <2>2 DEF Swapping, SwapSteps, Recoveries, Active, Moves
    <2> QED
      BY <1>1, <1>2, <1>4, <2>1, <2>3, <2>4, <2>5, Keeps DEF Pcs, SwapSteps
  <1> QED
    BY <1>1, <1>3, <1>4, WorldStoreAssumption DEF Copy, Fails, WorldStoreTypeOK

-----------------------------------------------------------------------------
(* Recovery *)

\* The next journal is read, or there is none and the job goes on.
LEMMA RecoverKeeps ==
  ASSUME WorldInv, NEW j \in Jobs, Recover(j)
  PROVE  WorldInv'
  <1> USE JobsAre DEF At, Holds, Rest, Fault, Files
  <1>1. /\ job[j].pc = "recover" /\ Active(j) /\ WorldStoreTypeOK /\ Journals /\ Safe
        /\ UNCHANGED <<owner, crashes, world, stage, old, entry, faults>> /\ (j \in Writers => Swapping(j))
        /\ job[j] \in Job
    BY DEF Recover, Active, WorldInv, WorldStoreTypeOK
  <1>2. Journals' /\ Safe' /\ Shrinks
    BY <1>1 DEF Journals, Safe, Shrinks
  <1>3. CASE (\A w \in Writers : entry[w] = NoEntry) /\ Become(j, Opened(j)) /\ UNCHANGED transition
    <2>1. PICK pc \in {"open", "stage", "copy"} :
               /\ Moves(j, pc) /\ job'[j].archive = job[j].archive /\ job'[j].rolling = job[j].rolling
               /\ job'[j].node = job[j].node \/ pc = "open"
               /\ pc = "open" => j \in Movers
               /\ pc = "stage" => j \in Restorers
               /\ pc = "copy" => j \notin Restorers
      <3>1. {"open", "stage", "copy"} \subseteq Pcs /\ "away" \in Nodes
        BY DEF Pcs, SwapSteps, Nodes
      <3>2. CASE j \in Movers /\ job[j].node = owner
        <4> DEFINE r == [job[j] EXCEPT !.pc = "open", !.node = "away"]
        <4>1. r \in Job /\ r.pc = "open" /\ r.archive = job[j].archive /\ r.rolling = job[j].rolling
          BY <1>1, <3>1 DEF Job
        <4> HIDE DEF r
        <4>2. job' = [job EXCEPT ![j] = r]
          BY <1>3, <3>2 DEF Become, r, Opened
        <4>3. /\ Moves(j, "open") /\ job'[j].archive = job[j].archive /\ job'[j].rolling = job[j].rolling
          BY <1>1, <4>1, <4>2 DEF WorldStoreTypeOK, Moves
        <4> QED
          BY <3>2, <4>3
      <3>3. CASE ~(j \in Movers /\ job[j].node = owner)
        <4> DEFINE next == IF j \in Restorers THEN "stage" ELSE "copy"
        <4>1. Goto(j, next)
          BY <1>3, <3>3 DEF Become, Opened, Goto
        <4>2. Moves(j, next) /\ Knows(j)
          BY <1>1, <3>1, <4>1, GotoMoves
        <4> QED
          BY <4>2 DEF Knows
      <3> QED
        BY <3>2, <3>3
    <2>2. WorldStoreTypeOK'
      BY <1>1, <1>3, <2>1 DEF WorldStoreTypeOK, Moves
    <2>3. Recovering(j)'
      BY <2>1 DEF Recovering, Recoveries, Moves
    <2>4. ASSUME j \in Writers PROVE Swapping(j)'
      <3>1. (\A w \in Writers : entry'[w].phase = "none") /\ (j \in Restorers => job[j].archive \in Whole)
        BY <1>1, <1>3, <2>4 DEF NoEntry, Swapping, Whole
      <3>2. j \in Restorers => j \notin Movers
        BY WorldStoreAssumption
      <3> QED
        BY <1>1, <2>1, <2>4, <3>1, <3>2 DEF Swapping, SwapSteps, Recoveries, Active, Moves
    <2> QED
      BY <1>1, <1>2, <1>3, <2>1, <2>2, <2>3, <2>4, Keeps DEF Pcs, SwapSteps
  <1>4. CASE Fails(j)
    <2>1. Moves(j, "answered") /\ Knows(j) /\ transition' = IF transition = j THEN NoOne ELSE transition
      BY <1>1, <1>4, AnswerMoves DEF Fails
    <2>2. WorldStoreTypeOK'
      BY <1>1, <1>4, <2>1 DEF WorldStoreTypeOK, Moves
    <2> QED
      BY <1>1, <1>2, <1>4, <2>1, <2>2, Keeps DEF Pcs
  <1>5. ASSUME NEW w \in Writers, entry[w] # NoEntry, entry[w].node = job[j].node, UNCHANGED transition,
               Become(j, [job[j] EXCEPT !.pc = "decide", !.found = w, !.rolling = FALSE,
                                        !.phase = entry[w].phase, !.had_old = entry[w].had_old])
        PROVE  WorldInv'
    <2>1. /\ entry[w] \in Entry /\ entry[w].phase \in Uncommitted \union Committed
          /\ entry[w].phase \in Uncommitted /\ entry[w].node = owner => entry[w].had_old
      BY <1>1, <1>5 DEF Journals, WorldStoreTypeOK, Entry, Phases, Uncommitted, Committed
    <2>2. /\ Moves(j, "decide") /\ job'[j].archive = job[j].archive /\ job'[j].rolling = FALSE
          /\ job'[j].node = job[j].node /\ job'[j].found = w
          /\ job'[j].phase = entry[w].phase /\ job'[j].had_old = entry[w].had_old
      <3> DEFINE r == [job[j] EXCEPT !.pc = "decide", !.found = w, !.rolling = FALSE,
                                     !.phase = entry[w].phase, !.had_old = entry[w].had_old]
      <3>1. "decide" \in Pcs /\ w \in Jobs /\ entry[w].phase \in Phases \union {"none"} /\ entry[w].had_old \in BOOLEAN
        BY <2>1 DEF Pcs, Entry
      <3>2. /\ r \in Job /\ r.pc = "decide" /\ r.archive = job[j].archive /\ r.rolling = FALSE
            /\ r.node = job[j].node /\ r.found = w /\ r.phase = entry[w].phase /\ r.had_old = entry[w].had_old
        BY <1>1, <3>1 DEF Job
      <3> HIDE DEF r
      <3>3. job' = [job EXCEPT ![j] = r]
        BY <1>5 DEF Become, r
      <3> QED
        BY <1>1, <3>2, <3>3 DEF WorldStoreTypeOK, Moves
    <2>3. WorldStoreTypeOK'
      BY <1>1, <1>5, <2>2 DEF WorldStoreTypeOK, Moves
    <2>4. Recovering(j)'
      BY <1>1, <1>5, <2>1, <2>2 DEF Recovering, Recoveries, Moves, Entry
    <2>5. j \in Writers => Swapping(j)'
      BY <1>1, <2>2 DEF Swapping, SwapSteps, Recoveries, Active, Moves
    <2> QED
      BY <1>1, <1>2, <1>5, <2>2, <2>3, <2>4, <2>5, Keeps DEF Pcs
  <1> QED
    BY <1>3, <1>4, <1>5 DEF Recover

\* The world in place makes way for the tree that was set aside.
LEMMA DecideKeeps ==
  ASSUME WorldInv, NEW j \in Jobs, Decide(j)
  PROVE  WorldInv'
  <1> USE JobsAre DEF At, Holds, Rest, Fault
  <1> DEFINE w == job[j].found
             n == job[j].node
             back == job[j].phase \notin Committed /\ job[j].had_old /\ Exists(old[w])
             swapped == job[j].phase \notin Committed /\ ~job[j].had_old /\ ~Exists(stage[w])
  <1>1. /\ job[j].pc = "decide" /\ Active(j) /\ WorldStoreTypeOK /\ Journals /\ Safe /\ Recovering(j)
        /\ UNCHANGED <<owner, crashes, stage, old, entry>> /\ (j \in Writers => Swapping(j)) /\ n \in Nodes
    BY DEF Decide, Active, WorldInv, WorldStoreTypeOK, Job
  <1>2. /\ w \in Writers /\ job[j].phase \in Uncommitted \union Committed
        /\ entry[w].phase # "none" => entry[w] = [phase |-> job[j].phase, node |-> n, had_old |-> job[j].had_old]
        /\ job[j].phase \in Uncommitted /\ n = owner => job[j].had_old
        /\ job[j].rolling => j \in Writers /\ w = j
    BY <1>1 DEF Recovering, Recoveries
  <1>3. Journals' /\ Shrinks
    BY <1>1 DEF Journals, Shrinks
  <1>4. ASSUME back \/ swapped, \A m \in Nodes : m # n => world'[m] = world[m] PROVE Safe'
    <2>1. CASE n = owner
      <3>1. back
        BY <1>2, <1>4, <2>1 DEF Uncommitted, Committed
      <3>2. entry[w].phase # "none"
        BY <1>1, <1>2, <3>1 DEF Journals, Exists
      <3>3. entry[w].phase \in Uncommitted /\ entry[w].node = owner /\ old[w] \in Whole
        BY <1>1, <1>2, <2>1, <3>1, <3>2 DEF Journals, Exists
      <3> QED
        BY <1>1, <1>2, <3>3 DEF Safe
    <2>2. CASE n # owner
      BY <1>1, <1>4, <2>2 DEF Safe, WorldStoreTypeOK
    <2> QED
      BY <2>1, <2>2
  <1>5. CASE ~back /\ ~swapped /\ Goto(j, "sweep") /\ UNCHANGED <<transition, world, faults>>
    <2>1. Moves(j, "sweep") /\ Knows(j)
      BY <1>1, <1>5, GotoMoves DEF Pcs
    <2>2. WorldStoreTypeOK' /\ Safe'
      BY <1>1, <1>5, <2>1 DEF WorldStoreTypeOK, Moves, Safe
    <2>3. Recovering(j)'
      <3>1. job[j].phase \in Committed \/ old[w] = "none"
        <4>1. CASE n = owner
          BY <1>2, <1>5, <4>1 DEF Exists, Committed, Uncommitted
        <4>2. CASE n # owner /\ job[j].phase \notin Committed
          BY <1>1, <1>2, <1>5, <4>2 DEF Exists, Journals, Committed, Uncommitted
        <4> QED
          BY <4>1, <4>2
      <3> QED
        BY <1>1, <1>2, <2>1, <3>1 DEF Recovering, Recoveries, Moves, Knows
    <2>4. ASSUME j \in Writers PROVE Swapping(j)'
      BY <1>1, <1>2, <1>5, <2>1, <2>4 DEF Swapping, SwapSteps, Recoveries, Active, Moves, Knows, SetAside, Committed, Exists
    <2> QED
      BY <1>1, <1>3, <1>5, <2>1, <2>2, <2>3, <2>4, Keeps DEF Pcs
  <1>6. CASE /\ (back \/ swapped) /\ Goto(j, IF back THEN "put_back" ELSE "sweep")
             /\ UNCHANGED <<transition, faults>> /\ world' = [world EXCEPT ![n] = "none"]
    <2> DEFINE next == IF back THEN "put_back" ELSE "sweep"
    <2>1. Moves(j, next) /\ Knows(j)
      BY <1>1, <1>6, GotoMoves DEF Pcs
    <2>2. world' \in [Nodes -> Trees] /\ world'[n] = "none" /\ \A m \in Nodes : m # n => world'[m] = world[m]
      BY <1>1, <1>6 DEF WorldStoreTypeOK, Trees
    <2>3. WorldStoreTypeOK' /\ Safe'
      BY <1>1, <1>4, <1>6, <2>1, <2>2 DEF WorldStoreTypeOK, Moves
    <2>4. Recovering(j)'
      <3>1. job[j].phase \in Uncommitted
        BY <1>2, <1>6
      <3>2. ~back => old[w] = "none"
        <4>1. back \/ entry[w].phase = "none" \/ (entry[w].phase \in Uncommitted /\ ~entry[w].had_old)
          BY <1>2, <1>6, <3>1
        <4> QED
          BY <1>1, <1>2, <4>1 DEF Journals
      <3>3. job'[j].pc = next /\ job'[j].found = w /\ job'[j].phase = job[j].phase /\ job'[j].node = n
            /\ job'[j].had_old = job[j].had_old /\ job'[j].rolling = job[j].rolling
        BY <2>1 DEF Moves, Knows
      <3> HIDE DEF w, n, back
      <3> QED
        BY <1>1, <1>2, <3>1, <3>2, <3>3 DEF Recovering, Recoveries
    <2>5. ASSUME j \in Writers PROVE Swapping(j)'
      <3>1. job[j].rolling => SetAside(j)' /\ Exists(stage[j])' /\ (job[j].had_old <=> job[j].before # "none")
                              /\ job[j].phase = "old_moved"
        BY <1>1, <2>1, <2>2, <2>5 DEF Swapping, Recoveries, Knows, SetAside, Exists
      <3>2. job[j].rolling => back
        BY <1>1, <1>2, <1>6, <2>5, <3>1 DEF Swapping, Recoveries, Exists
      <3> HIDE DEF back
      <3> QED
        BY <1>1, <2>1, <2>5, <3>1, <3>2 DEF Swapping, SwapSteps, Recoveries, Active, Moves, Knows
    <2> QED
      BY <1>1, <1>3, <1>6, <2>1, <2>3, <2>4, <2>5, Keeps DEF Pcs
  <1>7. CASE (back \/ swapped) /\ Fails(j) /\ world' = [world EXCEPT ![n] = "partial"] /\ faults' \in 0..MaxFaults
    <2>1. Moves(j, "answered") /\ Knows(j) /\ transition' = IF transition = j THEN NoOne ELSE transition
      BY <1>1, <1>7, AnswerMoves DEF Fails
    <2>2. world' \in [Nodes -> Trees] /\ \A m \in Nodes : m # n => world'[m] = world[m]
      BY <1>1, <1>7 DEF WorldStoreTypeOK, Trees
    <2>3. WorldStoreTypeOK' /\ Safe'
      BY <1>1, <1>4, <1>7, <2>1, <2>2 DEF WorldStoreTypeOK, Moves
    <2> QED
      BY <1>1, <1>3, <1>7, <2>1, <2>3, Keeps DEF Pcs
  <1> USE DEF Committed
  <1> QED
    BY <1>1, <1>5, <1>6, <1>7, WorldStoreAssumption DEF Decide, WorldStoreTypeOK

\* The tree that was set aside is put back.
LEMMA PutBackKeeps ==
  ASSUME WorldInv, NEW j \in Jobs, PutBack(j)
  PROVE  WorldInv'
  <1> USE JobsAre DEF At, Holds, Rest, Fault
  <1> DEFINE w == job[j].found
             n == job[j].node
  <1>1. /\ job[j].pc = "put_back" /\ Active(j) /\ WorldStoreTypeOK /\ Journals /\ Safe /\ Recovering(j)
        /\ UNCHANGED <<owner, crashes, stage, entry>> /\ (j \in Writers => Swapping(j)) /\ n \in Nodes
    BY DEF PutBack, Active, WorldInv, WorldStoreTypeOK, Job
  <1>2. /\ w \in Writers /\ job[j].phase \in Uncommitted
        /\ entry[w].phase # "none" => entry[w] = [phase |-> job[j].phase, node |-> n, had_old |-> job[j].had_old]
        /\ job[j].phase \in Uncommitted /\ n = owner => job[j].had_old
        /\ job[j].rolling => j \in Writers /\ w = j
    BY <1>1 DEF Recovering, Recoveries
  <1>3. CASE /\ Exists(old[w]) /\ world[n] \in {"none", "empty"} /\ Goto(j, "sweep") /\ UNCHANGED <<transition, faults>>
             /\ world' = [world EXCEPT ![n] = old[w]] /\ Clear(old, w)
    <2>1. Moves(j, "sweep") /\ Knows(j)
      BY <1>1, <1>3, GotoMoves DEF Pcs
    <2>2. /\ world'[n] = old[w] /\ (\A m \in Nodes : m # n => world'[m] = world[m])
          /\ old'[w] = "none" /\ (\A v \in Writers : v # w => old'[v] = old[v])
      BY <1>1, <1>2, <1>3 DEF WorldStoreTypeOK, Clear
    <2>3. WorldStoreTypeOK'
      BY <1>1, <1>2, <1>3, <2>1 DEF WorldStoreTypeOK, Moves, Clear, Trees
    <2>4. Journals' /\ Shrinks
      BY <1>1, <1>2, <2>2 DEF Journals, Shrinks
    <2>5. Safe'
      <3>1. entry[w].phase # "none"
        BY <1>1, <1>2, <1>3 DEF Journals, Exists
      <3>2. CASE n = owner
        <4>1. old[w] \in Whole
          BY <1>1, <1>2, <1>3, <3>1, <3>2 DEF Journals, Exists
        <4> QED
          BY <1>1, <2>2, <3>2, <4>1 DEF Safe
      <3>3. CASE n # owner
        BY <1>1, <1>2, <2>2, <3>1, <3>3 DEF Safe, WorldStoreTypeOK
      <3> QED
        BY <3>2, <3>3
    <2>6. Recovering(j)'
      BY <1>1, <1>2, <2>1, <2>2 DEF Recovering, Recoveries, Moves, Knows
    <2>7. ASSUME j \in Writers PROVE Swapping(j)'
      BY <1>1, <1>2, <2>1, <2>2, <2>7 DEF Swapping, SwapSteps, Recoveries, Active, Moves, Knows, SetAside
    <2> QED
      BY <1>1, <1>3, <2>1, <2>3, <2>4, <2>5, <2>6, <2>7, Keeps DEF Pcs
  <1>4. CASE Fails(j) /\ UNCHANGED <<world, old>> /\ faults' \in 0..MaxFaults
    <2>1. Moves(j, "answered") /\ Knows(j) /\ transition' = IF transition = j THEN NoOne ELSE transition
      BY <1>1, <1>4, AnswerMoves DEF Fails
    <2>2. WorldStoreTypeOK' /\ Journals' /\ Safe' /\ Shrinks
      BY <1>1, <1>4, <2>1 DEF WorldStoreTypeOK, Moves, Journals, Safe, Shrinks
    <2> QED
      BY <1>1, <1>4, <2>1, <2>2, Keeps DEF Pcs
  <1> QED
    BY <1>1, <1>3, <1>4, WorldStoreAssumption DEF PutBack, WorldStoreTypeOK

\* What is left of the swap goes, and its journal last.
LEMMA SweepKeeps ==
  ASSUME WorldInv, NEW j \in Jobs, Sweep(j)
  PROVE  WorldInv'
  <1> USE JobsAre DEF At, Holds, Rest, Fault
  <1> DEFINE w == job[j].found
             n == job[j].node
  <1>1. /\ job[j].pc = "sweep" /\ Active(j) /\ WorldStoreTypeOK /\ Journals /\ Safe /\ Recovering(j)
        /\ UNCHANGED <<owner, crashes, world>> /\ (j \in Writers => Swapping(j))
    BY DEF Sweep, Active, WorldInv, WorldStoreTypeOK, Job
  <1>2. /\ w \in Writers /\ (job[j].phase \in Committed \/ old[w] = "none")
        /\ entry[w].phase # "none" => entry[w] = [phase |-> job[j].phase, node |-> n, had_old |-> job[j].had_old]
    BY <1>1 DEF Recovering, Recoveries
  <1>3. entry[w].phase \notin Uncommitted \/ old[w] = "none"
    BY <1>2 DEF Uncommitted, Committed
  <1>4. ASSUME Clear(stage, w), Clear(old, w), RemoveEntry(w)
        PROVE  /\ stage' \in [Writers -> Trees] /\ old' \in [Writers -> Trees] /\ entry' \in [Writers -> Entry]
               /\ Journals' /\ Safe' /\ Shrinks
    <2>1. /\ stage' \in [Writers -> Trees] /\ old' \in [Writers -> Trees] /\ entry' \in [Writers -> Entry]
          /\ entry'[w] = NoEntry /\ old'[w] = "none"
          /\ \A v \in Writers : v # w => entry'[v] = entry[v] /\ old'[v] = old[v]
      BY <1>1, <1>2, <1>4 DEF WorldStoreTypeOK, Clear, RemoveEntry, NoEntry, Entry, Nodes, Trees
    <2>2. Journals' /\ Shrinks
      BY <1>1, <1>2, <2>1 DEF Journals, Shrinks, NoEntry, Uncommitted
    <2>3. Safe'
      BY <1>1, <1>2, <1>3, <2>1 DEF Safe, Whole
    <2> QED
      BY <2>1, <2>2, <2>3
  <1>5. CASE Clear(stage, w) /\ Clear(old, w) /\ RemoveEntry(w) /\ Goto(j, "recover") /\ UNCHANGED <<transition, faults>>
    <2>1. Moves(j, "recover") /\ Knows(j)
      BY <1>1, <1>5, GotoMoves DEF Pcs
    <2>2. WorldStoreTypeOK'
      BY <1>1, <1>4, <1>5, <2>1 DEF WorldStoreTypeOK, Moves
    <2>3. Recovering(j)' /\ (j \in Writers => Swapping(j)')
      BY <1>1, <2>1 DEF Recovering, Swapping, SwapSteps, Recoveries, Active, Moves, Knows
    <2> QED
      BY <1>1, <1>4, <1>5, <2>1, <2>2, <2>3, Keeps DEF Pcs
  <1>6. CASE Clear(stage, w) /\ Clear(old, w) /\ RemoveEntry(w) /\ Fails(j) /\ UNCHANGED faults
    <2>1. Moves(j, "answered") /\ Knows(j) /\ transition' = IF transition = j THEN NoOne ELSE transition
      BY <1>1, <1>6, AnswerMoves DEF Fails
    <2>2. WorldStoreTypeOK'
      BY <1>1, <1>4, <1>6, <2>1 DEF WorldStoreTypeOK, Moves
    <2> QED
      BY <1>1, <1>4, <1>6, <2>1, <2>2, Keeps DEF Pcs
  <1>7. CASE /\ Fails(j) /\ UNCHANGED entry /\ Clear(stage, w) /\ faults' \in 0..MaxFaults
             /\ old' = IF Exists(old[w]) THEN [old EXCEPT ![w] = "partial"] ELSE old
    <2>1. Moves(j, "answered") /\ Knows(j) /\ transition' = IF transition = j THEN NoOne ELSE transition
      BY <1>1, <1>7, AnswerMoves DEF Fails
    <2>2. /\ old' \in [Writers -> Trees] /\ (old[w] = "none" => old'[w] = "none")
          /\ \A v \in Writers : v # w => old'[v] = old[v]
      BY <1>1, <1>2, <1>7 DEF WorldStoreTypeOK, Trees, Exists
    <2>3. WorldStoreTypeOK'
      BY <1>1, <1>2, <1>7, <2>1, <2>2 DEF WorldStoreTypeOK, Moves, Clear, Trees
    <2>4. Journals' /\ Shrinks
      BY <1>1, <1>2, <1>3, <1>7, <2>2 DEF Journals, Shrinks, Exists
    <2>5. Safe'
      BY <1>1, <1>2, <1>3, <1>7, <2>2 DEF Safe, Whole
    <2> QED
      BY <1>1, <1>7, <2>1, <2>3, <2>4, <2>5, Keeps DEF Pcs
  <1> QED
    BY <1>1, <1>5, <1>6, <1>7, WorldStoreAssumption DEF Sweep, WorldStoreTypeOK

-----------------------------------------------------------------------------
(* The game, crashes, and the theorems *)

\* The game plays while nobody holds the transition.
LEMMA PlayKeeps ==
  ASSUME WorldInv, Play
  PROVE  WorldInv'
  <1>1. /\ UNCHANGED <<owner, crashes, transition, stage, old, entry, job, faults>> /\ transition = NoOne
        /\ WorldStoreTypeOK /\ Holding /\ Apart /\ Journals /\ Safe
    BY DEF Play, Holds, Rest, WorldInv
  <1>2. /\ world' \in [Nodes -> Trees] /\ \A m \in Nodes : m # owner => world'[m] = world[m]
        /\ world[owner] \in Whole => world'[owner] \in Whole
    BY <1>1 DEF Play, WorldStoreTypeOK, Exists, Trees, Whole
  <1>3. WorldStoreTypeOK' /\ Holding' /\ Apart' /\ Journals' /\ Safe'
    BY <1>1, <1>2 DEF WorldStoreTypeOK, Holding, Apart, Active, Running, Journals, Safe
  <1>4. \A j \in Jobs : Recovering(j)'
    BY <1>1 DEF WorldInv, Recovering
  <1>5. ASSUME NEW j \in Writers PROVE Swapping(j)'
    <2>1. ~Active(j) /\ Swapping(j)
      BY <1>1, JobsAre DEF Holding, WorldInv
    <2> QED
      BY <1>1, <2>1 DEF Swapping, SwapSteps, Recoveries, Active
  <1> QED
    BY <1>3, <1>4, <1>5 DEF WorldInv

\* A crash ends every job where it is.
LEMMA CrashKeeps ==
  ASSUME WorldInv, Crash
  PROVE  WorldInv'
  <1>1. /\ UNCHANGED <<owner, world, stage, old, entry, faults>> /\ transition' = NoOne
        /\ WorldStoreTypeOK /\ Holding /\ Apart /\ Journals /\ Safe /\ crashes' \in 0..MaxCrashes
    BY WorldStoreAssumption DEF Crash, Files, WorldInv, WorldStoreTypeOK
  <1>2. ASSUME NEW j \in Jobs PROVE job'[j] \in Job /\ job'[j].archive = job[j].archive /\ ~Running(j)'
    BY <1>1 DEF Crash, Running, WorldStoreTypeOK, Job, Pcs
  <1>3. job' \in [Jobs -> Job]
    BY <1>1, <1>2 DEF Crash
  <1>4. WorldStoreTypeOK'
    BY <1>1, <1>3 DEF WorldStoreTypeOK
  <1>5. Journals' /\ Safe'
    BY <1>1 DEF Journals, Safe
  <1>6. Holding' /\ Apart'
    BY <1>1, <1>2, JobsAre DEF Holding, Apart, Active, Running
  <1>7. ASSUME NEW j \in Jobs PROVE Recovering(j)' /\ (j \in Writers => Swapping(j)')
    <2>1. j \in Writers => Swapping(j)
      BY DEF WorldInv
    <2> QED
      BY <1>2, <2>1 DEF Recovering, Swapping, SwapSteps, Recoveries, Active, Running
  <1> QED
    BY <1>4, <1>5, <1>6, <1>7, JobsAre DEF WorldInv

\* Nothing has begun in the initial state.
LEMMA WorldStarts == WorldInit => WorldInv
  <1> SUFFICES ASSUME WorldInit PROVE WorldInv
    OBVIOUS
  <1> USE JobsAre DEF WorldInit
  <1>1. \A j \in Jobs : Unstarted(j) \in Job /\ job[j] = Unstarted(j)
    BY DEF Unstarted, Job, Pcs, Nodes, Trees, Whole
  <1>2. WorldStoreTypeOK
    BY <1>1, WorldStoreAssumption DEF WorldStoreTypeOK, NoEntry, Entry, Nodes, Trees, Whole
  <1>3. Holding /\ Apart
    BY <1>1 DEF Holding, Apart, Unstarted, Active, Running
  <1>4. Journals /\ Safe
    BY DEF Journals, Safe, NoEntry, Uncommitted, Whole, Nodes
  <1>5. ASSUME NEW j \in Jobs PROVE Recovering(j) /\ (j \in Writers => Swapping(j))
    BY <1>1 DEF Recovering, Swapping, Unstarted, SwapSteps, Recoveries, Active
  <1> QED
    BY <1>2, <1>3, <1>4, <1>5 DEF WorldInv

\* Every step keeps the invariant.
LEMMA WorldSteps == ~BackupsOverlap /\ WorldInv /\ [WorldNext]_worldVars => WorldInv'
  <1> SUFFICES ASSUME ~BackupsOverlap, WorldInv, [WorldNext]_worldVars PROVE WorldInv'
    OBVIOUS
  <1>1. ASSUME NEW j \in Jobs, Step(j) PROVE WorldInv'
    BY <1>1, BeginKeeps, AcquireKeeps, OpenKeeps, CopyKeeps, RecoverKeeps, DecideKeeps, PutBackKeeps, SweepKeeps,
       StageKeeps, ExtractKeeps, SaveExtractedKeeps, MoveOldKeeps, SaveMovedKeeps, MoveNewKeeps, DropOldKeeps,
       FinishKeeps, VerifyKeeps DEF Step
  <1>2. CASE UNCHANGED worldVars
    BY <1>2 DEF worldVars, WorldInv, WorldStoreTypeOK, Holding, Apart, Active, Running, Journals, Safe, Recovering,
                Swapping, Wrote, InPlace, SetAside, Replaced, Exists
  <1> QED
    BY <1>1, <1>2, PlayKeeps, CrashKeeps DEF WorldNext

\* The files of a server's world, and what every job knows of them, agree at every step: for any number of
\* restores, migrations, backups, crashes and failed operations, while no backup meets a restore or a migration.
THEOREM WorldInvariant == ~BackupsOverlap => (WorldSpec => []WorldInv)
  <1> SUFFICES ASSUME ~BackupsOverlap PROVE WorldSpec => []WorldInv
    OBVIOUS
  <1>1. WorldInv /\ [WorldNext]_worldVars => WorldInv'
    BY WorldSteps
  <1> QED
    BY <1>1, WorldStarts, PTL DEF WorldSpec

\* Whenever no journal is left, the server's world is a whole one: the swap or the recovery that removed the
\* last journal of internal/worldstore left no half of a world behind.
THEOREM SettledWorldIsWholeHolds == ~BackupsOverlap => (WorldSpec => []SettledWorldIsWhole)
  <1> SUFFICES ASSUME ~BackupsOverlap PROVE WorldSpec => []SettledWorldIsWhole
    OBVIOUS
  <1>1. WorldInv => SettledWorldIsWhole
    BY DEF WorldInv, Safe, SettledWorldIsWhole, NoJournals, NoEntry, Uncommitted
  <1> QED
    BY <1>1, WorldInvariant, PTL

\* At every step, and after a crash at any of them, the server still has a whole world, in its place or set
\* aside where the recovery of internal/worldstore finds it.
THEOREM AWorldSurvivesHolds == ~BackupsOverlap => (WorldSpec => []AWorldSurvives)
  <1> SUFFICES ASSUME ~BackupsOverlap PROVE WorldSpec => []AWorldSurvives
    OBVIOUS
  <1>1. WorldInv => AWorldSurvives
    BY DEF WorldInv, Safe, AWorldSurvives
  <1> QED
    BY <1>1, WorldInvariant, PTL

-----------------------------------------------------------------------------
(* What the caller is told *)

\* A swap that calls rollback itself does nothing afterwards but answer.
Rolls == \A j \in Jobs : job[j].rolling => job[j].pc \in Recoveries \union {"answered", "dead"}

\* What a job's step leaves of its locals.
LEMMA Says ==
  ASSUME WorldStoreTypeOK, NEW j \in Jobs
  PROVE  /\ \A pc : Goto(j, pc) => /\ job'[j].pc = pc /\ job'[j].rolling = job[j].rolling
                                  /\ job'[j].answer = job[j].answer
         /\ \A a : Answer(j, a) => /\ job'[j].pc = "answered" /\ job'[j].rolling = job[j].rolling
                                  /\ job'[j].answer = a
         /\ \A r : Become(j, r) => job'[j] = r /\ \A i \in Jobs : i # j => job'[i] = job[i]
  <1>1. \A r : Become(j, r) => job'[j] = r /\ \A i \in Jobs : i # j => job'[i] = job[i]
    BY DEF Become, WorldStoreTypeOK
  <1>2. job[j] \in Job
    BY DEF WorldStoreTypeOK
  <1>3. ASSUME NEW pc, Goto(j, pc)
        PROVE  job'[j].pc = pc /\ job'[j].rolling = job[j].rolling /\ job'[j].answer = job[j].answer
    BY <1>2, <1>3 DEF WorldStoreTypeOK, Goto, Become, Job
  <1>4. ASSUME NEW a, Answer(j, a)
        PROVE  job'[j].pc = "answered" /\ job'[j].rolling = job[j].rolling /\ job'[j].answer = a
    BY <1>2, <1>4 DEF WorldStoreTypeOK, Answer, Become, Job
  <1> QED
    BY <1>1, <1>3, <1>4

\* A step writes the record of the job that takes it.
LEMMA BecomesOne ==
  ASSUME NEW j \in Jobs, Step(j)
  PROVE  \E r : Become(j, r)
  <1>1. \A pc : Goto(j, pc) => \E r : Become(j, r)
    BY DEF Goto
  <1>2. \A a : Answer(j, a) => \E r : Become(j, r)
    BY DEF Answer
  <1> QED
    BY <1>1, <1>2 DEF Step, Begin, Acquire, Open, Recover, Decide, PutBack, Sweep, Stage, Extract, SaveExtracted,
                      MoveOld, SaveMoved, MoveNew, DropOld, Finish, Copy, Verify, Fails

\* A step of a job keeps Rolls.
LEMMA StepRolls ==
  ASSUME WorldInv, Rolls, NEW j \in Jobs, Step(j)
  PROVE  Rolls'
  <1>1. /\ WorldStoreTypeOK /\ job[j] \in Job
        /\ job[j].rolling => job[j].pc \in Recoveries \union {"answered", "dead"}
    BY DEF WorldInv, WorldStoreTypeOK, Rolls
  <1> DEFINE Good == job'[j].rolling => job'[j].pc \in Recoveries \union {"answered", "dead"}
  <1>2. \A a : Answer(j, a) => Good
    BY <1>1, Says
  <1>3. \A pc : Goto(j, pc) /\ job[j].pc \notin Recoveries \union {"answered", "dead"} => Good
    BY <1>1, Says
  <1>4. \A pc \in Recoveries : Goto(j, pc) => Good
    BY <1>1, Says
  <1>5. \A r : Become(j, r) /\ (r.rolling => r.pc \in Recoveries) => Good
    BY <1>1, Says
  <1> HIDE DEF Good
  <1>6. ASSUME Begin(j) \/ Acquire(j)
        PROVE  Good
    <2>1. ~job[j].rolling
      BY <1>1, <1>6 DEF Begin, Acquire, At, Recoveries
    <2> DEFINE r == [job[j] EXCEPT !.pc = "open", !.node = owner]
    <2>2. ~r.rolling
      BY <1>1, <2>1 DEF Job
    <2> HIDE DEF r
    <2>3. Become(j, r) \/ Goto(j, "acquire") \/ Fails(j)
      BY <1>6 DEF Begin, Acquire, r
    <2> QED
      BY <1>1, <1>2, <1>3, <1>5, <1>6, <2>2, <2>3 DEF Fails, Begin, Acquire, At, Recoveries
  <1>7. ASSUME Recover(j)
        PROVE  Good
    <2>1. ~job[j].rolling
      BY <1>1, <1>7 DEF Recover, At, Recoveries
    <2>2. ~Opened(j).rolling
      BY <1>1, <2>1 DEF Opened, Job
    <2>3. ASSUME NEW w \in Writers
          PROVE  ~[job[j] EXCEPT !.pc = "decide", !.found = w, !.rolling = FALSE, !.phase = entry[w].phase,
                                 !.had_old = entry[w].had_old].rolling
      BY <1>1 DEF Job
    <2> QED
      BY <1>2, <1>5, <1>7, <2>2, <2>3 DEF Recover, Fails
  <1>8. ASSUME MoveNew(j)
        PROVE  Good
    <2> DEFINE r == [job[j] EXCEPT !.pc = "decide", !.found = j, !.rolling = TRUE, !.phase = "old_moved"]
    <2>1. r.pc \in Recoveries
      BY <1>1 DEF Job, Recoveries
    <2>2. Become(j, r) \/ Goto(j, "save_new_moved")
      BY <1>8 DEF MoveNew
    <2> HIDE DEF r
    <2> QED
      BY <1>3, <1>5, <1>8, <2>1, <2>2 DEF MoveNew, At, Recoveries
  <1>9. ASSUME Stage(j) \/ Copy(j)
        PROVE  Good
    <2>1. ~job[j].rolling
      BY <1>1, <1>9 DEF Stage, Copy, At, Recoveries
    <2>2. /\ ~[job[j] EXCEPT !.pc = "stage", !.archive = world[owner]].rolling
          /\ \A had : ~[job[j] EXCEPT !.pc = "extract", !.had_old = had, !.before = world[job[j].node]].rolling
      BY <1>1, <2>1 DEF Job
    <2> QED
      BY <1>2, <1>5, <1>9, <2>2 DEF Stage, Copy, Fails
  <1>10. ASSUME Decide(j) \/ PutBack(j) \/ Sweep(j)
        PROVE  Good
    <2>1. ASSUME Decide(j) PROVE Good
      BY <1>2, <1>4, <2>1 DEF Decide, Fails, Recoveries
    <2>2. ASSUME PutBack(j) PROVE Good
      BY <1>2, <1>4, <2>2 DEF PutBack, Fails, Recoveries
    <2>3. ASSUME Sweep(j) PROVE Good
      BY <1>1, <1>2, <2>3, Says DEF Sweep, Fails, Good
    <2> QED
      BY <1>10, <2>1, <2>2, <2>3
  <1>11. ASSUME Open(j) \/ Extract(j) \/ SaveExtracted(j) \/ MoveOld(j) \/ SaveMoved(j) \/ DropOld(j) \/ Finish(j)
              \/ Verify(j)
        PROVE  Good
    <2>1. job[j].pc \notin Recoveries \union {"answered", "dead"}
      BY <1>11 DEF Open, Extract, SaveExtracted, MoveOld, SaveMoved, DropOld, Finish, Verify, At, Recoveries
    <2>2. (\E pc : Goto(j, pc)) \/ \E a : Answer(j, a)
      BY <1>11 DEF Open, Extract, SaveExtracted, MoveOld, SaveMoved, DropOld, Finish, Verify, Fails
    <2> QED
      BY <1>2, <1>3, <2>1, <2>2
  <1>12. Good
    BY <1>6, <1>7, <1>8, <1>9, <1>10, <1>11 DEF Step
  <1>13. \A i \in Jobs : i # j => job'[i] = job[i]
    BY <1>1, BecomesOne, Says
  <1> QED
    BY <1>12, <1>13 DEF Good, Rolls

\* Every step keeps Rolls.
LEMMA RollsKeeps == WorldInv /\ Rolls /\ [WorldNext]_worldVars => Rolls'
  <1> SUFFICES ASSUME WorldInv, Rolls, [WorldNext]_worldVars PROVE Rolls'
    OBVIOUS
  <1>1. CASE Play \/ UNCHANGED worldVars
    BY <1>1 DEF Play, worldVars, Rolls
  <1>2. CASE Crash
    BY <1>2 DEF Crash, Rolls, WorldInv, WorldStoreTypeOK, Job
  <1> QED
    BY <1>1, <1>2, StepRolls DEF WorldNext

\* A step answers for the job that takes it.
LEMMA OneAnswers ==
  ASSUME WorldStoreTypeOK, NEW k \in Jobs, Step(k), NEW j \in Jobs, job'[j].answer # job[j].answer
  PROVE  j = k
  BY BecomesOne, Says

\* A success is answered by a finished restore or by a verified migration, with the archive's world in place.
LEMMA SuccessSteps ==
  ASSUME WorldInv, NEW j \in Writers, Step(j), job[j].answer = "none", job'[j].answer = "ok"
  PROVE  world'[owner'] = job[j].archive
  <1> USE JobsAre
  <1>1. job \in [Jobs -> Job] /\ j \in Jobs /\ Swapping(j) /\ WorldStoreTypeOK /\ job[j] \in Job
    BY DEF WorldInv, WorldStoreTypeOK
  <1>a. ~Fails(j) /\ \A pc : ~Goto(j, pc)
    BY <1>1, Says DEF Fails
  <1>b. \A r : Become(j, r) => r.answer = "ok"
    BY <1>1, Says
  <1>2. CASE Finish(j)
    <2>1. job[j].pc = "finish" /\ UNCHANGED <<owner, world>> /\ j \in Restorers
      BY <1>a, <1>2 DEF Finish, At, Rest
    <2> QED
      BY <1>1, <2>1 DEF Swapping, Active, Replaced
  <1>3. CASE Verify(j)
    BY <1>a, <1>3 DEF Verify, Files
  <1>4. CASE Begin(j) \/ Acquire(j) \/ Recover(j) \/ Copy(j) \/ Stage(j) \/ MoveNew(j)
    <2>1. /\ [job[j] EXCEPT !.pc = "open", !.node = owner].answer = "none"
          /\ Opened(j).answer = "none"
          /\ [job[j] EXCEPT !.pc = "stage", !.archive = world[owner]].answer = "none"
          /\ [job[j] EXCEPT !.pc = "decide", !.found = j, !.rolling = TRUE, !.phase = "old_moved"].answer = "none"
          /\ \A had : [job[j] EXCEPT !.pc = "extract", !.had_old = had, !.before = world[job[j].node]].answer = "none"
          /\ \A w : [job[j] EXCEPT !.pc = "decide", !.found = w, !.rolling = FALSE, !.phase = entry[w].phase,
                                   !.had_old = entry[w].had_old].answer = "none"
      BY <1>1 DEF Opened, Job
    <2> QED
      BY <1>a, <1>b, <1>4, <2>1 DEF Begin, Acquire, Recover, Copy, Stage, MoveNew
  <1>5. CASE Open(j) \/ Decide(j) \/ PutBack(j) \/ Sweep(j) \/ Extract(j) \/ SaveExtracted(j) \/ MoveOld(j)
             \/ SaveMoved(j) \/ DropOld(j)
    BY <1>a, <1>5 DEF Open, Decide, PutBack, Sweep, Extract, SaveExtracted, MoveOld, SaveMoved, DropOld
  <1> QED
    BY <1>2, <1>3, <1>4, <1>5 DEF Step

\* A failure is answered before the world has moved, or after the rollback has put it back.
LEMMA FailureSteps ==
  ASSUME WorldInv, Rolls, NEW j \in Writers, Step(j), job[j].answer = "none", job'[j].answer = "error",
         job[j].pc \in SwapSteps \ {"stage"} \/ job[j].rolling, entry'[j] = NoEntry
  PROVE  world'[job[j].node] = job[j].before
  <1> USE JobsAre DEF At, Rest, Holds
  <1>1. /\ job \in [Jobs -> Job] /\ j \in Jobs /\ Swapping(j) /\ Recovering(j) /\ WorldStoreTypeOK
        /\ job[j].rolling => job[j].pc \in Recoveries \union {"answered", "dead"}
    BY DEF WorldInv, WorldStoreTypeOK, Rolls
  <1>a. /\ \A pc : ~Goto(j, pc)
        /\ ~Answer(j, "ok")
        /\ \A r : Become(j, r) => r.answer = "error"
    BY <1>1, Says
  <1>2. CASE Extract(j) \/ MoveOld(j)
    <2>1. job[j].pc \in {"extract", "extract_rest", "move_old"}
      BY <1>2 DEF Extract, MoveOld
    <2>2. InPlace(j)
      BY <1>1, <2>1 DEF Swapping
    <2>3. world' = world
      BY <1>a, <1>2 DEF Extract, MoveOld
    <2> QED
      BY <2>2, <2>3 DEF InPlace
  <1>3. CASE SaveExtracted(j) \/ SaveMoved(j) \/ MoveNew(j) \/ DropOld(j)
    <2>1. job[j].pc \in {"save_extracted", "save_old_moved", "save_new_moved", "move_new", "drop_old"} /\ entry' = entry
      BY <1>a, <1>3 DEF SaveExtracted, SaveMoved, MoveNew, DropOld
    <2>2. entry[j].phase # "none"
      BY <1>1, <2>1 DEF Swapping, Wrote
    <2> QED
      BY <2>1, <2>2 DEF NoEntry
  <1>4. CASE Finish(j)
    <2>1. SavePhase(j, "complete")
      BY <1>a, <1>4 DEF Finish
    <2> QED
      BY <1>1, <2>1 DEF SavePhase, NoEntry, WorldStoreTypeOK
  <1>5. CASE Decide(j)
    <2>1. job[j].pc = "decide" /\ job[j].rolling /\ entry' = entry
      BY <1>1, <1>5 DEF Decide, SwapSteps
    <2>2. /\ job[j].found = j /\ SetAside(j) /\ Exists(stage[j]) /\ (job[j].had_old <=> job[j].before # "none")
      BY <1>1, <2>1 DEF Swapping, Recovering, Recoveries
    <2>4. job[j].had_old /\ Exists(old[j])
      BY <1>a, <1>5, <2>2 DEF Decide
    <2>5. entry[j].phase # "none"
      BY <2>4 DEF WorldInv, Journals, Exists
    <2> QED
      BY <2>1, <2>5 DEF NoEntry
  <1>6. CASE PutBack(j)
    <2>1. job[j].pc = "put_back" /\ job[j].rolling /\ entry' = entry /\ world' = world
      BY <1>a, <1>6 DEF PutBack, SwapSteps
    <2>2. entry[j].phase = "none" /\ old[j] = "none"
      BY <2>1 DEF NoEntry, WorldInv, Journals
    <2>3. /\ SetAside(j) /\ (job[j].had_old <=> job[j].before # "none")
          /\ job[j].node = owner => job[j].had_old
      BY <1>1, <2>1 DEF Swapping, Recovering, Recoveries
    <2> QED
      BY <2>1, <2>2, <2>3 DEF SetAside
  <1>7. CASE Sweep(j)
    <2>1. job[j].pc = "sweep" /\ job[j].rolling /\ world' = world
      BY <1>7 DEF Sweep, SwapSteps
    <2> QED
      BY <1>1, <2>1 DEF Swapping
  <1>8. CASE Begin(j) \/ Acquire(j) \/ Open(j) \/ Recover(j) \/ Stage(j) \/ Copy(j) \/ Verify(j)
    <2>1. job[j].pc \in {"idle", "acquire", "open", "recover", "stage", "copy", "verify"}
      BY <1>8 DEF Begin, Acquire, Open, Recover, Stage, Copy, Verify
    <2> QED
      BY <1>1, <2>1 DEF SwapSteps, Recoveries
  <1> QED
    BY <1>2, <1>3, <1>4, <1>5, <1>6, <1>7, <1>8 DEF Step

\* What RestoreBackup and MigrateServer tell their caller is what happened to the tree: success means that
\* the archive's world is in place at the owner, and a failure that leaves no journal that the world which was
\* there before still is.
THEOREM AnswersAreTrueHolds == ~BackupsOverlap => (WorldSpec => AnswersAreTrue)
  <1> SUFFICES ASSUME ~BackupsOverlap PROVE WorldSpec => AnswersAreTrue
    OBVIOUS
  <1> DEFINE Succeeds == \A j \in Writers :
               (job[j].answer = "none" /\ job'[j].answer = "ok") => world'[owner'] = job[j].archive
             Restores == \A j \in Writers :
               (/\ job[j].answer = "none" /\ job'[j].answer = "error"
                /\ job[j].pc \in SwapSteps \ {"stage"} \/ job[j].rolling
                /\ entry'[j] = NoEntry)
               => world'[job[j].node] = job[j].before
  <1>1. WorldInit => Rolls
    BY DEF WorldInit, Unstarted, Rolls
  <1>2. WorldInv /\ Rolls /\ [WorldNext]_worldVars => Rolls'
    BY RollsKeeps
  <1>3. ASSUME WorldInv, Rolls, WorldNext PROVE Succeeds /\ Restores
    <2>1. ASSUME NEW k \in Jobs, Step(k) PROVE Succeeds /\ Restores
      <3>1. ASSUME NEW j \in Writers, job[j].answer # job'[j].answer PROVE j = k
        <4>1. WorldStoreTypeOK /\ j \in Jobs
          BY <1>3, JobsAre DEF WorldInv
        <4> QED
          BY <2>1, <3>1, <4>1, OneAnswers
      <3> QED
        BY <1>3, <2>1, <3>1, SuccessSteps, FailureSteps
    <2>2. CASE Play \/ Crash
      <3>1. \A j \in Writers : job'[j].answer = job[j].answer
        <4>1. \A j \in Jobs : job[j] \in Job
          BY <1>3 DEF WorldInv, WorldStoreTypeOK
        <4> QED
          BY <2>2, <4>1, JobsAre DEF Play, Crash, Job
      <3> QED
        BY <3>1
    <2> QED
      BY <1>3, <2>1, <2>2 DEF WorldNext
  <1>4. WorldInv /\ Rolls /\ [WorldNext]_worldVars => [Succeeds]_worldVars /\ [Restores]_worldVars
    BY <1>3
  <1> QED
    BY <1>1, <1>2, <1>4, WorldInvariant, PTL DEF WorldSpec, AnswersAreTrue, SuccessIsTheArchive, FailureKeepsTheWorld
-----------------------------------------------------------------------------
(* The swap is one step *)

\* A migration reads the world at home and writes it away, and nobody touches what it has read.
Moving ==
  /\ \A j \in Restorers : job[j].pc # "verify"
  /\ \A j \in Movers : Active(j) => owner = "home"
  /\ \A j \in Movers : job[j].pc \in SwapSteps \union {"copy", "verify"} => job[j].node = "away"
  /\ \A j \in Movers : job[j].pc \in SwapSteps \union {"verify"} => job[j].archive = world[owner]

\* Where a migration's swap goes on, its node and its archive stay.
LEMMA OwnStepMoves ==
  ASSUME WorldInv, Moving, NEW j \in Writers, Step(j)
  PROVE  /\ j \in Restorers => job'[j].pc # "verify"
         /\ j \in Movers /\ Active(j)' => owner' = "home"
         /\ j \in Movers /\ job'[j].pc \in SwapSteps \union {"copy", "verify"} => job'[j].node = "away"
         /\ j \in Movers /\ job'[j].pc \in SwapSteps \union {"verify"} => job'[j].archive = world'[owner']
  <1> USE JobsAre DEF At, Rest, Holds
  <1> DEFINE Good == /\ j \in Restorers => job'[j].pc # "verify"
                     /\ j \in Movers /\ Active(j)' => owner' = "home"
                     /\ j \in Movers /\ job'[j].pc \in SwapSteps \union {"copy", "verify"} => job'[j].node = "away"
                     /\ j \in Movers /\ job'[j].pc \in SwapSteps \union {"verify"} => job'[j].archive = world'[owner']
  <1>1. /\ j \in Jobs /\ WorldStoreTypeOK /\ job[j] \in Job /\ Swapping(j)
        /\ j \in Restorers => j \notin Movers
        /\ j \notin Movers => j \in Restorers
    BY WorldStoreAssumption DEF WorldInv, WorldStoreTypeOK, Writers
  <1>2. \A pc : Goto(j, pc) => /\ job'[j].pc = pc /\ job'[j].node = job[j].node /\ job'[j].archive = job[j].archive
    BY <1>1 DEF WorldStoreTypeOK, Goto, Become, Job
  <1>3. \A a : Answer(j, a) => job'[j].pc = "answered"
    BY <1>1, Says
  <1>4. ASSUME Fails(j) PROVE Good
    BY <1>3, <1>4 DEF Fails, Active, SwapSteps
  <1>5. ASSUME Begin(j) PROVE Good
    <2>1. Goto(j, "acquire")
      BY <1>5 DEF Begin
    <2> QED
      BY <1>2, <2>1 DEF Active, SwapSteps
  <1>6. ASSUME Acquire(j) PROVE Good
    <2> DEFINE r == [job[j] EXCEPT !.pc = "open", !.node = owner]
    <2>1. r.pc = "open"
      BY <1>1 DEF Job
    <2> HIDE DEF r
    <2>2. Fails(j) \/ (Become(j, r) /\ owner' = owner /\ (j \in Movers => owner = "home"))
      BY <1>6 DEF Acquire, r
    <2>3. Become(j, r) => job'[j].pc = "open"
      BY <1>1, <2>1, Says
    <2> QED
      BY <1>4, <2>2, <2>3 DEF SwapSteps
  <1>7. ASSUME Active(j), owner' = owner, \E pc \in Recoveries \union {"recover"} : Goto(j, pc) PROVE Good
    BY <1>2, <1>7 DEF Moving, Recoveries, SwapSteps
  <1>8. ASSUME Open(j) \/ Decide(j) \/ PutBack(j) \/ Sweep(j) PROVE Good
    <2>1. Active(j) /\ owner' = owner
      BY <1>8 DEF Open, Decide, PutBack, Sweep, Active
    <2>2. Fails(j) \/ \E pc \in Recoveries \union {"recover"} : Goto(j, pc)
      BY <1>8 DEF Open, Decide, PutBack, Sweep, Recoveries
    <2> QED
      BY <1>4, <1>7, <2>1, <2>2
  <1>9. ASSUME Recover(j) PROVE Good
    <2>1. Active(j) /\ owner' = owner /\ owner \in Nodes
      BY <1>1, <1>9 DEF Recover, Active, WorldStoreTypeOK
    <2>2. /\ j \in Restorers => Opened(j).pc = "stage"
          /\ j \in Movers => \/ Opened(j).pc = "open"
                             \/ Opened(j).pc = "copy" /\ Opened(j).node = job[j].node /\ job[j].node # owner
      <3>1. j \in Movers => j \notin Restorers
        BY WorldStoreAssumption
      <3> QED
        BY <1>1, <3>1 DEF Opened, Job
    <2> DEFINE r(w) == [job[j] EXCEPT !.pc = "decide", !.found = w, !.rolling = FALSE,
                                      !.phase = entry[w].phase, !.had_old = entry[w].had_old]
    <2>3. \A w : r(w).pc = "decide"
      BY <1>1 DEF Job
    <2> HIDE DEF r
    <2>4. Fails(j) \/ Become(j, Opened(j)) \/ \E w \in Writers : Become(j, r(w))
      BY <1>9 DEF Recover, r
    <2>5. Fails(j) \/ job'[j] = Opened(j) \/ \E w : job'[j] = r(w)
      BY <1>1, <2>4, Says
    <2>6. j \in Movers => owner = "home"
      BY <2>1 DEF Moving
    <2>7. job[j].node \in Nodes
      BY <1>1 DEF Job
    <2>8. CASE job'[j] = Opened(j)
      BY <1>1, <2>1, <2>2, <2>6, <2>7, <2>8 DEF Nodes, SwapSteps
    <2>9. CASE job'[j].pc = "decide"
      BY <2>1, <2>6, <2>9 DEF SwapSteps
    <2> QED
      BY <1>4, <2>3, <2>5, <2>8, <2>9
  <1>10. ASSUME Copy(j) PROVE Good
    <2> DEFINE r == [job[j] EXCEPT !.pc = "stage", !.archive = world[owner]]
    <2>1. r.pc = "stage" /\ r.node = job[j].node /\ r.archive = world[owner]
      BY <1>1 DEF Job
    <2> HIDE DEF r
    <2>2. /\ owner' = owner /\ world' = world /\ job[j].pc = "copy"
          /\ Fails(j) \/ job'[j] = r
      BY <1>1, <1>10, Says DEF Copy, Files, r
    <2>3. j \in Movers => owner = "home" /\ job[j].node = "away"
      BY <2>2 DEF Moving, Active
    <2> QED
      BY <1>1, <1>4, <2>1, <2>2, <2>3
  <1>11. ASSUME Active(j), owner' = owner, job[j].pc \in SwapSteps, j \in Movers => world'[owner] = world[owner],
                \E pc \in SwapSteps : Goto(j, pc)
         PROVE  Good
    BY <1>2, <1>11 DEF Moving, SwapSteps
  <1>12. ASSUME Extract(j) \/ SaveExtracted(j) \/ MoveOld(j) \/ SaveMoved(j) \/ DropOld(j)
         PROVE  Good
    <2>1. Active(j) /\ owner' = owner /\ job[j].pc \in SwapSteps
      BY <1>12 DEF Extract, SaveExtracted, MoveOld, SaveMoved, DropOld, Active, SwapSteps
    <2>2. Fails(j) \/ \E pc \in SwapSteps : Goto(j, pc)
      BY <1>12 DEF Extract, SaveExtracted, MoveOld, SaveMoved, DropOld, SwapSteps
    <2>3. j \in Movers => owner = "home" /\ job[j].node = "away"
      BY <2>1 DEF Moving
    <2>4. j \in Movers => world'[owner] = world[owner]
      BY <1>1, <1>12, <2>3 DEF Extract, SaveExtracted, MoveOld, SaveMoved, DropOld, Files, WorldStoreTypeOK
    <2> QED
      BY <1>4, <1>11, <2>1, <2>2, <2>4
  <1>13. ASSUME Stage(j) PROVE Good
    <2> DEFINE r == [job[j] EXCEPT !.pc = "extract", !.had_old = Exists(world[job[j].node]),
                                   !.before = world[job[j].node]]
    <2>1. r.pc = "extract" /\ r.node = job[j].node /\ r.archive = job[j].archive
      BY <1>1 DEF Job
    <2> HIDE DEF r
    <2>2. /\ owner' = owner /\ world' = world /\ job[j].pc = "stage"
          /\ Fails(j) \/ job'[j] = r
      BY <1>1, <1>13, Says DEF Stage, r
    <2>3. j \in Movers => owner = "home" /\ job[j].node = "away" /\ job[j].archive = world[owner]
      BY <2>2 DEF Moving, Active, SwapSteps
    <2> QED
      BY <1>1, <1>4, <2>1, <2>2, <2>3
  <1>14. ASSUME MoveNew(j) PROVE Good
    <2> DEFINE r == [job[j] EXCEPT !.pc = "decide", !.found = j, !.rolling = TRUE, !.phase = "old_moved"]
    <2>1. r.pc = "decide"
      BY <1>1 DEF Job
    <2> HIDE DEF r
    <2>2. Active(j) /\ owner' = owner /\ job[j].pc = "move_new"
      BY <1>14 DEF MoveNew, Active
    <2>3. j \in Movers => owner = "home" /\ job[j].node = "away"
      BY <2>2 DEF Moving, SwapSteps
    <2>4. \/ job'[j] = r
          \/ Goto(j, "save_new_moved") /\ (j \in Movers => world'[owner] = world[owner])
      BY <1>1, <1>14, <2>3, Says DEF MoveNew, WorldStoreTypeOK, r
    <2>5. CASE job'[j] = r
      BY <2>1, <2>2, <2>3, <2>5 DEF SwapSteps
    <2>6. CASE Goto(j, "save_new_moved") /\ (j \in Movers => world'[owner] = world[owner])
      BY <1>11, <2>2, <2>6 DEF SwapSteps
    <2> QED
      BY <2>4, <2>5, <2>6
  <1>15. ASSUME Finish(j) PROVE Good
    <2>1. /\ Active(j) /\ owner' = owner /\ world' = world /\ job[j].pc = "finish"
          /\ Fails(j) \/ Answer(j, "ok") \/ (j \notin Restorers /\ Goto(j, "verify"))
      BY <1>15 DEF Finish, Active
    <2>2. j \in Movers => owner = "home" /\ job[j].node = "away" /\ job[j].archive = world[owner]
      BY <2>1 DEF Moving, SwapSteps
    <2>3. CASE Answer(j, "ok")
      BY <1>3, <2>3 DEF Active, SwapSteps
    <2>4. CASE j \notin Restorers /\ Goto(j, "verify")
      BY <1>2, <2>1, <2>2, <2>4
    <2> QED
      BY <1>4, <2>1, <2>3, <2>4
  <1>16. ASSUME Verify(j) PROVE Good
    <2>1. Fails(j) \/ Answer(j, "ok")
      BY <1>16 DEF Verify
    <2>2. CASE Answer(j, "ok")
      BY <1>3, <2>2 DEF Active, SwapSteps
    <2> QED
      BY <1>4, <2>1, <2>2
  <1> HIDE DEF Good
  <1>17. Good
    BY <1>5, <1>6, <1>8, <1>9, <1>10, <1>12, <1>13, <1>14, <1>15, <1>16 DEF Step
  <1> QED
    BY <1>17 DEF Good

\* What another job leaves to a migration.
LEMMA OthersLeaveMoving ==
  ASSUME ~BackupsOverlap, WorldInv, Moving, NEW k \in Jobs, Step(k), NEW j \in Movers, Active(j), j # k
  PROVE  owner' = owner /\ (job[j].archive = world[owner] /\ job[j].archive \in Whole => world'[owner] = world[owner])
  <1> USE JobsAre
  <1>1. j \in Writers /\ j \in Jobs /\ WorldStoreTypeOK /\ transition = j /\ transition # NoOne
    BY Alone DEF Writers, WorldInv
  <1>2. ~Active(k)
    BY <1>1, Alone
  <1>3. Running(j)
    BY DEF Active, Running
  <1>4. k \in Writers /\ (Begin(k) \/ Acquire(k))
    BY <1>1, <1>2, <1>3 DEF Step, Active, At, Begin, Open, Recover, Decide, PutBack, Sweep, Copy, Stage, Extract,
                      SaveExtracted, MoveOld, SaveMoved, MoveNew, DropOld, Finish, Verify
  <1>5. CASE Begin(k)
    BY <1>1, <1>4, <1>5 DEF Begin, Rest, Made, Exists, Whole, WorldStoreTypeOK
  <1>6. CASE Acquire(k)
    BY <1>1, <1>6 DEF Acquire, Rest
  <1> QED
    BY <1>4, <1>5, <1>6

\* Every step keeps Moving.
LEMMA MovingKeeps == ~BackupsOverlap /\ WorldInv /\ Moving /\ [WorldNext]_worldVars => Moving'
  <1> USE JobsAre
  <1> SUFFICES ASSUME ~BackupsOverlap, WorldInv, Moving, [WorldNext]_worldVars PROVE Moving'
    OBVIOUS
  <1>1. CASE UNCHANGED worldVars
    BY <1>1 DEF worldVars, Moving, Active
  <1>2. CASE Play
    <2>1. UNCHANGED <<owner, job>> /\ transition = NoOne
      BY <1>2 DEF Play, Rest
    <2>2. \A j \in Movers : ~Active(j)
      BY <2>1 DEF WorldInv, Holding, Writers, Jobs
    <2> QED
      BY <2>1, <2>2 DEF Moving, Active, SwapSteps
  <1>3. CASE Crash
    <2>1. \A j \in Jobs : job[j] \in Job
      BY DEF WorldInv, WorldStoreTypeOK
    <2>2. \A j \in Jobs : job'[j].pc \in {"idle", "answered", "dead"}
      BY <1>3, <2>1 DEF Crash, Running, Job
    <2> QED
      BY <2>2 DEF Moving, Active, SwapSteps, Writers, Jobs
  <1>4. ASSUME NEW k \in Jobs, Step(k) PROVE Moving'
    <2>1. WorldStoreTypeOK /\ \A i \in Jobs : i # k => job'[i] = job[i]
      BY <1>4, BecomesOne, Says DEF WorldInv
    <2>2. ASSUME NEW j \in Movers, j # k
          PROVE  /\ Active(j)' => owner' = "home"
                 /\ job'[j].pc \in SwapSteps \union {"copy", "verify"} => job'[j].node = "away"
                 /\ job'[j].pc \in SwapSteps \union {"verify"} => job'[j].archive = world'[owner']
      <3>1. j \in Writers /\ j \in Jobs /\ job'[j] = job[j] /\ Swapping(j)
        BY <2>1, <2>2 DEF Writers, WorldInv
      <3>2. CASE Active(j)
        BY <1>4, <2>2, <3>1, <3>2, OthersLeaveMoving DEF Moving, Swapping, Active
      <3>3. CASE ~Active(j)
        BY <3>1, <3>3 DEF Moving, Active, SwapSteps
      <3> QED
        BY <3>2, <3>3
    <2>3. k \in Movers \union Restorers => k \in Writers
      BY DEF Writers
    <2>4. \A j \in Restorers : j \in Jobs
      BY DEF Writers
    <2>5. \A j \in Restorers : job'[j].pc # "verify"
      BY <1>4, <2>1, <2>3, <2>4, OwnStepMoves DEF Moving
    <2> QED
      BY <1>4, <2>2, <2>3, <2>5, OwnStepMoves DEF Moving
  <1> QED
    BY <1>1, <1>2, <1>3, <1>4 DEF WorldNext

\* The world the server keeps is the tree set aside, if there is one, and otherwise the one in place.
LEMMA KeptIsAside ==
  ASSUME Journals, NEW w \in Writers, Promises(w)
  PROVE  Kept = old[w]
  <1>1. \A v \in Writers : Promises(v) => v = w
    BY DEF Journals, Promises, Uncommitted
  <1> QED
    BY <1>1 DEF Kept

LEMMA KeptIsAsideNext ==
  ASSUME Journals', NEW w \in Writers, Promises(w)'
  PROVE  Kept' = old'[w]
  <1>1. \A v \in Writers : Promises(v)' => v = w
    BY DEF Journals, Promises, Uncommitted
  <1> QED
    BY <1>1 DEF Kept

\* A step keeps the world when it moves no tree that counts: the trees set aside stay so, and the one in
\* place stays unless another is set aside.
LEMMA KeptStays ==
  ASSUME Journals, Journals',
         \A w \in Writers : (Promises(w)' <=> Promises(w)) /\ (Promises(w) => old'[w] = old[w]),
         (\E w \in Writers : Promises(w)) \/ world'[owner'] = world[owner]
  PROVE  Kept' = Kept
  <1>1. CASE \E w \in Writers : Promises(w)
    <2>1. PICK w \in Writers : Promises(w)
      BY <1>1
    <2> QED
      BY <2>1, KeptIsAside, KeptIsAsideNext
  <1>2. CASE ~\E w \in Writers : Promises(w)
    BY <1>2 DEF Kept
  <1> QED
    BY <1>1, <1>2

\* The call of a job that only moves on within its swap, and of one that answers.
LEMMA CallIs ==
  ASSUME NEW j \in Jobs
  PROVE  /\ job[j].pc = "answered" => Call[j] = job[j].answer
         /\ job[j].pc = "dead" => Call[j] = "dead"
         /\ j \in Restorers /\ job[j].pc \in {"drop_old", "finish"} => Call[j] = "replaced"
         /\ job[j].pc \notin {"answered", "dead"} /\ ~(j \in Restorers /\ job[j].pc \in {"drop_old", "finish"})
              => Call[j] = "open"
  BY DEF Call

\* Job j goes on and its call stays as it is.
LEMMA CallStays ==
  ASSUME NEW j \in Jobs, \A i \in Jobs : i # j => job'[i] = job[i],
         job[j].pc \notin {"answered", "dead"}, job'[j].pc \notin {"answered", "dead"},
         j \in Restorers => (job[j].pc \in {"drop_old", "finish"} <=> job'[j].pc \in {"drop_old", "finish"})
  PROVE  Call' = Call
  <1>1. \A i \in Jobs : Call'[i] = Call[i]
    BY DEF Call
  <1> QED
    BY <1>1 DEF Call

\* Job j answers.
LEMMA CallAnswers ==
  ASSUME NEW j \in Jobs, \A i \in Jobs : i # j => job'[i] = job[i],
         job[j].pc \notin {"answered", "dead"}, job'[j].pc = "answered", job'[j].answer \in {"ok", "error"},
         job'[j].answer = "ok" /\ j \in Restorers => job[j].pc \in {"drop_old", "finish"},
         Kept' = Kept
  PROVE  Atomic!Next
  <1>1. Call' = [Call EXCEPT ![j] = job'[j].answer]
    BY DEF Call
  <1>2. Call[j] \in Atomic!Live /\ (job'[j].answer = "ok" /\ j \in Restorers => Call[j] = "replaced")
    BY CallIs DEF Atomic!Live
  <1>3. Atomic!Answer(j, job'[j].answer)
    BY <1>1, <1>2 DEF Atomic!Answer
  <1> QED
    BY <1>3 DEF Atomic!Next

\* What a step of any job may rely on.
LEMMA Whereabouts ==
  ASSUME WorldInv
  PROVE  /\ WorldStoreTypeOK /\ Journals
         /\ (\E w \in Writers : Promises(w)) \/ world[owner] \in Whole
         /\ \A w \in Writers : entry[w].phase = "none" => ~Promises(w)
         /\ \A v, w \in Writers : Promises(v) /\ entry[w].phase # "none" => v = w
  BY DEF WorldInv, Safe, Journals, Promises, Uncommitted

\* The jobs that only look, and the directories they make where there is no world.
LEMMA LooksKeep ==
  ASSUME WorldInv, WorldInv', NEW j \in Jobs, Begin(j) \/ Acquire(j) \/ Open(j) \/ Recover(j) \/ Copy(j)
  PROVE  Kept' = Kept
  <1>1. UNCHANGED <<owner, old, entry>>
    BY DEF Begin, Acquire, Open, Recover, Copy, Rest, Files
  <1>2. world[owner] \in Whole => world'[owner] = world[owner]
    <2>1. WorldStoreTypeOK
      BY DEF WorldInv
    <2>2. CASE Begin(j)
      BY <2>1, <2>2 DEF Begin, Made, Exists, Whole, WorldStoreTypeOK
    <2>3. CASE Acquire(j)
      BY <2>1, <2>3 DEF Acquire, Made, Exists, Whole, WorldStoreTypeOK
    <2>4. CASE Open(j) \/ Recover(j) \/ Copy(j)
      BY <2>4 DEF Open, Recover, Copy, Files
    <2> QED
      BY <2>2, <2>3, <2>4
  <1>3. \A w \in Writers : (Promises(w)' <=> Promises(w)) /\ old'[w] = old[w]
    BY <1>1 DEF Promises
  <1> QED
    BY <1>1, <1>2, <1>3, KeptStays, Whereabouts DEF WorldInv

\* A recovery removes the tree in place only where another is set aside.
LEMMA DecideLeaves ==
  ASSUME WorldInv, WorldInv', NEW j \in Jobs, Decide(j)
  PROVE  Kept' = Kept
  <1> DEFINE w == job[j].found  n == job[j].node
             committed == job[j].phase \in {"new_moved", "complete"}
             back == ~committed /\ job[j].had_old /\ Exists(old[w])
             swapped == ~committed /\ ~job[j].had_old /\ ~Exists(stage[w])
  <1>1. /\ UNCHANGED <<owner, old, entry>> /\ Recovering(j) /\ job[j].pc = "decide" /\ WorldStoreTypeOK /\ Journals
        /\ ~back /\ ~swapped => world' = world
        /\ \A m \in Nodes : m # n => world'[m] = world[m]
    BY DEF Decide, At, Rest, WorldInv, WorldStoreTypeOK
  <1>2. /\ w \in Writers
        /\ entry[w].phase # "none" => entry[w] = [phase |-> job[j].phase, node |-> n, had_old |-> job[j].had_old]
        /\ job[j].phase \in Uncommitted /\ n = owner => job[j].had_old
        /\ job[j].phase \in Uncommitted \union Committed
    BY <1>1 DEF Recovering, Recoveries
  <1>3. ASSUME n = owner, back \/ swapped PROVE Promises(w)
    <2>1. job[j].phase \in Uncommitted /\ back
      BY <1>2, <1>3 DEF Committed, Uncommitted
    <2>2. entry[w].phase # "none"
      BY <1>1, <1>2, <2>1 DEF Journals, Exists
    <2>3. entry[w].phase \in Uncommitted /\ entry[w].node = owner
      BY <1>2, <1>3, <2>1, <2>2
    <2> QED
      BY <1>1, <1>2, <2>1, <2>3 DEF Journals, Promises, Exists
  <1>4. \A v \in Writers : (Promises(v)' <=> Promises(v)) /\ old'[v] = old[v]
    BY <1>1 DEF Promises
  <1>5. (\E v \in Writers : Promises(v)) \/ world'[owner'] = world[owner]
    <2>1. owner \in Nodes
      BY <1>1 DEF WorldStoreTypeOK
    <2> HIDE DEF back, swapped, n, w
    <2> QED
      BY <1>1, <1>2, <1>3, <2>1
  <1> QED
    BY <1>4, <1>5, KeptStays DEF WorldInv

\* The tree that is put back is the one that was kept.
LEMMA PutBackLeaves ==
  ASSUME WorldInv, WorldInv', NEW j \in Jobs, PutBack(j)
  PROVE  Kept' = Kept
  <1> DEFINE w == job[j].found  n == job[j].node
  <1>1. /\ UNCHANGED <<owner, entry>> /\ Recovering(j) /\ job[j].pc = "put_back" /\ WorldStoreTypeOK /\ Journals
        /\ n \in Nodes /\ owner \in Nodes /\ Journals'
    BY DEF PutBack, At, Rest, WorldInv, WorldStoreTypeOK, Job
  <1>2. /\ w \in Writers /\ job[j].phase \in Uncommitted
        /\ entry[w].phase # "none" => entry[w] = [phase |-> job[j].phase, node |-> n, had_old |-> job[j].had_old]
    BY <1>1 DEF Recovering, Recoveries
  <1>3. CASE Exists(old[w]) /\ world' = [world EXCEPT ![n] = old[w]] /\ Clear(old, w)
    <2>1. /\ entry[w].phase \in Uncommitted /\ entry[w].node = n
          /\ \A v \in Writers : v # w => entry[v].phase = "none"
      BY <1>1, <1>2, <1>3 DEF Journals, Exists, Uncommitted
    <2>2. /\ old'[w] = "none" /\ (\A v \in Writers : v # w => old'[v] = old[v])
          /\ world'[n] = old[w] /\ \A m \in Nodes : m # n => world'[m] = world[m]
      BY <1>1, <1>2, <1>3 DEF Clear, WorldStoreTypeOK
    <2>3. \A v \in Writers : ~Promises(v)'
      BY <1>1, <2>1, <2>2 DEF Promises, Uncommitted, Whole
    <2>4. Kept' = world'[owner]
      BY <1>1, <2>3 DEF Kept
    <2>5. CASE n = owner
      <3>1. Promises(w)
        BY <1>1, <1>2, <1>3, <2>1, <2>5 DEF Journals, Promises, Exists
      <3> QED
        BY <1>1, <1>2, <2>2, <2>4, <2>5, <3>1, KeptIsAside
    <2>6. CASE n # owner
      <3>1. \A v \in Writers : ~Promises(v)
        BY <2>1, <2>6 DEF Promises, Uncommitted
      <3> QED
        BY <1>1, <2>2, <2>4, <2>6, <3>1 DEF Kept
    <2> QED
      BY <2>5, <2>6
  <1>4. CASE UNCHANGED <<world, old>>
    <2>1. \A v \in Writers : (Promises(v)' <=> Promises(v)) /\ old'[v] = old[v]
      BY <1>1, <1>4 DEF Promises
    <2> QED
      BY <1>1, <1>4, <2>1, KeptStays
  <1> QED
    BY <1>3, <1>4 DEF PutBack

\* What a recovery sweeps away is not what the server keeps.
LEMMA SweepLeaves ==
  ASSUME WorldInv, WorldInv', NEW j \in Jobs, Sweep(j)
  PROVE  Kept' = Kept
  <1>1. /\ UNCHANGED <<owner, world>> /\ Recovering(j) /\ job[j].pc = "sweep" /\ WorldStoreTypeOK /\ Journals
        /\ Journals' /\ WorldStoreTypeOK'
    BY DEF Sweep, At, Rest, WorldInv
  <1>2. PICK w \in Writers :
          /\ w = job[j].found
          /\ entry[w].phase # "none" => entry[w].phase = job[j].phase
          /\ job[j].phase \in Committed \/ old[w] = "none"
    BY <1>1 DEF Recovering, Recoveries
  <1>3. ~Promises(w)
    BY <1>2 DEF Promises, Uncommitted, Committed, Whole
  <1>4. /\ \A v \in Writers : v # w => old'[v] = old[v] /\ entry'[v] = entry[v]
        /\ entry'[w] = entry[w] \/ entry'[w] = NoEntry
        /\ old'[w] \in {"none", "partial"}
    <2>1. CASE Clear(old, w) /\ RemoveEntry(w)
      BY <1>1, <1>2, <2>1 DEF Clear, RemoveEntry, WorldStoreTypeOK
    <2>2. CASE /\ UNCHANGED entry
               /\ old' = IF Exists(old[w]) THEN [old EXCEPT ![w] = "partial"] ELSE old
      BY <1>1, <1>2, <2>2 DEF WorldStoreTypeOK, Exists
    <2> QED
      BY <1>2, <2>1, <2>2 DEF Sweep
  <1>5. ~Promises(w)'
    BY <1>4 DEF Promises, Whole
  <1>6. \A v \in Writers : (Promises(v)' <=> Promises(v)) /\ (Promises(v) => old'[v] = old[v])
    BY <1>1, <1>3, <1>4, <1>5 DEF Promises
  <1> QED
    BY <1>1, <1>6, KeptStays

\* Until the old world is moved, the swap touches nothing but its stage and its journal.
LEMMA StagingLeaves ==
  ASSUME WorldInv, WorldInv', NEW j \in Writers, Stage(j) \/ Extract(j) \/ SaveExtracted(j)
  PROVE  Kept' = Kept
  <1>1. /\ UNCHANGED <<owner, world, old>> /\ Swapping(j) /\ Journals /\ Journals' /\ WorldStoreTypeOK
        /\ job[j].pc \in {"stage", "extract", "extract_rest", "save_extracted"}
    BY DEF Stage, Extract, SaveExtracted, At, Rest, WorldInv
  <1>2. old[j] = "none"
    BY <1>1 DEF Swapping, InPlace, Journals
  <1>3. \A w \in Writers : w # j => entry'[w] = entry[w]
    BY <1>1 DEF Stage, Extract, SaveExtracted, SavePhase, RemoveEntry, WorldStoreTypeOK
  <1>4. \A w \in Writers : (Promises(w)' <=> Promises(w)) /\ old'[w] = old[w]
    BY <1>1, <1>2, <1>3 DEF Promises, Whole
  <1> QED
    BY <1>1, <1>4, KeptStays

\* The world that is set aside is the one that was kept.
LEMMA MoveOldLeaves ==
  ASSUME WorldInv, WorldInv', NEW j \in Writers, MoveOld(j)
  PROVE  Kept' = Kept
  <1> USE JobsAre
  <1> DEFINE n == job[j].node
  <1>1. /\ UNCHANGED owner /\ Swapping(j) /\ Journals /\ Journals' /\ WorldStoreTypeOK /\ job[j].pc = "move_old"
        /\ n \in Nodes /\ owner \in Nodes
    BY DEF MoveOld, At, Rest, WorldInv, WorldStoreTypeOK, Job
  <1>2. Wrote(j, {"extracted"}) /\ InPlace(j)
    BY <1>1 DEF Swapping
  <1>3. (\A w \in Writers : ~Promises(w)) /\ Kept = world[owner] /\ world[owner] \in Whole
    <2>1. \A w \in Writers : ~Promises(w)
      BY <1>2, Whereabouts DEF Wrote, InPlace, Promises, Whole
    <2> QED
      BY <2>1, Whereabouts DEF Kept
  <1>4. CASE UNCHANGED entry /\ old' = [old EXCEPT ![j] = world[n]] /\ world' = [world EXCEPT ![n] = "none"]
    <2>1. /\ old'[j] = world[n] /\ (\A w \in Writers : w # j => old'[w] = old[w])
          /\ \A m \in Nodes : m # n => world'[m] = world[m]
      BY <1>1, <1>4 DEF WorldStoreTypeOK
    <2>2. CASE n = owner
      <3>1. Promises(j)'
        BY <1>1, <1>2, <1>3, <1>4, <2>1, <2>2 DEF Promises, Wrote, Uncommitted
      <3> QED
        BY <1>1, <1>3, <2>1, <2>2, <3>1, KeptIsAsideNext
    <2>3. CASE n # owner
      <3>1. \A w \in Writers : ~Promises(w)'
        BY <1>1, <1>2, <1>3, <1>4, <2>1, <2>3 DEF Promises, Wrote
      <3> QED
        BY <1>1, <1>3, <2>1, <2>3, <3>1 DEF Kept
    <2> QED
      BY <2>2, <2>3
  <1>5. CASE UNCHANGED <<world, old>> /\ (UNCHANGED entry \/ RemoveEntry(j))
    <2>1. \A w \in Writers : ~Promises(w)'
      BY <1>1, <1>2, <1>3, <1>5 DEF Promises, RemoveEntry, WorldStoreTypeOK, InPlace, NoEntry, Uncommitted
    <2> QED
      BY <1>1, <1>3, <1>5, <2>1 DEF Kept
  <1> QED
    BY <1>4, <1>5 DEF MoveOld, Files

\* The new tree goes in place while the old one is still the one that is kept.
LEMMA MoveNewLeaves ==
  ASSUME WorldInv, WorldInv', NEW j \in Writers, MoveNew(j)
  PROVE  Kept' = Kept
  <1> USE JobsAre
  <1> DEFINE n == job[j].node
  <1>1. /\ UNCHANGED <<owner, old, entry>> /\ Swapping(j) /\ Journals /\ WorldStoreTypeOK /\ job[j].pc = "move_new"
        /\ n \in Nodes /\ owner \in Nodes
    BY DEF MoveNew, At, Rest, WorldInv, WorldStoreTypeOK, Job
  <1>2. Wrote(j, {"old_moved"}) /\ SetAside(j) /\ (job[j].had_old <=> job[j].before # "none")
    BY <1>1 DEF Swapping
  <1>3. n = owner => Promises(j)
    BY <1>1, <1>2 DEF Wrote, SetAside, Journals, Promises, Uncommitted
  <1>4. n # owner => world'[owner] = world[owner]
    BY <1>1 DEF MoveNew, WorldStoreTypeOK
  <1>5. \A w \in Writers : (Promises(w)' <=> Promises(w)) /\ old'[w] = old[w]
    BY <1>1 DEF Promises
  <1> QED
    BY <1>1, <1>3, <1>4, <1>5, KeptStays DEF WorldInv

\* After the commit only what is not kept goes.
LEMMA EndingLeaves ==
  ASSUME WorldInv, WorldInv', NEW j \in Writers, DropOld(j) \/ Finish(j)
  PROVE  Kept' = Kept
  <1>1. /\ UNCHANGED <<owner, world>> /\ Swapping(j) /\ Journals /\ Journals' /\ WorldStoreTypeOK
        /\ job[j].pc \in {"drop_old", "finish"}
    BY DEF DropOld, Finish, At, Rest, WorldInv
  <1>2. Wrote(j, {"new_moved"})
    BY <1>1 DEF Swapping
  <1>3. /\ \A w \in Writers : w # j => entry'[w] = entry[w] /\ old'[w] = old[w]
        /\ entry'[j].phase \notin Uncommitted
    BY <1>1, <1>2 DEF DropOld, Finish, Clear, RemoveEntry, SavePhase, NoEntry, Wrote, Uncommitted, WorldStoreTypeOK
  <1>4. ~Promises(j) /\ ~Promises(j)'
    BY <1>2, <1>3 DEF Promises, Wrote, Uncommitted
  <1>5. \A w \in Writers : (Promises(w)' <=> Promises(w)) /\ (Promises(w) => old'[w] = old[w])
    BY <1>1, <1>3, <1>4 DEF Promises
  <1> QED
    BY <1>1, <1>5, KeptStays

\* A migration makes the owner the node where the same world is.
LEMMA VerifyLeaves ==
  ASSUME WorldInv, WorldInv', Moving, NEW j \in Writers, Verify(j)
  PROVE  Kept' = Kept
  <1> USE JobsAre
  <1>1. /\ UNCHANGED <<world, old, entry>> /\ Swapping(j) /\ job[j].pc = "verify"
        /\ owner' = owner \/ (owner' = "away" /\ world["away"] = job[j].archive)
    BY DEF Verify, At, Files, WorldInv
  <1>2. (\A w \in Writers : entry[w].phase = "none") /\ j \in Movers
    BY <1>1 DEF Swapping, Moving, Writers
  <1>3. (\A w \in Writers : ~Promises(w) /\ ~Promises(w)') /\ world'[owner'] = world[owner]
    BY <1>1, <1>2 DEF Promises, Uncommitted, Moving
  <1> QED
    BY <1>3 DEF Kept

\* A phase is saved: the commit of a restore replaces the world, and every other save keeps it.
LEMMA SaveMovedReplaces ==
  ASSUME WorldInv, WorldInv', Moving, NEW j \in Writers, SaveMoved(j)
  PROVE  \/ Kept' = Kept /\ (Fails(j) \/ (Goto(j, "move_new") /\ At(j, "save_old_moved")))
         \/ Kept' = Kept /\ j \in Movers /\ Goto(j, "drop_old")
         \/ Kept' = "archived" /\ j \in Restorers /\ Goto(j, "drop_old") /\ At(j, "save_new_moved")
  <1> USE JobsAre
  <1>1. /\ UNCHANGED <<owner, world, stage, old>> /\ Swapping(j) /\ Journals /\ Journals' /\ WorldStoreTypeOK
        /\ job[j].pc \in {"save_old_moved", "save_new_moved"} /\ Active(j)
    BY DEF SaveMoved, At, Rest, WorldInv, Active
  <1>2. /\ job[j].pc = "save_old_moved" => Wrote(j, {"extracted"})
        /\ job[j].pc = "save_new_moved" => Wrote(j, {"old_moved"}) /\ Replaced(j)
    BY <1>1 DEF Swapping
  <1>3. CASE UNCHANGED entry
    <2>1. \A w \in Writers : (Promises(w)' <=> Promises(w)) /\ old'[w] = old[w]
      BY <1>1, <1>3 DEF Promises
    <2>2. Fails(j)
      BY <1>1, <1>2, <1>3 DEF SaveMoved, SavePhase, Wrote, WorldStoreTypeOK, At
    <2> QED
      BY <1>1, <2>1, <2>2, KeptStays
  <1>4. CASE At(j, "save_old_moved") /\ SavePhase(j, "old_moved") /\ Goto(j, "move_new")
    <2>1. /\ \A w \in Writers : w # j => entry'[w] = entry[w]
          /\ entry'[j].phase = "old_moved" /\ entry'[j].node = entry[j].node
      BY <1>1, <1>2, <1>4 DEF SavePhase, WorldStoreTypeOK, Wrote, At
    <2>2. \A w \in Writers : (Promises(w)' <=> Promises(w)) /\ old'[w] = old[w]
      BY <1>1, <1>2, <1>4, <2>1 DEF Promises, Wrote, Uncommitted, At
    <2> QED
      BY <1>1, <1>4, <2>2, KeptStays
  <1>5. CASE At(j, "save_new_moved") /\ SavePhase(j, "new_moved") /\ Goto(j, "drop_old")
    <2>1. /\ \A w \in Writers : w # j => entry'[w] = entry[w] /\ entry[w].phase = "none"
          /\ entry'[j].phase = "new_moved"
      BY <1>1, <1>2, <1>5 DEF SavePhase, WorldStoreTypeOK, Wrote, At, Journals
    <2>2. \A w \in Writers : ~Promises(w)'
      BY <2>1 DEF Promises, Uncommitted
    <2>3. Kept' = world[owner]
      BY <1>1, <2>2 DEF Kept
    <2>4. CASE j \in Restorers
      BY <1>1, <1>2, <1>5, <2>3, <2>4 DEF At, Swapping, Replaced
    <2>5. CASE j \in Movers
      <3>1. owner = "home" /\ job[j].node = "away"
        BY <1>1, <2>5 DEF Moving, SwapSteps
      <3>2. \A w \in Writers : ~Promises(w)
        BY <1>2, <1>5, <2>1, <3>1 DEF Promises, Wrote, Uncommitted, At
      <3> QED
        BY <1>5, <2>3, <2>5, <3>2 DEF Kept
    <2> QED
      BY <2>4, <2>5 DEF Writers
  <1> QED
    BY <1>3, <1>4, <1>5 DEF SaveMoved, At

\* Every step of a job is a step of the atomic world, or none.
LEMMA JobImplements ==
  ASSUME WorldInv, WorldInv', Moving, NEW j \in Jobs, Step(j)
  PROVE  Atomic!Next \/ UNCHANGED <<Kept, Call>>
  <1> USE JobsAre DEF At
  <1> DEFINE Late == {"drop_old", "finish"}
  <1>1. /\ WorldStoreTypeOK /\ job[j] \in Job
        /\ \A i \in Jobs : i # j => job'[i] = job[i]
        /\ \A w \in Writers : w \in Restorers <=> w \notin Movers
        /\ \A b \in Backers : b \notin Restorers
    <2>1. WorldStoreTypeOK /\ job[j] \in Job
      BY DEF WorldInv, WorldStoreTypeOK
    <2>2. \A i \in Jobs : i # j => job'[i] = job[i]
      BY <2>1, BecomesOne, Says
    <2> QED
      BY <2>1, <2>2, WorldStoreAssumption DEF Writers
  <1>2. /\ \A pc : Goto(j, pc) => job'[j].pc = pc
        /\ \A a : Answer(j, a) => job'[j].pc = "answered" /\ job'[j].answer = a
        /\ \A r : Become(j, r) => job'[j] = r
    BY <1>1, Says
  <1>3. ASSUME Kept' = Kept, Fails(j), job[j].pc \notin {"answered", "dead"}
        PROVE  Atomic!Next
    BY <1>1, <1>2, <1>3, CallAnswers DEF Fails
  <1>4. ASSUME Kept' = Kept, job[j].pc \notin {"answered", "dead"} \union Late,
               job'[j].pc \notin {"answered", "dead"} \union Late
        PROVE  UNCHANGED <<Kept, Call>>
    BY <1>1, <1>4, CallStays
  <1>5. CASE Begin(j) \/ Acquire(j) \/ Open(j) \/ Recover(j) \/ Copy(j)
    <2>1. Kept' = Kept /\ job[j].pc \notin {"answered", "dead"} \union Late
      BY <1>5, LooksKeep DEF Begin, Acquire, Open, Recover, Copy
    <2>2. /\ [job[j] EXCEPT !.pc = "open", !.node = owner].pc = "open"
          /\ Opened(j).pc \in {"open", "stage", "copy"}
          /\ [job[j] EXCEPT !.pc = "stage", !.archive = world[owner]].pc = "stage"
          /\ \A w : [job[j] EXCEPT !.pc = "decide", !.found = w, !.rolling = FALSE, !.phase = entry[w].phase,
                                   !.had_old = entry[w].had_old].pc = "decide"
      BY <1>1 DEF Opened, Job
    <2>3. CASE Copy(j) /\ Answer(j, "ok") /\ j \in Backers
      BY <1>1, <1>2, <2>1, <2>3, CallAnswers
    <2>4. CASE Begin(j) \/ Acquire(j) \/ Open(j)
      <3>1. Fails(j) \/ job'[j].pc \in {"open", "acquire", "recover"}
        BY <1>2, <2>2, <2>4 DEF Begin, Acquire, Open
      <3> QED
        BY <1>3, <1>4, <2>1, <3>1
    <2>5. CASE Recover(j)
      <3>1. Fails(j) \/ job'[j].pc \in {"open", "stage", "copy", "decide"}
        BY <1>2, <2>2, <2>5 DEF Recover
      <3> QED
        BY <1>3, <1>4, <2>1, <3>1
    <2>6. CASE Copy(j) /\ ~(Answer(j, "ok") /\ j \in Backers)
      <3>1. Fails(j) \/ job'[j].pc = "stage"
        BY <1>2, <2>2, <2>6 DEF Copy
      <3> QED
        BY <1>3, <1>4, <2>1, <3>1
    <2> QED
      BY <1>5, <2>3, <2>4, <2>5, <2>6
  <1>6. CASE Decide(j) \/ PutBack(j) \/ Sweep(j)
    <2>1. Kept' = Kept /\ job[j].pc \notin {"answered", "dead"} \union Late
      BY <1>6, DecideLeaves, PutBackLeaves, SweepLeaves DEF Decide, PutBack, Sweep
    <2>2. Fails(j) \/ \E pc \in {"put_back", "sweep", "recover"} : Goto(j, pc)
      BY <1>6 DEF Decide, PutBack, Sweep
    <2> QED
      BY <1>2, <1>3, <1>4, <2>1, <2>2
  <1>7. CASE j \in Writers /\ (Stage(j) \/ Extract(j) \/ SaveExtracted(j) \/ MoveOld(j) \/ MoveNew(j))
    <2>1. Kept' = Kept /\ job[j].pc \notin {"answered", "dead"} \union Late
      BY <1>7, StagingLeaves, MoveOldLeaves, MoveNewLeaves DEF Stage, Extract, SaveExtracted, MoveOld, MoveNew
    <2>2. /\ [job[j] EXCEPT !.pc = "extract", !.had_old = Exists(world[job[j].node]),
                            !.before = world[job[j].node]].pc = "extract"
          /\ [job[j] EXCEPT !.pc = "decide", !.found = j, !.rolling = TRUE, !.phase = "old_moved"].pc = "decide"
      BY <1>1 DEF Job
    <2>3. Fails(j) \/ job'[j].pc \in {"extract", "extract_rest", "save_extracted", "move_old", "save_old_moved",
                                      "save_new_moved", "decide"}
      <3>1. CASE Stage(j) \/ MoveNew(j)
        BY <1>2, <2>2, <3>1 DEF Stage, MoveNew
      <3>2. CASE Extract(j) \/ SaveExtracted(j) \/ MoveOld(j)
        BY <1>2, <3>2 DEF Extract, SaveExtracted, MoveOld
      <3> QED
        BY <1>7, <3>1, <3>2
    <2> QED
      BY <1>3, <1>4, <2>1, <2>3
  <1>8. CASE j \in Writers /\ (DropOld(j) \/ Finish(j))
    <2>1. Kept' = Kept /\ job[j].pc \in Late
      BY <1>8, EndingLeaves DEF DropOld, Finish
    <2>2. \/ Fails(j)
          \/ Goto(j, "finish")
          \/ Answer(j, "ok")
          \/ j \notin Restorers /\ Goto(j, "verify")
      BY <1>8 DEF DropOld, Finish
    <2>3. CASE Answer(j, "ok")
      BY <1>1, <1>2, <2>1, <2>3, CallAnswers
    <2>4. CASE Goto(j, "finish") \/ (j \notin Restorers /\ Goto(j, "verify"))
      <3>1. Call' = Call
        BY <1>1, <1>2, <2>1, <2>4, CallStays
      <3> QED
        BY <2>1, <3>1
    <2> QED
      BY <1>3, <2>1, <2>2, <2>3, <2>4
  <1>9. CASE j \in Writers /\ Verify(j)
    <2>1. Kept' = Kept /\ job[j].pc = "verify" /\ j \notin Restorers
      BY <1>9, VerifyLeaves DEF Verify, Moving
    <2>2. Fails(j) \/ Answer(j, "ok")
      BY <1>9 DEF Verify
    <2>3. CASE Answer(j, "ok")
      BY <1>1, <1>2, <2>1, <2>3, CallAnswers
    <2> QED
      BY <1>3, <2>1, <2>2, <2>3
  <1>10. CASE j \in Writers /\ SaveMoved(j)
    <2>1. job[j].pc \in {"save_old_moved", "save_new_moved"}
      BY <1>10 DEF SaveMoved
    <2>2. CASE Kept' = Kept /\ (Fails(j) \/ Goto(j, "move_new"))
      BY <1>2, <1>3, <1>4, <2>1, <2>2
    <2>3. CASE Kept' = Kept /\ j \in Movers /\ Goto(j, "drop_old")
      <3>1. Call' = Call
        BY <1>1, <1>2, <1>10, <2>1, <2>3, CallStays
      <3> QED
        BY <2>3, <3>1
    <2>4. CASE Kept' = "archived" /\ j \in Restorers /\ Goto(j, "drop_old")
      <3>1. Call' = [Call EXCEPT ![j] = "replaced"]
        BY <1>1, <1>2, <2>4 DEF Call
      <3>2. Call[j] = "open"
        BY <2>1, CallIs
      <3>3. Atomic!Replace(j)
        BY <2>4, <3>1, <3>2 DEF Atomic!Replace
      <3> QED
        BY <3>3 DEF Atomic!Next
    <2> QED
      BY <1>10, <2>2, <2>3, <2>4, SaveMovedReplaces
  <1> QED
    BY <1>5, <1>6, <1>7, <1>8, <1>9, <1>10 DEF Step

\* The game changes the kept world where it is in place, and nothing where it is set aside.
LEMMA PlayImplements ==
  ASSUME WorldInv, WorldInv', Play
  PROVE  Atomic!Next \/ UNCHANGED <<Kept, Call>>
  <1>1. /\ UNCHANGED <<owner, old, entry, job>> /\ Call' = Call /\ WorldStoreTypeOK
        /\ \A w \in Writers : (Promises(w)' <=> Promises(w)) /\ old'[w] = old[w]
    BY DEF Play, Rest, WorldInv, Call, Promises
  <1>2. CASE \E w \in Writers : Promises(w)
    BY <1>1, <1>2, KeptStays DEF WorldInv
  <1>3. CASE ~\E w \in Writers : Promises(w)
    <2>1. world[owner] \in Whole
      BY <1>3, Whereabouts
    <2>2. world'[owner] = "played"
      BY <1>1, <2>1 DEF Play, Exists, Whole, WorldStoreTypeOK
    <2>3. Kept' = "played"
      BY <1>1, <1>3, <2>2 DEF Kept
    <2>4. Atomic!Play
      BY <1>1, <2>3 DEF Atomic!Play
    <2> QED
      BY <2>4 DEF Atomic!Next
  <1> QED
    BY <1>2, <1>3

\* A crash ends calls and keeps the world.
LEMMA CrashImplements ==
  ASSUME WorldInv, WorldInv', Crash
  PROVE  Atomic!Next
  <1> DEFINE dead == {j \in Jobs : Running(j)}
  <1>1. Kept' = Kept
    <2>1. \A w \in Writers : (Promises(w)' <=> Promises(w)) /\ old'[w] = old[w]
      BY DEF Crash, Files, Promises
    <2> QED
      BY <2>1, KeptStays DEF Crash, Files, WorldInv
  <1>2. \A j \in dead : Call[j] \in Atomic!Live
    BY CallIs DEF Running, Atomic!Live
  <1>3. Call' = [j \in Jobs |-> IF j \in dead THEN "dead" ELSE Call[j]]
    <2>1. \A j \in Jobs : job[j] \in Job
      BY DEF WorldInv, WorldStoreTypeOK
    <2>2. \A j \in Jobs : /\ j \in dead => job'[j].pc = "dead"
                          /\ j \notin dead => job'[j] = job[j]
      BY <2>1 DEF Crash, Job
    <2>3. \A j \in Jobs : Call'[j] = IF j \in dead THEN "dead" ELSE Call[j]
      <3> HIDE DEF dead
      <3> QED
        BY <2>2 DEF Call
    <2> QED
      BY <2>3 DEF Call
  <1>4. Atomic!Crash(dead)
    BY <1>1, <1>2, <1>3 DEF Atomic!Crash
  <1>5. dead \in SUBSET Jobs
    OBVIOUS
  <1> HIDE DEF dead
  <1> QED
    BY <1>4, <1>5 DEF Atomic!Next

\* The journaled swap of internal/worldstore is "the journaled, atomic replacement" that store.go:369 calls
\* it: for any restores, migrations, crashes, failed operations and recoveries, while no backup meets a
\* restore or a migration, the server's world changes in one step, and only for a restore that has not
\* answered and is still alive.
THEOREM StoreImplementsAtomicWorld == ~BackupsOverlap => (WorldSpec => AtomicSpec)
  <1> SUFFICES ASSUME ~BackupsOverlap PROVE WorldSpec => AtomicSpec
    OBVIOUS
  <1>1. WorldInit => Atomic!Init
    <2> SUFFICES ASSUME WorldInit PROVE Atomic!Init
      OBVIOUS
    <2>1. \A w \in Writers : ~Promises(w)
      BY DEF WorldInit, Promises, Whole
    <2>2. Kept = "original"
      BY <2>1 DEF WorldInit, Kept, Nodes
    <2>3. Call = [j \in Jobs |-> "open"]
      BY DEF WorldInit, Call, Unstarted
    <2> QED
      BY <2>2, <2>3 DEF Atomic!Init
  <1>2. WorldInit => Moving
    BY JobsAre DEF WorldInit, Unstarted, Moving, Active, SwapSteps, Writers
  <1>3. WorldInv /\ Moving /\ [WorldNext]_worldVars => Moving'
    BY MovingKeeps
  <1>4. WorldInv /\ WorldInv' /\ Moving /\ [WorldNext]_worldVars => [Atomic!Next]_(Atomic!vars)
    <2> SUFFICES ASSUME WorldInv, WorldInv', Moving, [WorldNext]_worldVars
                 PROVE  Atomic!Next \/ UNCHANGED <<Kept, Call>>
      BY DEF Atomic!vars
    <2>1. CASE UNCHANGED worldVars
      BY <2>1 DEF worldVars, Kept, Call, Promises
    <2> QED
      BY <2>1, JobImplements, PlayImplements, CrashImplements DEF WorldNext
  <1> QED
    BY <1>1, <1>2, <1>3, <1>4, WorldInvariant, PTL DEF WorldSpec, AtomicSpec, Atomic!Spec
=============================================================================
