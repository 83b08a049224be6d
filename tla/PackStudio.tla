------------------------------ MODULE PackStudio ------------------------------
(***************************************************************************)
(* The page of a modpack (routes/modpacks/studio/[id]/+page.svelte) and    *)
(* what the panel does for it (internal/packwiz).  The page holds a copy   *)
(* of the pack; a toggle, a removal, an addition with what it requires, a  *)
(* batch, a migration and a save of the whole copy each go their own way,  *)
(* and the functions of the page overlap.  The pack is a directory: a file *)
(* for every mod, override files, and an index that names what clients of  *)
(* the pack load.  One call of each function is under way at a time.       *)
(***************************************************************************)
EXTENDS Integers, Sequences

CONSTANTS
  PackMods,           \* the mods, by slug
  Requires,       \* what the newest version of each requires
  Depth,          \* how deep requirements are followed (3 in the code)
  MaxOps,         \* bound on actions of the user
  MaxElsewhere,   \* bound on changes of the pack by others
  MaxMissed       \* bound on calls that fail

ASSUME StudioAssumption ==
  /\ PackMods \subseteq Nat \ {0} /\ Requires \in [PackMods -> Seq(PackMods)]
  /\ Depth \in Nat /\ MaxOps \in Nat /\ MaxElsewhere \in Nat /\ MaxMissed \in Nat

VARIABLES
  disk,        \* the pack at the panel: its mods, Minecraft version, index, and whether it has an override
  pack,        \* the page's copy, NoPack before the first load
  loadedMC,    \* the version the pack had when it was loaded or saved
  selected,
  waiting,     \* the flags that are set: loading, saving, migrating...
  jobs,        \* the functions under way, with their call
  adding,      \* what an addition has visited, at which depth it is, and what it has still to look at
  ops, elsewhere, missed

studioVars == <<disk, pack, loadedMC, selected, waiting, jobs, adding, ops, elsewhere, missed>>
page == <<pack, loadedMC, selected, waiting, adding>>
bounds == <<ops, elsewhere, missed>>

Override == 0   \* the override file, in an index
Versions == {1, 2}
Absent == [side |-> "absent", pinned |-> FALSE]
Fresh(side) == [side |-> side, pinned |-> FALSE]
NextSide == [both |-> "server", server |-> "client", client |-> "both"]
NoPack == [mods |-> [m \in PackMods |-> Absent], mc |-> 0]
In(p) == {m \in PackMods : p.mods[m] # Absent}

Functions ==
  {"loadPack", "saveMetadata", "toggleSide", "togglePin", "removeMod", "runBatchAction", "addModToPack",
   "handleAddUrlMod", "simulateMigration", "handleRefreshPack", "handleSaveFile", "checkUpdates"}
NoJob == [ask |-> "nothing", answer |-> "none", mod |-> 0, entry |-> Absent, mods |-> {}, sent |-> NoPack, mc |-> 0,
          stale |-> FALSE, held |-> FALSE]
Nobody == [visited |-> {}, depth |-> 0, todo |-> <<>>]

StudioInit ==
  /\ \E S \in SUBSET PackMods :
       disk = [mods |-> [m \in PackMods |-> IF m \in S THEN Fresh("both") ELSE Absent], mc |-> 1, index |-> S,
               override |-> FALSE]
  /\ pack = NoPack /\ loadedMC = 0 /\ selected = {} /\ waiting = {"loading"}
  /\ jobs = [f \in Functions |-> IF f = "loadPack" THEN [NoJob EXCEPT !.ask = "load"] ELSE NoJob]
  /\ adding = Nobody /\ ops = 0 /\ elsewhere = 0 /\ missed = 0

-----------------------------------------------------------------------------
(* The panel.  Every change holds the pack manager's lock from reading the  *)
(* pack to writing it.                                                      *)

\* What the pack has a file for.
FilesOf(d) == In(d) \union IF d.override THEN {Override} ELSE {}

\* writePackFiles: a file for every mod given, those that are there stay, and an index of what was given.
WritePackFiles(p, mc) ==
  [disk EXCEPT !.mods = [m \in PackMods |-> IF p[m] # Absent THEN p[m] ELSE disk.mods[m]], !.mc = mc,
               !.index = {m \in PackMods : p[m] # Absent}]

\* RefreshPack: an index of every file.
RefreshPack(d) == [d EXCEPT !.index = FilesOf(d)]

\* Mutant: the file is removed after the index was written.
DeleteMod_Late(S) == [disk EXCEPT !.mods = [m \in PackMods |-> IF m \in S THEN Absent ELSE @[m]], !.index = In(disk)]

\* DeleteMod: its file goes, and the index is of the others.
DeleteMod(S) ==
  [disk EXCEPT !.mods = [m \in PackMods |-> IF m \in S THEN Absent ELSE @[m]], !.index = In(disk) \ S]

\* PackMods of a batch that are not in the pack are passed over.
UpdateMods(S, Changed(_)) ==
  IF S \intersect In(disk) = {} THEN disk
  ELSE WritePackFiles([m \in PackMods |-> IF m \in S \intersect In(disk) THEN Changed(disk.mods[m]) ELSE disk.mods[m]], disk.mc)

Served(c) ==
  CASE c.ask = "save"     -> WritePackFiles(c.sent.mods, c.sent.mc)
    [] c.ask = "patch"    -> UpdateMods({c.mod}, LAMBDA e : c.entry)
    [] c.ask = "setSide"  -> UpdateMods(c.mods, LAMBDA e : [side |-> c.entry.side, pinned |-> FALSE])
    [] c.ask = "pin"      -> UpdateMods(c.mods, LAMBDA e : [e EXCEPT !.pinned = c.entry.pinned])
    [] c.ask = "remove"   -> DeleteMod(c.mods)
    [] c.ask = "post"     -> WritePackFiles([disk.mods EXCEPT ![c.mod] = c.entry], disk.mc)
    [] c.ask = "apply"    -> WritePackFiles(disk.mods, c.mc)
    [] c.ask = "refresh"  -> RefreshPack(disk)
    [] c.ask = "saveFile" -> RefreshPack([disk EXCEPT !.override = TRUE])
    [] OTHER              -> disk

ServePack(f) ==
  LET c == jobs[f] IN
  /\ c.ask # "nothing" /\ c.answer = "none"
  /\ \/ /\ c.ask = "patch" => c.mod \in In(disk)
        /\ disk' = Served(c) /\ UNCHANGED missed
        /\ jobs' = [jobs EXCEPT ![f].answer = "ok",
                                ![f].sent = IF c.ask = "load" THEN [mods |-> disk.mods, mc |-> disk.mc] ELSE c.sent]
     \/ /\ c.ask = "patch" /\ c.mod \notin In(disk)
        /\ jobs' = [jobs EXCEPT ![f].answer = "failed"] /\ UNCHANGED <<disk, missed>>
     \/ /\ missed < MaxMissed /\ missed' = missed + 1
        /\ jobs' = [jobs EXCEPT ![f].answer = "failed"] /\ UNCHANGED disk
  /\ UNCHANGED <<page, ops, elsewhere>>

\* Another user, or another tab, adds or removes a mod.
Elsewhere(m) ==
  /\ elsewhere < MaxElsewhere /\ elsewhere' = elsewhere + 1
  /\ disk' = IF m \in In(disk) THEN DeleteMod({m}) ELSE WritePackFiles([disk.mods EXCEPT ![m] = Fresh("both")], disk.mc)
  /\ UNCHANGED <<page, jobs, ops, missed>>

-----------------------------------------------------------------------------
(* Actions of the user *)

Begin(f, call) ==
  /\ pack # NoPack /\ jobs[f] = NoJob /\ ops < MaxOps /\ ops' = ops + 1
  /\ jobs' = [jobs EXCEPT ![f] = call]
  /\ UNCHANGED <<disk, elsewhere, missed>>

\* While the copy is loaded again only the page's head and its dialogs are there.
Listed == pack # NoPack /\ "loading" \notin waiting

Asks(what) == [NoJob EXCEPT !.ask = what]

\* The form is bound to the copy.
EditVersion(v) ==
  /\ Listed /\ v # pack.mc /\ ops < MaxOps /\ ops' = ops + 1 /\ pack' = [pack EXCEPT !.mc = v]
  /\ UNCHANGED <<disk, loadedMC, selected, waiting, jobs, adding, elsewhere, missed>>

Select(S) ==
  /\ Listed /\ S # selected /\ S \subseteq In(pack) /\ ops < MaxOps /\ ops' = ops + 1 /\ selected' = S
  /\ UNCHANGED <<disk, pack, loadedMC, waiting, jobs, adding, elsewhere, missed>>

\* saveMetadata sends the whole copy.
SaveMetadata ==
  /\ "saving" \notin waiting /\ waiting' = waiting \union {"saving"}
  /\ Begin("saveMetadata", [Asks("save") EXCEPT !.sent = pack, !.stale = pack.mc # loadedMC])
  /\ UNCHANGED <<pack, loadedMC, selected, adding>>

\* A toggle sends both of the mod's properties, and keeps hold of the mod.
ToggleSide(m) ==
  /\ Listed /\ m \in In(pack) /\ UNCHANGED page
  /\ Begin("toggleSide", [Asks("patch") EXCEPT !.mod = m, !.held = TRUE,
                                               !.entry = [pack.mods[m] EXCEPT !.side = NextSide[@]]])

TogglePin(m) ==
  /\ Listed /\ m \in In(pack) /\ UNCHANGED page
  /\ Begin("togglePin", [Asks("patch") EXCEPT !.mod = m, !.held = TRUE, !.entry = [pack.mods[m] EXCEPT !.pinned = ~@]])

RemoveMod(m) ==
  Listed /\ m \in In(pack) /\ UNCHANGED page /\ Begin("removeMod", [Asks("remove") EXCEPT !.mods = {m}])

RunBatchAction ==
  /\ Listed /\ selected # {} /\ UNCHANGED page
  /\ \/ \E s \in DOMAIN NextSide : Begin("runBatchAction", [Asks("setSide") EXCEPT !.mods = selected, !.entry = Fresh(s)])
     \/ \E p \in BOOLEAN : Begin("runBatchAction", [Asks("pin") EXCEPT !.mods = selected, !.entry.pinned = p])
     \/ Begin("runBatchAction", [Asks("remove") EXCEPT !.mods = selected])

\* addModToPack looks for a version first.
AddModToPack(m, side) ==
  /\ Begin("addModToPack", [Asks("versions") EXCEPT !.mod = m, !.entry = Fresh(side)])
  /\ UNCHANGED page

HandleAddUrlMod(m) ==
  /\ "addingUrlMod" \notin waiting /\ waiting' = waiting \union {"addingUrlMod"}
  /\ Begin("handleAddUrlMod", [Asks("post") EXCEPT !.mod = m, !.entry = Fresh("both")])
  /\ UNCHANGED <<pack, loadedMC, selected, adding>>

SimulateMigration(v, apply) ==
  /\ Listed /\ "migrating" \notin waiting /\ waiting' = waiting \union {"migrating"}
  /\ Begin("simulateMigration", [Asks(IF apply THEN "apply" ELSE "simulate") EXCEPT !.mc = v])
  /\ UNCHANGED <<pack, loadedMC, selected, adding>>

\* The functions that take a call, and are told apart by their flag.
Flagged == [handleRefreshPack |-> "refreshing", checkUpdates |-> "checkingUpdates", handleSaveFile |-> "savingFile"]
Request == [handleRefreshPack |-> "refresh", checkUpdates |-> "updates", handleSaveFile |-> "saveFile"]

BeginFlagged(f) ==
  /\ Listed /\ Flagged[f] \notin waiting /\ waiting' = waiting \union {Flagged[f]} /\ Begin(f, Asks(Request[f]))
  /\ UNCHANGED <<pack, loadedMC, selected, adding>>

-----------------------------------------------------------------------------
(* Answers *)

Answered(f, ask, answers) == jobs[f].ask = ask /\ jobs[f].answer \in answers
Settled == {"ok", "failed"}

\* The flags a function clears when it ends.
Own ==
  [f \in Functions |-> CASE f = "saveMetadata" -> {"saving"} [] f = "simulateMigration" -> {"migrating"}
                         [] f = "handleAddUrlMod" -> {"addingUrlMod"} [] f \in DOMAIN Flagged -> {Flagged[f]}
                         [] OTHER -> {}]

\* Mutant: a function that fails leaves its flag.
Ends_Waiting(f) ==
  /\ jobs' = [jobs EXCEPT ![f] = NoJob]
  /\ waiting' = IF jobs[f].answer = "ok" THEN waiting \ Own[f] ELSE waiting

\* A function ends, well or not: finally.
Ends(f) == jobs' = [jobs EXCEPT ![f] = NoJob] /\ waiting' = waiting \ Own[f]

\* It goes on with another call, and its flag.
GoesOn(f, call, flag) == jobs' = [jobs EXCEPT ![f] = call] /\ waiting' = waiting \union flag

LoadsPack(f) == GoesOn(f, Asks("load"), {"loading"})

\* loadPack, wherever it is called from: the copy is replaced, and what held a mod of the old one
\* changes nothing any more.
PackArrives(f) ==
  /\ Answered(f, "load", Settled)
  /\ LET others == [g \in Functions |-> IF jobs[f].answer = "ok" THEN [jobs[g] EXCEPT !.held = FALSE] ELSE jobs[g]]
     IN IF f = "handleRefreshPack"
        THEN /\ jobs' = [others EXCEPT ![f] = Asks("raw")]
             /\ waiting' = (waiting \ {"loading"}) \union {"loadingRaw"}
        ELSE /\ jobs' = [others EXCEPT ![f] = NoJob]
             /\ waiting' = waiting \ ({"loading"} \union Own[f])
  /\ IF jobs[f].answer = "ok" THEN pack' = jobs[f].sent /\ loadedMC' = jobs[f].sent.mc
     ELSE UNCHANGED <<pack, loadedMC>>
  /\ UNCHANGED <<disk, selected, adding, bounds>>

\* Saved; with another Minecraft version the page goes on to ask what the mods would make of it.
SaveArrives ==
  LET f == "saveMetadata" IN
  /\ Answered(f, "save", Settled)
  /\ IF jobs[f].answer = "ok" /\ jobs[f].stale
     THEN /\ loadedMC' = pack.mc
          /\ GoesOn(f, [Asks("simulate") EXCEPT !.mc = pack.mc], {"migrating"})
     ELSE Ends(f) /\ UNCHANGED loadedMC
  /\ UNCHANGED <<disk, pack, selected, adding, bounds>>

SimulateArrives(f) ==
  /\ Answered(f, "simulate", Settled)
  /\ jobs' = [jobs EXCEPT ![f] = NoJob] /\ waiting' = waiting \ ({"migrating"} \union Own[f])
  /\ UNCHANGED <<disk, pack, loadedMC, selected, adding, bounds>>

ApplyArrives(f) ==
  /\ Answered(f, "apply", Settled)
  /\ IF jobs[f].answer = "ok" THEN LoadsPack(f) ELSE Ends(f)
  /\ UNCHANGED <<disk, pack, loadedMC, selected, adding, bounds>>

PatchArrives(f) ==
  LET m == jobs[f].mod IN
  /\ Answered(f, "patch", Settled) /\ Ends(f)
  /\ pack' = IF jobs[f].answer = "failed" \/ ~jobs[f].held \/ m \notin In(pack) THEN pack
             ELSE IF f = "toggleSide" THEN [pack EXCEPT !.mods[m].side = jobs[f].entry.side]
             ELSE [pack EXCEPT !.mods[m].pinned = jobs[f].entry.pinned]
  /\ UNCHANGED <<disk, loadedMC, selected, adding, bounds>>

RemoveArrives ==
  LET c == jobs["removeMod"] IN
  /\ Answered("removeMod", "remove", Settled) /\ Ends("removeMod")
  /\ IF c.answer = "ok"
     THEN /\ pack' = [pack EXCEPT !.mods = [m \in PackMods |-> IF m \in c.mods THEN Absent ELSE @[m]]]
          /\ selected' = selected \ c.mods
     ELSE UNCHANGED <<pack, selected>>
  /\ UNCHANGED <<disk, loadedMC, adding, bounds>>

BatchArrives ==
  LET f == "runBatchAction" IN
  /\ jobs[f].ask \in {"setSide", "pin", "remove"} /\ jobs[f].answer \in Settled
  /\ IF jobs[f].answer = "ok" THEN selected' = {} /\ LoadsPack(f) ELSE Ends(f) /\ UNCHANGED selected
  /\ UNCHANGED <<disk, pack, loadedMC, adding, bounds>>

\* The rest of the functions: on to the list they changed, or ended.
OtherArrives(f) ==
  /\ jobs[f].ask \in {"refresh", "raw", "updates", "saveFile", "files"} \union
                     (IF f = "handleAddUrlMod" THEN {"post"} ELSE {})
  /\ jobs[f].answer \in Settled
  /\ CASE jobs[f].answer = "ok" /\ jobs[f].ask \in {"refresh", "post"} -> LoadsPack(f)
       [] jobs[f].answer = "ok" /\ jobs[f].ask = "saveFile" -> GoesOn(f, Asks("files"), {"loadingFiles"})
       [] jobs[f].ask = "raw" -> jobs' = [jobs EXCEPT ![f] = NoJob] /\ waiting' = waiting \ ({"loadingRaw"} \union Own[f])
       [] jobs[f].ask = "files" -> jobs' = [jobs EXCEPT ![f] = NoJob] /\ waiting' = waiting \ ({"loadingFiles"} \union Own[f])
       [] OTHER -> Ends(f)
  /\ UNCHANGED <<disk, pack, loadedMC, selected, adding, bounds>>

-----------------------------------------------------------------------------
(* An addition: the mod, what it requires, what that requires... depth first. *)

Needed(m, depth) ==
  IF depth > Depth THEN <<>> ELSE [i \in DOMAIN Requires[m] |-> [mod |-> Requires[m][i], depth |-> depth]]

\* Looks for a version of the first mod on the list that was not looked at and is not in the copy;
\* with none left the copy is loaded again.
Follows(visited, todo) ==
  LET new == {i \in DOMAIN todo : todo[i].mod \notin visited \union In(pack)}
      i == CHOOSE j \in new : \A k \in new : j <= k
      f == "addModToPack" IN
  IF new = {} THEN adding' = Nobody /\ LoadsPack(f)
  ELSE /\ adding' = [visited |-> visited \union {todo[j].mod : j \in 1 .. i}, depth |-> todo[i].depth,
                     todo |-> SubSeq(todo, i + 1, Len(todo))]
       /\ GoesOn(f, [Asks("versions") EXCEPT !.mod = todo[i].mod, !.entry = jobs[f].entry], {})

AddArrives ==
  LET c == jobs["addModToPack"]
      root == adding = Nobody IN
  /\ c.ask \in {"versions", "post"} /\ c.answer \in Settled
  /\ CASE c.answer = "failed" /\ root -> Ends("addModToPack") /\ UNCHANGED adding
       [] c.answer = "failed" /\ ~root -> Follows(adding.visited, adding.todo)
       [] c.answer = "ok" /\ c.ask = "versions" ->
            GoesOn("addModToPack", [c EXCEPT !.ask = "post", !.answer = "none"], {}) /\ UNCHANGED adding
       [] c.answer = "ok" /\ c.ask = "post" ->
            IF root THEN Follows(In(pack) \union {c.mod}, Needed(c.mod, 0))
            ELSE Follows(adding.visited, Needed(c.mod, adding.depth + 1) \o adding.todo)
  /\ UNCHANGED <<disk, pack, loadedMC, selected, bounds>>

-----------------------------------------------------------------------------
JobArrives(f) ==
  \/ PackArrives(f) \/ SimulateArrives(f) \/ ApplyArrives(f) \/ PatchArrives(f) \/ OtherArrives(f)
  \/ (f = "saveMetadata" /\ SaveArrives) \/ (f = "removeMod" /\ RemoveArrives)
  \/ (f = "runBatchAction" /\ BatchArrives) \/ (f = "addModToPack" /\ AddArrives)

StudioNext ==
  \/ \E f \in Functions : ServePack(f) \/ JobArrives(f)
  \/ SaveMetadata \/ RunBatchAction
  \/ \E f \in DOMAIN Flagged : BeginFlagged(f)
  \/ \E v \in Versions : EditVersion(v) \/ (\E apply \in BOOLEAN : SimulateMigration(v, apply))
  \/ \E S \in SUBSET PackMods : Select(S)
  \/ \E m \in PackMods : Elsewhere(m) \/ ToggleSide(m) \/ TogglePin(m) \/ RemoveMod(m) \/ HandleAddUrlMod(m)
                     \/ (\E s \in DOMAIN NextSide : AddModToPack(m, s))

\* While functions are under way, one of them is answered or goes on.
StudioFairness == WF_studioVars(\E f \in Functions : ServePack(f) \/ JobArrives(f))

StudioSpec == StudioInit /\ [][StudioNext]_studioVars /\ StudioFairness

-----------------------------------------------------------------------------
Flags == {"loading", "saving", "migrating", "refreshing", "checkingUpdates", "savingFile", "addingUrlMod",
          "loadingRaw", "loadingFiles"}
Copies == [mods: [PackMods -> [side: DOMAIN NextSide \union {"absent"}, pinned: BOOLEAN]], mc: Versions \union {0}]

StudioTypeOK ==
  /\ [mods |-> disk.mods, mc |-> disk.mc] \in Copies /\ disk.index \subseteq PackMods \union {Override}
  /\ pack \in Copies /\ loadedMC \in Versions \union {0}
  /\ selected \subseteq PackMods /\ waiting \subseteq Flags
  /\ \A f \in Functions : jobs[f].sent \in Copies /\ jobs[f].answer \in Settled \union {"none"}

\* The index of a pack names no mod or file that is not there, whatever was removed, saved or loaded
\* meanwhile: a server that installs the pack by its index finds everything.
IndexHasFiles == disk.index \subseteq FilesOf(disk)
=============================================================================
