------------------------------- MODULE TabViews -------------------------------
(***************************************************************************)
(* The views of the web interface that list something the panel keeps,     *)
(* change it and list it again: the tabs of a server's page, the module    *)
(* page and its log dialog, and the settings pages.  A view differs from   *)
(* another in what makes it load again, and in whether an answer may be    *)
(* followed by an older one; that is its record.                           *)
(*                                                                         *)
(* A load is answered in one step and its answer arrives in a later one;   *)
(* the functions of a view that is gone go on.  The page of a server keeps *)
(* the view when the user moves to another server's page, and replaces the *)
(* server it is given every five seconds.                                  *)
(***************************************************************************)
EXTENDS Integers

CONSTANTS
  Subjects,      \* servers; for the log dialog, modules
  MaxEdits,      \* bound on changes of what a view lists
  MaxSwitches,   \* bound on moves to another subject
  MaxMisses      \* bound on calls that fail

ASSUME ViewsAssumption == MaxEdits \in Nat /\ MaxSwitches \in Nat /\ MaxMisses \in Nat

VARIABLES
  view, mounted, on,     \* the view, and the subject it is for
  shown, loading, busy,  \* the list, its spinner, and whether an action is under way
  timer,                 \* the view's interval runs
  armed,                 \* the effect that loads still depends on the server
  truth,                 \* how often each subject's data has changed
  calls,                 \* by slot
  edits, switches, misses

viewVars == <<view, mounted, on, shown, loading, busy, timer, armed, truth, calls, edits, switches, misses>>
counters == <<edits, switches, misses>>

-----------------------------------------------------------------------------
(* The views.  loads: when the server object is replaced ("each"), when it  *)
(* is another server ("server", "twice"), when an effect that may no longer *)
(* depend on it says so ("first"), when opened again ("open"), or never.    *)
(* acts: it changes what it lists.  guarded: it loads only when no load is  *)
(* under way, and loading is the flag of that guard.                        *)

Plain == [loads |-> "never", acts |-> TRUE, timer |-> FALSE, quiet |-> FALSE, guarded |-> FALSE]

Backups == [Plain EXCEPT !.loads = "each"]
Datapacks == [Plain EXCEPT !.loads = "each"]
Players == [Plain EXCEPT !.loads = "each"]
Activity == [Plain EXCEPT !.loads = "each", !.acts = FALSE]
Tasks == [Plain EXCEPT !.loads = "twice"]
Routing == [Plain EXCEPT !.loads = "twice"]
Files == [Plain EXCEPT !.loads = "server"]
Mods == [Plain EXCEPT !.loads = "first"]
Modules == [Plain EXCEPT !.loads = "first", !.timer = TRUE]
ModuleLogs == [Plain EXCEPT !.loads = "open", !.timer = TRUE, !.guarded = TRUE, !.acts = FALSE]
ActiveModules == [Plain EXCEPT !.timer = TRUE, !.quiet = TRUE]
PanelLogs == [Plain EXCEPT !.timer = TRUE, !.guarded = TRUE, !.acts = FALSE]
Nodes == Plain
Roles == Plain
Users == Plain
Listeners == Plain
Tokens == Plain
Views == {Backups, Datapacks, Players, Activity, Tasks, Routing, Files, Mods, Modules, ModuleLogs,
          ActiveModules, PanelLogs, Nodes, Roles, Users, Listeners, Tokens}

Nothing == [of |-> 0, version |-> -1]
Slots == {"load1", "load2", "act"}
Loads == {"load1", "load2"}
Free == [op |-> "free", of |-> 0, quiet |-> FALSE, answer |-> "none", version |-> 0]
Load(s, quiet) == [Free EXCEPT !.op = "load", !.of = s, !.quiet = quiet]

Open(v) ==
  /\ view = v /\ mounted = TRUE /\ on = (CHOOSE s \in Subjects : TRUE) /\ shown = Nothing /\ loading = TRUE /\ busy = FALSE
  /\ timer = v.timer /\ armed = (v.loads \in {"each", "first"})
  /\ truth = [s \in Subjects |-> 0] /\ calls = [c \in Slots |-> IF c = "load1" THEN Load(on, FALSE) ELSE Free]
  /\ edits = 0 /\ switches = 0 /\ misses = 0

ViewsInit == \E v \in Views : Open(v)

-----------------------------------------------------------------------------
(* The panel *)

Handle(c) ==
  /\ calls[c].op # "free" /\ calls[c].answer = "none"
  /\ \/ /\ truth' = IF calls[c].op = "change" THEN [truth EXCEPT ![calls[c].of] = @ + 1] ELSE truth
        /\ calls' = [calls EXCEPT ![c].answer = "ok", ![c].version = truth'[calls[c].of]]
        /\ UNCHANGED misses
     \/ /\ misses < MaxMisses /\ misses' = misses + 1
        /\ calls' = [calls EXCEPT ![c].answer = "failed"] /\ UNCHANGED truth
  /\ UNCHANGED <<view, mounted, on, shown, loading, busy, timer, armed, edits, switches>>

\* The program behind the view, or another user, changes what it lists.
ChangedElsewhere(s) ==
  /\ edits < MaxEdits /\ edits' = edits + 1 /\ truth' = [truth EXCEPT ![s] = @ + 1]
  /\ UNCHANGED <<view, mounted, on, shown, loading, busy, timer, armed, calls, switches, misses>>

-----------------------------------------------------------------------------
(* Loading *)

\* finally { loading = false }, which a quiet load leaves alone.
Spins(r) == loading /\ r.quiet

\* An answer is shown, whatever was asked or shown since.
Shows(r) ==
  /\ loading' = Spins(r)
  /\ shown' = IF r.answer = "ok" THEN [of |-> r.of, version |-> r.version] ELSE shown

\* The log dialog loads again as soon as a load has ended: its effect reads the guard's flag.
LoadArrives(c) ==
  /\ calls[c].op = "load" /\ calls[c].answer # "none"
  /\ IF view.loads = "open" /\ mounted
     THEN /\ calls' = [calls EXCEPT ![c] = Load(on, FALSE)]
          /\ shown' = IF calls[c].answer = "ok" THEN [of |-> calls[c].of, version |-> calls[c].version] ELSE shown
          /\ UNCHANGED loading
     ELSE Shows(calls[c]) /\ calls' = [calls EXCEPT ![c] = Free]
  /\ UNCHANGED <<view, mounted, on, busy, timer, armed, truth, counters>>

\* if (loading) return
Skips == view.guarded /\ loading

\* The interval.  The module views' load is quiet.
Tick ==
  /\ timer /\ ~Skips
  /\ \E c \in Loads : calls[c] = Free /\ calls' = [calls EXCEPT ![c] = Load(on, ~view.guarded)]
  /\ loading' = (loading \/ view.guarded)
  /\ UNCHANGED <<view, mounted, on, shown, busy, timer, armed, truth, counters>>

-----------------------------------------------------------------------------
(* The page of the server *)

\* Mutant: no effect depends on the server once the flag is set.
Depends_Once == FALSE

\* Whether the effect, when it ran last, read the server or only its flag.
Depends == view.loads = "each"

\* The page has polled: an effect that depends on the server is torn down, with its interval, and
\* runs again; where its flag says that the list was loaded it starts nothing.
Refreshed ==
  /\ mounted /\ armed
  /\ IF view.loads = "each"
     THEN /\ \E c \in Loads : calls[c] = Free /\ calls' = [calls EXCEPT ![c] = Load(on, FALSE)]
          /\ loading' = TRUE /\ UNCHANGED timer
     ELSE UNCHANGED <<calls, loading>> /\ timer' = FALSE
  /\ armed' = Depends
  /\ UNCHANGED <<view, mounted, on, shown, busy, truth, counters>>

\* Loads for another subject; in two calls where both effects of a view ask.
Loaded(s) ==
  \E c, d \in Loads :
    /\ calls[c] = Free /\ calls[d] = Free /\ (c # d <=> view.loads = "twice")
    /\ calls' = [calls EXCEPT ![c] = Load(s, FALSE), ![d] = Load(s, FALSE)]

\* The page shows another server, or the dialog another module.
Switched(s) ==
  /\ mounted /\ s # on /\ on' = s /\ view.loads # "never"
  /\ switches < MaxSwitches /\ switches' = switches + 1
  /\ shown' = IF view.loads = "each" THEN shown ELSE Nothing
  /\ IF view.loads = "first" /\ ~armed
     THEN loading' = TRUE /\ timer' = FALSE /\ UNCHANGED calls
     ELSE /\ timer' = view.timer
          /\ IF Skips THEN UNCHANGED <<loading, calls>> ELSE loading' = TRUE /\ Loaded(s)
  /\ UNCHANGED <<view, mounted, busy, armed, truth, edits, misses>>

\* The view goes, and what it asked for is still answered.
Closed ==
  /\ mounted /\ mounted' = FALSE /\ timer' = FALSE /\ armed' = FALSE
  /\ UNCHANGED <<view, on, shown, loading, busy, truth, calls, counters>>

-----------------------------------------------------------------------------
(* Actions of the user *)

Act ==
  /\ mounted /\ view.acts /\ ~busy /\ busy' = TRUE
  /\ edits < MaxEdits /\ edits' = edits + 1
  /\ calls' = [calls EXCEPT !["act"] = [Free EXCEPT !.op = "change", !.of = on]]
  /\ UNCHANGED <<view, mounted, on, shown, loading, timer, armed, truth, switches, misses>>

\* The change is done or has failed; done, the list is loaded, of the subject the view is for by now.
ChangeArrives ==
  LET r == calls["act"] IN
  /\ r.op = "change" /\ r.answer # "none"
  /\ IF r.answer = "ok"
     THEN /\ calls' = [calls EXCEPT !["act"] = [Load(on, view.quiet) EXCEPT !.op = "reload"]]
          /\ loading' = (loading \/ ~view.quiet) /\ UNCHANGED busy
     ELSE calls' = [calls EXCEPT !["act"] = Free] /\ busy' = FALSE /\ UNCHANGED loading
  /\ UNCHANGED <<view, mounted, on, shown, timer, armed, truth, counters>>

\* finally { acting = null }
Done(r) == busy' = FALSE

ReloadArrives ==
  LET r == calls["act"] IN
  /\ r.op = "reload" /\ r.answer # "none" /\ Shows(r) /\ Done(r)
  /\ calls' = [calls EXCEPT !["act"] = Free]
  /\ UNCHANGED <<view, mounted, on, timer, armed, truth, counters>>

-----------------------------------------------------------------------------
Arrives(c) == LoadArrives(c) \/ (c = "act" /\ (ChangeArrives \/ ReloadArrives))

ViewsNext ==
  \/ \E c \in Slots : Handle(c) \/ Arrives(c)
  \/ Tick \/ Refreshed \/ Closed \/ Act
  \/ \E s \in Subjects : Switched(s) \/ ChangedElsewhere(s)

\* Calls are answered, answers arrive, the view's interval and the page's poll run.
ViewsFairness ==
  /\ \A c \in Slots : WF_viewVars(Handle(c) \/ Arrives(c))
  /\ WF_viewVars(Tick) /\ WF_viewVars(Refreshed)

ViewsSpec == ViewsInit /\ [][ViewsNext]_viewVars /\ ViewsFairness

-----------------------------------------------------------------------------
ViewsTypeOK ==
  /\ view \in Views /\ mounted \in BOOLEAN /\ on \in Subjects
  /\ shown \in [of: Subjects, version: Nat] \union {Nothing}
  /\ loading \in BOOLEAN /\ busy \in BOOLEAN /\ timer \in BOOLEAN /\ armed \in BOOLEAN
  /\ truth \in [Subjects -> Nat] /\ edits \in Nat /\ switches \in Nat /\ misses \in Nat
  /\ calls \in [Slots -> [op: {"free", "load", "reload", "change"}, of: Subjects \union {0}, quiet: BOOLEAN,
                          answer: {"none", "ok", "failed"}, version: Nat]]

\* A view that loads with every poll, or by an interval that lasts, settles to what the panel keeps
\* of its subject, however many answers are late, failed or out of order.
Refreshes == view.loads \in {"each", "open"} \/ (view.timer /\ view.loads = "never")
ViewSettles == <>[](Refreshes /\ mounted => shown = [of |-> on, version |-> truth[on]])

\* The log views, which never have two loads under way, do not go back to an older log meanwhile.
LogsNeverGoBack == [][view.guarded /\ shown'.of = shown.of => shown'.version >= shown.version]_viewVars

\* The views follow the panel.
ViewsFollow == LogsNeverGoBack /\ ViewSettles

\* The spinner of a view ends.
SpinnerEnds == (loading /\ mounted /\ view.loads \notin {"first", "open"}) ~> (~loading \/ ~mounted)

\* An action of the user ends.
ActionEnds == busy ~> ~busy

=============================================================================
