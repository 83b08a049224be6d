------------------------------ MODULE MCWebViews ------------------------------
(***************************************************************************)
(* Model-checking instance of the parts of the web interface that list and *)
(* edit: the views of the tabs, the file editor, the configuration form,   *)
(* the mod browser and the modpack page.  They share no state but the      *)
(* panel's, of which each has its own part; so one of them runs in each    *)
(* behaviour, and the others are off: nothing to do, and their bounds      *)
(* used up.                                                                *)
(***************************************************************************)
EXTENDS TabViews, FileEditor, ConfigForm, ModBrowser, PackStudio

\* Two mods that require each other.
Circle == [m \in {1, 2} |-> <<3 - m>>]

ViewsOff ==
  /\ view = Plain /\ mounted = FALSE /\ on = 1 /\ shown = Nothing /\ loading = FALSE /\ busy = FALSE
  /\ timer = FALSE /\ armed = FALSE /\ truth = [s \in Subjects |-> 0] /\ calls = [c \in Slots |-> Free]
  /\ edits = MaxEdits /\ switches = 0 /\ misses = 0

EditorOff ==
  /\ file = NoFile /\ content = Empty /\ original = Empty /\ box = Empty
  /\ contentLoaded = FALSE /\ fetching = FALSE /\ saving = FALSE
  /\ gets = [g \in Gets |-> Unasked] /\ puts = Unasked /\ files = [p \in Paths |-> [of |-> p, edits |-> 0]]
  /\ opens = MaxOpens /\ typed = 0 /\ refused = 0

ConfigOff ==
  /\ host = 1 /\ form = [Blank EXCEPT !.of = 1] /\ batch = {} /\ loadingForm = FALSE /\ savingForm = FALSE
  /\ config = [s \in Hosts |-> 0] /\ staged = [s \in Hosts |-> {}] /\ excused = FALSE
  /\ sent = [l \in Lines |-> Hold] /\ changes = MaxChanges /\ visits = MaxVisits /\ lapses = 0

BrowserOff ==
  /\ browsing = FALSE /\ searches = MaxAsked /\ searching = FALSE /\ results = 0 /\ searchError = 0
  /\ lists = MaxAsked /\ loadingVersions = FALSE /\ versions = 0 /\ selectedMod = None /\ selectedVersion = None
  /\ installing = FALSE /\ installs = 0 /\ installed = {} /\ broken = 0
  /\ asked = [k \in Kinds |-> [n \in Numbers |-> NoCall]]

StudioOff ==
  /\ disk = [mods |-> NoPack.mods, mc |-> 1, index |-> {}, override |-> FALSE]
  /\ pack = NoPack /\ loadedMC = 0 /\ selected = {} /\ waiting = {}
  /\ jobs = [f \in Functions |-> NoJob] /\ adding = Nobody /\ ops = MaxOps /\ elsewhere = MaxElsewhere /\ missed = 0

Init ==
  \/ ViewsInit /\ EditorOff /\ ConfigOff /\ BrowserOff /\ StudioOff
  \/ ViewsOff /\ EditorInit /\ ConfigOff /\ BrowserOff /\ StudioOff
  \/ ViewsOff /\ EditorOff /\ ConfigInit /\ BrowserOff /\ StudioOff
  \/ ViewsOff /\ EditorOff /\ ConfigOff /\ BrowserInit /\ StudioOff
  \/ ViewsOff /\ EditorOff /\ ConfigOff /\ BrowserOff /\ StudioInit

Next ==
  \/ ViewsNext /\ UNCHANGED <<editorVars, configVars, browserVars, studioVars>>
  \/ EditorNext /\ UNCHANGED <<viewVars, configVars, browserVars, studioVars>>
  \/ ConfigNext /\ UNCHANGED <<viewVars, editorVars, browserVars, studioVars>>
  \/ BrowserNext /\ UNCHANGED <<viewVars, editorVars, configVars, studioVars>>
  \/ StudioNext /\ UNCHANGED <<viewVars, editorVars, configVars, browserVars>>

Spec ==
  /\ Init /\ [][Next]_<<viewVars, editorVars, configVars, browserVars, studioVars>>
  /\ ViewsFairness /\ EditorFairness /\ ConfigFairness /\ BrowserFairness /\ StudioFairness

-----------------------------------------------------------------------------
\* The state of every part has its type.
TypesOK == (mounted => ViewsTypeOK) /\ EditorTypeOK /\ ConfigTypeOK /\ BrowserTypeOK /\ StudioTypeOK

\* What the user of a part other than the views waits for.
Waiting ==
  DialogWaits \/ saving \/ ConfigWaits \/ BrowserWaits \/ waiting # {}

\* Nothing that the user waits for lasts: no spinner of a view, no action, no load or save of a file
\* or a configuration, no search or installation, no function of the modpack page.
WaitsEnd == SpinnerEnds /\ ActionEnds /\ (Waiting ~> ~Waiting)
===============================================================================
