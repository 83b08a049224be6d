------------------------------ MODULE ModBrowser ------------------------------
(***************************************************************************)
(* The dialog that searches mods, shows the versions of one and installs   *)
(* it (lib/components/mod-browser-dialog.svelte), with its guard against   *)
(* answers that come late (lib/utils/request-sequence.ts).  Searches may   *)
(* be started while others are under way, and are known by their number.   *)
(***************************************************************************)
EXTENDS Integers

CONSTANTS
  Results,       \* the mods a search finds
  MaxAsked,      \* bound on searches, and on lists of versions
  MaxInstalls,   \* bound on installations
  MaxBroken      \* bound on calls that fail

ASSUME BrowserAssumption ==
  Results \subseteq Nat \ {0} /\ MaxAsked \in Nat /\ MaxInstalls \in Nat /\ MaxBroken \in Nat

VARIABLES
  browsing,                                  \* the dialog is open
  searches, searching, results, searchError, \* the last search begun, and the ones whose results or error are shown
  lists, loadingVersions, versions,          \* the same of the lists of versions
  selectedMod, selectedVersion,              \* the mod shown, and the mod the chosen version is of
  installing, installs, installed,           \* installed: what is marked as installed
  asked,                                     \* the calls under way, by kind and number
  broken

browserVars == <<browsing, searches, searching, results, searchError, lists, loadingVersions, versions, selectedMod,
                 selectedVersion, installing, installs, installed, asked, broken>>
searchVars == <<searches, searching, results, searchError>>
versionVars == <<lists, loadingVersions, versions, selectedMod, selectedVersion>>
installVars == <<installing, installs, installed>>

None == 0
NoCall == [mod |-> None, answer |-> "unasked"]
Numbers == 1 .. MaxAsked
Kinds == {"search", "versions", "install"}

BrowserInit ==
  /\ browsing = FALSE /\ searches = 0 /\ searching = FALSE /\ results = 0 /\ searchError = 0
  /\ lists = 0 /\ loadingVersions = FALSE /\ versions = 0 /\ selectedMod = None /\ selectedVersion = None
  /\ installing = FALSE /\ installs = 0 /\ installed = {} /\ broken = 0
  /\ asked = [k \in Kinds |-> [n \in Numbers |-> NoCall]]

-----------------------------------------------------------------------------
\* Mutant: no answer is taken for an old one.
IsCurrent_Always(n, latest) == TRUE

\* createRequestSequence: an answer counts while nothing was asked since.
IsCurrent(n, latest) == n = latest

\* The panel, or what it asks, answers: with what was asked for, with an error in the answer, or not at all.
Respond(k, n) ==
  /\ asked[k][n].answer = "asked"
  /\ \/ asked' = [asked EXCEPT ![k][n].answer = "ok"] /\ UNCHANGED broken
     \/ /\ broken < MaxBroken /\ broken' = broken + 1
        /\ \E a \in {"error", "failed"} : asked' = [asked EXCEPT ![k][n].answer = a]
  /\ UNCHANGED <<browsing, searchVars, versionVars, installVars>>

\* searchMods; Enter and the filters start it whatever is under way.
BeginsSearch ==
  /\ searches < MaxAsked /\ searches' = searches + 1 /\ searching' = TRUE /\ results' = 0 /\ searchError' = 0
  /\ asked' = [asked EXCEPT !["search"][searches'] = [mod |-> None, answer |-> "asked"]]

SearchMods ==
  /\ browsing /\ selectedMod = None /\ BeginsSearch
  /\ UNCHANGED <<browsing, versionVars, installVars, broken>>

OpenBrowser ==
  ~browsing /\ browsing' = TRUE /\ BeginsSearch /\ UNCHANGED <<versionVars, installVars, broken>>

CloseBrowser ==
  /\ browsing /\ browsing' = FALSE /\ selectedMod' = None
  /\ UNCHANGED <<searchVars, lists, loadingVersions, versions, selectedVersion, installVars, asked, broken>>

\* A search that failed shows its error even when another was begun since.
SearchArrives(n) ==
  LET answer == asked["search"][n].answer
      current == IsCurrent(n, searches) IN
  /\ answer \in {"ok", "error", "failed"} /\ asked' = [asked EXCEPT !["search"][n] = NoCall]
  /\ results' = IF answer = "ok" /\ current THEN n ELSE results
  /\ searchError' = IF answer = "failed" \/ (answer = "error" /\ current) THEN n ELSE searchError
  /\ searching' = (searching /\ ~current)
  /\ UNCHANGED <<browsing, searches, versionVars, installVars, broken>>

-----------------------------------------------------------------------------
ViewModVersions(m) ==
  /\ browsing /\ results # 0 /\ searchError = 0 /\ selectedMod = None /\ lists < MaxAsked
  /\ selectedMod' = m /\ loadingVersions' = TRUE /\ lists' = lists + 1 /\ versions' = 0 /\ selectedVersion' = None
  /\ asked' = [asked EXCEPT !["versions"][lists'] = [mod |-> m, answer |-> "asked"]]
  /\ UNCHANGED <<browsing, searchVars, installVars, broken>>

Back ==
  /\ browsing /\ selectedMod # None /\ selectedMod' = None
  /\ UNCHANGED <<browsing, searchVars, lists, loadingVersions, versions, selectedVersion, installVars, asked, broken>>

\* The first version is chosen.
VersionsArrive(n) ==
  LET c == asked["versions"][n]
      current == IsCurrent(n, lists) IN
  /\ c.answer \in {"ok", "error", "failed"} /\ asked' = [asked EXCEPT !["versions"][n] = NoCall]
  /\ IF c.answer = "ok" /\ current THEN versions' = n /\ selectedVersion' = c.mod ELSE UNCHANGED <<versions, selectedVersion>>
  /\ loadingVersions' = (loadingVersions /\ ~current)
  /\ UNCHANGED <<browsing, searchVars, lists, selectedMod, installVars, broken>>

InstallMod ==
  /\ browsing /\ selectedMod # None /\ selectedVersion # None /\ ~installing /\ installs < MaxInstalls
  /\ installing' = TRUE /\ installs' = installs + 1
  /\ asked' = [asked EXCEPT !["install"][1] = [mod |-> selectedVersion, answer |-> "asked"]]
  /\ UNCHANGED <<browsing, searchVars, versionVars, installed, broken>>

\* Installed: the mod that is shown by now is marked; with none shown the mark fails, and is caught.
InstallArrives ==
  LET c == asked["install"][1]
      marks == c.answer = "ok" /\ selectedMod # None IN
  /\ c.answer \in {"ok", "error", "failed"} /\ asked' = [asked EXCEPT !["install"][1] = NoCall]
  /\ installing' = FALSE
  /\ installed' = IF marks THEN installed \union {selectedMod} ELSE installed
  /\ selectedMod' = IF marks THEN None ELSE selectedMod
  /\ UNCHANGED <<browsing, searchVars, lists, loadingVersions, versions, selectedVersion, installs, broken>>

-----------------------------------------------------------------------------
Answers(k, n) ==
  \/ Respond(k, n) \/ (k = "search" /\ SearchArrives(n)) \/ (k = "versions" /\ VersionsArrive(n))
  \/ (k = "install" /\ n = 1 /\ InstallArrives)

BrowserNext ==
  \/ SearchMods \/ OpenBrowser \/ CloseBrowser \/ Back \/ InstallMod
  \/ \E m \in Results : ViewModVersions(m)
  \/ \E k \in Kinds, n \in Numbers : Answers(k, n)

\* While calls are under way, one is answered or its answer arrives.
BrowserFairness == WF_browserVars(\E k \in Kinds, n \in Numbers : Answers(k, n))

BrowserSpec == BrowserInit /\ [][BrowserNext]_browserVars /\ BrowserFairness

-----------------------------------------------------------------------------
BrowserCalls == [mod: Results \union {None}, answer: {"unasked", "asked", "ok", "error", "failed"}]

BrowserTypeOK ==
  /\ browsing \in BOOLEAN /\ searching \in BOOLEAN /\ loadingVersions \in BOOLEAN /\ installing \in BOOLEAN
  /\ searches \in 0 .. MaxAsked /\ results \in 0 .. MaxAsked /\ searchError \in 0 .. MaxAsked
  /\ lists \in 0 .. MaxAsked /\ versions \in 0 .. MaxAsked
  /\ selectedMod \in Results \union {None} /\ selectedVersion \in Results \union {None} /\ installed \subseteq Results
  /\ asked \in [Kinds -> [Numbers -> BrowserCalls]]

\* What the dialog lists was found by the last search, and what it would install is a version of the
\* mod it shows, however late the answers to earlier questions come.
AnswersAreNewest ==
  /\ results \in {0, searches}
  /\ selectedMod # None /\ selectedVersion # None => selectedVersion = selectedMod

\* A search, a list of versions or an installation is waited for.
BrowserWaits == searching \/ loadingVersions \/ installing

=============================================================================
