----------------------------- MODULE ServerPages -----------------------------
(***************************************************************************)
(* The pages that show and run the servers, in one tab: the list in the    *)
(* store that the sidebar shows (lib/stores/servers.ts) and the layout     *)
(* polls, the page of one server with its own poll                         *)
(* (routes/servers/[id]), the page of all (routes/servers), the dashboard  *)
(* (routes/+page.svelte), and the keys that make a lifecycle call          *)
(* idempotent (lib/lifecycle-request.ts).                                  *)
(*                                                                         *)
(* A call is answered in one step and its answer arrives in a later one.   *)
(* SvelteKit keeps the page of one server when the user moves to another's *)
(* and makes a new one otherwise; the functions of a page that is gone go  *)
(* on running.                                                             *)
(***************************************************************************)
EXTENDS Integers

CONSTANTS
  Servers,
  Keys,        \* the request ids that may be drawn
  MaxMoves,    \* bound on pages the user opens
  MaxFaults    \* bound on calls that fail

ASSUME PagesAssumption ==
  /\ Servers \subseteq Nat \ {0} /\ Keys \subseteq Nat \ {0}
  /\ MaxMoves \in Nat /\ MaxFaults \in Nat

None == 0
List == -1     \* /servers
Home == -2     \* the dashboard

VARIABLES
  exists,      \* the servers there are
  store,       \* serversStore
  at,          \* the page: a server, List or Home
  visit,       \* the instance of the page component
  shown, loading, loadError,   \* the page of one server: server, loading, loadError
  busy,        \* actionLoading, or loading on the page of all: its buttons are disabled
  inflight,    \* the keys of lifecycle-request.ts
  drawn,       \* the request ids drawn so far
  call,        \* the calls under way
  moves, faults

pageVars == <<at, visit, shown, loading, loadError, busy>>
bounds == <<moves, faults>>
serverVars == <<exists, store, pageVars, inflight, drawn, call, bounds>>

Actions == {"start", "delete"}        \* stop and restart are as start
Slots == {"poll", "load", "tick1", "tick2", "act1", "act2"}
Ticks == {"tick1", "tick2"}
Acts == {"act1", "act2"}
Call == [op: {"free", "list", "get", "start", "delete", "reload"}, id: Servers \union {None}, page: {"list", "server"},
         visit: Nat, key: Keys \union {None}, owns: BOOLEAN, answer: {"none", "ok", "failed"}, got: SUBSET (Servers \union {None})]
Free == [op |-> "free", id |-> None, page |-> "list", visit |-> 0, key |-> None, owns |-> FALSE,
         answer |-> "none", got |-> {}]
Get(s, v) == [Free EXCEPT !.op = "get", !.id = s, !.page = "server", !.visit = v]
Listing == [Free EXCEPT !.op = "list"]

PagesInit ==
  /\ exists = Servers /\ store = {} /\ at = Home /\ visit = 1
  /\ shown = None /\ loading = TRUE /\ loadError = FALSE /\ busy = FALSE
  /\ inflight = [s \in Servers |-> [a \in Actions |-> None]] /\ drawn = {}
  /\ call = [c \in Slots |-> IF c \in {"poll", "load"} THEN Listing ELSE Free]
  /\ moves = 0 /\ faults = 0

-----------------------------------------------------------------------------
(* The panel *)

\* The server a call is about.
Asks(r) == IF r.op = "reload" THEN CHOOSE s \in r.got : TRUE ELSE r.id

\* GetServer finds the row or fails; ListServers lists the rows; DeleteServer removes one.
Handle(c) ==
  LET r == call[c] IN
  /\ r.op \notin {"free"} /\ r.answer = "none"
  /\ \/ /\ call' = [call EXCEPT ![c].answer = IF r.op = "list" \/ Asks(r) \in exists THEN "ok" ELSE "failed",
                                ![c].got = IF r.op = "list" THEN exists ELSE @]
        /\ exists' = IF r.op = "delete" THEN exists \ {r.id} ELSE exists
        /\ UNCHANGED faults
     \/ /\ faults < MaxFaults /\ faults' = faults + 1
        /\ call' = [call EXCEPT ![c].answer = "failed"] /\ UNCHANGED exists
  /\ UNCHANGED <<store, pageVars, inflight, drawn, moves>>

-----------------------------------------------------------------------------
(* Lists *)

\* Mutant: what the panel lists is added to the store.
Listed_Merges(c) == IF call[c].answer = "ok" THEN store' = store \union call[c].got ELSE UNCHANGED store

\* fetchServers and the dashboard replace the list; a failure leaves it.
Listed(c) == IF call[c].answer = "ok" THEN store' = call[c].got ELSE UNCHANGED store

ListArrives(c) ==
  /\ call[c].op = "list" /\ call[c].answer # "none" /\ Listed(c)
  /\ call' = [call EXCEPT ![c] = Free]
  /\ UNCHANGED <<exists, pageVars, inflight, drawn, bounds>>

\* The layout's interval.
PollList ==
  /\ call["poll"] = Free /\ call' = [call EXCEPT !["poll"] = Listing]
  /\ UNCHANGED <<exists, store, pageVars, inflight, drawn, bounds>>

-----------------------------------------------------------------------------
(* The page of one server *)

\* Mutant: the answer is shown whatever server the page is for by now.
Current_Any(r) == at \in Servers

\* serverId === requestedId
Current(r) == at = r.id

\* A failure is reported while there is nothing on screen, and otherwise logged.
FirstLoadFails(r) == IF shown = None THEN loading' = FALSE /\ loadError' = TRUE ELSE UNCHANGED <<loading, loadError>>

\* The end of loadServer; an instance that is gone still updates the store.
Loaded(r) ==
  /\ IF Current(r) /\ r.visit = visit
     THEN IF r.answer = "ok" THEN shown' = r.id /\ loading' = FALSE /\ loadError' = FALSE
          ELSE FirstLoadFails(r) /\ UNCHANGED shown
     ELSE UNCHANGED <<shown, loading, loadError>>
  /\ store' = IF Current(r) /\ r.answer = "ok" THEN store \union {r.id} ELSE store

GetArrives(c) ==
  /\ call[c].op = "get" /\ call[c].answer # "none" /\ Loaded(call[c])
  /\ call' = [call EXCEPT ![c] = Free]
  /\ UNCHANGED <<exists, at, visit, busy, inflight, drawn, bounds>>

\* The page's interval.
Tick ==
  /\ at \in Servers /\ \E c \in Ticks : call[c] = Free /\ call' = [call EXCEPT ![c] = Get(at, visit)]
  /\ UNCHANGED <<exists, store, pageVars, inflight, drawn, bounds>>

-----------------------------------------------------------------------------
(* Moving *)

\* A delete of a page that goes keeps the server that page showed last.
Left(r, from) == IF r.op = "delete" /\ r.page = "server" /\ r.visit = visit THEN [r EXCEPT !.got = {from}] ELSE r

\* Another page, made anew; the page of all asks for the list if the store is empty, the dashboard always.
Mounts(where, calls) ==
  /\ visit' = visit + 1 /\ shown' = None /\ loading' = TRUE /\ loadError' = FALSE /\ busy' = FALSE
  /\ at' = where
  /\ LET kept == [c \in Slots |-> Left(calls[c], shown)]
         sends == where = Home \/ (where = List /\ store = {}) IN
     IF where \in Servers
     THEN \E c \in Ticks : call[c] = Free /\ call' = [kept EXCEPT ![c] = Get(where, visit + 1)]
     ELSE /\ sends => call["load"] = Free
          /\ call' = IF sends THEN [kept EXCEPT !["load"] = Listing] ELSE kept

\* The page of one server becomes that of another: the effect starts its interval and its load again.
Switches(s) ==
  /\ at' = s /\ loading' = TRUE
  /\ \E c \in Ticks : call[c] = Free /\ call' = [call EXCEPT ![c] = Get(s, visit)]
  /\ UNCHANGED <<visit, shown, loadError, busy>>

Goto(where) ==
  /\ where # at /\ moves < MaxMoves /\ moves' = moves + 1
  /\ IF at \in Servers /\ where \in Servers THEN Switches(where) ELSE Mounts(where, call)
  /\ UNCHANGED <<exists, store, inflight, drawn, faults>>

-----------------------------------------------------------------------------
(* Lifecycle calls *)

\* randomId()
NewKey == CHOOSE k \in Keys \ drawn : TRUE

\* beginLifecycleRequest, and the call with its key.
Begin(c, s, a, page) ==
  LET known == inflight[s][a] IN
  /\ call[c] = Free /\ ~busy /\ busy' = TRUE
  /\ IF known # None THEN UNCHANGED <<inflight, drawn>>
     ELSE Keys \ drawn # {} /\ drawn' = drawn \union {NewKey} /\ inflight' = [inflight EXCEPT ![s][a] = NewKey]
  /\ call' = [call EXCEPT ![c] = [Free EXCEPT !.op = a, !.id = s, !.page = page, !.visit = visit,
                                  !.key = inflight'[s][a], !.owns = (known = None)]]
  /\ UNCHANGED <<exists, store, at, visit, shown, loading, loadError, bounds>>

\* handleServerAction and confirmDeleteServer
Act(c, a) ==
  \/ at \in Servers /\ shown # None /\ Begin(c, shown, a, "server")
  \/ at = List /\ \E s \in store : Begin(c, s, a, "list")

\* Mutant: a call that failed keeps its key.
Finished_OnlyOk(r, a) ==
  inflight' = IF r.owns /\ r.answer = "ok" /\ inflight[r.id][a] = r.key THEN [inflight EXCEPT ![r.id][a] = None] ELSE inflight

\* finish()
Finished(r, a) ==
  inflight' = IF r.owns /\ inflight[r.id][a] = r.key THEN [inflight EXCEPT ![r.id][a] = None] ELSE inflight

\* The page's buttons are enabled again.
Released(r) == busy' = (busy /\ r.visit # visit)

\* On the page of one server the action, done or failed, ends with a load of the server the page is for.
StartArrives(c) ==
  LET r == call[c] IN
  /\ r.op = "start" /\ r.answer # "none"
  /\ IF r.page = "server" /\ at \in Servers
     THEN call' = [call EXCEPT ![c].op = "reload", ![c].answer = "none", ![c].got = {at}]
          /\ UNCHANGED <<inflight, busy>>
     ELSE call' = [call EXCEPT ![c] = Free] /\ Finished(r, "start") /\ Released(r)
  /\ UNCHANGED <<exists, store, at, visit, shown, loading, loadError, drawn, bounds>>

\* That load: only now is the key given back.
ReloadArrives(c) ==
  LET r == call[c] IN
  /\ r.op = "reload" /\ r.answer # "none"
  /\ Loaded([r EXCEPT !.id = Asks(r)])
  /\ call' = [call EXCEPT ![c] = Free] /\ Finished(r, "start") /\ Released(r)
  /\ UNCHANGED <<exists, at, visit, drawn, bounds>>

\* The server removed from the store: the page of all has kept the one it asked about, the page
\* of one server reads again which server it shows.
Removed(r) == IF r.page = "list" THEN {r.id} ELSE IF r.visit = visit THEN {shown} ELSE r.got

DeleteArrives(c) ==
  LET r == call[c] IN
  /\ r.op = "delete" /\ r.answer # "none" /\ Finished(r, "delete")
  /\ store' = IF r.answer = "ok" THEN store \ Removed(r) ELSE store
  /\ IF r.answer = "ok" /\ r.page = "server" /\ at # List THEN Mounts(List, [call EXCEPT ![c] = Free])
     ELSE /\ Released(r) /\ call' = [call EXCEPT ![c] = Free]
          /\ UNCHANGED <<at, visit, shown, loading, loadError>>
  /\ UNCHANGED <<exists, drawn, bounds>>

-----------------------------------------------------------------------------
Arrive(c) == ListArrives(c) \/ GetArrives(c) \/ StartArrives(c) \/ ReloadArrives(c) \/ DeleteArrives(c)

PagesNext ==
  \/ \E c \in Slots : Handle(c) \/ Arrive(c)
  \/ PollList \/ Tick
  \/ \E where \in Servers \union {List, Home} : Goto(where)
  \/ \E c \in Acts, a \in Actions : Act(c, a)

\* Calls are answered and answers arrive, each on its own; the layout's interval runs.
PagesFairness ==
  /\ \A c \in Slots \ {"poll"} : WF_serverVars(Handle(c) \/ Arrive(c))
  /\ WF_serverVars(PollList \/ Handle("poll") \/ Arrive("poll"))

PagesSpec == PagesInit /\ [][PagesNext]_serverVars /\ PagesFairness

-----------------------------------------------------------------------------
PagesTypeOK ==
  /\ exists \subseteq Servers /\ store \subseteq Servers /\ at \in Servers \union {List, Home}
  /\ visit \in Nat /\ shown \in Servers \union {None} /\ loading \in BOOLEAN /\ loadError \in BOOLEAN /\ busy \in BOOLEAN
  /\ inflight \in [Servers -> [Actions -> Keys \union {None}]] /\ drawn \subseteq Keys
  /\ call \in [Slots -> Call]
  /\ moves \in Nat /\ faults \in Nat

\* A key is remembered only while the call that drew it is under way: none stays behind, under
\* which every later start would be taken for a repetition of a finished one.
KeysAreOwned ==
  \A s \in Servers, a \in Actions : inflight[s][a] # None =>
    \E c \in Acts : call[c].owns /\ call[c].key = inflight[s][a] /\ call[c].id = s

\* What the page shows changes only to the server it is for, however late the answers are.
ShowsItsServer == [][shown' # shown => shown' \in {at', None}]_serverVars

\* The sidebar settles to the servers there are, whatever the order of the answers and of the
\* deletions.
StoreSettles == <>[](store = exists)

=============================================================================
