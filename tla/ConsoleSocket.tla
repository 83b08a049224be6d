--------------------------- MODULE ConsoleSocket ---------------------------
(***************************************************************************)
(* The live console of a server page: the WebSocket client of one browser  *)
(* tab (lib/stores/websocket.svelte.ts), the console component that uses   *)
(* it (lib/components/server-console.svelte), and what the hub keeps for a *)
(* connection (internal/ws/hub.go).                                        *)
(*                                                                         *)
(* JavaScript runs one callback at a time and Svelte runs the effects a    *)
(* callback caused before the next one, so a callback with its effects is  *)
(* one step.  Between two of them the network, the hub and the user move.  *)
(* The handlers of a socket work on the client's one current socket, not   *)
(* on the socket they were registered for.                                 *)
(***************************************************************************)
EXTENDS Integers, Sequences, SequencesExt

CONSTANTS
  Servers,     \* the servers the user may open in this tab
  MaxSockets,  \* bound on sockets the tab creates
  MaxActs,   \* bound on tab switches, server changes and refreshes
  MaxLosses,   \* bound on connections that break or do not come up
  MaxQueue     \* the hub's send buffer, in messages

ASSUME ConsoleAssumption ==
  MaxSockets \in Nat /\ MaxActs \in Nat /\ MaxLosses \in Nat /\ MaxQueue \in Nat \ {0}

VARIABLES
  sock,       \* the readyState of every socket created
  current,    \* this.socket; NoSocket is null
  state,      \* connectionState
  retry,      \* reconnectTimer is armed
  flushing,   \* logFlushTimer runs
  wanted,     \* subscriptions
  buffered,   \* the servers with lines in logBuffer
  outbox,     \* messages on their way to the hub, per socket
  inbox,      \* messages on their way to the tab, per socket
  streamed,   \* the hub's subscriptions, per connection
  session,    \* whether the user's session is still valid
  container,  \* the servers whose row names a container
  server,     \* the server the page shows
  known,      \* whether the console has seen that server's container
  active,     \* whether the console tab is open
  shown,      \* the servers whose lines are in logEntries
  fetches,    \* getServerLogs calls in flight
  command,    \* a sendCommand call in flight
  loading,
  polling,    \* fallbackPollTimer runs
  acts, losses

clientVars == <<sock, current, state, retry, flushing, wanted, buffered>>
wireVars == <<outbox, inbox>>
hubVars == <<streamed, session, container>>
pageVars == <<server, known, active, shown, fetches, command, loading, polling>>
consoleVars == <<clientVars, wireVars, hubVars, pageVars, acts, losses>>

NoSocket == 0
Sockets == 1..MaxSockets
Existing == 1..Len(sock)
ConnectionState == {"disconnected", "connecting", "connected", "authenticated"}
ClientMessage == [type: {"auth"}] \union [type: {"subscribe", "unsubscribe", "command"}, server: Servers]
ServerMessage == [type: {"authOk", "authFail"}] \union [type: {"logs", "log", "result"}, server: Servers]
Fetch == [server: Servers, ends: BOOLEAN]   \* ends: awaited by sendCommandViaRpc, which clears loading

IsOpen(k) == k # NoSocket /\ sock[k] = "open"
Live(k) == k # NoSocket /\ sock[k] \in {"connecting", "open"}

ConsoleInit ==
  /\ sock = <<>> /\ current = NoSocket /\ state = "disconnected"
  /\ retry = FALSE /\ flushing = FALSE /\ wanted = {} /\ buffered = {}
  /\ outbox = [k \in Sockets |-> <<>>] /\ inbox = [k \in Sockets |-> <<>>]
  /\ streamed = [k \in Sockets |-> {}] /\ session = TRUE
  /\ container \in SUBSET Servers /\ server \in Servers /\ known \in {FALSE, (server \in container)}
  /\ active = FALSE /\ shown = {} /\ fetches = {} /\ command = FALSE
  /\ loading = FALSE /\ polling = FALSE /\ acts = 0 /\ losses = 0

-----------------------------------------------------------------------------
(* The client's methods, as parts of a step *)

Put(box, k, m) == [box EXCEPT ![k] = Append(@, m)]
\* send: only over an open socket; otherwise the message is dropped.
SendAll(ms) == outbox' = IF IsOpen(current) THEN [outbox EXCEPT ![current] = @ \o ms] ELSE outbox

\* connect, its early returns: the current socket is open, or one is on its way.
Connects == ~IsOpen(current) /\ state # "connecting"

\* connect: a new socket becomes the current one.
Connect ==
  IF Connects
  THEN /\ Len(sock) < MaxSockets
       /\ sock' = Append(sock, "connecting") /\ current' = Len(sock) + 1 /\ state' = "connecting"
  ELSE UNCHANGED <<sock, current, state>>

\* The polling effect: it runs when the connection state or the tab changes.
PollEffect == polling' = (active' /\ state' # "authenticated")

\* flushLogBuffer: buffered lines go to the console if its handlers are registered
\* (while the tab is open) and the lines are the shown server's.
Flushed == IF active /\ server \in buffered THEN shown \union {server} ELSE shown
Flush == shown' = Flushed /\ buffered' = {}

\* cleanup: every timer is cleared and the buffer is flushed.
Cleanup == retry' = FALSE /\ flushing' = FALSE /\ Flush

\* onclose, after any onerror (the socket is closed by then): cleanup, and a retry, since
\* neither the hub nor the client closes with code 1000.
OnClose(k) ==
  /\ sock' = [sock EXCEPT ![k] = "closed"]
  /\ flushing' = FALSE /\ Flush /\ state' = "disconnected" /\ retry' = TRUE
  /\ active' = active /\ PollEffect

FetchLogs(f) == fetches' = fetches \union {f} /\ loading' = TRUE
Asked(s) == [server |-> s, ends |-> FALSE]

\* subscribe and unsubscribe record the wish; they send only when authenticated.
Told(ms) == IF state = "authenticated" THEN SendAll(ms) ELSE UNCHANGED outbox
Sub(s) == [type |-> "subscribe", server |-> s]
Unsub(s) == [type |-> "unsubscribe", server |-> s]

-----------------------------------------------------------------------------
(* The network *)

\* onopen: the AUTH message goes out over the current socket.
Opened(k) ==
  /\ sock[k] = "connecting" /\ session
  /\ sock' = [sock EXCEPT ![k] = "open"]
  /\ state' = "connected" /\ flushing' = TRUE
  /\ outbox' = IF current = k \/ IsOpen(current) THEN Put(outbox, current, [type |-> "auth"]) ELSE outbox
  /\ active' = active /\ PollEffect
  /\ UNCHANGED <<current, retry, wanted, buffered, inbox, hubVars, server, known, shown, fetches,
                 command, loading, acts, losses>>

\* The handshake fails (the panel is down, or answers 401) or an open connection breaks.
Closed(k) ==
  /\ Live(k)
  /\ \/ sock[k] = "connecting" /\ ~session /\ UNCHANGED losses
     \/ losses < MaxLosses /\ losses' = losses + 1
  /\ OnClose(k)
  /\ outbox' = [outbox EXCEPT ![k] = <<>>] /\ inbox' = [inbox EXCEPT ![k] = <<>>]
  /\ streamed' = [streamed EXCEPT ![k] = {}]
  /\ UNCHANGED <<current, wanted, session, container, server, known, fetches, command, loading, acts>>

\* Mutant: a new connection does not ask again for what is subscribed.
Resubscribed_Nothing == <<>>
\* resubscribeAll.
Resubscribed == SetToSeq({Sub(s) : s \in wanted})

\* handleMessage.
Receive(k) ==
  /\ IsOpen(k) /\ inbox[k] # <<>>
  /\ inbox' = [inbox EXCEPT ![k] = Tail(@)]
  /\ active' = active
  /\ LET m == Head(inbox[k]) IN
     \/ /\ m.type = "authOk" /\ state' = "authenticated" /\ SendAll(Resubscribed) /\ PollEffect
        /\ UNCHANGED <<buffered, shown, loading>>
     \/ m.type = "authFail" /\ UNCHANGED <<state, outbox, polling, buffered, shown, loading>>
     \/ /\ m.type = "logs" /\ shown' = (IF active /\ m.server = server THEN {server} ELSE shown)
        /\ UNCHANGED <<state, outbox, polling, buffered, loading>>
     \/ /\ m.type = "log" /\ buffered' = buffered \union {m.server}
        /\ UNCHANGED <<state, outbox, polling, shown, loading>>
     \/ /\ m.type = "result" /\ loading' = (loading /\ ~(active /\ m.server = server))
        /\ UNCHANGED <<state, outbox, polling, buffered, shown>>
  /\ UNCHANGED <<sock, current, retry, flushing, wanted, hubVars, server, known, fetches, command, acts, losses>>

-----------------------------------------------------------------------------
(* The hub, one connection's read loop *)

\* handleSubscribe and handleUnsubscribe: a server without a container gets no subscription.
Subscriptions(k, m) ==
  CASE m.type = "subscribe" /\ m.server \in container -> streamed[k] \union {m.server}
    [] m.type = "unsubscribe" -> streamed[k] \ {m.server}
    [] OTHER -> streamed[k]

\* Mutant: an authentication is not answered.
Replies_AuthDropped(m) ==
  CASE m.type = "subscribe" -> <<[type |-> "logs", server |-> m.server]>>
    [] m.type = "command" -> <<[type |-> "result", server |-> m.server]>>
    [] OTHER -> <<>>

\* handleAuth, handleSubscribe (the history, then nothing new to tell) and handleCommand.
Replies(m) ==
  CASE m.type = "auth" -> <<[type |-> IF session THEN "authOk" ELSE "authFail"]>>
    [] m.type = "subscribe" -> <<[type |-> "logs", server |-> m.server]>>
    [] m.type = "command" -> <<[type |-> "result", server |-> m.server]>>
    [] OTHER -> <<>>

\* Control messages wait for room in the send buffer.
HubReceives(k) ==
  /\ IsOpen(k) /\ outbox[k] # <<>> /\ Len(inbox[k]) < MaxQueue
  /\ LET m == Head(outbox[k]) IN
       /\ outbox' = [outbox EXCEPT ![k] = Tail(@)]
       /\ inbox' = [inbox EXCEPT ![k] = @ \o Replies(m)]
       /\ streamed' = [streamed EXCEPT ![k] = Subscriptions(k, m)]
  /\ UNCHANGED <<clientVars, session, container, pageVars, acts, losses>>

\* A log line: forwarded if there is room, dropped if not.
HubLogs(k, s) ==
  /\ IsOpen(k) /\ s \in streamed[k] /\ Len(inbox[k]) < MaxQueue
  /\ inbox' = Put(inbox, k, [type |-> "log", server |-> s])
  /\ UNCHANGED <<clientVars, outbox, hubVars, pageVars, acts, losses>>

\* A server's container is created, and a session ends.
ContainerCreated(s) ==
  /\ s \notin container /\ container' = container \union {s}
  /\ UNCHANGED <<clientVars, wireVars, streamed, session, pageVars, acts, losses>>
SessionEnds ==
  /\ session /\ losses < MaxLosses /\ losses' = losses + 1 /\ session' = FALSE
  /\ UNCHANGED <<clientVars, wireVars, streamed, container, pageVars, acts>>

-----------------------------------------------------------------------------
(* Timers and answers *)

RetryTick ==
  /\ retry /\ retry' = FALSE /\ Connect /\ active' = active
  /\ IF state' # state THEN PollEffect ELSE UNCHANGED polling
  /\ UNCHANGED <<flushing, wanted, buffered, wireVars, hubVars, server, known, shown, fetches,
                 command, loading, acts, losses>>

FlushTick ==
  /\ flushing /\ buffered # {} /\ Flush
  /\ UNCHANGED <<sock, current, state, retry, flushing, wanted, wireVars, hubVars, server, known, active,
                 fetches, command, loading, polling, acts, losses>>

PollTick ==
  /\ polling /\ active /\ state # "authenticated" /\ FetchLogs(Asked(server))
  /\ UNCHANGED <<clientVars, wireVars, hubVars, server, known, active, shown, command, polling, acts, losses>>

\* Mutant: the answer is shown whichever server it is for.
Fetched_Unguarded(f) == {f.server}
\* fetchLogs, its answer or its error: ignored when the page shows another server.
Fetched(f) == IF f.server = server THEN {server} ELSE shown

FetchReturns(f) ==
  /\ f \in fetches /\ fetches' = fetches \ {f}
  /\ shown' \in {shown, Fetched(f)}
  /\ loading' = (loading /\ f.server # server /\ ~f.ends)
  /\ UNCHANGED <<clientVars, wireVars, hubVars, server, known, active, command, polling, acts, losses>>

CommandReturns ==
  /\ command /\ command' = FALSE
  /\ \/ FetchLogs([server |-> server, ends |-> TRUE])
     \/ loading' = FALSE /\ UNCHANGED fetches
  /\ UNCHANGED <<clientVars, wireVars, hubVars, server, known, active, shown, polling, acts, losses>>

-----------------------------------------------------------------------------
(* The user and the page *)

Acts == acts < MaxActs /\ acts' = acts + 1

\* The tab is opened: setupWebSocket, which first cleans up; the polling effect runs before
\* it, and again after it only if connect changed the state.
OpenConsole ==
  /\ ~active /\ Acts /\ active' = TRUE
  /\ Connect
  /\ polling' = (state' # state)
  /\ wanted' = wanted \union {server} /\ Told(<<Unsub(server), Sub(server)>>)
  /\ FetchLogs(Asked(server))
  /\ UNCHANGED <<retry, flushing, buffered, inbox, hubVars, server, known, shown, command, losses>>

\* The tab is left, or the page: cleanupWebSocket.  The connection stays.
LeaveConsole ==
  /\ active /\ active' = FALSE /\ polling' = FALSE
  /\ wanted' = wanted \ {server} /\ Told(<<Unsub(server)>>)
  /\ UNCHANGED <<sock, current, state, retry, flushing, buffered, inbox, hubVars, server, known, shown,
                 fetches, command, loading, acts, losses>>

\* The page shows another server.
ChangeServer(s) ==
  /\ s # server /\ Acts /\ server' = s /\ known' \in {FALSE, (s \in container)} /\ shown' = {}
  /\ wanted' = (wanted \ {server}) \union (IF active THEN {s} ELSE {})
  /\ Told(IF active THEN <<Unsub(server), Sub(s)>> ELSE <<Unsub(server)>>)
  /\ IF active THEN FetchLogs(Asked(s)) ELSE UNCHANGED <<fetches, loading>>
  /\ UNCHANGED <<sock, current, state, retry, flushing, buffered, inbox, hubVars, active, command, polling, losses>>

\* A poll of the page brings the container of a server that had none: subscribe again.
ContainerSeen ==
  /\ active /\ ~known /\ server \in container /\ known' = TRUE
  /\ wanted' = wanted \union {server} /\ Told(<<Sub(server)>>) /\ FetchLogs(Asked(server))
  /\ UNCHANGED <<sock, current, state, retry, flushing, buffered, inbox, hubVars, server, active, shown,
                 command, polling, acts, losses>>

\* handleTailChange.
ChangeTail ==
  /\ active /\ Acts
  /\ IF state = "authenticated"
     THEN /\ wanted' = wanted \union {server} /\ SendAll(<<Unsub(server), Sub(server)>>)
          /\ UNCHANGED <<fetches, loading>>
     ELSE FetchLogs(Asked(server)) /\ UNCHANGED <<wanted, outbox>>
  /\ UNCHANGED <<sock, current, state, retry, flushing, buffered, inbox, hubVars, server, known, active,
                 shown, command, polling, losses>>

\* sendCommand.
SendCommand ==
  /\ active /\ Acts /\ ~loading
  /\ IF state = "authenticated"
     THEN SendAll(<<[type |-> "command", server |-> server]>>) /\ UNCHANGED <<command, loading>>
     ELSE command' = TRUE /\ loading' = TRUE /\ UNCHANGED outbox
  /\ UNCHANGED <<clientVars, inbox, hubVars, server, known, active, shown, fetches, polling, losses>>

\* Mutant: the button is there until the client has authenticated.
ReconnectOffered_UntilLive == active /\ state # "authenticated"
\* The Reconnect button.
ReconnectOffered == active /\ state = "disconnected"

\* reconnect: the current socket is closed and dropped; its onclose, if it was still
\* live, comes later.
Reconnect ==
  /\ ReconnectOffered /\ Acts /\ Len(sock) < MaxSockets
  /\ Cleanup
  /\ sock' = Append(sock, "connecting") /\ current' = Len(sock) + 1 /\ state' = "connecting"
  /\ active' = active /\ PollEffect
  /\ UNCHANGED <<wanted, wireVars, hubVars, server, known, fetches, command, loading, losses>>

-----------------------------------------------------------------------------
ConsoleNext ==
  \/ \E k \in Existing : Opened(k) \/ Closed(k) \/ Receive(k) \/ HubReceives(k)
                         \/ (\E s \in Servers : HubLogs(k, s))
  \/ (\E s \in Servers : ContainerCreated(s)) \/ SessionEnds
  \/ RetryTick \/ FlushTick \/ PollTick \/ (\E f \in Fetch : FetchReturns(f)) \/ CommandReturns
  \/ OpenConsole \/ LeaveConsole \/ (\E s \in Servers : ChangeServer(s)) \/ ContainerSeen
  \/ ChangeTail \/ SendCommand \/ Reconnect

\* Sockets come up or fail, messages arrive and the retry timer fires; nothing makes the
\* user or the servers act.
ConsoleFairness ==
  /\ \A k \in Sockets : WF_consoleVars(k \in Existing /\ (Opened(k) \/ Closed(k)))
                        /\ WF_consoleVars(k \in Existing /\ Receive(k))
                        /\ WF_consoleVars(k \in Existing /\ HubReceives(k))
  /\ WF_consoleVars(RetryTick) /\ WF_consoleVars(ContainerSeen)

-----------------------------------------------------------------------------
ConsoleSpec == ConsoleInit /\ [][ConsoleNext]_consoleVars /\ ConsoleFairness

-----------------------------------------------------------------------------
\* Types; a connection's queue never grows past the hub's send buffer.
ConsoleTypeOK ==
  /\ sock \in Seq({"connecting", "open", "closed"}) /\ Len(sock) <= MaxSockets /\ current \in 0..Len(sock)
  /\ state \in ConnectionState /\ retry \in BOOLEAN /\ flushing \in BOOLEAN
  /\ wanted \subseteq Servers /\ buffered \subseteq Servers
  /\ \A k \in Sockets : /\ outbox[k] \in Seq(ClientMessage) /\ inbox[k] \in Seq(ServerMessage)
                        /\ Len(inbox[k]) <= MaxQueue /\ streamed[k] \subseteq Servers
  /\ session \in BOOLEAN /\ container \subseteq Servers /\ server \in Servers /\ known \in BOOLEAN
  /\ active \in BOOLEAN /\ shown \subseteq Servers /\ fetches \subseteq Fetch
  /\ command \in BOOLEAN /\ loading \in BOOLEAN /\ polling \in BOOLEAN

\* The tab has at most one connection that is up or on its way, whatever retries, tab
\* switches and the Reconnect button do: a second one would deliver every line twice,
\* and its close would tear down the timers of the first.
OneLiveSocket == \A j, k \in Existing : Live(j) /\ Live(k) => j = k

\* Once a live connection is quiet, the hub streams what the tab subscribed to: the shown
\* server, if the console knows of its container, and nothing the tab gave up, whatever
\* was subscribed or dropped while the connection was down.
SubscriptionsAgree ==
  state = "authenticated" /\ outbox[current] = <<>> =>
    /\ streamed[current] \subseteq wanted
    /\ active /\ known => server \in streamed[current]

\* The log shows no line of another server, although answers and buffered lines for a
\* server the user left arrive later.
ShownBelongs == shown \subseteq {server}

\* The console, the socket and the hub agree on what is watched, whatever was lost on the way: what
\* streams is what is subscribed to, and what is shown belongs to the server on the page.
ConsoleAgrees == SubscriptionsAgree /\ ShownBelongs

\* An open console whose session stays valid becomes live again and stays so once
\* connections stop breaking.
Recovers == <>[](active /\ session) => <>[](state = "authenticated")

============================================================================
