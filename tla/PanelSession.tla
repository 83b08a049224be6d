---------------------------- MODULE PanelSession ----------------------------
(***************************************************************************)
(* Signing in and out: the auth store of each open tab (lib/stores/auth.ts)*)
(* over the token they share in localStorage, the interceptor every call   *)
(* goes through (lib/api/rpc-client.ts), the root layout that checks the   *)
(* session when a page is loaded and polls the servers, the login page,    *)
(* and the panel's sessions.                                               *)
(*                                                                         *)
(* A tab runs a few asynchronous functions at once; each is a thread with  *)
(* at most one call in flight, which the panel answers in one step and the *)
(* tab receives in a later one.  A session stands for its user.            *)
(***************************************************************************)
EXTENDS Integers, FiniteSets

CONSTANTS
  Tabs,
  Tokens,      \* the sessions the panel may open
  Accesses,    \* who may use the panel: "accounts", "anonymous" visitors too, or everyone ("open")
  Requests,    \* slots for the calls of the pages
  MaxMoves,    \* bound on pages the user loads, recovery keys and returns from the provider
  MaxFaults    \* bound on calls that fail and sessions that expire or are revoked

ASSUME SessionAssumption ==
  /\ Tokens \subseteq Nat \ {0} /\ Accesses \subseteq {"accounts", "anonymous", "open"}
  /\ MaxMoves \in Nat /\ MaxFaults \in Nat

NoToken == 0
Admin == -1      \* whom the panel answers when no authentication is configured
Anonymous == -2     \* an anonymous visitor

VARIABLES
  access, users, valid, issued,  \* the panel: its mode, whether there are accounts, its sessions
  stored,                        \* auth_token in localStorage
  other,                         \* the session another tab of the browser holds
  path, token, user, perms, auth, isLoading,
  loggingOut, refreshing,
  call,                          \* the call each thread of each tab waits for
  moves, faults

panelVars == <<access, users, valid, issued>>
storeVars == <<token, user, perms, auth, isLoading>>
tabVars == <<path, storeVars, loggingOut, refreshing>>
sessionBounds == <<moves, faults>>
sessionVars == <<panelVars, stored, other, tabVars, call, sessionBounds>>

Outs == {"out1", "out2"}
Threads == {"init", "mount", "form"} \union Requests \union Outs
Ops == {"idle", "status", "open", "check", "guest", "again", "oidc", "register", "login", "fetch", "leave",
        "recover", "data", "logout"}
Call == [op: Ops, with: Tokens \union {NoToken}, answer: {"none", "ok", "refused", "failed"},
         who: Tokens \union {NoToken, Admin, Anonymous}, setup: BOOLEAN]
Sent(op, held) == [op |-> op, with |-> held, answer |-> "none", who |-> NoToken, setup |-> FALSE]
Idle == Sent("idle", NoToken)

\* getHeaders
Header(t) == IF token[t] # NoToken THEN token[t] ELSE stored

\* checkAuthStatus goes on to the call that tells who the user is.
Check(held, setup) ==
  [Sent(CASE access = "open" -> "open" [] access # "open" /\ held # NoToken -> "check" [] OTHER -> "guest", held)
     EXCEPT !.setup = setup]
Checks == {"status", "open", "check", "guest"}

\* A page is loaded: the layout initializes, and so does the login page.
Loaded(t, where, held, mount) ==
  /\ path' = [path EXCEPT ![t] = where] /\ token' = [token EXCEPT ![t] = held]
  /\ user' = [user EXCEPT ![t] = NoToken] /\ perms' = [perms EXCEPT ![t] = NoToken]
  /\ auth' = [auth EXCEPT ![t] = FALSE] /\ isLoading' = [isLoading EXCEPT ![t] = TRUE]
  /\ loggingOut' = [loggingOut EXCEPT ![t] = FALSE] /\ refreshing' = [refreshing EXCEPT ![t] = FALSE]
  /\ call' = [call EXCEPT ![t] = [k \in Threads |-> CASE k = "init" -> Sent("status", held)
                                                      [] k = "mount" -> mount
                                                      [] OTHER -> Idle]]

SessionInit ==
  /\ access \in Accesses /\ users \in BOOLEAN /\ valid = {} /\ issued = {} /\ stored = NoToken /\ other = NoToken
  /\ path \in [Tabs -> {"app", "login"}] /\ token = [t \in Tabs |-> NoToken]
  /\ user = token /\ perms = token /\ auth = [t \in Tabs |-> FALSE] /\ isLoading = [t \in Tabs |-> TRUE]
  /\ loggingOut = auth /\ refreshing = auth
  /\ call = [t \in Tabs |-> [k \in Threads |-> IF k = "init" \/ (k = "mount" /\ path[t] = "login")
                                               THEN Sent("status", NoToken) ELSE Idle]]
  /\ moves = 0 /\ faults = 0

-----------------------------------------------------------------------------
(* The panel answers *)

FreshTokens == {s \in Tokens \ issued : \A r \in Tokens \ issued : s <= r}
Opens(s) == valid' = valid \union {s} /\ issued' = issued \union {s}

\* AuthenticateFromHeader: whom the token stands for, or NoToken.
Identity(held) ==
  IF access = "open" THEN Admin
  ELSE IF held # NoToken THEN (IF held \in valid THEN held ELSE NoToken)
  ELSE IF access = "anonymous" THEN Anonymous ELSE NoToken

PanelAnswers(t, k, answer, who) == call' = [call EXCEPT ![t][k].answer = answer, ![t][k].who = who]

Handle(t, k) ==
  LET c == call[t][k] IN
  /\ c.op \notin {"idle", "leave"} /\ c.answer = "none"
  /\ \/ c.op = "status" /\ call' = [call EXCEPT ![t][k].answer = "ok", ![t][k].setup = ~users]
        /\ UNCHANGED <<panelVars, faults>>
     \/ /\ c.op \in {"open", "check", "guest", "again", "oidc", "fetch", "data", "logout"}
        /\ PanelAnswers(t, k, IF Identity(c.with) = NoToken THEN "refused" ELSE "ok", Identity(c.with))
        /\ valid' = IF c.op = "logout" /\ Identity(c.with) # NoToken THEN valid \ {c.with} ELSE valid
        /\ UNCHANGED <<access, users, issued, faults>>
     \/ c.op = "login" /\ users /\ access # "open" /\ \E s \in FreshTokens : Opens(s) /\ PanelAnswers(t, k, "ok", s)
        /\ UNCHANGED <<access, users, faults>>
     \/ c.op = "login" /\ PanelAnswers(t, k, IF access = "open" THEN "failed" ELSE "refused", NoToken)
        /\ UNCHANGED <<panelVars, faults>>
     \/ c.op = "register" /\ PanelAnswers(t, k, "ok", NoToken) /\ users' = TRUE /\ UNCHANGED <<access, valid, issued, faults>>
     \/ c.op = "recover" /\ PanelAnswers(t, k, "ok", NoToken) /\ users' = FALSE /\ valid' = {} /\ UNCHANGED <<access, issued, faults>>
     \/ faults < MaxFaults /\ faults' = faults + 1 /\ PanelAnswers(t, k, "failed", NoToken) /\ UNCHANGED panelVars
  /\ UNCHANGED <<stored, other, tabVars, moves>>

\* A session expires, is revoked, or goes with its account.
EndSession ==
  /\ faults < MaxFaults /\ faults' = faults + 1 /\ \E s \in valid : valid' = valid \ {s}
  /\ UNCHANGED <<access, users, issued, stored, other, tabVars, call, moves>>

-----------------------------------------------------------------------------
(* The answers arrive *)

\* The interceptor logs out: a session was refused, outside the login page, and no logout is under way.
Bounces(t, k) == call[t][k].answer = "refused" /\ path[t] # "login" /\ ~loggingOut[t]

\* logout() calls the panel if the tab holds a token; without one it clears at once.
LogsOut(t, k) == Bounces(t, k) /\ token[t] # NoToken
Clears(t, k) == Bounces(t, k) /\ token[t] = NoToken

\* Mutant: localStorage keeps the token.
Forget_KeepsStored(t) ==
  /\ stored' = stored /\ token' = [token EXCEPT ![t] = NoToken]
  /\ user' = [user EXCEPT ![t] = NoToken] /\ perms' = [perms EXCEPT ![t] = NoToken]
  /\ auth' = [auth EXCEPT ![t] = FALSE] /\ isLoading' = [isLoading EXCEPT ![t] = FALSE]
  /\ path' = [path EXCEPT ![t] = "login"]

\* The end of logout().
Forget(t) ==
  /\ stored' = NoToken /\ token' = [token EXCEPT ![t] = NoToken]
  /\ user' = [user EXCEPT ![t] = NoToken] /\ perms' = [perms EXCEPT ![t] = NoToken]
  /\ auth' = [auth EXCEPT ![t] = FALSE] /\ isLoading' = [isLoading EXCEPT ![t] = FALSE]
  /\ path' = [path EXCEPT ![t] = "login"]

FreeOut(t) == CHOOSE o \in Outs : call[t][o] = Idle

\* Thread k goes on with its next call; a logout may begin beside it, or the login page mount.
Continues(t, k, next) ==
  /\ LogsOut(t, k) => \E o \in Outs : call[t][o] = Idle
  /\ call' = [call EXCEPT ![t] = [j \in Threads |->
       IF j = "mount" /\ path'[t] = "login" /\ path[t] # "login" THEN Sent("status", NoToken)
       ELSE IF LogsOut(t, k) /\ j = FreeOut(t) THEN Sent("logout", token[t])
       ELSE IF j = k THEN next
       ELSE call[t][j]]]
  /\ loggingOut' = [loggingOut EXCEPT ![t] = (@ \/ LogsOut(t, k)) /\ k \notin Outs]

\* The caller of a call that was refused or failed.
Unchecked(t) == isLoading' = [isLoading EXCEPT ![t] = FALSE] /\ UNCHANGED <<token, user, perms, auth>>

\* validateSession, and the two other calls that tell who the user is.
Checked(t, k) ==
  LET c == call[t][k] IN
  /\ isLoading' = [isLoading EXCEPT ![t] = FALSE] /\ perms' = [perms EXCEPT ![t] = c.who]
  /\ user' = [user EXCEPT ![t] = IF c.op = "guest" THEN @ ELSE c.who]
  /\ auth' = [auth EXCEPT ![t] = @ \/ c.op \notin {"open", "guest"}]
  /\ UNCHANGED token
Arrives(t, k) == IF call[t][k].op # "status" /\ call[t][k].answer = "ok" THEN Checked(t, k) ELSE Unchecked(t)

\* What the caller does, unless the interceptor has cleared everything.
Unless(t, k, caller) == IF Clears(t, k) THEN Forget(t) ELSE caller /\ UNCHANGED stored

\* checkAuthStatus: the first answer leads to a second call.
GoesOnChecking(t, k) ==
  call[t][k].op = "status" /\ call[t][k].answer = "ok" /\ (access # "accounts" \/ token[t] # NoToken)
StatusArrives(t, k) ==
  /\ GoesOnChecking(t, k)
  /\ call' = [call EXCEPT ![t][k] = Check(token[t], call[t][k].setup)]
  /\ UNCHANGED <<panelVars, stored, other, tabVars, sessionBounds>>

\* checkAuthStatus returns: a panel that could not be asked counts as one without accounts.
Enabled(c) == access # "open" /\ ~(c.op = "status" /\ c.answer = "failed")
Received(t, k) == call[t][k].answer # "none" /\ ~GoesOnChecking(t, k)

\* initialize, after checkAuthStatus: to the login page, on to validateSession, or on to the servers.
Proceeds(t, c) ==
  IF c.op = "again" THEN IF c.answer = "ok" \/ access = "anonymous" THEN "servers" ELSE "login"
  ELSE CASE ~Enabled(c) -> "servers"
         [] Enabled(c) /\ c.setup -> "login"
         [] Enabled(c) /\ ~c.setup /\ token[t] # NoToken -> "again"
         [] OTHER -> IF access = "anonymous" THEN "servers" ELSE "login"

\* The login page sends on a user who is already signed in.
InitArrives(t) ==
  LET c == call[t]["init"]  to == Proceeds(t, c) IN
  /\ Received(t, "init")
  /\ Unless(t, "init", Arrives(t, "init")
                       /\ path' = [path EXCEPT ![t] = IF to = "login" /\ ~auth'[t] THEN "login" ELSE @])
  /\ Continues(t, "init", IF to = "again" THEN Sent("again", token[t]) ELSE Idle)
  /\ refreshing' = [refreshing EXCEPT ![t] = @ \/ (to = "servers" /\ path[t] = "app")]
  /\ UNCHANGED <<panelVars, other, sessionBounds>>

\* The login page: home with a session from the identity provider, or when there are no accounts.
MountArrives(t) ==
  LET c == call[t]["mount"]
      home == IF c.op = "oidc" THEN c.answer = "ok" ELSE ~Enabled(c) /\ ~c.setup IN
  /\ Received(t, "mount")
  /\ Unless(t, "mount", Arrives(t, "mount") /\ path' = [path EXCEPT ![t] = IF home THEN "app" ELSE @])
  /\ Continues(t, "mount", Idle) /\ UNCHANGED <<panelVars, other, refreshing, sessionBounds>>

\* login: the token is kept and the session validated.
LoginArrives(t) ==
  LET c == call[t]["form"] IN
  /\ c.op = "login" /\ c.answer # "none"
  /\ IF c.answer = "ok"
     THEN /\ stored' = c.who /\ token' = [token EXCEPT ![t] = c.who] /\ user' = [user EXCEPT ![t] = c.who]
          /\ auth' = [auth EXCEPT ![t] = TRUE] /\ isLoading' = [isLoading EXCEPT ![t] = FALSE]
          /\ UNCHANGED <<perms, path>> /\ Continues(t, "form", Sent("fetch", c.who))
     ELSE Unless(t, "form", Unchecked(t) /\ UNCHANGED path) /\ Continues(t, "form", Idle)
  /\ UNCHANGED <<panelVars, other, refreshing, sessionBounds>>

\* handleLogin goes home whatever validateSession said.
FetchArrives(t) ==
  /\ call[t]["form"].op = "fetch" /\ call[t]["form"].answer # "none"
  /\ Unless(t, "form", Arrives(t, "form") /\ UNCHANGED path)
  /\ Continues(t, "form", Sent("leave", NoToken)) /\ UNCHANGED <<panelVars, other, refreshing, sessionBounds>>
Leave(t) ==
  /\ call[t]["form"].op = "leave" /\ path' = [path EXCEPT ![t] = "app"]
  /\ call' = [call EXCEPT ![t]["form"] = Idle]
  /\ UNCHANGED <<panelVars, stored, other, storeVars, loggingOut, refreshing, sessionBounds>>

\* register: then login.
RegisterArrives(t) ==
  /\ call[t]["form"].op = "register" /\ call[t]["form"].answer # "none"
  /\ call' = [call EXCEPT ![t]["form"] = IF @.answer = "ok" THEN Sent("login", Header(t)) ELSE Idle]
  /\ UNCHANGED <<panelVars, stored, other, tabVars, sessionBounds>>

\* useRecoveryKey: the tab forgets its session, and the page is loaded again.
RecoverArrives(t) ==
  /\ call[t]["form"].op = "recover" /\ call[t]["form"].answer # "none"
  /\ IF call[t]["form"].answer = "ok" THEN stored' = NoToken /\ Loaded(t, "login", NoToken, Sent("status", NoToken))
     ELSE call' = [call EXCEPT ![t]["form"] = Idle] /\ UNCHANGED <<stored, tabVars>>
  /\ UNCHANGED <<panelVars, other, sessionBounds>>

DataArrives(t, k) ==
  /\ call[t][k].op = "data" /\ call[t][k].answer # "none"
  /\ Unless(t, k, UNCHANGED <<storeVars, path>>)
  /\ Continues(t, k, Idle) /\ UNCHANGED <<panelVars, other, refreshing, sessionBounds>>

\* Mutant: a logout call that is refused is not caught.
LogoutArrives_OnlyOk(t, o) ==
  /\ call[t][o].op = "logout" /\ call[t][o].answer = "ok"
  /\ Forget(t) /\ Continues(t, o, Idle) /\ UNCHANGED <<panelVars, other, refreshing, sessionBounds>>

\* logout() ends, whatever the panel said.
LogoutArrives(t, o) ==
  /\ call[t][o].op = "logout" /\ call[t][o].answer # "none"
  /\ Forget(t) /\ Continues(t, o, Idle) /\ UNCHANGED <<panelVars, other, refreshing, sessionBounds>>

Arrive(t, k) ==
  \/ k \in {"init", "mount"} /\ StatusArrives(t, k)
  \/ k = "init" /\ InitArrives(t)
  \/ k = "mount" /\ MountArrives(t)
  \/ k = "form" /\ (LoginArrives(t) \/ FetchArrives(t) \/ Leave(t) \/ RegisterArrives(t) \/ RecoverArrives(t))
  \/ k \in Requests /\ DataArrives(t, k)
  \/ k \in Outs /\ LogoutArrives(t, k)

-----------------------------------------------------------------------------
(* The user, and the timer *)

Sends(t, k, op) ==
  /\ call[t][k] = Idle /\ call' = [call EXCEPT ![t][k] = Sent(op, Header(t))]
  /\ UNCHANGED <<panelVars, stored, other, tabVars, faults>>

SignIn(t) == path[t] = "login" /\ Sends(t, "form", "login") /\ UNCHANGED moves
Register(t) == path[t] = "login" /\ Sends(t, "form", "register") /\ UNCHANGED moves
Recover(t) == path[t] = "login" /\ moves < MaxMoves /\ moves' = moves + 1 /\ Sends(t, "form", "recover")

\* The pages are shown once checkAuthStatus has returned.
Shown(t) == path[t] = "app" /\ call[t]["init"].op \notin Checks
RequestData(t, k) == Shown(t) /\ Sends(t, k, "data") /\ UNCHANGED moves
Poll(t) == refreshing[t] /\ path[t] = "app" /\ (\E k \in Requests : Sends(t, k, "data")) /\ UNCHANGED moves

Load(t) ==
  /\ moves < MaxMoves /\ moves' = moves + 1
  /\ \E where \in {"app", "login"} :
       Loaded(t, where, stored, IF where = "login" THEN Sent("status", NoToken) ELSE Idle)
  /\ UNCHANGED <<panelVars, stored, other, faults>>

\* The identity provider sends the browser back with a session; setToken keeps it.
SignInElsewhere(t) ==
  /\ path[t] = "login" /\ access # "open" /\ moves < MaxMoves /\ moves' = moves + 1
  /\ \E s \in FreshTokens : Opens(s) /\ stored' = s /\ Loaded(t, "login", s, Sent("oidc", s))
  /\ users' = TRUE /\ UNCHANGED <<access, other, faults>>

\* Another tab signs in, or is logged out: what they share is localStorage.
OtherSignsIn ==
  /\ users /\ access # "open" /\ \E s \in FreshTokens : Opens(s) /\ stored' = s /\ other' = s
  /\ UNCHANGED <<access, users, tabVars, call, sessionBounds>>
OtherLogsOut ==
  /\ other # NoToken /\ other' = NoToken /\ stored' = NoToken /\ valid' = valid \ {other}
  /\ UNCHANGED <<access, users, issued, tabVars, call, sessionBounds>>

SessionNext ==
  \/ \E t \in Tabs :
       \/ \E k \in Threads : Handle(t, k) \/ Arrive(t, k)
       \/ Poll(t) \/ \E k \in Requests : RequestData(t, k)
       \/ SignIn(t) \/ Register(t) \/ Recover(t) \/ Load(t) \/ SignInElsewhere(t)
  \/ EndSession \/ OtherSignsIn \/ OtherLogsOut

\* Calls are answered, answers arrive, and the timer runs.
SessionFairness ==
  \A t \in Tabs :
    /\ \A k \in Threads : WF_sessionVars(Handle(t, k) \/ Arrive(t, k))
    /\ WF_sessionVars(Poll(t))

SessionSpec == SessionInit /\ [][SessionNext]_sessionVars /\ SessionFairness

-----------------------------------------------------------------------------
SessionTypeOK ==
  /\ access \in Accesses /\ users \in BOOLEAN /\ valid \subseteq issued /\ issued \subseteq Tokens
  /\ {stored, other} \subseteq Tokens \union {NoToken} /\ path \in [Tabs -> {"app", "login"}]
  /\ token \in [Tabs -> Tokens \union {NoToken}]
  /\ user \in [Tabs -> Tokens \union {NoToken, Admin}] /\ perms \in [Tabs -> Tokens \union {NoToken, Admin, Anonymous}]
  /\ auth \in [Tabs -> BOOLEAN] /\ isLoading \in [Tabs -> BOOLEAN]
  /\ loggingOut \in [Tabs -> BOOLEAN] /\ refreshing \in [Tabs -> BOOLEAN]
  /\ call \in [Tabs -> [Threads -> Call]]
  /\ moves \in Nat /\ faults \in Nat

\* The session in localStorage is one that an open tab holds: when the last tab that held it
\* is logged out, no reload brings it back.
NoSessionLeft == stored \in {NoToken, other} \/ \E t \in Tabs : token[t] = stored

\* A tab that polls under a session the panel no longer accepts ends at the login page.
RefusedLeaves ==
  \A t \in Tabs : (refreshing[t] /\ path[t] = "app" /\ access = "accounts" /\ Header(t) \notin valid)
                  ~> (path[t] = "login" \/ Header(t) \in valid)

=============================================================================
