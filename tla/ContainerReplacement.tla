------------------------ MODULE ContainerReplacement ------------------------
(***************************************************************************)
(* Replacing the container of one server: RecreateContainer and            *)
(* CreateContainer of internal/docker/client.go against a Docker daemon    *)
(* whose calls may fail, with the panel free to crash between two calls.   *)
(*                                                                         *)
(* Every container the panel creates for the server carries its label; the *)
(* canonical name belongs to one of them.  A rename keeps the label.       *)
(* Callers hold the server's transition, so one replacement runs at a time;*)
(* starting, pausing and adopting happen between replacements.             *)
(***************************************************************************)
EXTENDS Naturals, FiniteSets, FiniteSetsExt

CONSTANTS
  Containers,   \* container identities, numbers in the order of their creation
  MaxFaults     \* bound on failed daemon calls in one behaviour

ASSUME ReplacementAssumption ==
  /\ Containers \subseteq Nat \ {0}
  /\ IsFiniteSet(Containers)
  /\ MaxFaults \in Nat

None == 0       \* the empty container id

VARIABLES
  state,        \* the daemon's view of each container
  named,        \* which containers hold the canonical name
  tracked,      \* server.ContainerID in the database
  call,         \* the RecreateContainer call in progress
  faults,       \* failed daemon calls so far
  crashed       \* history: the panel died inside a call

replacementVars == <<state, named, tracked, call, faults, crashed>>

\* "starting" is a running container whose health check has not settled.
States == {"unused", "created", "starting", "running", "paused", "exited", "removed"}
Steps == {"inspect", "stop", "retain", "preflight", "create", "start",
          "discard", "rollback", "drop", "answered"}
Call == [pc: {"none"} \union Steps, old: Containers \union {None}, new: Containers \union {None},
         was_running: BOOLEAN, retained: BOOLEAN, ok: BOOLEAN]

NoCall == [pc |-> "none", old |-> None, new |-> None,
           was_running |-> FALSE, retained |-> FALSE, ok |-> FALSE]

Exists(c) == c # None /\ state[c] \notin {"unused", "removed"}
Open(c) == state[c] \in {"starting", "running", "paused"}
Alive(c) == Open(c) \/ state[c] = "created"

Unused == {c \in Containers : state[c] = "unused"}

\* ContainerList by label, whose first item is the newest container; what the
\* name lookup would add is in the list already.
Resolved ==
  LET labelled == {c \in Containers : Exists(c)}
  IN  IF labelled = {} THEN None ELSE Max(labelled)

Fault == faults < MaxFaults /\ faults' = faults + 1

\* StartContainer: without a health check the container is running at once.
Started(c, status) == state' = [state EXCEPT ![c] = status]
Startings == {"starting", "running"}

ReplacementInit ==
  /\ state = [c \in Containers |-> "unused"]
  /\ named = {}
  /\ tracked = None
  /\ call = NoCall
  /\ faults = 0
  /\ crashed = FALSE

At(pc) == call.pc = pc
Goto(pc) == call' = [call EXCEPT !.pc = pc]
\* The call returns an error that names container c.
Fails(c) == call' = [call EXCEPT !.pc = "answered", !.new = c]

-----------------------------------------------------------------------------
(* RecreateContainer *)

Begin ==
  /\ At("none")
  /\ call' = [NoCall EXCEPT !.pc = IF tracked = None THEN "preflight" ELSE "inspect",
                            !.old = tracked]
  /\ UNCHANGED <<state, named, tracked, faults, crashed>>

Inspect ==
  /\ At("inspect")
  /\ \/ Fault /\ Fails(call.old)
     \/ /\ ~Exists(call.old) /\ Goto("preflight")
        /\ UNCHANGED faults
     \/ /\ state[call.old] \in {"running", "paused"}
        /\ call' = [call EXCEPT !.pc = "stop", !.was_running = state[call.old] = "running"]
        /\ UNCHANGED faults
     \/ /\ state[call.old] \in {"created", "starting", "exited"} /\ Goto("retain")
        /\ UNCHANGED faults
  /\ UNCHANGED <<state, named, tracked, crashed>>

\* A paused container is unpaused before the stop; force kill is the last resort.
Stop ==
  /\ At("stop")
  /\ \/ Fault /\ Fails(call.old) /\ UNCHANGED state
     \/ /\ Goto("retain") /\ state' = [state EXCEPT ![call.old] = "exited"]
        /\ UNCHANGED faults
  /\ UNCHANGED <<named, tracked, crashed>>

\* The old container gives the canonical name up and can be rolled back to.
Retain ==
  /\ At("retain")
  /\ \/ Fault /\ Fails(call.old) /\ UNCHANGED named
     \/ /\ call' = [call EXCEPT !.pc = "preflight", !.retained = TRUE]
        /\ named' = named \ {call.old}
        /\ UNCHANGED faults
  /\ UNCHANGED <<state, tracked, crashed>>

\* Mutant: a replacement is created without looking for what the label finds.
Preflight_Skipped ==
  /\ At("preflight")
  /\ Goto("create")
  /\ UNCHANGED <<state, named, tracked, faults, crashed>>

\* preflightResolveForCreate: whatever the label finds is adopted when it looks
\* alive and removed when it does not.  A lookup that fails finds nothing.
Preflight ==
  /\ At("preflight")
  /\ \/ /\ Resolved = None /\ Goto("create")
        /\ UNCHANGED <<state, named, faults>>
     \/ /\ Fault /\ Goto("create")
        /\ UNCHANGED <<state, named>>
     \/ /\ Resolved # None /\ Alive(Resolved)
        /\ call' = [call EXCEPT !.pc = "start", !.new = Resolved]
        /\ UNCHANGED <<state, named, faults>>
     \/ /\ Resolved # None /\ ~Alive(Resolved)
        /\ Goto("create")
        /\ state' = [state EXCEPT ![Resolved] = "removed"]
        /\ named' = named \ {Resolved}
        /\ UNCHANGED faults
     \/ /\ Resolved # None /\ ~Alive(Resolved)
        /\ Fault /\ Goto("rollback")
        /\ UNCHANGED <<state, named>>
  /\ UNCHANGED <<tracked, crashed>>

\* createContainerWithConflictRetry: the holder of the name is adopted when it
\* looks alive and otherwise removed for the new container.
Create ==
  /\ At("create")
  /\ \/ /\ Fault /\ Goto("rollback")
        /\ UNCHANGED <<state, named>>
     \/ \E c \in named :
          /\ Alive(c)
          /\ call' = [call EXCEPT !.pc = "start", !.new = c]
          /\ UNCHANGED <<state, named, faults>>
     \/ /\ \A c \in named : ~Alive(c)
        /\ Unused # {}
        /\ LET new == Min(Unused) IN
             /\ state' = [c \in Containers |-> IF c = new THEN "created"
                                               ELSE IF c \in named THEN "removed"
                                               ELSE state[c]]
             /\ named' = {new}
             /\ call' = [call EXCEPT !.pc = "start", !.new = new]
        /\ UNCHANGED faults
  /\ UNCHANGED <<tracked, crashed>>

\* Mutant: the replacement of a running container is left for the caller to start.
Start_Deferred ==
  /\ At("start")
  /\ Goto("drop")
  /\ UNCHANGED <<state, named, tracked, faults, crashed>>

\* The replacement starts only when the old container was running.
Start ==
  /\ At("start")
  /\ \/ /\ ~call.was_running /\ Goto("drop")
        /\ UNCHANGED <<state, faults>>
     \/ /\ call.was_running /\ Exists(call.new) /\ Goto("drop")
        /\ \E status \in Startings : Started(call.new, status)
        /\ UNCHANGED faults
     \/ /\ call.was_running /\ Fault /\ Goto("discard")
        /\ UNCHANGED state
  /\ UNCHANGED <<named, tracked, crashed>>

\* The replacement that would not start is removed; when that fails too it is
\* the identity to track.
Discard ==
  /\ At("discard")
  /\ \/ /\ Fault /\ Fails(call.new)
        /\ UNCHANGED <<state, named>>
     \/ /\ Goto("rollback")
        /\ state' = [state EXCEPT ![call.new] = "removed"]
        /\ named' = named \ {call.new}
        /\ UNCHANGED faults
  /\ UNCHANGED <<tracked, crashed>>

\* The retained container gets its name and its run state back, if it is there.
\* Errors of the rollback are logged.
Rollback ==
  /\ At("rollback")
  /\ Fails(call.old)
  /\ \/ /\ call.retained /\ Exists(call.old)
        /\ named' = named \union {call.old}
        /\ IF call.was_running THEN \E status \in Startings : Started(call.old, status)
                               ELSE UNCHANGED state
        /\ UNCHANGED faults
     \/ /\ ~(call.retained /\ Exists(call.old))
        /\ UNCHANGED <<state, named, faults>>
     \/ Fault /\ UNCHANGED <<state, named>>
  /\ UNCHANGED <<tracked, crashed>>

Drop ==
  /\ At("drop")
  /\ call' = [call EXCEPT !.pc = "answered", !.ok = TRUE]
  /\ \/ /\ call.old # None
        /\ state' = [state EXCEPT ![call.old] = "removed"]
        /\ named' = named \ {call.old}
        /\ UNCHANGED faults
     \/ call.old # None /\ Fault /\ UNCHANGED <<state, named>>
     \/ call.old = None /\ UNCHANGED <<state, named, faults>>
  /\ UNCHANGED <<tracked, crashed>>

\* The caller records the identity the call answered, in success and in error.
Record ==
  /\ At("answered")
  /\ tracked' = call.new
  /\ call' = NoCall
  /\ UNCHANGED <<state, named, faults, crashed>>

-----------------------------------------------------------------------------
(* The rest of the panel, and the world *)

Crash ==
  /\ ~At("none")
  /\ call' = NoCall
  /\ crashed' = TRUE
  /\ UNCHANGED <<state, named, tracked, faults>>

\* StartContainer on the recorded id, and UnpauseContainer.
StartTracked ==
  /\ At("none") /\ Exists(tracked) /\ state[tracked] \notin Startings
  /\ \E status \in Startings : Started(tracked, status)
  /\ UNCHANGED <<named, tracked, call, faults, crashed>>

PauseTracked ==
  /\ At("none") /\ Exists(tracked) /\ state[tracked] = "running"
  /\ state' = [state EXCEPT ![tracked] = "paused"]
  /\ UNCHANGED <<named, tracked, call, faults, crashed>>

\* The reconciler adopts the container that the label finds.
Adopt ==
  /\ At("none") /\ Resolved # None /\ Resolved # tracked
  /\ tracked' = Resolved
  /\ UNCHANGED <<state, named, call, faults, crashed>>

HealthSettles(c) ==
  /\ state[c] = "starting"
  /\ state' = [state EXCEPT ![c] = "running"]
  /\ UNCHANGED <<named, tracked, call, faults, crashed>>

\* The game process ends by itself.
Exit(c) ==
  /\ state[c] \in Startings
  /\ state' = [state EXCEPT ![c] = "exited"]
  /\ UNCHANGED <<named, tracked, call, faults, crashed>>

ReplacementNext ==
  \/ Begin \/ Inspect \/ Stop \/ Retain \/ Preflight \/ Create \/ Start
  \/ Discard \/ Rollback \/ Drop \/ Record
  \/ Crash \/ StartTracked \/ PauseTracked \/ Adopt
  \/ \E c \in Containers : HealthSettles(c) \/ Exit(c)

ReplacementSpec == ReplacementInit /\ [][ReplacementNext]_replacementVars

-----------------------------------------------------------------------------
ReplacementTypeOK ==
  /\ state \in [Containers -> States]
  /\ named \subseteq Containers
  /\ tracked \in Containers \union {None}
  /\ call \in Call
  /\ faults \in 0..MaxFaults
  /\ crashed \in BOOLEAN

\* Never two containers with the same world open, though the daemon mounts the
\* server's data directory into every container created for it (client.go:944).
\* Crashes alone do not break it, and neither does one failed call alone.
OneWorldOpen ==
  (faults = 0 \/ (faults = 1 /\ ~crashed)) => Cardinality({c \in Containers : Open(c)}) <= 1

\* A replacement that succeeds keeps the run intent of the container it replaced,
\* unless the game ended by itself meanwhile (client.go:1493).
SuccessKeepsIntent ==
  (At("answered") /\ call.ok /\ call.was_running) =>
    state[call.new] \in Startings \union {"exited"}

\* A container with the world open is the one the label lookup answers, so the
\* reconciler finds it whatever the row says (reconciler.go:476).  Crashes alone
\* do not break it.
OpenWorldIsFound ==
  faults = 0 => \A c \in Containers : Open(c) => c = Resolved

=============================================================================
