-------------------- MODULE ContainerReplacementProofs --------------------
(***************************************************************************)
(* Theorems about replacing the container of a server, for any number of   *)
(* containers: a crash alone, and one failed daemon call alone, never      *)
(* leave two containers with the world open, and without a failed call the *)
(* container that has it open is the one the label finds; a replacement    *)
(* that succeeds keeps the run intent, whatever failed and died before.    *)
(*                                                                         *)
(* And about what has it replaced, the staged updates of a server, for any *)
(* number of changes: a start publishes only what waits for one, what it   *)
(* applied reaches the container or is owed to it, and an undo restores    *)
(* what the publish found.                                                 *)
(***************************************************************************)
EXTENDS ContainerReplacement, StagedBatch, FiniteSetTheorems, WellFoundedInduction, TLAPS

CallFields == {"pc", "old", "new", "was_running", "retained", "ok"}
Shapes ==
  /\ state \in [Containers -> States]
  /\ call = [f \in CallFields |-> call[f]]
  /\ faults \in Nat
  /\ At("inspect") => call.was_running = FALSE
  /\ (At("stop") /\ call.old \in Containers) => Exists(call.old)

AtMostOne == \A c, d \in Containers : (Exists(c) /\ Exists(d)) => c = d
OneOpen == \A c, d \in Containers : (Open(c) /\ Open(d)) => c = d

\* Until a call fails there is one container at most, and none when the next is made.
Calm ==
  faults = 0 =>
    /\ AtMostOne
    /\ At("create") => \A c \in Containers : ~Exists(c)
    /\ call.pc \notin {"discard", "rollback"}

\* Until a call fails or the panel dies, that container is the one the row or the call knows,
\* and it has given its name up and stopped by the time the next is looked for.
Known ==
  (faults = 0 /\ crashed = FALSE) =>
    \A c \in Containers : Exists(c) =>
      /\ At("none") => c = tracked
      /\ call.pc \in {"inspect", "stop", "retain", "preflight"} => c = call.old
      /\ call.pc \in {"start", "drop", "answered"} => c = call.new
      /\ At("preflight") => c \notin named
      /\ (call.pc \in {"retain", "preflight"} /\ call.was_running = TRUE) => state[c] = "exited"

\* After the one failed call there are two containers only inside the call that replaces one,
\* and the old one is closed when the new one is to be started.
Failed ==
  (faults = 1 /\ crashed = FALSE) =>
    /\ At("create") => \A c \in Containers : Exists(c) =>
         c = call.old /\ c \notin named /\ (call.was_running = TRUE => state[c] = "exited")
    /\ call.pc \in {"start", "drop"} =>
         /\ \A c \in Containers : Exists(c) => c \in {call.old, call.new}
         /\ \A c \in Containers : (Open(c) /\ c # call.new) => call.was_running = FALSE
         /\ OneOpen
    /\ call.pc \notin {"create", "start", "drop"} => AtMostOne

\* The inductive invariant.
ReplacementInv == Shapes /\ Calm /\ Known /\ Failed

-----------------------------------------------------------------------------
(* The daemon *)

LEMMA ContainersAre ==
  /\ \A c \in Containers : c \in Nat /\ c # None
  /\ \A c : Open(c) => state[c] \notin {"unused", "removed"}
  /\ \A c \in Containers : Alive(c) => Exists(c)
  BY ReplacementAssumption DEF None, Open, Alive, Exists

LEMMA ResolvedIs ==
  ASSUME AtMostOne
  PROVE  /\ \A c \in Containers : Exists(c) => Resolved = c
         /\ Resolved # None => Resolved \in Containers /\ Exists(Resolved)
  <1> DEFINE labelled == {c \in Containers : Exists(c)}
  <1>1. ASSUME NEW c \in Containers, Exists(c) PROVE Resolved = c
    <2>1. labelled = {c} /\ labelled # {}
      BY <1>1 DEF AtMostOne
    <2>2. c \in Nat /\ Max({c}) = c
      BY ContainersAre DEF Max
    <2> QED
      BY <2>1, <2>2 DEF Resolved
  <1>2. ASSUME Resolved # None PROVE Resolved \in Containers /\ Exists(Resolved)
    <2>1. labelled # {}
      BY <1>2 DEF Resolved
    <2>2. PICK c \in Containers : Exists(c)
      BY <2>1
    <2> QED
      BY <1>1, <2>2
  <1> QED
    BY <1>1, <1>2

-----------------------------------------------------------------------------
(* The call *)

\* The call goes on at pc, knowing the containers o and n.
Is(pc, o, n) == call' = [f \in CallFields |-> call'[f]] /\ call'.pc = pc /\ call'.old = o /\ call'.new = n
Same == call'.was_running = call.was_running

LEMMA Updates ==
  ASSUME Shapes
  PROVE  /\ \A pc : Goto(pc) => Is(pc, call.old, call.new) /\ Same
         /\ \A c : Fails(c) => Is("answered", call.old, c) /\ Same
         /\ \A r : call' = [call EXCEPT !.pc = "stop", !.was_running = r] => Is("stop", call.old, call.new)
         /\ call' = [call EXCEPT !.pc = "preflight", !.retained = TRUE] => Is("preflight", call.old, call.new) /\ Same
         /\ \A n : call' = [call EXCEPT !.pc = "start", !.new = n] => Is("start", call.old, n) /\ Same
         /\ call' = [call EXCEPT !.pc = "answered", !.ok = TRUE] => Is("answered", call.old, call.new) /\ Same
  <1>1. call = [f \in CallFields |-> call[f]]
    BY DEF Shapes
  <1>2. ASSUME NEW pc, Goto(pc) PROVE Is(pc, call.old, call.new) /\ Same
    BY <1>1, <1>2 DEF Goto, Is, Same, CallFields
  <1>3. ASSUME NEW c, Fails(c) PROVE Is("answered", call.old, c) /\ Same
    BY <1>1, <1>3 DEF Fails, Is, Same, CallFields
  <1>4. ASSUME NEW r, call' = [call EXCEPT !.pc = "stop", !.was_running = r] PROVE Is("stop", call.old, call.new)
    BY <1>1, <1>4 DEF Is, CallFields
  <1>5. ASSUME call' = [call EXCEPT !.pc = "preflight", !.retained = TRUE]
        PROVE  Is("preflight", call.old, call.new) /\ Same
    BY <1>1, <1>5 DEF Is, Same, CallFields
  <1>6. ASSUME NEW n, call' = [call EXCEPT !.pc = "start", !.new = n] PROVE Is("start", call.old, n) /\ Same
    BY <1>1, <1>6 DEF Is, Same, CallFields
  <1>7. ASSUME call' = [call EXCEPT !.pc = "answered", !.ok = TRUE]
        PROVE  Is("answered", call.old, call.new) /\ Same
    BY <1>1, <1>7 DEF Is, Same, CallFields
  <1> QED
    BY <1>2, <1>3, <1>4, <1>5, <1>6, <1>7

-----------------------------------------------------------------------------
(* The steps of the call *)

LEMMA BeginKeeps ==
  ASSUME ReplacementInv, Begin
  PROVE  ReplacementInv'
  <1> USE ContainersAre DEF AtMostOne, Exists, Open, Alive, At, Fault, Started, Startings, States, NoCall, CallFields
  <1>1. Shapes /\ Calm /\ Known /\ Failed
    BY DEF ReplacementInv
  <1>2. Shapes'
    BY <1>1 DEF Begin, Shapes, Goto
  <1>3. Calm'
    BY <1>1, <1>2, ResolvedIs DEF Begin, Shapes, Calm, Goto
  <1>4. Known'
    BY <1>1, <1>2, ResolvedIs DEF Begin, Shapes, Calm, Known, Goto
  <1>5. Failed'
    BY <1>1, <1>2, ResolvedIs DEF Begin, Shapes, Calm, Known, Failed, OneOpen, Goto
  <1> QED
    BY <1>2, <1>3, <1>4, <1>5 DEF ReplacementInv

LEMMA InspectKeeps ==
  ASSUME ReplacementInv, Inspect
  PROVE  ReplacementInv'
  <1> USE ContainersAre DEF AtMostOne, Exists, Open, Alive, At, Fault, Started, Startings, States, Is, Same
  <1>1. Shapes /\ Calm /\ Known /\ Failed /\ UNCHANGED crashed
    BY DEF ReplacementInv, Inspect
  <1>2. CASE /\ At("inspect") /\ Is("answered", call.old, call.old) /\ Same /\ Fault
             /\ UNCHANGED <<state, named, tracked>>
    <2>1. Shapes'
      BY <1>1, <1>2 DEF Shapes
    <2>2. Calm'
      BY <1>1, <1>2, <2>1 DEF Shapes, Calm
    <2>3. Known'
      BY <1>1, <1>2, <2>1 DEF Shapes, Calm, Known
    <2>4. Failed'
      BY <1>1, <1>2, <2>1 DEF Shapes, Calm, Known, Failed, OneOpen
    <2> QED
      BY <2>1, <2>2, <2>3, <2>4 DEF ReplacementInv
  <1>3. CASE /\ At("inspect") /\ ~Exists(call.old) /\ Is("preflight", call.old, call.new) /\ Same
             /\ UNCHANGED <<state, named, tracked, faults>>
    <2>1. Shapes'
      BY <1>1, <1>3 DEF Shapes
    <2>2. Calm'
      BY <1>1, <1>3, <2>1 DEF Shapes, Calm
    <2>3. Known'
      BY <1>1, <1>3, <2>1 DEF Shapes, Calm, Known
    <2>4. Failed'
      BY <1>1, <1>3, <2>1 DEF Shapes, Calm, Known, Failed, OneOpen
    <2> QED
      BY <2>1, <2>2, <2>3, <2>4 DEF ReplacementInv
  <1>4. CASE /\ At("inspect") /\ Is("stop", call.old, call.new) /\ state[call.old] \in {"running", "paused"}
             /\ UNCHANGED <<state, named, tracked, faults>>
    <2>1. Shapes'
      BY <1>1, <1>4 DEF Shapes
    <2>2. Calm'
      BY <1>1, <1>4, <2>1 DEF Shapes, Calm
    <2>3. Known'
      BY <1>1, <1>4, <2>1 DEF Shapes, Calm, Known
    <2>4. Failed'
      BY <1>1, <1>4, <2>1 DEF Shapes, Calm, Known, Failed, OneOpen
    <2> QED
      BY <2>1, <2>2, <2>3, <2>4 DEF ReplacementInv
  <1>5. CASE /\ At("inspect") /\ Is("retain", call.old, call.new) /\ Same
             /\ UNCHANGED <<state, named, tracked, faults>>
    <2>1. Shapes'
      BY <1>1, <1>5 DEF Shapes
    <2>2. Calm'
      BY <1>1, <1>5, <2>1 DEF Shapes, Calm
    <2>3. Known'
      BY <1>1, <1>5, <2>1 DEF Shapes, Calm, Known
    <2>4. Failed'
      BY <1>1, <1>5, <2>1 DEF Shapes, Calm, Known, Failed, OneOpen
    <2> QED
      BY <2>1, <2>2, <2>3, <2>4 DEF ReplacementInv
  <1> QED
    BY <1>1, <1>2, <1>3, <1>4, <1>5, Updates DEF Inspect

LEMMA StopKeeps ==
  ASSUME ReplacementInv, Stop
  PROVE  ReplacementInv'
  <1> USE ContainersAre DEF AtMostOne, Exists, Open, Alive, At, Fault, Started, Startings, States, Is, Same
  <1>1. Shapes /\ Calm /\ Known /\ Failed /\ UNCHANGED crashed
    BY DEF ReplacementInv, Stop
  <1>2. CASE /\ At("stop") /\ Is("answered", call.old, call.old) /\ Same /\ Fault
             /\ UNCHANGED <<state, named, tracked>>
    <2>1. Shapes'
      BY <1>1, <1>2 DEF Shapes
    <2>2. Calm'
      BY <1>1, <1>2, <2>1 DEF Shapes, Calm
    <2>3. Known'
      BY <1>1, <1>2, <2>1 DEF Shapes, Calm, Known
    <2>4. Failed'
      BY <1>1, <1>2, <2>1 DEF Shapes, Calm, Known, Failed, OneOpen
    <2> QED
      BY <2>1, <2>2, <2>3, <2>4 DEF ReplacementInv
  <1>3. CASE /\ At("stop") /\ Is("retain", call.old, call.new) /\ Same
             /\ state' = [state EXCEPT ![call.old] = "exited"] /\ UNCHANGED <<named, tracked, faults>>
    <2>1. Shapes'
      BY <1>1, <1>3 DEF Shapes
    <2>2. Calm'
      BY <1>1, <1>3, <2>1 DEF Shapes, Calm
    <2>3. Known'
      BY <1>1, <1>3, <2>1 DEF Shapes, Calm, Known
    <2>4. Failed'
      BY <1>1, <1>3, <2>1 DEF Shapes, Calm, Known, Failed, OneOpen
    <2> QED
      BY <2>1, <2>2, <2>3, <2>4 DEF ReplacementInv
  <1> QED
    BY <1>1, <1>2, <1>3, Updates DEF Stop

LEMMA RetainKeeps ==
  ASSUME ReplacementInv, Retain
  PROVE  ReplacementInv'
  <1> USE ContainersAre DEF AtMostOne, Exists, Open, Alive, At, Fault, Started, Startings, States, Is, Same
  <1>1. Shapes /\ Calm /\ Known /\ Failed /\ UNCHANGED crashed
    BY DEF ReplacementInv, Retain
  <1>2. CASE /\ At("retain") /\ Is("answered", call.old, call.old) /\ Same /\ Fault
             /\ UNCHANGED <<state, named, tracked>>
    <2>1. Shapes'
      BY <1>1, <1>2 DEF Shapes
    <2>2. Calm'
      BY <1>1, <1>2, <2>1 DEF Shapes, Calm
    <2>3. Known'
      BY <1>1, <1>2, <2>1 DEF Shapes, Calm, Known
    <2>4. Failed'
      BY <1>1, <1>2, <2>1 DEF Shapes, Calm, Known, Failed, OneOpen
    <2> QED
      BY <2>1, <2>2, <2>3, <2>4 DEF ReplacementInv
  <1>3. CASE /\ At("retain") /\ Is("preflight", call.old, call.new) /\ Same /\ named' = named \ {call.old}
             /\ UNCHANGED <<state, tracked, faults>>
    <2>1. Shapes'
      BY <1>1, <1>3 DEF Shapes
    <2>2. Calm'
      BY <1>1, <1>3, <2>1 DEF Shapes, Calm
    <2>3. Known'
      BY <1>1, <1>3, <2>1 DEF Shapes, Calm, Known
    <2>4. Failed'
      BY <1>1, <1>3, <2>1 DEF Shapes, Calm, Known, Failed, OneOpen
    <2> QED
      BY <2>1, <2>2, <2>3, <2>4 DEF ReplacementInv
  <1> QED
    BY <1>1, <1>2, <1>3, Updates DEF Retain

LEMMA PreflightKeeps ==
  ASSUME ReplacementInv, Preflight
  PROVE  ReplacementInv'
  <1> USE ContainersAre DEF AtMostOne, Exists, Open, Alive, At, Fault, Started, Startings, States, Is, Same
  <1>1. Shapes /\ Calm /\ Known /\ Failed /\ UNCHANGED crashed
    BY DEF ReplacementInv, Preflight
  <1>2. CASE /\ At("preflight") /\ Resolved = None /\ Is("create", call.old, call.new) /\ Same
             /\ UNCHANGED <<state, named, tracked, faults>>
    <2>1. Shapes'
      BY <1>1, <1>2 DEF Shapes
    <2>2. Calm'
      BY <1>1, <1>2, <2>1, ResolvedIs DEF Shapes, Calm
    <2>3. Known'
      BY <1>1, <1>2, <2>1, ResolvedIs DEF Shapes, Calm, Known
    <2>4. Failed'
      BY <1>1, <1>2, <2>1, ResolvedIs DEF Shapes, Calm, Known, Failed, OneOpen
    <2> QED
      BY <2>1, <2>2, <2>3, <2>4 DEF ReplacementInv
  <1>3. CASE /\ At("preflight") /\ Fault /\ Is("create", call.old, call.new) /\ Same
             /\ UNCHANGED <<state, named, tracked>>
    <2>1. Shapes'
      BY <1>1, <1>3 DEF Shapes
    <2>2. Calm'
      BY <1>1, <1>3, <2>1, ResolvedIs DEF Shapes, Calm
    <2>3. Known'
      BY <1>1, <1>3, <2>1, ResolvedIs DEF Shapes, Calm, Known
    <2>4. Failed'
      BY <1>1, <1>3, <2>1, ResolvedIs DEF Shapes, Calm, Known, Failed, OneOpen
    <2> QED
      BY <2>1, <2>2, <2>3, <2>4 DEF ReplacementInv
  <1>4. CASE /\ At("preflight") /\ Resolved # None /\ Is("start", call.old, Resolved) /\ Same
             /\ UNCHANGED <<state, named, tracked, faults>>
    <2>1. Shapes'
      BY <1>1, <1>4 DEF Shapes
    <2>2. Calm'
      BY <1>1, <1>4, <2>1, ResolvedIs DEF Shapes, Calm
    <2>3. Known'
      BY <1>1, <1>4, <2>1, ResolvedIs DEF Shapes, Calm, Known
    <2>4. Failed'
      BY <1>1, <1>4, <2>1, ResolvedIs DEF Shapes, Calm, Known, Failed, OneOpen
    <2> QED
      BY <2>1, <2>2, <2>3, <2>4 DEF ReplacementInv
  <1>5. CASE /\ At("preflight") /\ Resolved # None /\ Is("create", call.old, call.new) /\ Same
             /\ state' = [state EXCEPT ![Resolved] = "removed"] /\ named' = named \ {Resolved}
             /\ UNCHANGED <<tracked, faults>>
    <2>1. Shapes'
      BY <1>1, <1>5 DEF Shapes
    <2>2. Calm'
      BY <1>1, <1>5, <2>1, ResolvedIs DEF Shapes, Calm
    <2>3. Known'
      BY <1>1, <1>5, <2>1, ResolvedIs DEF Shapes, Calm, Known
    <2>4. Failed'
      BY <1>1, <1>5, <2>1, ResolvedIs DEF Shapes, Calm, Known, Failed, OneOpen
    <2> QED
      BY <2>1, <2>2, <2>3, <2>4 DEF ReplacementInv
  <1>6. CASE /\ At("preflight") /\ Fault /\ Is("rollback", call.old, call.new) /\ Same
             /\ UNCHANGED <<state, named, tracked>>
    <2>1. Shapes'
      BY <1>1, <1>6 DEF Shapes
    <2>2. Calm'
      BY <1>1, <1>6, <2>1, ResolvedIs DEF Shapes, Calm
    <2>3. Known'
      BY <1>1, <1>6, <2>1, ResolvedIs DEF Shapes, Calm, Known
    <2>4. Failed'
      BY <1>1, <1>6, <2>1, ResolvedIs DEF Shapes, Calm, Known, Failed, OneOpen
    <2> QED
      BY <2>1, <2>2, <2>3, <2>4 DEF ReplacementInv
  <1> QED
    BY <1>1, <1>2, <1>3, <1>4, <1>5, <1>6, Updates DEF Preflight

LEMMA CreateKeeps ==
  ASSUME ReplacementInv, Create
  PROVE  ReplacementInv'
  <1> USE ContainersAre DEF AtMostOne, Exists, Open, Alive, At, Fault, Started, Startings, States, Is, Same
  <1>1. Shapes /\ Calm /\ Known /\ Failed /\ UNCHANGED crashed
    BY DEF ReplacementInv, Create
  <1>2. CASE /\ At("create") /\ Fault /\ Is("rollback", call.old, call.new) /\ Same
             /\ UNCHANGED <<state, named, tracked>>
    <2>1. Shapes'
      BY <1>1, <1>2 DEF Shapes
    <2>2. Calm'
      BY <1>1, <1>2, <2>1 DEF Shapes, Calm
    <2>3. Known'
      BY <1>1, <1>2, <2>1 DEF Shapes, Calm, Known
    <2>4. Failed'
      BY <1>1, <1>2, <2>1 DEF Shapes, Calm, Known, Failed, OneOpen
    <2> QED
      BY <2>1, <2>2, <2>3, <2>4 DEF ReplacementInv
  <1>3. CASE /\ At("create") /\ (\E c \in named : Alive(c) /\ Is("start", call.old, c)) /\ Same
             /\ UNCHANGED <<state, named, tracked, faults>>
    <2>1. Shapes'
      BY <1>1, <1>3 DEF Shapes
    <2>2. Calm'
      BY <1>1, <1>3, <2>1 DEF Shapes, Calm
    <2>3. Known'
      BY <1>1, <1>3, <2>1 DEF Shapes, Calm, Known
    <2>4. Failed'
      BY <1>1, <1>3, <2>1 DEF Shapes, Calm, Known, Failed, OneOpen
    <2> QED
      BY <2>1, <2>2, <2>3, <2>4 DEF ReplacementInv
  <1>4. CASE /\ At("create") /\ Is("start", call.old, Min(Unused)) /\ Same
             /\ state' = [c \in Containers |-> IF c = Min(Unused) THEN "created"
                                               ELSE IF c \in named THEN "removed" ELSE state[c]]
             /\ UNCHANGED <<tracked, faults>>
    <2>1. Shapes'
      BY <1>1, <1>4 DEF Shapes
    <2>2. Calm'
      BY <1>1, <1>4, <2>1 DEF Shapes, Calm
    <2>3. Known'
      BY <1>1, <1>4, <2>1 DEF Shapes, Calm, Known
    <2>4. Failed'
      BY <1>1, <1>4, <2>1 DEF Shapes, Calm, Known, Failed, OneOpen
    <2> QED
      BY <2>1, <2>2, <2>3, <2>4 DEF ReplacementInv
  <1> QED
    BY <1>1, <1>2, <1>3, <1>4, Updates DEF Create

LEMMA StartKeeps ==
  ASSUME ReplacementInv, Start
  PROVE  ReplacementInv'
  <1> USE ContainersAre DEF AtMostOne, Exists, Open, Alive, At, Fault, Started, Startings, States, NoCall, CallFields
  <1>1. Shapes /\ Calm /\ Known /\ Failed
    BY DEF ReplacementInv
  <1>2. Shapes'
    BY <1>1 DEF Start, Shapes, Goto
  <1>3. Calm'
    BY <1>1, <1>2, ResolvedIs DEF Start, Shapes, Calm, Goto
  <1>4. Known'
    BY <1>1, <1>2, ResolvedIs DEF Start, Shapes, Calm, Known, Goto
  <1>5. Failed'
    BY <1>1, <1>2, ResolvedIs DEF Start, Shapes, Calm, Known, Failed, OneOpen, Goto
  <1> QED
    BY <1>2, <1>3, <1>4, <1>5 DEF ReplacementInv

LEMMA DiscardKeeps ==
  ASSUME ReplacementInv, Discard
  PROVE  ReplacementInv'
  <1> USE ContainersAre DEF AtMostOne, Exists, Open, Alive, At, Fault, Started, Startings, States, Is, Same
  <1>1. Shapes /\ Calm /\ Known /\ Failed /\ UNCHANGED crashed
    BY DEF ReplacementInv, Discard
  <1>2. CASE /\ At("discard") /\ Fault /\ Is("answered", call.old, call.new) /\ Same
             /\ UNCHANGED <<state, named, tracked>>
    <2>1. Shapes'
      BY <1>1, <1>2 DEF Shapes
    <2>2. Calm'
      BY <1>1, <1>2, <2>1 DEF Shapes, Calm
    <2>3. Known'
      BY <1>1, <1>2, <2>1 DEF Shapes, Calm, Known
    <2>4. Failed'
      BY <1>1, <1>2, <2>1 DEF Shapes, Calm, Known, Failed, OneOpen
    <2> QED
      BY <2>1, <2>2, <2>3, <2>4 DEF ReplacementInv
  <1>3. CASE /\ At("discard") /\ Is("rollback", call.old, call.new) /\ Same
             /\ state' = [state EXCEPT ![call.new] = "removed"] /\ UNCHANGED <<tracked, faults>>
    <2>1. Shapes'
      BY <1>1, <1>3 DEF Shapes
    <2>2. Calm'
      BY <1>1, <1>3, <2>1 DEF Shapes, Calm
    <2>3. Known'
      BY <1>1, <1>3, <2>1 DEF Shapes, Calm, Known
    <2>4. Failed'
      BY <1>1, <1>3, <2>1 DEF Shapes, Calm, Known, Failed, OneOpen
    <2> QED
      BY <2>1, <2>2, <2>3, <2>4 DEF ReplacementInv
  <1> QED
    BY <1>1, <1>2, <1>3, Updates DEF Discard

LEMMA RollbackKeeps ==
  ASSUME ReplacementInv, Rollback
  PROVE  ReplacementInv'
  <1> USE ContainersAre DEF AtMostOne, Exists, Open, Alive, At, Fault, Started, Startings, States, Is, Same
  <1>1. Shapes /\ Calm /\ Known /\ Failed /\ UNCHANGED crashed
    BY DEF ReplacementInv, Rollback
  <1>2. CASE /\ At("rollback") /\ Is("answered", call.old, call.old) /\ Same /\ Exists(call.old)
             /\ (UNCHANGED state \/ \E status \in Startings : Started(call.old, status)) /\ UNCHANGED <<tracked, faults>>
    <2>1. Shapes'
      BY <1>1, <1>2 DEF Shapes
    <2>2. Calm'
      BY <1>1, <1>2, <2>1 DEF Shapes, Calm
    <2>3. Known'
      BY <1>1, <1>2, <2>1 DEF Shapes, Calm, Known
    <2>4. Failed'
      BY <1>1, <1>2, <2>1 DEF Shapes, Calm, Known, Failed, OneOpen
    <2> QED
      BY <2>1, <2>2, <2>3, <2>4 DEF ReplacementInv
  <1>3. CASE /\ At("rollback") /\ Is("answered", call.old, call.old) /\ Same /\ UNCHANGED <<state, named, tracked>>
             /\ (Fault \/ UNCHANGED faults)
    <2>1. Shapes'
      BY <1>1, <1>3 DEF Shapes
    <2>2. Calm'
      BY <1>1, <1>3, <2>1 DEF Shapes, Calm
    <2>3. Known'
      BY <1>1, <1>3, <2>1 DEF Shapes, Calm, Known
    <2>4. Failed'
      BY <1>1, <1>3, <2>1 DEF Shapes, Calm, Known, Failed, OneOpen
    <2> QED
      BY <2>1, <2>2, <2>3, <2>4 DEF ReplacementInv
  <1> QED
    BY <1>1, <1>2, <1>3, Updates DEF Rollback

LEMMA DropKeeps ==
  ASSUME ReplacementInv, Drop
  PROVE  ReplacementInv'
  <1> USE ContainersAre DEF AtMostOne, Exists, Open, Alive, At, Fault, Started, Startings, States, Is, Same
  <1>1. Shapes /\ Calm /\ Known /\ Failed /\ UNCHANGED crashed
    BY DEF ReplacementInv, Drop
  <1>2. CASE /\ At("drop") /\ Is("answered", call.old, call.new) /\ Same /\ call.old # None
             /\ state' = [state EXCEPT ![call.old] = "removed"] /\ UNCHANGED <<tracked, faults>>
    <2>1. Shapes'
      BY <1>1, <1>2 DEF Shapes
    <2>2. Calm'
      BY <1>1, <1>2, <2>1 DEF Shapes, Calm
    <2>3. Known'
      BY <1>1, <1>2, <2>1 DEF Shapes, Calm, Known
    <2>4. Failed'
      BY <1>1, <1>2, <2>1 DEF Shapes, Calm, Known, Failed, OneOpen
    <2> QED
      BY <2>1, <2>2, <2>3, <2>4 DEF ReplacementInv
  <1>3. CASE /\ At("drop") /\ Is("answered", call.old, call.new) /\ Same /\ Fault /\ UNCHANGED <<state, named, tracked>>
    <2>1. Shapes'
      BY <1>1, <1>3 DEF Shapes
    <2>2. Calm'
      BY <1>1, <1>3, <2>1 DEF Shapes, Calm
    <2>3. Known'
      BY <1>1, <1>3, <2>1 DEF Shapes, Calm, Known
    <2>4. Failed'
      BY <1>1, <1>3, <2>1 DEF Shapes, Calm, Known, Failed, OneOpen
    <2> QED
      BY <2>1, <2>2, <2>3, <2>4 DEF ReplacementInv
  <1>4. CASE /\ At("drop") /\ Is("answered", call.old, call.new) /\ Same /\ call.old = None
             /\ UNCHANGED <<state, named, tracked, faults>>
    <2>1. Shapes'
      BY <1>1, <1>4 DEF Shapes
    <2>2. Calm'
      BY <1>1, <1>4, <2>1 DEF Shapes, Calm
    <2>3. Known'
      BY <1>1, <1>4, <2>1 DEF Shapes, Calm, Known
    <2>4. Failed'
      BY <1>1, <1>4, <2>1 DEF Shapes, Calm, Known, Failed, OneOpen
    <2> QED
      BY <2>1, <2>2, <2>3, <2>4 DEF ReplacementInv
  <1> QED
    BY <1>1, <1>2, <1>3, <1>4, Updates DEF Drop

LEMMA RecordKeeps ==
  ASSUME ReplacementInv, Record
  PROVE  ReplacementInv'
  <1> USE ContainersAre DEF AtMostOne, Exists, Open, Alive, At, Fault, Started, Startings, States, NoCall, CallFields
  <1>1. Shapes /\ Calm /\ Known /\ Failed
    BY DEF ReplacementInv
  <1>2. Shapes'
    BY <1>1 DEF Record, Shapes, Goto
  <1>3. Calm'
    BY <1>1, <1>2, ResolvedIs DEF Record, Shapes, Calm, Goto
  <1>4. Known'
    BY <1>1, <1>2, ResolvedIs DEF Record, Shapes, Calm, Known, Goto
  <1>5. Failed'
    BY <1>1, <1>2, ResolvedIs DEF Record, Shapes, Calm, Known, Failed, OneOpen, Goto
  <1> QED
    BY <1>2, <1>3, <1>4, <1>5 DEF ReplacementInv

-----------------------------------------------------------------------------
(* The rest of the panel, and the world *)

LEMMA CrashKeeps ==
  ASSUME ReplacementInv, Crash
  PROVE  ReplacementInv'
  <1> USE ContainersAre DEF AtMostOne, Exists, Open, Alive, At, Fault, Started, Startings, States, NoCall, CallFields
  <1>1. Shapes /\ Calm /\ Known /\ Failed
    BY DEF ReplacementInv
  <1>2. Shapes'
    BY <1>1 DEF Crash, Shapes, Goto
  <1>3. Calm'
    BY <1>1, <1>2, ResolvedIs DEF Crash, Shapes, Calm, Goto
  <1>4. Known'
    BY <1>1, <1>2, ResolvedIs DEF Crash, Shapes, Calm, Known, Goto
  <1>5. Failed'
    BY <1>1, <1>2, ResolvedIs DEF Crash, Shapes, Calm, Known, Failed, OneOpen, Goto
  <1> QED
    BY <1>2, <1>3, <1>4, <1>5 DEF ReplacementInv

LEMMA StartTrackedKeeps ==
  ASSUME ReplacementInv, StartTracked
  PROVE  ReplacementInv'
  <1> USE ContainersAre DEF AtMostOne, Exists, Open, Alive, At, Fault, Started, Startings, States, NoCall, CallFields
  <1>1. Shapes /\ Calm /\ Known /\ Failed
    BY DEF ReplacementInv
  <1>2. Shapes'
    BY <1>1 DEF StartTracked, Shapes, Goto
  <1>3. Calm'
    BY <1>1, <1>2, ResolvedIs DEF StartTracked, Shapes, Calm, Goto
  <1>4. Known'
    BY <1>1, <1>2, ResolvedIs DEF StartTracked, Shapes, Calm, Known, Goto
  <1>5. Failed'
    BY <1>1, <1>2, ResolvedIs DEF StartTracked, Shapes, Calm, Known, Failed, OneOpen, Goto
  <1> QED
    BY <1>2, <1>3, <1>4, <1>5 DEF ReplacementInv

LEMMA PauseTrackedKeeps ==
  ASSUME ReplacementInv, PauseTracked
  PROVE  ReplacementInv'
  <1> USE ContainersAre DEF AtMostOne, Exists, Open, Alive, At, Fault, Started, Startings, States, NoCall, CallFields
  <1>1. Shapes /\ Calm /\ Known /\ Failed
    BY DEF ReplacementInv
  <1>2. Shapes'
    BY <1>1 DEF PauseTracked, Shapes, Goto
  <1>3. Calm'
    BY <1>1, <1>2, ResolvedIs DEF PauseTracked, Shapes, Calm, Goto
  <1>4. Known'
    BY <1>1, <1>2, ResolvedIs DEF PauseTracked, Shapes, Calm, Known, Goto
  <1>5. Failed'
    BY <1>1, <1>2, ResolvedIs DEF PauseTracked, Shapes, Calm, Known, Failed, OneOpen, Goto
  <1> QED
    BY <1>2, <1>3, <1>4, <1>5 DEF ReplacementInv

LEMMA AdoptKeeps ==
  ASSUME ReplacementInv, Adopt
  PROVE  ReplacementInv'
  <1> USE ContainersAre DEF AtMostOne, Exists, Open, Alive, At, Fault, Started, Startings, States, NoCall, CallFields
  <1>1. Shapes /\ Calm /\ Known /\ Failed
    BY DEF ReplacementInv
  <1>2. Shapes'
    BY <1>1 DEF Adopt, Shapes, Goto
  <1>3. Calm'
    BY <1>1, <1>2, ResolvedIs DEF Adopt, Shapes, Calm, Goto
  <1>4. Known'
    BY <1>1, <1>2, ResolvedIs DEF Adopt, Shapes, Calm, Known, Goto
  <1>5. Failed'
    BY <1>1, <1>2, ResolvedIs DEF Adopt, Shapes, Calm, Known, Failed, OneOpen, Goto
  <1> QED
    BY <1>2, <1>3, <1>4, <1>5 DEF ReplacementInv

LEMMA WorldKeeps ==
  ASSUME ReplacementInv, NEW w \in Containers, HealthSettles(w) \/ Exit(w)
  PROVE  ReplacementInv'
  <1> USE ContainersAre DEF AtMostOne, Exists, Open, Alive, At, Fault, Started, Startings, States, NoCall, CallFields
  <1>1. Shapes /\ Calm /\ Known /\ Failed
    BY DEF ReplacementInv
  <1>2. Shapes'
    BY <1>1 DEF HealthSettles, Exit, Shapes, Goto
  <1>3. Calm'
    BY <1>1, <1>2, ResolvedIs DEF HealthSettles, Exit, Shapes, Calm, Goto
  <1>4. Known'
    BY <1>1, <1>2, ResolvedIs DEF HealthSettles, Exit, Shapes, Calm, Known, Goto
  <1>5. Failed'
    BY <1>1, <1>2, ResolvedIs DEF HealthSettles, Exit, Shapes, Calm, Known, Failed, OneOpen, Goto
  <1> QED
    BY <1>2, <1>3, <1>4, <1>5 DEF ReplacementInv

-----------------------------------------------------------------------------
(* The theorems *)

LEMMA NextKeepsWorld ==
  ASSUME ReplacementInv, [ReplacementNext]_replacementVars
  PROVE  ReplacementInv'
  <1>1. CASE UNCHANGED replacementVars
    BY <1>1 DEF replacementVars, ReplacementInv, Shapes, Calm, Known, Failed, AtMostOne, OneOpen, Exists, Open, At
  <1>2. CASE ReplacementNext
    BY <1>2, BeginKeeps, InspectKeeps, StopKeeps, RetainKeeps, PreflightKeeps, CreateKeeps, StartKeeps, DiscardKeeps,
       RollbackKeeps, DropKeeps, RecordKeeps, CrashKeeps, StartTrackedKeeps, PauseTrackedKeeps, AdoptKeeps, WorldKeeps
       DEF ReplacementNext
  <1> QED
    BY <1>1, <1>2

LEMMA InitWorld == ReplacementInit => ReplacementInv
  BY DEF ReplacementInit, ReplacementInv, Shapes, Calm, Known, Failed, AtMostOne, OneOpen, Exists, Open, At,
         States, NoCall, CallFields

LEMMA ReplacementInvariant == ReplacementSpec => []ReplacementInv
  <1>1. ReplacementInv /\ [ReplacementNext]_replacementVars => ReplacementInv'
    BY NextKeepsWorld
  <1> QED
    BY <1>1, InitWorld, PTL DEF ReplacementSpec

LEMMA OneOpenCounts ==
  ASSUME OneOpen
  PROVE  Cardinality({c \in Containers : Open(c)}) <= 1
  <1> DEFINE open == {c \in Containers : Open(c)}
  <1>1. CASE open = {}
    <2>1. Cardinality(open) = 0
      BY <1>1, FS_EmptySet, Zenon
    <2> QED
      BY <2>1
  <1>2. CASE open # {}
    <2>1. PICK c \in Containers : Open(c)
      BY <1>2
    <2>2. open = {c}
      BY <2>1 DEF OneOpen
    <2>3. Cardinality({c}) = 1
      BY FS_Singleton
    <2> QED
      BY <2>2, <2>3
  <1> QED
    BY <1>1, <1>2

\* A replacement never leaves two containers with the server's directory open, over any number of
\* crashes without a failed call, or one failed call without a crash (client.go RecreateContainer).
THEOREM OneWorldOpenHolds == ReplacementSpec => []OneWorldOpen
  <1>1. ASSUME ReplacementInv PROVE OneWorldOpen
    <2>1. ASSUME AtMostOne PROVE OneOpen
      BY <2>1, ContainersAre DEF AtMostOne, OneOpen, Exists
    <2>2. ASSUME faults = 0 \/ (faults = 1 /\ ~crashed) PROVE OneOpen
      <3>1. CASE faults = 0
        BY <1>1, <2>1, <3>1 DEF ReplacementInv, Calm
      <3>2. CASE faults = 1 /\ ~crashed
        <4>1. CASE At("create")
          BY <1>1, <3>2, <4>1, ContainersAre DEF ReplacementInv, Failed, OneOpen, Exists
        <4>2. CASE ~At("create")
          BY <1>1, <2>1, <3>2, <4>2 DEF ReplacementInv, Failed, At
        <4> QED
          BY <4>1, <4>2
      <3> QED
        BY <2>2, <3>1, <3>2
    <2> QED
      BY <2>2, OneOpenCounts DEF OneWorldOpen
  <1> QED
    BY <1>1, ReplacementInvariant, PTL

\* Without a failed call, over any number of crashes, the container with the world open is the
\* one the label lookup answers (reconciler.go).
THEOREM OpenWorldIsFoundHolds == ReplacementSpec => []OpenWorldIsFound
  <1>1. ASSUME ReplacementInv PROVE OpenWorldIsFound
    <2> SUFFICES ASSUME faults = 0, NEW c \in Containers, Open(c) PROVE c = Resolved
      BY DEF OpenWorldIsFound
    <2>1. AtMostOne
      BY <1>1 DEF ReplacementInv, Calm
    <2>2. Exists(c)
      BY ContainersAre DEF Exists
    <2> QED
      BY <2>1, <2>2, ResolvedIs
  <1> QED
    BY <1>1, ReplacementInvariant, PTL

-----------------------------------------------------------------------------
(* Types *)

\* A finite set of numbers that is not empty has a largest and a smallest member: a smallest subset
\* without them would have them as soon as one member is added again.
LEMMA HasExtremes ==
  ASSUME NEW S, IsFiniteSet(S), S # {}, S \subseteq Nat
  PROVE  Max(S) \in S /\ Min(S) \in S
  <1> DEFINE Good(T) == (\E x \in T : \A y \in T : x >= y) /\ (\E x \in T : \A y \in T : x =< y)
             Bad == {T \in FiniteSubsetsOf(S) : T # {} /\ ~Good(T)}
             R == StrictSubsetOrdering(S)
  <1>1. Bad = {}
    <2> SUFFICES ASSUME Bad # {} PROVE FALSE
      OBVIOUS
    <2>1. IsWellFoundedOn(R, FiniteSubsetsOf(S))
      BY FS_StrictSubsetOrderingWellFounded
    <2>2. Bad \subseteq FiniteSubsetsOf(S)
      OBVIOUS
    <2> HIDE DEF Bad, R
    <2>3. PICK T \in Bad : \A U \in Bad : <<U, T>> \notin R
      BY <2>1, <2>2, WFMin
    <2>4. T \subseteq Nat /\ IsFiniteSet(T) /\ T # {} /\ ~Good(T) /\ T \subseteq S
      BY <2>3 DEF Bad, FiniteSubsetsOf
    <2>5. PICK z \in T : TRUE
      BY <2>4
    <2> DEFINE U == T \ {z}
    <2>6. IsFiniteSet(U) /\ U \subseteq S /\ U # T
      BY <2>4, <2>5, FS_RemoveElement
    <2>7. U \in FiniteSubsetsOf(S) /\ <<U, T>> \in R
      BY <2>4, <2>6 DEF R, StrictSubsetOrdering, FiniteSubsetsOf
    <2>8. CASE U = {}
      <3>1. T = {z}
        BY <2>5, <2>8
      <3> QED
        BY <2>4, <3>1
    <2>9. CASE U # {}
      <3>1. Good(U)
        BY <2>3, <2>7, <2>9 DEF Bad
      <3>2. PICK m \in U : \A y \in U : m >= y
        BY <3>1
      <3>3. PICK n \in U : \A y \in U : n =< y
        BY <3>1
      <3>4. \E x \in T : \A y \in T : x >= y
        <4>1. CASE m >= z
          BY <2>4, <3>2, <4>1
        <4>2. CASE ~(m >= z)
          BY <2>4, <2>5, <3>2, <4>2
        <4> QED
          BY <4>1, <4>2
      <3>5. \E x \in T : \A y \in T : x =< y
        <4>1. CASE n =< z
          BY <2>4, <3>3, <4>1
        <4>2. CASE ~(n =< z)
          BY <2>4, <2>5, <3>3, <4>2
        <4> QED
          BY <4>1, <4>2
      <3> QED
        BY <2>4, <3>4, <3>5
    <2> QED
      BY <2>8, <2>9
  <1>2. S \in FiniteSubsetsOf(S)
    BY DEF FiniteSubsetsOf
  <1>3. Good(S)
    BY <1>1, <1>2
  <1> QED
    BY <1>3 DEF Max, Min

\* What the label finds is a container that exists, and what is made is a container nobody made.
LEMMA Found ==
  /\ Resolved # None => Resolved \in Containers /\ Exists(Resolved)
  /\ Unused # {} => Min(Unused) \in Unused
  <1>1. ASSUME NEW S \in SUBSET Containers, S # {} PROVE Max(S) \in S /\ Min(S) \in S
    <2>1. IsFiniteSet(S) /\ S \subseteq Nat
      BY ReplacementAssumption, FS_Subset
    <2> QED
      BY <1>1, <2>1, HasExtremes
  <1> DEFINE labelled == {c \in Containers : Exists(c)}
  <1>2. labelled # {} => Max(labelled) \in labelled
    <2> labelled \subseteq Containers
      OBVIOUS
    <2> HIDE DEF labelled
    <2> QED
      BY <1>1
  <1>3. Resolved = IF labelled = {} THEN None ELSE Max(labelled)
    BY DEF Resolved
  <1>4. Unused \subseteq Containers
    BY DEF Unused
  <1> QED
    BY <1>1, <1>2, <1>3, <1>4

LEMMA StartsTyped == ReplacementInit => ReplacementTypeOK
  <1>1. NoCall \in Call
    BY DEF NoCall, Call
  <1>2. "unused" \in States /\ 0 \in 0..MaxFaults
    BY ReplacementAssumption DEF States
  <1> QED
    BY <1>1, <1>2 DEF ReplacementInit, ReplacementTypeOK

\* The call stays a call, whatever it writes of itself.
LEMMA CallTyped ==
  ASSUME call \in Call
  PROVE  /\ \A pc \in Steps : Goto(pc) => call' \in Call
         /\ \A c \in Containers \union {None} : Fails(c) => call' \in Call
         /\ \A r \in BOOLEAN : call' = [call EXCEPT !.pc = "stop", !.was_running = r] => call' \in Call
         /\ call' = [call EXCEPT !.pc = "preflight", !.retained = TRUE] => call' \in Call
         /\ \A n \in Containers \union {None} : call' = [call EXCEPT !.pc = "start", !.new = n] => call' \in Call
         /\ call' = [call EXCEPT !.pc = "answered", !.ok = TRUE] => call' \in Call
         /\ call.old \in Containers \union {None} /\ call.new \in Containers \union {None}
  <1>1. \A pc \in Steps : Goto(pc) => call' \in Call
    BY DEF Call, Goto
  <1>2. \A c \in Containers \union {None} : Fails(c) => call' \in Call
    BY DEF Call, Fails, Steps
  <1>3. \A r \in BOOLEAN : call' = [call EXCEPT !.pc = "stop", !.was_running = r] => call' \in Call
    BY DEF Call, Steps
  <1>4. call' = [call EXCEPT !.pc = "preflight", !.retained = TRUE] => call' \in Call
    BY DEF Call, Steps
  <1>5. \A n \in Containers \union {None} : call' = [call EXCEPT !.pc = "start", !.new = n] => call' \in Call
    BY DEF Call, Steps
  <1>6. call' = [call EXCEPT !.pc = "answered", !.ok = TRUE] => call' \in Call
    BY DEF Call, Steps
  <1>7. call.old \in Containers \union {None} /\ call.new \in Containers \union {None}
    BY DEF Call
  <1> QED
    BY <1>1, <1>2, <1>3, <1>4, <1>5, <1>6, <1>7

LEMMA StepsTyped == ReplacementTypeOK /\ [ReplacementNext]_replacementVars => ReplacementTypeOK'
  <1> SUFFICES ASSUME ReplacementTypeOK, [ReplacementNext]_replacementVars PROVE ReplacementTypeOK'
    OBVIOUS
  <1>0. /\ state \in [Containers -> States] /\ named \subseteq Containers /\ tracked \in Containers \union {None}
        /\ call \in Call /\ faults \in 0..MaxFaults /\ crashed \in BOOLEAN
    BY DEF ReplacementTypeOK
  <1>a. /\ "created" \in States /\ "exited" \in States /\ "removed" \in States /\ "starting" \in States
        /\ "running" \in States /\ "paused" \in States /\ Startings \subseteq States
    BY DEF States, Startings
  <1>b. Fault => faults' \in 0..MaxFaults
    BY <1>0, ReplacementAssumption DEF Fault
  <1>c. \A s \in States : \A c : state' = [state EXCEPT ![c] = s] => state' \in [Containers -> States]
    BY <1>0
  <1>d. NoCall \in Call
    BY DEF NoCall, Call
  <1>1. CASE Begin
    BY <1>0, <1>1 DEF Begin, NoCall, Call, Steps, ReplacementTypeOK
  <1>2. CASE Inspect
    BY <1>0, <1>a, <1>b, <1>2, CallTyped DEF Inspect, ReplacementTypeOK, Steps
  <1>3. CASE Stop
    BY <1>0, <1>a, <1>b, <1>c, <1>3, CallTyped DEF Stop, ReplacementTypeOK, Steps
  <1>4. CASE Retain
    BY <1>0, <1>b, <1>4, CallTyped DEF Retain, ReplacementTypeOK, Steps
  <1>5. CASE Preflight
    BY <1>0, <1>a, <1>b, <1>c, <1>5, CallTyped, Found DEF Preflight, ReplacementTypeOK, Steps
  <1>6. CASE Create
    <2>1. Unused # {} => Min(Unused) \in Containers
      BY Found DEF Unused
    <2>2. CASE UNCHANGED <<state, named>>
      BY <1>0, <1>b, <1>6, <2>2, CallTyped DEF Create, ReplacementTypeOK, Steps
    <2>3. ASSUME Unused # {}, call' = [call EXCEPT !.pc = "start", !.new = Min(Unused)], named' = {Min(Unused)},
                 state' = [c \in Containers |-> IF c = Min(Unused) THEN "created"
                                                ELSE IF c \in named THEN "removed" ELSE state[c]]
          PROVE  state' \in [Containers -> States] /\ named' \subseteq Containers /\ call' \in Call
      BY <1>0, <1>a, <2>1, <2>3, CallTyped
    <2> QED
      BY <1>0, <1>6, <2>2, <2>3 DEF Create, ReplacementTypeOK
  <1>7. CASE Start
    BY <1>0, <1>a, <1>b, <1>c, <1>7, CallTyped DEF Start, Started, ReplacementTypeOK, Steps
  <1>8. CASE Discard
    BY <1>0, <1>a, <1>b, <1>c, <1>8, CallTyped DEF Discard, ReplacementTypeOK, Steps
  <1>9. CASE Rollback
    <2>1. Exists(call.old) => call.old \in Containers
      BY <1>0, CallTyped DEF Exists
    <2> QED
      BY <1>0, <1>a, <1>b, <1>c, <1>9, <2>1, CallTyped DEF Rollback, Started, ReplacementTypeOK
  <1>10. CASE Drop
    BY <1>0, <1>a, <1>b, <1>c, <1>10, CallTyped DEF Drop, ReplacementTypeOK
  <1>11. CASE Record \/ Crash
    BY <1>0, <1>d, <1>11, CallTyped DEF Record, Crash, ReplacementTypeOK
  <1>12. CASE StartTracked \/ PauseTracked \/ Adopt
    BY <1>0, <1>a, <1>c, <1>12, Found DEF StartTracked, PauseTracked, Adopt, Started, ReplacementTypeOK
  <1>13. ASSUME NEW c \in Containers, HealthSettles(c) \/ Exit(c) PROVE ReplacementTypeOK'
    BY <1>0, <1>a, <1>c, <1>13 DEF HealthSettles, Exit, ReplacementTypeOK
  <1>14. CASE UNCHANGED replacementVars
    BY <1>0, <1>14 DEF replacementVars, ReplacementTypeOK
  <1> QED
    BY <1>1, <1>2, <1>3, <1>4, <1>5, <1>6, <1>7, <1>8, <1>9, <1>10, <1>11, <1>12, <1>13, <1>14 DEF ReplacementNext

\* The daemon's containers, the row and the call in progress keep their types, for any number of containers.
THEOREM ReplacementIsTypeCorrect == ReplacementSpec => []ReplacementTypeOK
  BY StartsTyped, StepsTyped, PTL DEF ReplacementSpec

-----------------------------------------------------------------------------
(* The run intent *)

\* A call that found the old container running has stopped it by the time it goes on, and never takes it
\* for its replacement, which is the one it has started when it comes to drop the old one.
Intended ==
  /\ call.ok => At("answered")
  /\ At("inspect") => call.old \in Containers
  /\ call.was_running =>
       /\ call.pc \notin {"none", "inspect"} /\ call.old \in Containers
       /\ call.pc \in {"retain", "preflight", "create", "start", "drop"} => state[call.old] \in {"exited", "removed"}
       /\ call.pc \in {"start", "drop"} => call.new \in Containers /\ call.new # call.old
       /\ At("drop") => state[call.new] \in Startings \union {"exited"}
       /\ At("answered") /\ call.ok => call.new \in Containers /\ state[call.new] \in Startings \union {"exited"}

\* The call goes on at pc with what it knew.
Goes(pc) == call'.pc = pc /\ call'.old = call.old /\ call'.was_running = call.was_running

LEMMA CallGoes ==
  ASSUME call \in Call
  PROVE  /\ \A pc : Goto(pc) => Goes(pc) /\ call'.new = call.new /\ call'.ok = call.ok
         /\ \A c : Fails(c) => Goes("answered") /\ call'.ok = call.ok
         /\ \A r : call' = [call EXCEPT !.pc = "stop", !.was_running = r] =>
                     call'.pc = "stop" /\ call'.old = call.old /\ call'.ok = call.ok
         /\ call' = [call EXCEPT !.pc = "preflight", !.retained = TRUE] =>
                     Goes("preflight") /\ call'.new = call.new /\ call'.ok = call.ok
         /\ \A n : call' = [call EXCEPT !.pc = "start", !.new = n] =>
                     Goes("start") /\ call'.new = n /\ call'.ok = call.ok
         /\ call' = [call EXCEPT !.pc = "answered", !.ok = TRUE] =>
                     Goes("answered") /\ call'.new = call.new
  BY DEF Call, Goto, Fails, Goes

LEMMA IntentSteps == ReplacementTypeOK /\ Intended /\ [ReplacementNext]_replacementVars => Intended'
  <1> SUFFICES ASSUME ReplacementTypeOK, Intended, [ReplacementNext]_replacementVars PROVE Intended'
    OBVIOUS
  <1>0. /\ state \in [Containers -> States] /\ named \subseteq Containers /\ tracked \in Containers \union {None}
        /\ call \in Call
    BY DEF ReplacementTypeOK
  <1>a. /\ call.was_running \in BOOLEAN /\ call.ok \in BOOLEAN
        /\ call.old \in Containers \union {None} /\ call.new \in Containers \union {None} /\ None \notin Containers
    BY <1>0, ReplacementAssumption DEF Call, None
  <1> USE <1>0, <1>a DEF Goes, At
  <1>b. ASSUME UNCHANGED state, ~call.ok, call.was_running => call.old \in Containers, \E c : Fails(c) PROVE Intended'
    <2>1. Goes("answered") /\ call'.ok = call.ok
      BY <1>b, CallGoes
    <2> QED
      BY <2>1, <1>b DEF Intended
  <1>c. ASSUME UNCHANGED state, ~call.ok, NEW pc \in {"create", "rollback", "discard"}, Goto(pc),
               call.was_running => call.old \in Containers,
               (call.was_running /\ pc = "create") => state[call.old] \in {"exited", "removed"}
        PROVE  Intended'
    <2>1. Goes(pc) /\ call'.ok = call.ok
      BY <1>c, CallGoes
    <2> QED
      BY <2>1, <1>c DEF Intended
  <1>1. CASE Begin
    BY <1>1 DEF Begin, NoCall, Intended
  <1>2. CASE Inspect
    <2>1. ~call.was_running /\ call.old \in Containers /\ call.pc = "inspect" /\ ~call.ok /\ UNCHANGED state
      BY <1>2 DEF Inspect, Intended
    <2>2. CASE call' = [call EXCEPT !.pc = "stop", !.was_running = state[call.old] = "running"]
      <3>1. call'.pc = "stop" /\ call'.old = call.old /\ call'.ok = call.ok
        BY <2>2, CallGoes
      <3> QED
        BY <2>1, <3>1 DEF Intended
    <2>3. CASE Goto("preflight") \/ Goto("retain")
      BY <2>1, <2>3, CallGoes DEF Intended
    <2> QED
      BY <1>b, <1>2, <2>1, <2>2, <2>3 DEF Inspect, Intended
  <1>3. CASE Stop
    <2>1. CASE Goto("retain") /\ state' = [state EXCEPT ![call.old] = "exited"]
      <3>1. Goes("retain") /\ call'.ok = call.ok
        BY <2>1, CallGoes
      <3> QED
        BY <1>3, <2>1, <3>1 DEF Stop, Intended
    <2> QED
      BY <1>b, <1>3, <2>1 DEF Stop, Intended
  <1>4. CASE Retain
    <2>1. CASE call' = [call EXCEPT !.pc = "preflight", !.retained = TRUE]
      <3>1. Goes("preflight") /\ call'.ok = call.ok
        BY <2>1, CallGoes
      <3> QED
        BY <1>4, <3>1 DEF Retain, Intended
    <2> QED
      BY <1>b, <1>4, <2>1 DEF Retain, Intended
  <1>5. CASE Preflight
    <2>0. call.pc = "preflight" /\ ~call.ok
      BY <1>5 DEF Preflight, Intended
    <2>1. CASE (Goto("create") \/ Goto("rollback")) /\ UNCHANGED state
      BY <1>c, <2>0, <2>1 DEF Intended
    <2>2. CASE state' = [state EXCEPT ![Resolved] = "removed"] /\ Goto("create")
      <3>1. Goes("create") /\ call'.ok = call.ok
        BY <2>2, CallGoes
      <3> QED
        BY <2>0, <2>2, <3>1 DEF Intended
    <2>3. CASE /\ Resolved # None /\ Alive(Resolved) /\ UNCHANGED state
               /\ call' = [call EXCEPT !.pc = "start", !.new = Resolved]
      <3>1. Resolved \in Containers /\ (call.was_running => Resolved # call.old)
        BY <2>0, <2>3, Found DEF Intended, Alive, Open
      <3>2. Goes("start") /\ call'.new = Resolved /\ call'.ok = call.ok
        BY <2>3, CallGoes
      <3> QED
        BY <2>0, <2>3, <3>1, <3>2 DEF Intended
    <2> QED
      BY <1>5, <2>1, <2>2, <2>3 DEF Preflight
  <1>6. CASE Create
    <2>0. call.pc = "create" /\ ~call.ok
      BY <1>6 DEF Create, Intended
    <2>1. CASE Goto("rollback") /\ UNCHANGED state
      BY <1>c, <2>0, <2>1 DEF Intended
    <2>2. ASSUME NEW c \in named, Alive(c), call' = [call EXCEPT !.pc = "start", !.new = c], UNCHANGED state
          PROVE  Intended'
      <3>1. c \in Containers /\ (call.was_running => c # call.old)
        BY <2>0, <2>2 DEF Intended, Alive, Open
      <3>2. Goes("start") /\ call'.new = c /\ call'.ok = call.ok
        BY <2>2, CallGoes
      <3> QED
        BY <2>0, <2>2, <3>1, <3>2 DEF Intended
    <2>3. CASE /\ Unused # {}
               /\ state' = [c \in Containers |-> IF c = Min(Unused) THEN "created"
                                                 ELSE IF c \in named THEN "removed" ELSE state[c]]
               /\ call' = [call EXCEPT !.pc = "start", !.new = Min(Unused)]
      <3>1. Min(Unused) \in Containers /\ state[Min(Unused)] = "unused"
        BY <2>3, Found DEF Unused
      <3>2. Goes("start") /\ call'.new = Min(Unused) /\ call'.ok = call.ok
        BY <2>3, CallGoes
      <3> HIDE DEF Unused
      <3> QED
        BY <2>0, <2>3, <3>1, <3>2 DEF Intended
    <2> QED
      BY <1>6, <2>1, <2>2, <2>3 DEF Create
  <1>7. CASE Start
    <2>0. call.pc = "start" /\ ~call.ok
      BY <1>7 DEF Start, Intended
    <2>1. CASE (~call.was_running /\ Goto("drop")) /\ UNCHANGED state
      <3>1. Goes("drop") /\ call'.ok = call.ok
        BY <2>1, CallGoes
      <3> QED
        BY <2>0, <2>1, <3>1 DEF Intended
    <2>2. ASSUME call.was_running, Goto("drop"), NEW s \in Startings, state' = [state EXCEPT ![call.new] = s]
          PROVE  Intended'
      <3>1. Goes("drop") /\ call'.new = call.new /\ call'.ok = call.ok
        BY <2>2, CallGoes
      <3> QED
        BY <2>0, <2>2, <3>1 DEF Intended
    <2>3. CASE Goto("discard") /\ UNCHANGED state
      BY <1>c, <2>0, <2>3 DEF Intended
    <2> QED
      BY <1>7, <2>1, <2>2, <2>3 DEF Start, Started
  <1>8. CASE Discard
    <2>1. CASE Goto("rollback")
      <3>1. Goes("rollback") /\ call'.ok = call.ok
        BY <2>1, CallGoes
      <3> QED
        BY <1>8, <3>1 DEF Discard, Intended
    <2> QED
      BY <1>b, <1>8, <2>1 DEF Discard, Intended
  <1>9. CASE Rollback
    <2>1. Goes("answered") /\ call'.ok = call.ok /\ call.pc = "rollback"
      BY <1>9, CallGoes DEF Rollback
    <2> QED
      BY <2>1 DEF Intended
  <1>10. CASE Drop
    <2>1. Goes("answered") /\ call'.new = call.new /\ call.pc = "drop"
      BY <1>10, CallGoes DEF Drop
    <2>2. UNCHANGED state \/ state' = [state EXCEPT ![call.old] = "removed"]
      BY <1>10 DEF Drop
    <2> QED
      BY <2>1, <2>2 DEF Intended
  <1>11. CASE Record \/ Crash
    <2>1. call'.pc = "none" /\ ~call'.ok /\ ~call'.was_running
      BY <1>11 DEF Record, Crash, NoCall
    <2> QED
      BY <2>1 DEF Intended
  <1>12. CASE StartTracked \/ PauseTracked \/ Adopt
    BY <1>12 DEF StartTracked, PauseTracked, Adopt, Intended
  <1>13. ASSUME NEW c \in Containers, HealthSettles(c) \/ Exit(c) PROVE Intended'
    <2>1. /\ call' = call /\ state[c] \in Startings
          /\ state' = [state EXCEPT ![c] = "running"] \/ state' = [state EXCEPT ![c] = "exited"]
      BY <1>13 DEF HealthSettles, Exit, Startings
    <2>2. \A d \in Containers : /\ state[d] \in {"exited", "removed"} => state'[d] = state[d]
                                /\ state[d] \in Startings \union {"exited"} => state'[d] \in Startings \union {"exited"}
      BY <2>1 DEF Startings
    <2> QED
      BY <2>1, <2>2 DEF Intended
  <1>14. CASE UNCHANGED replacementVars
    BY <1>14 DEF replacementVars, Intended
  <1> QED
    BY <1>1, <1>2, <1>3, <1>4, <1>5, <1>6, <1>7, <1>8, <1>9, <1>10, <1>11, <1>12, <1>13, <1>14 DEF ReplacementNext

\* A replacement that answers success has its container started, or ended by itself, whenever the container
\* it replaced was running (client.go RecreateContainer): over any number of failed calls and crashes.
THEOREM SuccessKeepsIntentHolds == ReplacementSpec => []SuccessKeepsIntent
  <1>1. ReplacementInit => Intended
    BY DEF ReplacementInit, NoCall, Intended, At
  <1>2. Intended => SuccessKeepsIntent
    BY DEF Intended, SuccessKeepsIntent
  <1> QED
    BY <1>1, <1>2, IntentSteps, ReplacementIsTypeCorrect, PTL DEF ReplacementSpec
-----------------------------------------------------------------------------
(* Staged updates: what the rows and the lists of the jobs are *)

RowStatuses == {"staged", "applied", "discarded", "rolled_back"}
StagedRow == [kind: Kinds, batch: Nat, mode: Windows, base: Nat, prev: Nat, status: RowStatuses]
Batch == [window: Windows, open: BOOLEAN]
Pair == [file: Nat, field: Nat]
JobSteps == {"idle", "list", "look", "files", "fields", "recreate", "recreate edited", "undo", "mark",
             "save", "finish"}
Job == [pc: JobSteps, batch: Nat, since: SUBSET Nat, content: SUBSET Nat, todo: SUBSET Nat,
        done: Seq(Nat), snap: Nat, config: Nat, was: Pair, clean: BOOLEAN]
Request == [pc: {"idle", "window", "mode", "insert"}, window: Windows, base: Nat, batch: Nat]

OfKind(S, k) == \A r \in S : r \in RowIds /\ rows[r].kind = k
\* What has been settled are fields that were applied, whatever became of them.
Settles(S) == OfKind(S, "field") /\ \A r \in S : rows[r].status \in {"applied", "rolled_back"}

\* What a job has in hand.
InHand(job) ==
  /\ OfKind(job.content, "file") /\ Settles(job.since)
  /\ \A i \in DOMAIN job.done : OfKind({job.done[i]}, "field")
SweepHas(job) == InHand(job) /\ OfKind(job.todo, IF job.pc = "mark" THEN "file" ELSE "field")
PowerHas(job) == InHand(job) /\ OfKind(job.todo, "field")

Tables ==
  /\ batches \in Seq(Batch) /\ rows \in Seq(StagedRow)
  /\ \A r \in RowIds : rows[r].batch \in BatchIds
  /\ live \in Pair /\ built \in Nat /\ Settles(settled)
  /\ edits \in Nat /\ failures \in Nat
Requests ==
  /\ staging \in [Kinds -> Request]
  /\ \A k \in Kinds : staging[k].pc # "idle" => staging[k].batch \in BatchIds
StagedInv == Tables /\ Requests /\ sweep \in Job /\ SweepHas(sweep) /\ power \in Job /\ PowerHas(power)

\* What no step takes back: rows stay, and a field that was applied is not staged again.
RowsKept ==
  /\ RowIds \subseteq RowIds'
  /\ \A r \in RowIds :
       /\ rows'[r].kind = rows[r].kind /\ rows'[r].batch = rows[r].batch
       /\ rows[r].kind = "field" =>
            /\ rows'[r].status = "staged" => rows[r].status = "staged"
            /\ rows[r].status \in {"applied", "rolled_back"} => rows'[r].status \in {"applied", "rolled_back"}
BatchesKept ==
  /\ batches' \in Seq(Batch) /\ BatchIds \subseteq BatchIds'

LEMMA KeptLists ==
  ASSUME RowsKept
  PROVE  /\ \A S, k : OfKind(S, k) => OfKind(S, k)'
         /\ \A S : Settles(S) => Settles(S)'
         /\ \A job : (SweepHas(job) => SweepHas(job)') /\ (PowerHas(job) => PowerHas(job)')
  <1>1. \A S, k : OfKind(S, k) => OfKind(S, k)'
    BY DEF RowsKept, OfKind
  <1>2. \A S : Settles(S) => Settles(S)'
    BY <1>1 DEF RowsKept, Settles, OfKind
  <1>3. \A job : InHand(job) => InHand(job)'
    BY <1>1, <1>2 DEF InHand
  <1> QED
    BY <1>1, <1>2, <1>3 DEF SweepHas, PowerHas

LEMMA RowsRewritten ==
  ASSUME rows \in Seq(StagedRow), rows' = [q \in RowIds |-> rows'[q]], \A q \in RowIds : rows'[q] \in StagedRow
  PROVE  rows' \in Seq(StagedRow) /\ RowIds' = RowIds
  <1>1. RowIds = 1 .. Len(rows) /\ Len(rows) \in Nat
    BY DEF RowIds
  <1>2. rows' \in [1 .. Len(rows) -> StagedRow]
    BY <1>1
  <1>3. rows' \in Seq(StagedRow) /\ DOMAIN rows' = 1 .. Len(rows)
    BY <1>1, <1>2
  <1> QED
    BY <1>1, <1>3 DEF RowIds

\* Each way in which a step changes the rows.
LEMMA StatusSet ==
  ASSUME rows \in Seq(StagedRow), NEW r \in RowIds, NEW status \in RowStatuses, rows' = [rows EXCEPT ![r].status = status]
  PROVE  /\ rows' \in Seq(StagedRow) /\ RowIds' = RowIds
         /\ \A q \in RowIds : /\ rows'[q].kind = rows[q].kind /\ rows'[q].batch = rows[q].batch
                              /\ rows'[q].mode = rows[q].mode /\ rows'[q].prev = rows[q].prev /\ rows'[q].base = rows[q].base
                              /\ rows'[q].status = IF q = r THEN status ELSE rows[q].status
  <1>1. \A q \in RowIds : rows[q] \in StagedRow
    BY DEF RowIds
  <1>2. rows' = [q \in RowIds |-> IF q = r THEN [rows[q] EXCEPT !.status = status] ELSE rows[q]]
    BY DEF RowIds
  <1>3. \A q \in RowIds : /\ rows'[q] \in StagedRow
                          /\ rows'[q].kind = rows[q].kind /\ rows'[q].batch = rows[q].batch
                          /\ rows'[q].mode = rows[q].mode /\ rows'[q].prev = rows[q].prev /\ rows'[q].base = rows[q].base
                          /\ rows'[q].status = IF q = r THEN status ELSE rows[q].status
    BY <1>1, <1>2 DEF StagedRow
  <1> QED
    BY <1>2, <1>3, RowsRewritten

LEMMA FieldApplied ==
  ASSUME rows \in Seq(StagedRow), live \in Pair, NEW r \in RowIds, ApplyField(r)
  PROVE  /\ rows' \in Seq(StagedRow) /\ RowIds' = RowIds /\ live' = [file |-> live.file, field |-> r] /\ live' \in Pair
         /\ \A q \in RowIds : /\ rows'[q].kind = rows[q].kind /\ rows'[q].batch = rows[q].batch
                              /\ rows'[q].mode = rows[q].mode /\ rows'[q].base = rows[q].base
                              /\ rows'[q].prev = IF q = r THEN live.field ELSE rows[q].prev
                              /\ rows'[q].status = IF q = r THEN "applied" ELSE rows[q].status
  <1>1. (\A q \in RowIds : rows[q] \in StagedRow) /\ r \in Nat /\ live.field \in Nat
    BY DEF RowIds, Pair
  <1>2. rows' = [q \in RowIds |-> IF q = r THEN [rows[q] EXCEPT !.status = "applied", !.prev = live.field] ELSE rows[q]]
    <2>1. rows' = [rows EXCEPT ![r] = [rows[r] EXCEPT !.status = "applied", !.prev = live.field]]
      BY DEF ApplyField, RowIds
    <2> QED
      BY <2>1 DEF RowIds
  <1>3. \A q \in RowIds : /\ rows'[q] \in StagedRow
                          /\ rows'[q].kind = rows[q].kind /\ rows'[q].batch = rows[q].batch
                          /\ rows'[q].mode = rows[q].mode /\ rows'[q].base = rows[q].base
                          /\ rows'[q].prev = IF q = r THEN live.field ELSE rows[q].prev
                          /\ rows'[q].status = IF q = r THEN "applied" ELSE rows[q].status
    BY <1>1, <1>2 DEF StagedRow, RowStatuses
  <1>4. live' = [file |-> live.file, field |-> r]
    BY DEF ApplyField, Pair
  <1> QED
    BY <1>1, <1>2, <1>3, <1>4, RowsRewritten DEF Pair

LEMMA RowsUndone ==
  ASSUME rows \in Seq(StagedRow), NEW job, NEW marked, NEW lost, UndoApply(job, marked, lost)
  PROVE  /\ rows' \in Seq(StagedRow) /\ RowIds' = RowIds
         /\ \A q \in RowIds : /\ rows'[q].kind = rows[q].kind /\ rows'[q].batch = rows[q].batch
                              /\ rows'[q].mode = rows[q].mode /\ rows'[q].prev = rows[q].prev /\ rows'[q].base = rows[q].base
                              /\ \/ rows'[q].status = rows[q].status
                                 \/ rows[q].status = "applied" /\ rows'[q].status = "rolled_back"
                                 \/ q \in marked /\ rows[q].status = "applied" /\ rows'[q].status = "staged"
  <1>1. \A q \in RowIds : rows[q] \in StagedRow
    BY DEF RowIds
  <1>2. rows' = [q \in RowIds |->
           IF q \in Range(job.done) /\ rows[q].status = "applied" /\ "field" \notin lost
           THEN [rows[q] EXCEPT !.status = "rolled_back"]
           ELSE IF q \in marked /\ rows[q].status = "applied" THEN [rows[q] EXCEPT !.status = "staged"]
           ELSE rows[q]]
    BY DEF UndoApply
  <1>3. \A q \in RowIds : /\ rows'[q] \in StagedRow
                          /\ rows'[q].kind = rows[q].kind /\ rows'[q].batch = rows[q].batch
                          /\ rows'[q].mode = rows[q].mode /\ rows'[q].prev = rows[q].prev /\ rows'[q].base = rows[q].base
                          /\ \/ rows'[q].status = rows[q].status
                             \/ rows[q].status = "applied" /\ rows'[q].status = "rolled_back"
                             \/ q \in marked /\ rows[q].status = "applied" /\ rows'[q].status = "staged"
    BY <1>1, <1>2 DEF StagedRow, RowStatuses
  <1> QED
    BY <1>2, <1>3, RowsRewritten

\* A set of files changes its status as one.
FilesSetTo(S, from, to) ==
  [q \in RowIds |-> IF q \in S /\ rows[q].status = from THEN [rows[q] EXCEPT !.status = to] ELSE rows[q]]

FilesMoved(S, from, to) ==
  /\ RowIds' = RowIds
  /\ \A q \in RowIds : /\ rows'[q].kind = rows[q].kind /\ rows'[q].batch = rows[q].batch
                       /\ rows'[q].mode = rows[q].mode /\ rows'[q].prev = rows[q].prev /\ rows'[q].base = rows[q].base
                       /\ rows'[q].status = IF q \in S /\ rows[q].status = from THEN to ELSE rows[q].status

LEMMA FilesSet ==
  ASSUME rows \in Seq(StagedRow), NEW S, NEW from \in RowStatuses, NEW to \in RowStatuses,
         rows' = FilesSetTo(S, from, to)
  PROVE  rows' \in Seq(StagedRow) /\ FilesMoved(S, from, to)
  <1>1. \A q \in RowIds : rows[q] \in StagedRow
    BY DEF RowIds
  <1>2. \A q \in RowIds : /\ rows'[q] \in StagedRow
                          /\ rows'[q].kind = rows[q].kind /\ rows'[q].batch = rows[q].batch
                          /\ rows'[q].mode = rows[q].mode /\ rows'[q].prev = rows[q].prev /\ rows'[q].base = rows[q].base
                          /\ rows'[q].status = IF q \in S /\ rows[q].status = from THEN to ELSE rows[q].status
    BY <1>1 DEF StagedRow, FilesSetTo
  <1>3. rows' \in Seq(StagedRow) /\ RowIds' = RowIds
    BY <1>2, RowsRewritten DEF FilesSetTo
  <1> QED
    BY <1>2, <1>3 DEF FilesMoved

LEMMA FilesKept ==
  ASSUME rows \in Seq(StagedRow), NEW S, OfKind(S, "file"), NEW from \in RowStatuses, NEW to \in RowStatuses,
         rows' = FilesSetTo(S, from, to)
  PROVE  RowsKept /\ rows' \in Seq(StagedRow) /\ RowIds' = RowIds
  <1>1. \A q \in RowIds : rows[q].kind = "field" => q \notin S
    BY DEF OfKind
  <1>2. rows' \in Seq(StagedRow) /\ FilesMoved(S, from, to)
    BY FilesSet
  <1> QED
    BY <1>1, <1>2 DEF RowsKept, FilesMoved

LEMMA WindowAdopted ==
  ASSUME rows \in Seq(StagedRow), Requests, AdoptWindow
  PROVE  /\ rows' \in Seq(StagedRow) /\ RowIds' = RowIds
         /\ \A q \in RowIds : /\ rows'[q].kind = rows[q].kind /\ rows'[q].batch = rows[q].batch
                              /\ rows'[q].prev = rows[q].prev /\ rows'[q].base = rows[q].base
                              /\ rows'[q].status = rows[q].status
                              /\ rows'[q].mode = IF /\ rows[q].kind = "field" /\ rows[q].status = "staged"
                                                    /\ rows[q].batch = staging["field"].batch
                                                 THEN staging["field"].window ELSE rows[q].mode
  <1>1. (\A q \in RowIds : rows[q] \in StagedRow) /\ staging["field"].window \in Windows
    BY DEF RowIds, Requests, Request, Kinds
  <1>2. rows' = [r \in RowIds |->
           IF rows[r].kind = "field" /\ rows[r].batch = staging["field"].batch /\ rows[r].status = "staged"
           THEN [rows[r] EXCEPT !.mode = staging["field"].window] ELSE rows[r]]
    BY DEF AdoptWindow
  <1>3. \A q \in RowIds : /\ rows'[q] \in StagedRow
                          /\ rows'[q].kind = rows[q].kind /\ rows'[q].batch = rows[q].batch
                          /\ rows'[q].prev = rows[q].prev /\ rows'[q].base = rows[q].base
                          /\ rows'[q].status = rows[q].status
                          /\ rows'[q].mode = IF /\ rows[q].kind = "field" /\ rows[q].status = "staged"
                                                /\ rows[q].batch = staging["field"].batch
                                             THEN staging["field"].window ELSE rows[q].mode
    BY <1>1, <1>2 DEF StagedRow
  <1> QED
    BY <1>2, <1>3, RowsRewritten

LEMMA RowAppended ==
  ASSUME rows \in Seq(StagedRow), NEW q \in StagedRow, rows' = Append(rows, q)
  PROVE  /\ rows' \in Seq(StagedRow) /\ RowIds' = RowIds \union {Len(rows) + 1} /\ Len(rows) + 1 \notin RowIds
         /\ rows'[Len(rows) + 1] = q /\ \A r \in RowIds : rows'[r] = rows[r]
  BY DEF RowIds


-----------------------------------------------------------------------------
(* The jobs *)

LEMMA Rested ==
  /\ Resting \in Job /\ SweepHas(Resting) /\ PowerHas(Resting)
  /\ Resting.pc = "idle" /\ Resting.done = <<>> /\ Resting.todo = {} /\ Resting.content = {}
  BY DEF Resting, Job, JobSteps, Pair, SweepHas, PowerHas, InHand, OfKind, Settles

LEMMA DisturbedIs ==
  ASSUME NEW job \in Job
  PROVE  /\ Disturbed(job) \in Job
         /\ \A f \in {"pc", "batch", "since", "content", "todo", "done", "snap", "config", "was"} : Disturbed(job)[f] = job[f]
         /\ (SweepHas(job) => SweepHas(Disturbed(job))) /\ (PowerHas(job) => PowerHas(Disturbed(job)))
  <1>1. /\ Disturbed(job) \in Job
        /\ \A f \in {"pc", "batch", "since", "content", "todo", "done", "snap", "config", "was"} : Disturbed(job)[f] = job[f]
    BY DEF Disturbed, Job
  <1>2. PICK other : other = Disturbed(job)
    OBVIOUS
  <1>3. /\ other.pc = job.pc /\ other.since = job.since /\ other.content = job.content
        /\ other.todo = job.todo /\ other.done = job.done
    BY <1>1, <1>2
  <1>4. (SweepHas(job) => SweepHas(other)) /\ (PowerHas(job) => PowerHas(other))
    BY <1>3 DEF SweepHas, PowerHas, InHand
  <1> QED
    BY <1>1, <1>2, <1>4

LEMMA ListsAre ==
  ASSUME rows \in Seq(StagedRow)
  PROVE  /\ \A k, b : OfKind(Waiting(k, b), k) /\ Waiting(k, b) \in SUBSET Nat
         /\ OfKind(OnRestart, "field") /\ OnRestart \in SUBSET Nat
         /\ Settles(AppliedFields) /\ AppliedFields \in SUBSET Nat
         /\ \A S, k : OfKind(S, k) => S \in SUBSET Nat /\ S \subseteq RowIds
  BY DEF OfKind, Waiting, OnRestart, RowIds, Settles, AppliedFields

LEMMA ListEnds ==
  ASSUME rows \in Seq(StagedRow), NEW S, S # {}, NEW k, OfKind(S, k)
  PROVE  Min(S) \in S /\ Max(S) \in S
  <1>1. RowIds = 1 .. Len(rows) /\ Len(rows) \in Nat /\ S \subseteq RowIds
    BY DEF RowIds, OfKind
  <1>2. IsFiniteSet(S) /\ S \subseteq Nat
    <2>1. IsFiniteSet(1 .. Len(rows))
      BY <1>1, FS_Interval
    <2>2. S \subseteq 1 .. Len(rows) /\ S \subseteq Nat
      BY <1>1
    <2> QED
      BY <2>1, <2>2, FS_Subset
  <1> QED
    BY <1>2, HasExtremes

\* A step that leaves the batches and the requests alone.
LEMMA TablesStay ==
  ASSUME StagedInv, RowsKept, rows' \in Seq(StagedRow), RowIds' = RowIds, UNCHANGED <<batches, staging, edits>>,
         live' \in Pair, built' \in Nat, Settles(settled)', failures' \in Nat
  PROVE  Tables' /\ Requests'
  BY DEF StagedInv, Tables, Requests, BatchIds, RowsKept

LEMMA RowsAlike ==
  ASSUME StagedInv, UNCHANGED rows
  PROVE  /\ RowsKept /\ rows' \in Seq(StagedRow) /\ RowIds' = RowIds
         /\ \A S, k : OfKind(S, k)' <=> OfKind(S, k)
         /\ \A S : Settles(S)' <=> Settles(S)
         /\ \A job : (SweepHas(job) <=> SweepHas(job)') /\ (PowerHas(job) <=> PowerHas(job)')
  BY DEF StagedInv, Tables, RowsKept, RowIds, OfKind, Settles, SweepHas, PowerHas, InHand

LEMMA FailuresAre == failures \in Nat => (CallFails => failures' \in Nat /\ failures' # 0)
  BY DEF CallFails

\* A sweep that leaves the rows alone.
LEMMA SweepOnly ==
  ASSUME StagedInv, UNCHANGED <<batches, rows, staging, edits>>, failures' = failures \/ CallFails,
         live' \in Pair, built' \in Nat, settled' \in {settled, sweep.since}, power' \in {power, Disturbed(power)},
         NEW new \in Job, SweepHas(new), sweep' = new
  PROVE  StagedInv'
  <1>1. failures' \in Nat
    BY FailuresAre DEF StagedInv, Tables
  <1>2. Settles(settled)'
    <2>1. PICK S : S = settled'
      OBVIOUS
    <2>2. Settles(S)
      BY <2>1 DEF StagedInv, Tables, SweepHas, InHand
    <2>3. Settles(S)'
      BY <2>2, RowsAlike
    <2> QED
      BY <2>1, <2>3 DEF Settles, OfKind
  <1>3. Tables' /\ Requests'
    BY <1>1, <1>2, RowsAlike, TablesStay
  <1>4. PICK other \in Job : other = power' /\ PowerHas(other)
    BY DisturbedIs DEF StagedInv
  <1>5. SweepHas(new)' /\ PowerHas(other)'
    BY <1>4, RowsAlike
  <1>6. SweepHas(sweep)' /\ PowerHas(power)'
    BY <1>4, <1>5 DEF SweepHas, PowerHas, InHand, OfKind, Settles
  <1> QED
    BY <1>3, <1>4, <1>6 DEF StagedInv

LEMMA PowerOnly ==
  ASSUME StagedInv, UNCHANGED <<batches, rows, staging, edits>>, failures' = failures \/ CallFails,
         live' \in Pair, built' \in Nat, settled' \in {settled, power.since, AppliedFields}, sweep' \in {sweep, Disturbed(sweep)},
         NEW new \in Job, PowerHas(new), power' = new
  PROVE  StagedInv'
  <1>1. failures' \in Nat
    BY FailuresAre DEF StagedInv, Tables
  <1>2. Settles(settled)'
    <2>1. PICK S : S = settled'
      OBVIOUS
    <2>2. Settles(S)
      BY <2>1, ListsAre DEF StagedInv, Tables, PowerHas, InHand
    <2>3. Settles(S)'
      BY <2>2, RowsAlike
    <2> QED
      BY <2>1, <2>3 DEF Settles, OfKind
  <1>3. Tables' /\ Requests'
    BY <1>1, <1>2, RowsAlike, TablesStay
  <1>4. PICK other \in Job : other = sweep' /\ SweepHas(other)
    BY DisturbedIs DEF StagedInv
  <1>5. PowerHas(new)' /\ SweepHas(other)'
    BY <1>4, RowsAlike
  <1>6. SweepHas(sweep)' /\ PowerHas(power)'
    BY <1>4, <1>5 DEF SweepHas, PowerHas, InHand, OfKind, Settles
  <1> QED
    BY <1>3, <1>4, <1>6 DEF StagedInv

\* A job that changes the rows, and nothing it settles.
LEMMA JobsKept ==
  ASSUME StagedInv, RowsKept, rows' \in Seq(StagedRow), RowIds' = RowIds, UNCHANGED <<batches, staging, edits, built, settled>>,
         failures' = failures \/ CallFails, live' \in Pair,
         NEW new \in Job, SweepHas(new), sweep' = new, NEW other \in Job, PowerHas(other), power' = other
  PROVE  StagedInv'
  <1>1. failures' \in Nat
    BY FailuresAre DEF StagedInv, Tables
  <1>2. Settles(settled)'
    <2>1. PICK S : S = settled
      OBVIOUS
    <2>2. Settles(S)'
      BY <2>1, KeptLists DEF StagedInv, Tables
    <2> QED
      BY <2>1, <2>2 DEF Settles, OfKind
  <1>3. Tables' /\ Requests'
    BY <1>1, <1>2, TablesStay DEF StagedInv, Tables
  <1>4. SweepHas(new)' /\ PowerHas(other)'
    BY KeptLists
  <1>5. SweepHas(sweep)' /\ PowerHas(power)'
    BY <1>4 DEF SweepHas, PowerHas, InHand, OfKind, Settles
  <1> QED
    BY <1>3, <1>5 DEF StagedInv

\* A sweep ends, or goes on without another list.
LEMMA SweepGoesOn ==
  ASSUME StagedInv, NEW pc \in JobSteps, pc = "mark" => sweep.todo = {},
         sweep.pc # "mark" \/ sweep.todo = {}
  PROVE  /\ [sweep EXCEPT !.pc = pc] \in Job /\ SweepHas([sweep EXCEPT !.pc = pc])
  <1>1. PICK new : new = [sweep EXCEPT !.pc = pc]
    OBVIOUS
  <1>2. /\ new \in Job /\ new.pc = pc /\ new.since = sweep.since /\ new.content = sweep.content
        /\ new.todo = sweep.todo /\ new.done = sweep.done
    BY <1>1 DEF StagedInv, Job
  <1>3. SweepHas(sweep)
    BY DEF StagedInv
  <1>4. SweepHas(new)
    BY <1>2, <1>3 DEF SweepHas, InHand, OfKind
  <1> QED
    BY <1>1, <1>2, <1>4


-----------------------------------------------------------------------------
(* The sweep keeps what is known *)

LEMMA SweepLooks ==
  ASSUME StagedInv, (\E b \in BatchIds : SweepReads(b)) \/ SweepLists \/ SweepFiles
  PROVE  StagedInv'
  <1>0. /\ rows \in Seq(StagedRow) /\ live \in Pair /\ built \in Nat /\ Settles(settled) /\ settled \in SUBSET Nat
        /\ sweep \in Job /\ SweepHas(sweep) /\ power \in Job
    BY ListsAre DEF StagedInv, Tables, Settles
  <1>1. ASSUME NEW b \in BatchIds, SweepReads(b) PROVE StagedInv'
    <2>1. PICK new : new = [Resting EXCEPT !.pc = "list", !.batch = b, !.since = settled]
      OBVIOUS
    <2>2. b \in Nat
      BY DEF BatchIds, StagedInv, Tables
    <2>3. /\ new \in Job /\ new.pc = "list" /\ new.since = settled /\ new.content = {} /\ new.todo = {} /\ new.done = <<>>
      BY <1>0, <2>1, <2>2, Rested DEF Job, JobSteps
    <2>4. SweepHas(new)
      BY <1>0, <2>3 DEF SweepHas, InHand, OfKind
    <2> QED
      BY <1>0, <1>1, <2>1, <2>3, <2>4, SweepOnly DEF SweepReads
  <1>2. CASE SweepLists
    <2>1. CASE SweepEnds
      BY <1>0, <1>2, <2>1, Rested, SweepOnly DEF SweepLists, SweepEnds
    <2>2. CASE sweep' = [sweep EXCEPT !.pc = "files", !.content = Waiting("file", sweep.batch),
                                      !.todo = Waiting("field", sweep.batch), !.was = live]
      <3>1. PICK new : new = sweep'
        OBVIOUS
      <3>2. PICK files, fields : files = Waiting("file", sweep.batch) /\ fields = Waiting("field", sweep.batch)
        OBVIOUS
      <3>3. files \in SUBSET Nat /\ fields \in SUBSET Nat /\ OfKind(files, "file") /\ OfKind(fields, "field")
        BY <1>0, <3>2, ListsAre
      <3>4. /\ new \in Job /\ new.pc = "files" /\ new.since = sweep.since /\ new.content = files /\ new.todo = fields
            /\ new.done = sweep.done
        BY <1>0, <2>2, <3>1, <3>2, <3>3 DEF Job, JobSteps
      <3>5. SweepHas(new)
        BY <1>0, <3>3, <3>4 DEF SweepHas, InHand
      <3> QED
        BY <1>0, <1>2, <3>1, <3>4, <3>5, SweepOnly DEF SweepLists
    <2> QED
      BY <1>2, <2>1, <2>2 DEF SweepLists
  <1>3. CASE SweepFiles
    <2>0. sweep.pc = "files" /\ "fields" \in JobSteps
      BY <1>3 DEF SweepFiles, JobSteps
    <2>1. CASE sweep' = [sweep EXCEPT !.pc = "fields"] /\ UNCHANGED <<live, power, failures>>
      BY <1>0, <1>3, <2>0, <2>1, SweepGoesOn, SweepOnly DEF SweepFiles
    <2>2. CASE /\ sweep.content # {} /\ live' = [live EXCEPT !.file = Max(sweep.content)]
               /\ sweep' = [sweep EXCEPT !.pc = "fields", !.snap = live.file]
               /\ power' = Disturbed(power) /\ UNCHANGED failures
      <3>1. PICK new : new = sweep'
        OBVIOUS
      <3>2. live.file \in Nat /\ Max(sweep.content) \in Nat
        <4>1. OfKind(sweep.content, "file")
          BY <1>0 DEF SweepHas, InHand
        <4>2. Max(sweep.content) \in sweep.content
          BY <1>0, <2>2, <4>1, ListEnds
        <4> QED
          BY <1>0, <4>2 DEF Pair, Job
      <3>3. live' \in Pair
        BY <1>0, <2>2, <3>2 DEF Pair
      <3>4. /\ new \in Job /\ new.pc = "fields" /\ new.since = sweep.since /\ new.content = sweep.content
            /\ new.todo = sweep.todo /\ new.done = sweep.done
        BY <1>0, <2>2, <3>1, <3>2 DEF Job, JobSteps
      <3>5. SweepHas(new)
        BY <1>0, <2>0, <3>4 DEF SweepHas, InHand
      <3> QED
        BY <1>0, <1>3, <2>2, <3>1, <3>3, <3>4, <3>5, SweepOnly DEF SweepFiles
    <2>3. CASE SweepEnds /\ UNCHANGED <<live, power>> /\ (UNCHANGED failures \/ CallFails)
      BY <1>0, <1>3, <2>3, Rested, SweepOnly DEF SweepFiles, SweepEnds
    <2> QED
      BY <1>3, <2>1, <2>2, <2>3 DEF SweepFiles
  <1> QED
    BY <1>1, <1>2, <1>3

\* What a job does to the rows: it applies a field, marks files, or undoes both.
LEMMA AppliesKeeps ==
  ASSUME StagedInv, NEW r \in RowIds, rows[r].status = "staged", ApplyField(r)
  PROVE  RowsKept /\ rows' \in Seq(StagedRow) /\ RowIds' = RowIds /\ live' \in Pair
  BY FieldApplied DEF RowsKept, StagedInv, Tables

LEMMA UndoKeeps ==
  ASSUME StagedInv, NEW job \in Job, InHand(job), NEW marked, OfKind(marked, "file"), NEW lost, UndoApply(job, marked, lost)
  PROVE  RowsKept /\ rows' \in Seq(StagedRow) /\ RowIds' = RowIds /\ live' \in Pair
  <1>1. rows \in Seq(StagedRow) /\ live \in Pair /\ live.file \in Nat /\ live.field \in Nat
    BY DEF StagedInv, Tables, Pair
  <1>2. RowsKept /\ rows' \in Seq(StagedRow) /\ RowIds' = RowIds
    BY <1>1, RowsUndone DEF RowsKept, OfKind
  <1>3. FileBefore(job) \in Nat
    BY <1>1 DEF FileBefore, Job
  <1>4. FieldBefore(job.done) \in Nat
    <2>1. CASE Revertible(job.done) = {}
      BY <1>1, <2>1 DEF FieldBefore
    <2>2. CASE Revertible(job.done) # {}
      <3>1. job.done \in Seq(Nat) /\ Revertible(job.done) \subseteq 1 .. Len(job.done) /\ Len(job.done) \in Nat
        BY DEF Job, Revertible
      <3>2. IsFiniteSet(1 .. Len(job.done))
        BY <3>1, FS_Interval
      <3>3. IsFiniteSet(Revertible(job.done)) /\ Revertible(job.done) \subseteq Nat
        BY <3>1, <3>2, FS_Subset
      <3>4. Max(Revertible(job.done)) \in Revertible(job.done)
        BY <2>2, <3>3, HasExtremes
      <3>5. \A i \in Revertible(job.done) : job.done[i] \in RowIds
        BY DEF Revertible, InHand, OfKind
      <3>6. \A r \in RowIds : rows[r].prev \in Nat
        <4>1. \A r \in RowIds : rows[r] \in StagedRow
          BY <1>1 DEF RowIds
        <4> QED
          BY <4>1 DEF StagedRow
      <3> QED
        BY <2>2, <3>4, <3>5, <3>6 DEF FieldBefore
    <2> QED
      BY <2>1, <2>2
  <1>5. live' \in Pair
    BY <1>1, <1>3, <1>4 DEF UndoApply, Pair
  <1> QED
    BY <1>2, <1>5

LEMMA SweepWorks ==
  ASSUME StagedInv, SweepApplies \/ SweepPublishes \/ SweepRecreates \/ SweepUndoes \/ SweepMarks \/ SweepCloses
  PROVE  StagedInv'
  <1>0. /\ rows \in Seq(StagedRow) /\ live \in Pair /\ built \in Nat /\ Settles(settled) /\ settled \in SUBSET Nat
        /\ sweep \in Job /\ SweepHas(sweep) /\ power \in Job /\ PowerHas(power)
        /\ {"fields", "undo", "recreate", "mark"} \subseteq JobSteps
    BY ListsAre DEF StagedInv, Tables, Settles, JobSteps
  <1>1. CASE SweepApplies
    <2>0. sweep.pc = "fields" /\ sweep.todo # {} /\ OfKind(sweep.todo, "field")
      BY <1>0, <1>1 DEF SweepApplies, SweepHas
    <2>1. CASE /\ sweep' = [sweep EXCEPT !.pc = "undo"] /\ UNCHANGED <<live, rows, power>>
               /\ UNCHANGED failures \/ CallFails
      BY <1>0, <1>1, <2>0, <2>1, SweepGoesOn, SweepOnly DEF SweepApplies
    <2>2. PICK r : r = Min(sweep.todo)
      OBVIOUS
    <2>3. CASE /\ StillMatches(r) /\ ApplyField(r)
               /\ sweep' = [sweep EXCEPT !.todo = @ \ {r}, !.done = Append(@, r)]
               /\ power' = Disturbed(power) /\ UNCHANGED failures
      <3>1. r \in RowIds /\ r \in Nat /\ rows[r].kind = "field"
        <4>1. r \in sweep.todo
          BY <1>0, <2>0, <2>2, ListEnds
        <4> QED
          BY <1>0, <2>0, <4>1 DEF OfKind, RowIds
      <3>2. PICK new : new = sweep'
        OBVIOUS
      <3>3. /\ new \in Job /\ new.pc = sweep.pc /\ new.since = sweep.since /\ new.content = sweep.content
            /\ new.todo = sweep.todo \ {r} /\ new.done = Append(sweep.done, r)
        <4>1. Append(sweep.done, r) \in Seq(Nat)
          BY <1>0, <3>1 DEF Job
        <4> QED
          BY <1>0, <2>3, <3>2, <4>1 DEF Job
      <3>4. \A i \in DOMAIN new.done : OfKind({new.done[i]}, "field")
        <4>1. sweep.done \in Seq(Nat)
          BY <1>0 DEF Job
        <4>2. \A i \in DOMAIN new.done : new.done[i] = r \/ (i \in DOMAIN sweep.done /\ new.done[i] = sweep.done[i])
          BY <3>1, <3>3, <4>1
        <4> QED
          BY <1>0, <3>1, <4>2 DEF SweepHas, InHand, OfKind
      <3>5. SweepHas(new)
        BY <1>0, <2>0, <3>3, <3>4 DEF SweepHas, InHand, OfKind
      <3>6. PICK other \in Job : other = power' /\ PowerHas(other)
        BY <1>0, <2>3, DisturbedIs
      <3>7. RowsKept /\ rows' \in Seq(StagedRow) /\ RowIds' = RowIds /\ live' \in Pair
        BY <2>3, <3>1, AppliesKeeps DEF StillMatches
      <3> QED
        BY <1>1, <2>3, <3>2, <3>3, <3>5, <3>6, <3>7, JobsKept DEF SweepApplies
    <2> QED
      BY <1>1, <2>1, <2>2, <2>3 DEF SweepApplies
  <1>2. CASE SweepPublishes
    <2>0. sweep.pc = "fields" /\ sweep.todo = {} /\ live.field \in Nat
      BY <1>0, <1>2 DEF SweepPublishes, Pair
    <2>1. PICK new \in Job : new = sweep' /\ SweepHas(new)
      <3>1. CASE sweep' = [sweep EXCEPT !.pc = "recreate", !.config = live.field]
        <4>1. PICK new : new = sweep'
          OBVIOUS
        <4>2. /\ new \in Job /\ new.pc = "recreate" /\ new.since = sweep.since /\ new.content = sweep.content
              /\ new.todo = sweep.todo /\ new.done = sweep.done
          BY <1>0, <2>0, <3>1, <4>1 DEF Job
        <4>3. SweepHas(new)
          BY <1>0, <2>0, <4>2 DEF SweepHas, InHand
        <4> QED
          BY <4>1, <4>2, <4>3
      <3>2. CASE sweep' = [sweep EXCEPT !.pc = "mark", !.todo = sweep.content]
        <4>1. PICK new : new = sweep'
          OBVIOUS
        <4>2. /\ new \in Job /\ new.pc = "mark" /\ new.since = sweep.since /\ new.content = sweep.content
              /\ new.todo = sweep.content /\ new.done = sweep.done
          BY <1>0, <3>2, <4>1 DEF Job
        <4>3. SweepHas(new)
          BY <1>0, <4>2 DEF SweepHas, InHand
        <4> QED
          BY <4>1, <4>2, <4>3
      <3>3. CASE sweep' = [sweep EXCEPT !.pc = "undo"]
        BY <1>0, <2>0, <3>3, SweepGoesOn
      <3> QED
        BY <1>2, <3>1, <3>2, <3>3 DEF SweepPublishes
    <2> QED
      BY <1>0, <1>2, <2>1, SweepOnly DEF SweepPublishes
  <1>3. CASE SweepRecreates
    <2>0. sweep.pc = "recreate" /\ sweep.config \in Nat
      BY <1>0, <1>3 DEF SweepRecreates, Job
    <2>1. PICK new \in Job : new = sweep' /\ SweepHas(new)
      <3>2. CASE sweep' = [sweep EXCEPT !.pc = "mark", !.todo = sweep.content]
        <4>1. PICK new : new = sweep'
          OBVIOUS
        <4>2. /\ new \in Job /\ new.pc = "mark" /\ new.since = sweep.since /\ new.content = sweep.content
              /\ new.todo = sweep.content /\ new.done = sweep.done
          BY <1>0, <3>2, <4>1 DEF Job
        <4>3. SweepHas(new)
          BY <1>0, <4>2 DEF SweepHas, InHand
        <4> QED
          BY <4>1, <4>2, <4>3
      <3>3. CASE sweep' = [sweep EXCEPT !.pc = "undo"]
        BY <1>0, <2>0, <3>3, SweepGoesOn
      <3> QED
        BY <1>3, <3>2, <3>3 DEF SweepRecreates
    <2>2. built' \in {built, sweep.config} /\ settled' \in {settled, sweep.since} /\ (UNCHANGED failures \/ CallFails)
      BY <1>3 DEF SweepRecreates
    <2>3. built' \in Nat /\ live' \in Pair
      BY <1>0, <1>3, <2>0, <2>2 DEF SweepRecreates
    <2>4. UNCHANGED <<batches, rows, staging, edits, power>>
      BY <1>3 DEF SweepRecreates
    <2> QED
      BY <2>1, <2>2, <2>3, <2>4, SweepOnly
  <1>4. CASE SweepUndoes
    <2>1. PICK lost : UndoApply(sweep, {}, lost)
      BY <1>4 DEF SweepUndoes
    <2>2. PICK job \in Job : job = sweep /\ InHand(job)
      BY <1>0 DEF SweepHas
    <2>3. RowsKept /\ rows' \in Seq(StagedRow) /\ RowIds' = RowIds /\ live' \in Pair
      <3>1. OfKind({}, "file") /\ UndoApply(job, {}, lost)
        BY <2>1, <2>2 DEF OfKind
      <3> QED
        BY <2>2, <3>1, UndoKeeps
    <2>4. UNCHANGED failures \/ CallFails
      BY <2>1 DEF UndoApply
    <2>5. PICK other \in Job : other = power' /\ PowerHas(other)
      BY <1>0, <1>4, DisturbedIs DEF SweepUndoes
    <2>6. PICK new \in Job : new = sweep' /\ SweepHas(new)
      BY <1>4, Rested DEF SweepUndoes, SweepEnds
    <2> QED
      BY <1>4, <2>3, <2>4, <2>5, <2>6, JobsKept DEF SweepUndoes
  <1>5. CASE SweepMarks
    <2>0. sweep.pc = "mark" /\ sweep.todo # {} /\ OfKind(sweep.todo, "file")
      BY <1>0, <1>5 DEF SweepMarks, SweepHas
    <2>1. CASE SweepEnds /\ UNCHANGED rows /\ (UNCHANGED failures \/ CallFails)
      BY <1>0, <1>5, <2>1, Rested, SweepOnly DEF SweepMarks, SweepEnds
    <2>2. PICK r : r = Min(sweep.todo)
      OBVIOUS
    <2>3. CASE /\ rows[r].status = "staged" /\ UNCHANGED failures
               /\ rows' = [rows EXCEPT ![r].status = "applied"]
               /\ sweep' = [sweep EXCEPT !.todo = @ \ {r}]
      <3>1. r \in RowIds /\ r \in Nat /\ rows[r].kind = "file"
        <4>1. r \in sweep.todo
          BY <1>0, <2>0, <2>2, ListEnds
        <4> QED
          BY <1>0, <2>0, <4>1 DEF OfKind, RowIds
      <3>2. PICK new : new = sweep'
        OBVIOUS
      <3>3. /\ new \in Job /\ new.pc = sweep.pc /\ new.since = sweep.since /\ new.content = sweep.content
            /\ new.todo = sweep.todo \ {r} /\ new.done = sweep.done
        BY <1>0, <2>3, <3>2 DEF Job
      <3>4. SweepHas(new)
        BY <1>0, <2>0, <3>3 DEF SweepHas, InHand, OfKind
      <3>5. RowsKept /\ rows' \in Seq(StagedRow) /\ RowIds' = RowIds
        <4>1. /\ rows' \in Seq(StagedRow) /\ RowIds' = RowIds
              /\ \A q \in RowIds : /\ rows'[q].kind = rows[q].kind /\ rows'[q].batch = rows[q].batch
                                   /\ rows'[q].status = IF q = r THEN "applied" ELSE rows[q].status
          <5>1. "applied" \in RowStatuses
            BY DEF RowStatuses
          <5> QED
            BY <1>0, <2>3, <3>1, <5>1, StatusSet
        <4> QED
          BY <3>1, <4>1 DEF RowsKept
      <3> QED
        BY <1>0, <1>5, <2>3, <3>2, <3>3, <3>4, <3>5, JobsKept DEF SweepMarks
    <2> QED
      BY <1>5, <2>1, <2>2, <2>3 DEF SweepMarks
  <1>6. CASE SweepCloses
    <2>1. sweep' = Resting /\ UNCHANGED <<rows, live, built, settled, power, staging, edits, failures>>
      BY <1>6 DEF SweepCloses, SweepEnds
    <2>2. batches' \in Seq(Batch) /\ BatchIds' = BatchIds
      <3>1. batches \in Seq(Batch)
        BY DEF StagedInv, Tables
      <3>2. batches' = [b \in DOMAIN batches |-> IF b = sweep.batch THEN [batches[b] EXCEPT !.open = FALSE] ELSE batches[b]]
        BY <1>6, <3>1 DEF SweepCloses
      <3>3. \A b \in DOMAIN batches : batches'[b] \in Batch
        <4>1. \A b \in DOMAIN batches : batches[b] \in Batch
          BY <3>1
        <4> QED
          BY <3>2, <4>1 DEF Batch
      <3>4. batches' \in [1 .. Len(batches) -> Batch]
        BY <3>1, <3>2, <3>3
      <3>5. batches' \in Seq(Batch)
        BY <3>1, <3>4
      <3> QED
        BY <3>2, <3>5 DEF BatchIds
    <2>3. Tables' /\ Requests'
      BY <2>1, <2>2 DEF StagedInv, Tables, Requests, RowIds, Settles, OfKind
    <2>4. SweepHas(Resting)' /\ PowerHas(power)'
      BY <1>0, <2>1, Rested DEF SweepHas, PowerHas, InHand, OfKind, Settles, RowIds, Resting
    <2> QED
      BY <2>1, <2>3, <2>4, Rested DEF StagedInv
  <1> QED
    BY <1>1, <1>2, <1>3, <1>4, <1>5, <1>6


-----------------------------------------------------------------------------
(* Start, restart and edit keep what is known *)

\* Batches are closed, each as it is.
LEMMA BatchesClosed ==
  ASSUME batches \in Seq(Batch), batches' = [b \in BatchIds |-> batches'[b]],
         \A b \in BatchIds : batches'[b] \in {batches[b], [batches[b] EXCEPT !.open = FALSE]}
  PROVE  batches' \in Seq(Batch) /\ BatchIds' = BatchIds /\ \A b \in BatchIds : batches'[b].window = batches[b].window
  <1>1. BatchIds = 1 .. Len(batches) /\ Len(batches) \in Nat /\ \A b \in BatchIds : batches[b] \in Batch
    BY DEF BatchIds
  <1>2. \A b \in BatchIds : batches'[b] \in Batch /\ batches'[b].window = batches[b].window
    BY <1>1 DEF Batch
  <1>3. batches' \in [1 .. Len(batches) -> Batch]
    BY <1>1, <1>2
  <1>4. batches' \in Seq(Batch) /\ DOMAIN batches' = 1 .. Len(batches)
    BY <1>1, <1>3
  <1> QED
    BY <1>1, <1>2, <1>4 DEF BatchIds

\* A job goes on to pc with what it had, and the lists it makes.
LEMMA PowerGoesOn ==
  ASSUME StagedInv, NEW pc \in JobSteps, NEW todo, OfKind(todo, "field"), NEW config \in Nat
  PROVE  /\ [power EXCEPT !.pc = pc] \in Job /\ PowerHas([power EXCEPT !.pc = pc])
         /\ [power EXCEPT !.pc = pc, !.todo = todo] \in Job /\ PowerHas([power EXCEPT !.pc = pc, !.todo = todo])
         /\ [power EXCEPT !.pc = pc, !.config = config] \in Job /\ PowerHas([power EXCEPT !.pc = pc, !.config = config])
  <1>1. PICK a, b, c : /\ a = [power EXCEPT !.pc = pc] /\ b = [power EXCEPT !.pc = pc, !.todo = todo]
                       /\ c = [power EXCEPT !.pc = pc, !.config = config]
    OBVIOUS
  <1>2. power \in Job /\ PowerHas(power) /\ todo \in SUBSET Nat
    BY ListsAre DEF StagedInv, Tables
  <1>3. /\ a \in Job /\ a.since = power.since /\ a.content = power.content /\ a.todo = power.todo /\ a.done = power.done
        /\ b \in Job /\ b.since = power.since /\ b.content = power.content /\ b.todo = todo /\ b.done = power.done
        /\ c \in Job /\ c.since = power.since /\ c.content = power.content /\ c.todo = power.todo /\ c.done = power.done
    BY <1>1, <1>2 DEF Job
  <1>4. PowerHas(a) /\ PowerHas(b) /\ PowerHas(c)
    BY <1>2, <1>3 DEF PowerHas, InHand
  <1> QED
    BY <1>1, <1>3, <1>4

LEMMA PowerLooksOn ==
  ASSUME StagedInv, PowerBegins \/ EditSaves \/ PowerLooks \/ PowerFiles
  PROVE  StagedInv'
  <1>0. /\ rows \in Seq(StagedRow) /\ live \in Pair /\ live.file \in Nat /\ built \in Nat /\ Settles(settled)
        /\ settled \in SUBSET Nat /\ power \in Job /\ PowerHas(power) /\ sweep \in Job /\ SweepHas(sweep)
        /\ edits \in Nat /\ MaxChanges \in Nat
    BY ListsAre, StagedAssumption DEF StagedInv, Tables, Settles, Pair
  <1>1. CASE PowerBegins
    <2>1. PICK new : new = [Resting EXCEPT !.pc = "look", !.since = settled]
      OBVIOUS
    <2>2. /\ new \in Job /\ new.since = settled /\ new.content = {} /\ new.todo = {} /\ new.done = <<>>
      BY <1>0, <2>1, Rested DEF Job, JobSteps
    <2>3. PowerHas(new)
      BY <1>0, <2>2 DEF PowerHas, InHand, OfKind
    <2> QED
      BY <1>0, <1>1, <2>1, <2>2, <2>3, PowerOnly DEF PowerBegins
  <1>2. CASE EditSaves
    <2>1. PICK config : config = MaxChanges + edits + 1
      OBVIOUS
    <2>2. PICK new : new = [Resting EXCEPT !.pc = "recreate edited", !.since = settled, !.config = config]
      OBVIOUS
    <2>3. config \in Nat
      BY <1>0, <2>1
    <2>4. /\ new \in Job /\ new.since = settled /\ new.content = {} /\ new.todo = {} /\ new.done = <<>>
      BY <1>0, <2>2, <2>3, Rested DEF Job, JobSteps
    <2>5. PowerHas(new)
      BY <1>0, <2>4 DEF PowerHas, InHand, OfKind
    <2>6. PICK other \in Job : other = sweep' /\ SweepHas(other)
      BY <1>0, <1>2, DisturbedIs DEF EditSaves
    <2>7. live' \in Pair /\ edits' \in Nat
      BY <1>0, <1>2, <2>1, <2>3 DEF EditSaves, Pair
    <2>8. power' = new /\ UNCHANGED <<batches, rows, built, settled, staging, failures>>
      BY <1>2, <2>1, <2>2 DEF EditSaves
    <2>9. PowerHas(new)' /\ SweepHas(other)'
      BY <2>5, <2>6, <2>8, RowsAlike
    <2>10. PowerHas(power)' /\ SweepHas(sweep)'
      BY <2>6, <2>8, <2>9 DEF SweepHas, PowerHas, InHand, OfKind, Settles
    <2>11. Tables' /\ Requests'
      BY <2>7, <2>8 DEF StagedInv, Tables, Requests, RowIds, BatchIds, Settles, OfKind
    <2> QED
      BY <2>4, <2>6, <2>8, <2>10, <2>11 DEF StagedInv
  <1>3. CASE PowerLooks
    <2>1. PICK content : /\ power' = [power EXCEPT !.pc = "files", !.was = live, !.content = content]
                         /\ content = {} \/ \E b : content = Waiting("file", b)
      BY <1>3 DEF PowerLooks
    <2>2. OfKind(content, "file") /\ content \in SUBSET Nat
      BY <1>0, <2>1, ListsAre DEF OfKind
    <2>3. PICK new : new = power'
      OBVIOUS
    <2>4. /\ new \in Job /\ new.since = power.since /\ new.content = content /\ new.todo = power.todo
          /\ new.done = power.done
      BY <1>0, <2>1, <2>2, <2>3 DEF Job, JobSteps
    <2>5. PowerHas(new)
      BY <1>0, <2>2, <2>4 DEF PowerHas, InHand
    <2> QED
      BY <1>0, <1>3, <2>3, <2>4, <2>5, PowerOnly DEF PowerLooks
  <1>4. CASE PowerFiles
    <2>1. CASE power' = [power EXCEPT !.pc = "fields", !.todo = OnRestart] /\ UNCHANGED <<live, sweep, failures>>
      <3>1. PICK todo : todo = OnRestart /\ OfKind(todo, "field") /\ "fields" \in JobSteps
        BY <1>0, ListsAre DEF JobSteps
      <3>2. power' \in Job /\ PowerHas([power EXCEPT !.pc = "fields", !.todo = todo])
        BY <2>1, <3>1, PowerGoesOn
      <3> QED
        BY <1>0, <1>4, <2>1, <3>1, <3>2, PowerOnly DEF PowerFiles
    <2>2. CASE /\ power.content # {} /\ live' = [live EXCEPT !.file = Max(power.content)]
               /\ power' = [power EXCEPT !.pc = "mark", !.snap = live.file]
               /\ sweep' = Disturbed(sweep) /\ UNCHANGED failures
      <3>1. PICK new : new = power'
        OBVIOUS
      <3>2. Max(power.content) \in Nat
        <4>1. OfKind(power.content, "file")
          BY <1>0 DEF PowerHas, InHand
        <4>2. Max(power.content) \in power.content
          BY <1>0, <2>2, <4>1, ListEnds
        <4> QED
          BY <1>0, <4>2 DEF Job
      <3>3. live' \in Pair
        BY <1>0, <2>2, <3>2 DEF Pair
      <3>4. /\ new \in Job /\ new.since = power.since /\ new.content = power.content
            /\ new.todo = power.todo /\ new.done = power.done
        BY <1>0, <2>2, <3>1 DEF Job, JobSteps
      <3>5. PowerHas(new)
        BY <1>0, <3>4 DEF PowerHas, InHand
      <3> QED
        BY <1>0, <1>4, <2>2, <3>1, <3>3, <3>4, <3>5, PowerOnly DEF PowerFiles
    <2>3. CASE PowerEnds /\ UNCHANGED <<live, sweep>> /\ (UNCHANGED failures \/ CallFails)
      BY <1>0, <1>4, <2>3, Rested, PowerOnly DEF PowerFiles, PowerEnds
    <2> QED
      BY <1>4, <2>1, <2>2, <2>3 DEF PowerFiles
  <1> QED
    BY <1>1, <1>2, <1>3, <1>4

LEMMA PowerWorks ==
  ASSUME StagedInv, PowerMarks \/ PowerApplies \/ PowerUndoes
  PROVE  StagedInv'
  <1>0. /\ rows \in Seq(StagedRow) /\ live \in Pair /\ power \in Job /\ PowerHas(power) /\ sweep \in Job /\ SweepHas(sweep)
        /\ OfKind(power.content, "file") /\ OfKind(power.todo, "field") /\ {"staged", "applied"} \subseteq RowStatuses
        /\ "fields" \in JobSteps
    BY DEF StagedInv, Tables, PowerHas, InHand, RowStatuses, JobSteps
  <1>1. CASE PowerMarks
    <2>1. CASE /\ \A r \in power.content : rows[r].status = "staged"
               /\ rows' = [r \in RowIds |-> IF r \in power.content THEN [rows[r] EXCEPT !.status = "applied"] ELSE rows[r]]
               /\ power' = [power EXCEPT !.pc = "fields", !.todo = OnRestart] /\ UNCHANGED <<live, sweep, failures>>
      <3>1. PICK todo : todo = OnRestart /\ OfKind(todo, "field")
        BY <1>0, ListsAre
      <3>2. PICK new \in Job : new = power' /\ PowerHas(new)
        BY <1>0, <2>1, <3>1, PowerGoesOn DEF StagedInv, Tables, Pair
      <3>3. rows' = FilesSetTo(power.content, "staged", "applied")
        BY <2>1 DEF FilesSetTo
      <3>4. RowsKept /\ rows' \in Seq(StagedRow) /\ RowIds' = RowIds
        BY <1>0, <3>3, FilesKept
      <3> QED
        BY <1>0, <1>1, <2>1, <3>2, <3>4, JobsKept DEF PowerMarks
    <2>2. CASE /\ live' = [live EXCEPT !.file = power.snap] /\ sweep' = Disturbed(sweep) /\ PowerEnds
               /\ UNCHANGED rows /\ (UNCHANGED failures \/ CallFails)
      <3>1. live' \in Pair
        BY <1>0, <2>2 DEF Pair, Job
      <3> QED
        BY <1>0, <1>1, <2>2, <3>1, Rested, PowerOnly DEF PowerMarks, PowerEnds, StagedInv, Tables
    <2> QED
      BY <1>1, <2>1, <2>2 DEF PowerMarks
  <1>2. CASE PowerApplies
    <2>0. power.pc = "fields" /\ power.todo # {}
      BY <1>2 DEF PowerApplies
    <2>1. PICK r : r = Max(power.todo)
      OBVIOUS
    <2>2. CASE /\ StillMatches(r) /\ ApplyField(r)
               /\ power' = [power EXCEPT !.todo = @ \ {r}, !.done = Append(@, r)]
               /\ sweep' = Disturbed(sweep) /\ UNCHANGED failures
      <3>1. r \in RowIds /\ r \in Nat /\ rows[r].kind = "field"
        <4>1. r \in power.todo
          BY <1>0, <2>0, <2>1, ListEnds
        <4> QED
          BY <1>0, <4>1 DEF OfKind, RowIds
      <3>2. PICK new : new = power'
        OBVIOUS
      <3>3. /\ new \in Job /\ new.since = power.since /\ new.content = power.content
            /\ new.todo = power.todo \ {r} /\ new.done = Append(power.done, r)
        <4>1. Append(power.done, r) \in Seq(Nat)
          BY <1>0, <3>1 DEF Job
        <4> QED
          BY <1>0, <2>2, <3>2, <4>1 DEF Job
      <3>4. \A i \in DOMAIN new.done : OfKind({new.done[i]}, "field")
        <4>1. power.done \in Seq(Nat)
          BY <1>0 DEF Job
        <4>2. \A i \in DOMAIN new.done : new.done[i] = r \/ (i \in DOMAIN power.done /\ new.done[i] = power.done[i])
          BY <3>1, <3>3, <4>1
        <4> QED
          BY <1>0, <3>1, <4>2 DEF PowerHas, InHand, OfKind
      <3>5. PowerHas(new)
        BY <1>0, <3>3, <3>4 DEF PowerHas, InHand, OfKind
      <3>6. PICK other \in Job : other = sweep' /\ SweepHas(other)
        BY <1>0, <2>2, DisturbedIs
      <3>7. RowsKept /\ rows' \in Seq(StagedRow) /\ RowIds' = RowIds /\ live' \in Pair
        BY <2>2, <3>1, AppliesKeeps DEF StillMatches
      <3> QED
        BY <1>2, <2>2, <3>2, <3>3, <3>5, <3>6, <3>7, JobsKept DEF PowerApplies
    <2>3. CASE /\ live' = [live EXCEPT !.file = FileBefore(power)]
               /\ rows' = FilesSetTo(power.content, "applied", "staged")
               /\ sweep' \in {sweep, Disturbed(sweep)} /\ PowerEnds /\ (UNCHANGED failures \/ CallFails)
      <3>1. RowsKept /\ rows' \in Seq(StagedRow) /\ RowIds' = RowIds
        BY <1>0, <2>3, FilesKept
      <3>2. live' \in Pair
        BY <1>0, <2>3 DEF Pair, Job, FileBefore
      <3>3. PICK other \in Job : other = sweep' /\ SweepHas(other)
        BY <1>0, <2>3, DisturbedIs
      <3> QED
        BY <1>2, <2>3, <3>1, <3>2, <3>3, Rested, JobsKept DEF PowerApplies, PowerEnds
    <2> QED
      BY <1>2, <2>1, <2>2, <2>3 DEF PowerApplies, FilesSetTo
  <1>3. CASE PowerUndoes
    <2>1. PICK lost : UndoApply(power, power.content, lost)
      BY <1>3 DEF PowerUndoes
    <2>2. PICK job, marked : job \in Job /\ job = power /\ marked = power.content /\ InHand(job) /\ OfKind(marked, "file")
      BY <1>0 DEF PowerHas
    <2>3. RowsKept /\ rows' \in Seq(StagedRow) /\ RowIds' = RowIds /\ live' \in Pair
      <3>1. UndoApply(job, marked, lost)
        BY <2>1, <2>2
      <3> QED
        BY <2>2, <3>1, UndoKeeps
    <2>4. UNCHANGED failures \/ CallFails
      BY <2>1 DEF UndoApply
    <2>5. PICK other \in Job : other = sweep' /\ SweepHas(other)
      BY <1>0, <1>3, DisturbedIs DEF PowerUndoes
    <2> QED
      BY <1>3, <2>3, <2>4, <2>5, Rested, JobsKept DEF PowerUndoes, PowerEnds
  <1> QED
    BY <1>1, <1>2, <1>3

LEMMA PowerRuns ==
  ASSUME StagedInv, PowerDecides \/ PowerRecreates \/ EditRecreates \/ PowerSaves \/ PowerFinishes
  PROVE  StagedInv'
  <1>0. /\ rows \in Seq(StagedRow) /\ live \in Pair /\ live.field \in Nat /\ built \in Nat /\ power \in Job /\ power.config \in Nat
        /\ PowerHas(power) /\ sweep \in Job /\ SweepHas(sweep) /\ {"recreate", "save", "undo", "finish"} \subseteq JobSteps
        /\ OfKind({}, "field")
    BY DEF StagedInv, Tables, Pair, JobSteps, Job, OfKind
  <1>1. CASE PowerDecides \/ PowerRecreates \/ EditRecreates \/ PowerSaves
    <2>1. /\ UNCHANGED <<batches, rows, live, sweep, staging, edits>> /\ (UNCHANGED failures \/ CallFails)
          /\ built' \in {built, live.field, power.config} /\ settled' \in {settled, power.since, AppliedFields}
          /\ \/ power' \in {Resting, [Resting EXCEPT !.pc = "finish"]}
             \/ \E pc \in {"save", "undo"} : power' = [power EXCEPT !.pc = pc]
             \/ power' = [power EXCEPT !.pc = "recreate", !.config = live.field]
      <3>1. CASE PowerDecides
        BY <3>1 DEF PowerDecides, PowerEnds
      <3>2. CASE PowerRecreates
        BY <3>2 DEF PowerRecreates, PowerEnds
      <3>3. CASE EditRecreates
        BY <3>3 DEF EditRecreates, PowerEnds
      <3>4. CASE PowerSaves
        BY <3>4 DEF PowerSaves, PowerEnds
      <3> QED
        BY <1>1, <3>1, <3>2, <3>3, <3>4
    <2>2. PICK new \in Job : new = power' /\ PowerHas(new)
      <3>1. CASE power' = [Resting EXCEPT !.pc = "finish"]
        <4>1. PICK new : new = power'
          OBVIOUS
        <4>2. new \in Job /\ new.since = Resting.since /\ new.content = {} /\ new.todo = {} /\ new.done = Resting.done
          BY <1>0, <3>1, <4>1, Rested DEF Job
        <4>3. PowerHas(new)
          BY <4>2, Rested DEF PowerHas, InHand, OfKind
        <4> QED
          BY <4>1, <4>2, <4>3
      <3>2. CASE power' = Resting
        BY <3>2, Rested
      <3>3. CASE \E pc \in {"save", "undo"} : power' = [power EXCEPT !.pc = pc]
        BY <1>0, <3>3, PowerGoesOn
      <3>4. CASE power' = [power EXCEPT !.pc = "recreate", !.config = live.field]
        BY <1>0, <3>4, PowerGoesOn
      <3> QED
        BY <2>1, <3>1, <3>2, <3>3, <3>4
    <2>3. built' \in Nat /\ live' \in Pair
      BY <1>0, <2>1
    <2> QED
      BY <2>1, <2>2, <2>3, PowerOnly
  <1>2. CASE PowerFinishes
    <2>1. power' = Resting /\ UNCHANGED <<rows, live, built, settled, sweep, staging, edits, failures>>
      BY <1>2 DEF PowerFinishes
    <2>2. batches' \in Seq(Batch) /\ BatchIds' = BatchIds
      BY <1>2, BatchesClosed DEF PowerFinishes, StagedInv, Tables
    <2>3. Tables' /\ Requests'
      BY <2>1, <2>2 DEF StagedInv, Tables, Requests, RowIds, Settles, OfKind
    <2>4. PowerHas(Resting)' /\ SweepHas(sweep)'
      BY <1>0, <2>1, Rested DEF SweepHas, PowerHas, InHand, OfKind, Settles, RowIds, Resting
    <2> QED
      BY <2>1, <2>3, <2>4, Rested DEF StagedInv
  <1> QED
    BY <1>1, <1>2


-----------------------------------------------------------------------------
(* Requests that stage, and the whole step *)

\* A step that leaves the jobs alone.
LEMMA JobsStay ==
  ASSUME StagedInv, RowsKept, rows' \in Seq(StagedRow), batches' \in Seq(Batch), \A r \in RowIds' : rows'[r].batch \in BatchIds',
         Requests', UNCHANGED <<live, built, settled, sweep, power, edits>>, failures' = failures \/ CallFails
  PROVE  StagedInv'
  <1>1. failures' \in Nat
    BY FailuresAre DEF StagedInv, Tables
  <1>2. PICK S, job, other : S = settled /\ job = sweep /\ other = power
    OBVIOUS
  <1>3. Settles(S)' /\ SweepHas(job)' /\ PowerHas(other)'
    BY <1>2, KeptLists DEF StagedInv, Tables
  <1>4. Settles(settled)' /\ SweepHas(sweep)' /\ PowerHas(power)'
    BY <1>2, <1>3 DEF Settles, OfKind, SweepHas, PowerHas, InHand
  <1>5. Tables'
    BY <1>1, <1>4 DEF StagedInv, Tables
  <1> QED
    BY <1>4, <1>5 DEF StagedInv

LEMMA BatchSet ==
  ASSUME batches \in Seq(Batch), NEW b \in BatchIds, NEW new \in Batch, batches' = [batches EXCEPT ![b] = new]
  PROVE  batches' \in Seq(Batch) /\ BatchIds' = BatchIds /\ \A c \in BatchIds : batches'[c] = IF c = b THEN new ELSE batches[c]
  BY DEF BatchIds

\* The batch of a request that begins, and of one that goes on or ends.
LEMMA RequestBegins ==
  ASSUME StagedInv, NEW k \in Kinds, NEW w \in Windows, EnsureOpenBatch(k, w)
  PROVE  /\ batches' \in Seq(Batch) /\ BatchIds \subseteq BatchIds' /\ Requests'
         /\ \A b \in BatchIds : batches'[b] = batches[b]
         /\ staging'[k].pc \in {"window", "insert"} /\ staging'[k].window = w
         /\ \A o \in Kinds \ {k} : staging'[o] = staging[o]
  <1>1. batches \in Seq(Batch) /\ staging \in [Kinds -> Request] /\ live.field \in Nat /\ Len(batches) \in Nat
    BY DEF StagedInv, Tables, Requests, Pair
  <1>2. PICK new : new = [pc |-> IF k = "field" THEN "window" ELSE "insert", window |-> w, base |-> live.field,
                          batch |-> IF OpenBatches # {} THEN CHOOSE b \in OpenBatches : TRUE ELSE Len(batches) + 1]
    OBVIOUS
  <1>3. /\ batches' \in Seq(Batch) /\ BatchIds \subseteq BatchIds' /\ new.batch \in BatchIds' /\ new.batch \in Nat
        /\ \A b \in BatchIds : batches'[b] = batches[b]
    <2>1. CASE OpenBatches # {}
      <3>1. batches' = batches
        BY <2>1 DEF EnsureOpenBatch
      <3>2. new.batch \in OpenBatches
        BY <1>2, <2>1
      <3>3. new.batch \in BatchIds /\ new.batch \in Nat
        BY <1>1, <3>2 DEF OpenBatches, BatchIds
      <3> QED
        BY <1>1, <3>1, <3>3 DEF BatchIds
    <2>2. CASE OpenBatches = {}
      <3>1. batches' = Append(batches, [window |-> w, open |-> TRUE]) /\ new.batch = Len(batches) + 1
        BY <1>2, <2>2 DEF EnsureOpenBatch
      <3>2. [window |-> w, open |-> TRUE] \in Batch
        BY DEF Batch
      <3> QED
        BY <1>1, <3>1, <3>2 DEF BatchIds
    <2> QED
      BY <2>1, <2>2
  <1>4. /\ new \in Request /\ new.pc \in {"window", "insert"} /\ new.window = w
    BY <1>1, <1>2, <1>3 DEF Request
  <1>5. staging' = [staging EXCEPT ![k] = new]
    BY <1>2 DEF EnsureOpenBatch
  <1>6. staging' \in [Kinds -> Request] /\ staging'[k] = new /\ \A o \in Kinds \ {k} : staging'[o] = staging[o]
    BY <1>1, <1>4, <1>5
  <1>7. \A o \in Kinds : staging'[o].pc # "idle" => staging'[o].batch \in BatchIds'
    BY <1>3, <1>6 DEF StagedInv, Requests
  <1>8. Requests'
    BY <1>6, <1>7 DEF Requests
  <1> QED
    BY <1>3, <1>4, <1>6, <1>8

LEMMA RequestEnds ==
  ASSUME StagedInv, NEW k \in Kinds, StagingEnds(k), BatchIds' = BatchIds
  PROVE  /\ Requests' /\ staging'[k] = NotStaging /\ \A o \in Kinds \ {k} : staging'[o] = staging[o]
  <1>1. NotStaging \in Request /\ NotStaging.pc = "idle" /\ staging \in [Kinds -> Request]
    BY DEF NotStaging, Request, Windows, StagedInv, Requests
  <1>2. staging' \in [Kinds -> Request] /\ staging'[k] = NotStaging /\ \A o \in Kinds \ {k} : staging'[o] = staging[o]
    BY <1>1 DEF StagingEnds
  <1> QED
    BY <1>1, <1>2 DEF StagedInv, Requests

\* The request for a field goes on to its next write.
LEMMA RequestGoesOn ==
  ASSUME StagedInv, NEW pc \in {"mode", "insert"}, staging["field"].pc # "idle",
         staging' = [staging EXCEPT !["field"].pc = pc], BatchIds' = BatchIds
  PROVE  /\ Requests' /\ staging'["field"].pc = pc /\ staging'["field"].window = staging["field"].window
         /\ staging'["field"].batch = staging["field"].batch /\ staging'["file"] = staging["file"]
  <1>1. staging \in [Kinds -> Request] /\ staging["field"] \in Request
    BY DEF StagedInv, Requests, Kinds
  <1>2. PICK new : new = [staging["field"] EXCEPT !.pc = pc]
    OBVIOUS
  <1>3. new \in Request /\ new.pc = pc /\ new.window = staging["field"].window /\ new.batch = staging["field"].batch
    BY <1>1, <1>2 DEF Request
  <1>4. staging' = [staging EXCEPT !["field"] = new]
    BY <1>1, <1>2 DEF Kinds
  <1>5. staging' \in [Kinds -> Request] /\ staging'["field"] = new /\ staging'["file"] = staging["file"]
    BY <1>1, <1>3, <1>4 DEF Kinds
  <1> QED
    BY <1>3, <1>5 DEF StagedInv, Requests, Kinds

LEMMA RequestsWork ==
  ASSUME StagedInv,
         \/ \E w \in Windows : StageField(w)
         \/ StageFile \/ SaveWindow \/ AdoptWindow
         \/ \E k \in Kinds : InsertRow(k) \/ StagingFails(k)
         \/ \E r \in RowIds : DiscardItem(r)
  PROVE  StagedInv'
  <1>0. /\ rows \in Seq(StagedRow) /\ batches \in Seq(Batch) /\ \A r \in RowIds : rows[r].batch \in BatchIds
        /\ Requests /\ staging \in [Kinds -> Request] /\ "field" \in Kinds /\ "file" \in Kinds
    BY DEF StagedInv, Tables, Requests, Kinds
  <1>1. ASSUME NEW k \in Kinds, NEW w \in Windows, EnsureOpenBatch(k, w),
               UNCHANGED <<rows, live, built, settled, sweep, power, edits, failures>>
        PROVE  StagedInv'
    BY <1>0, <1>1, RequestBegins, RowsAlike, JobsStay DEF BatchIds
  <1>2. ASSUME NEW w \in Windows, StageField(w) PROVE StagedInv'
    BY <1>0, <1>1, <1>2 DEF StageField
  <1>3. CASE StageFile
    BY <1>0, <1>1, <1>3 DEF StageFile, Windows
  <1>4. CASE SaveWindow
    <2>0. staging["field"].batch \in BatchIds /\ staging["field"].window \in Windows /\ staging["field"].pc = "window"
      BY <1>0, <1>4 DEF SaveWindow, Requests, Request
    <2>1. CASE /\ batches' = [batches EXCEPT ![staging["field"].batch] = [window |-> staging["field"].window, open |-> TRUE]]
               /\ staging' = [staging EXCEPT !["field"].pc = "mode"]
      <3>1. batches' \in Seq(Batch) /\ BatchIds' = BatchIds
        <4>1. PICK new : new = [window |-> staging["field"].window, open |-> TRUE]
          OBVIOUS
        <4>2. new \in Batch
          BY <2>0, <4>1 DEF Batch
        <4> QED
          BY <1>0, <2>0, <2>1, <4>1, <4>2, BatchSet
      <3>2. Requests'
        BY <2>0, <2>1, <3>1, RequestGoesOn
      <3> QED
        BY <1>0, <1>4, <3>1, <3>2, RowsAlike, JobsStay DEF SaveWindow
    <2>2. CASE StagingEnds("field") /\ UNCHANGED batches
      <3>1. BatchIds' = BatchIds
        BY <2>2 DEF BatchIds
      <3>2. Requests'
        BY <1>0, <2>2, <3>1, RequestEnds
      <3> QED
        BY <1>0, <1>4, <2>2, <3>1, <3>2, RowsAlike, JobsStay DEF SaveWindow
    <2> QED
      BY <1>4, <2>1, <2>2 DEF SaveWindow
  <1>5. CASE AdoptWindow
    <2>1. BatchIds' = BatchIds /\ batches' = batches
      BY <1>5 DEF AdoptWindow, BatchIds
    <2>2. Requests'
      BY <1>5, <2>1, RequestGoesOn DEF AdoptWindow
    <2>3. RowsKept /\ rows' \in Seq(StagedRow) /\ RowIds' = RowIds /\ \A r \in RowIds' : rows'[r].batch \in BatchIds'
      BY <1>0, <1>5, <2>1, WindowAdopted DEF RowsKept
    <2> QED
      BY <1>0, <1>5, <2>1, <2>2, <2>3, JobsStay DEF AdoptWindow
  <1>6. ASSUME NEW k \in Kinds, InsertRow(k) PROVE StagedInv'
    <2>1. BatchIds' = BatchIds /\ batches' = batches
      BY <1>6 DEF InsertRow, BatchIds
    <2>2. Requests'
      BY <1>6, <2>1, RequestEnds DEF InsertRow
    <2>3. PICK q : q = [kind |-> k, batch |-> staging[k].batch, mode |-> staging[k].window, base |-> staging[k].base,
                        prev |-> 0, status |-> "staged"]
      OBVIOUS
    <2>4. q \in StagedRow /\ q.batch \in BatchIds
      <3>1. staging[k] \in Request /\ staging[k].batch \in BatchIds
        BY <1>0, <1>6 DEF InsertRow, Requests
      <3> QED
        BY <2>3, <3>1 DEF StagedRow, Request, RowStatuses
    <2>5. /\ rows' \in Seq(StagedRow) /\ RowIds' = RowIds \union {Len(rows) + 1} /\ rows'[Len(rows) + 1] = q
          /\ \A r \in RowIds : rows'[r] = rows[r]
      BY <1>0, <1>6, <2>3, <2>4, RowAppended DEF InsertRow
    <2>6. RowsKept /\ \A r \in RowIds' : rows'[r].batch \in BatchIds'
      BY <1>0, <2>1, <2>4, <2>5 DEF RowsKept
    <2> QED
      BY <1>0, <1>6, <2>1, <2>2, <2>5, <2>6, JobsStay DEF InsertRow
  <1>7. ASSUME NEW k \in Kinds, StagingFails(k) PROVE StagedInv'
    <2>1. BatchIds' = BatchIds /\ batches' = batches /\ UNCHANGED rows
      BY <1>7 DEF StagingFails, BatchIds
    <2>2. Requests'
      BY <1>7, <2>1, RequestEnds DEF StagingFails
    <2> QED
      BY <1>0, <1>7, <2>1, <2>2, RowsAlike, JobsStay DEF StagingFails
  <1>8. ASSUME NEW r \in RowIds, DiscardItem(r) PROVE StagedInv'
    <2>1. rows[r].status = "staged" /\ rows' = [rows EXCEPT ![r].status = "discarded"] /\ "discarded" \in RowStatuses
      BY <1>8 DEF DiscardItem, RowStatuses
    <2>2. /\ rows' \in Seq(StagedRow) /\ RowIds' = RowIds
          /\ \A q \in RowIds : /\ rows'[q].kind = rows[q].kind /\ rows'[q].batch = rows[q].batch
                               /\ rows'[q].status = IF q = r THEN "discarded" ELSE rows[q].status
      BY <1>0, <2>1, StatusSet
    <2>3. RowsKept
      BY <2>1, <2>2 DEF RowsKept
    <2>4. batches' \in Seq(Batch) /\ BatchIds' = BatchIds
      BY <1>0, <1>8, BatchesClosed DEF DiscardItem
    <2>5. Requests'
      BY <1>0, <1>8, <2>4 DEF DiscardItem, Requests
    <2> QED
      BY <1>0, <1>8, <2>2, <2>3, <2>4, <2>5, JobsStay DEF DiscardItem
  <1> QED
    BY <1>2, <1>3, <1>4, <1>5, <1>6, <1>7, <1>8

LEMMA StagedStarts == StagedInit => StagedInv
  <1> SUFFICES ASSUME StagedInit PROVE StagedInv
    OBVIOUS
  <1>1. RowIds = {} /\ BatchIds = {} /\ batches \in Seq(Batch) /\ rows \in Seq(StagedRow)
    BY DEF StagedInit, RowIds, BatchIds
  <1>2. Tables
    BY <1>1 DEF StagedInit, Tables, Pair, Settles, OfKind
  <1>3. Requests
    BY DEF StagedInit, Requests, Request, NotStaging, Windows
  <1> QED
    BY <1>2, <1>3, Rested DEF StagedInv, StagedInit

LEMMA StagedSteps == StagedInv /\ [StagedNext]_stagedVars => StagedInv'
  <1> SUFFICES ASSUME StagedInv, [StagedNext]_stagedVars PROVE StagedInv'
    OBVIOUS
  <1>0. rows \in Seq(StagedRow) /\ batches \in Seq(Batch) /\ Requests /\ \A r \in RowIds : rows[r].batch \in BatchIds
    BY DEF StagedInv, Tables
  <1>1. CASE UNCHANGED stagedVars
    <2>1. UNCHANGED <<batches, rows, live, built, settled, sweep, power, staging, edits, failures>>
      BY <1>1 DEF stagedVars
    <2>2. Requests' /\ BatchIds' = BatchIds
      BY <1>0, <2>1 DEF Requests, BatchIds
    <2> QED
      BY <1>0, <2>1, <2>2, RowsAlike, JobsStay
  <1>2. CASE PanelDies
    <2>1. /\ sweep' = Resting /\ power' = Resting /\ staging' = [k \in Kinds |-> NotStaging]
          /\ UNCHANGED <<batches, rows, live, built, settled, edits, failures>>
      BY <1>2 DEF PanelDies
    <2>2. Requests'
      BY <2>1 DEF Requests, Request, NotStaging, Windows
    <2>3. SweepHas(Resting)' /\ PowerHas(Resting)' /\ Resting \in Job
      BY <2>1, Rested, RowsAlike
    <2>4. SweepHas(sweep)' /\ PowerHas(power)'
      BY <2>1, <2>3 DEF SweepHas, PowerHas, InHand, OfKind, Settles
    <2>5. Tables'
      BY <2>1 DEF StagedInv, Tables, RowIds, BatchIds, Settles, OfKind
    <2> QED
      BY <2>1, <2>2, <2>3, <2>4, <2>5 DEF StagedInv
  <1> QED
    BY <1>1, <1>2, RequestsWork, SweepLooks, SweepWorks, PowerLooksOn, PowerWorks, PowerRuns DEF StagedNext


-----------------------------------------------------------------------------
(* What waits for a time is not published by a start *)

\* Who holds the transition.
Held == (UnderWay => transition = "power") /\ (staging["field"].pc # "idle" => transition = "staging")

\* The lists of a start are of its window, a request that has moved the window knows it, and the
\* fields that wait for a restart are of a batch that does.
InWindow ==
  UnderWay => /\ \A r \in power.content : batches[rows[r].batch].window = "next_restart"
              /\ \A r \in power.todo : rows[r].mode = "next_restart"
Moves ==
  staging["field"].pc \in {"mode", "insert"} => batches[staging["field"].batch].window = staging["field"].window
FieldsFollow ==
  "window" \notin cut =>
    \A r \in RowIds : /\ rows[r].kind = "field" /\ rows[r].status = "staged" /\ rows[r].mode = "next_restart"
                      /\ ~(staging["field"].pc = "mode" /\ rows[r].batch = staging["field"].batch)
                      => batches[rows[r].batch].window = "next_restart"
WindowInv == Held /\ InWindow /\ Moves /\ FieldsFollow

\* A job changes neither what a row is nor the window of a batch, nor stages a field again.
RowsAsTheyAre ==
  /\ RowIds' = RowIds
  /\ \A q \in RowIds : /\ rows'[q].kind = rows[q].kind /\ rows'[q].batch = rows[q].batch /\ rows'[q].mode = rows[q].mode
                       /\ rows[q].kind = "field" /\ rows'[q].status = "staged" => rows[q].status = "staged"
WindowsAsTheyAre == BatchIds' = BatchIds /\ \A b \in BatchIds : batches'[b].window = batches[b].window

SweepStep ==
  \/ \E b \in BatchIds : SweepReads(b)
  \/ SweepLists \/ SweepFiles \/ SweepApplies \/ SweepPublishes \/ SweepRecreates \/ SweepUndoes \/ SweepMarks \/ SweepCloses
PowerStep ==
  \/ PowerBegins \/ EditSaves \/ PowerLooks \/ PowerFiles \/ PowerMarks \/ PowerApplies \/ PowerDecides \/ PowerRecreates
  \/ EditRecreates \/ PowerUndoes \/ PowerSaves \/ PowerFinishes

LEMMA NothingRewritten ==
  /\ UNCHANGED rows => RowsAsTheyAre
  /\ UNCHANGED batches => WindowsAsTheyAre
  BY DEF RowsAsTheyAre, WindowsAsTheyAre, RowIds, BatchIds

LEMMA SweepRewrites ==
  ASSUME StagedInv, SweepStep
  PROVE  /\ RowsAsTheyAre /\ WindowsAsTheyAre /\ UNCHANGED <<staging, transition>> /\ cut \subseteq cut'
         /\ power'.pc = power.pc /\ power'.content = power.content /\ power'.todo = power.todo
  <1>0. /\ rows \in Seq(StagedRow) /\ live \in Pair /\ sweep \in Job /\ SweepHas(sweep) /\ power \in Job /\ batches \in Seq(Batch)
    BY DEF StagedInv, Tables
  <1>1. UNCHANGED <<staging, transition>> /\ cut \subseteq cut' /\ power' \in {power, Disturbed(power)}
    BY DEF SweepStep, SweepReads, SweepLists, SweepFiles, SweepApplies, SweepPublishes, SweepRecreates,
       SweepUndoes, SweepMarks, SweepCloses, CutIf
  <1>2. power'.pc = power.pc /\ power'.content = power.content /\ power'.todo = power.todo
    BY <1>0, <1>1, DisturbedIs
  <1>3. WindowsAsTheyAre
    <2>1. CASE UNCHANGED batches
      BY <2>1, NothingRewritten
    <2>2. CASE SweepCloses
      <3>1. batches' = [b \in BatchIds |-> IF b = sweep.batch THEN [batches[b] EXCEPT !.open = FALSE] ELSE batches[b]]
        BY <1>0, <2>2 DEF SweepCloses, BatchIds
      <3> QED
        BY <1>0, <3>1, BatchesClosed DEF WindowsAsTheyAre
    <2> QED
      BY <2>1, <2>2 DEF SweepStep, SweepReads, SweepLists, SweepFiles, SweepApplies, SweepPublishes,
         SweepRecreates, SweepUndoes, SweepMarks
  <1>4. RowsAsTheyAre
    <2>1. CASE UNCHANGED rows
      BY <2>1, NothingRewritten
    <2>2. ASSUME NEW r, r = Min(sweep.todo), StillMatches(r), ApplyField(r), SweepApplies PROVE RowsAsTheyAre
      <3>1. r \in RowIds
        BY <1>0, <2>2, ListEnds DEF SweepApplies, SweepHas, OfKind
      <3> QED
        BY <1>0, <2>2, <3>1, FieldApplied DEF RowsAsTheyAre
    <2>3. CASE SweepUndoes
      BY <1>0, <2>3, RowsUndone DEF SweepUndoes, RowsAsTheyAre
    <2>4. ASSUME NEW r, r = Min(sweep.todo), rows' = [rows EXCEPT ![r].status = "applied"], SweepMarks PROVE RowsAsTheyAre
      <3>1. r \in RowIds
        <4>1. OfKind(sweep.todo, "file") /\ sweep.todo # {}
          BY <1>0, <2>4 DEF SweepMarks, SweepHas
        <4>2. r \in sweep.todo
          BY <1>0, <2>4, <4>1, ListEnds
        <4> QED
          BY <4>1, <4>2 DEF OfKind
      <3>2. PICK status \in RowStatuses : status = "applied"
        BY DEF RowStatuses
      <3>3. /\ RowIds' = RowIds
            /\ \A q \in RowIds : /\ rows'[q].kind = rows[q].kind /\ rows'[q].batch = rows[q].batch /\ rows'[q].mode = rows[q].mode
                                 /\ rows'[q].status = IF q = r THEN status ELSE rows[q].status
        BY <1>0, <2>4, <3>1, <3>2, StatusSet
      <3> QED
        BY <3>2, <3>3 DEF RowsAsTheyAre
    <2> QED
      BY <2>1, <2>2, <2>3, <2>4 DEF SweepStep, SweepReads, SweepLists, SweepFiles, SweepApplies, SweepPublishes,
         SweepRecreates, SweepMarks, SweepCloses
  <1> QED
    BY <1>1, <1>2, <1>3, <1>4

LEMMA PowerRewrites ==
  ASSUME StagedInv, PowerStep
  PROVE  RowsAsTheyAre /\ WindowsAsTheyAre /\ UNCHANGED staging /\ cut \subseteq cut'
  <1>0. /\ rows \in Seq(StagedRow) /\ live \in Pair /\ power \in Job /\ PowerHas(power) /\ batches \in Seq(Batch)
        /\ OfKind(power.content, "file") /\ {"staged", "applied"} \subseteq RowStatuses
    BY DEF StagedInv, Tables, PowerHas, InHand, RowStatuses
  <1>1. UNCHANGED staging /\ cut \subseteq cut'
    BY DEF PowerStep, PowerBegins, EditSaves, PowerLooks, PowerFiles, PowerMarks, PowerApplies, PowerDecides,
       PowerRecreates, EditRecreates, PowerUndoes, PowerSaves, PowerFinishes, CutIf
  <1>2. WindowsAsTheyAre
    <2>1. CASE UNCHANGED batches
      BY <2>1, NothingRewritten
    <2>2. CASE PowerFinishes
      BY <1>0, <2>2, BatchesClosed DEF PowerFinishes, WindowsAsTheyAre
    <2> QED
      BY <2>1, <2>2 DEF PowerStep, PowerBegins, EditSaves, PowerLooks, PowerFiles, PowerMarks, PowerApplies,
         PowerDecides, PowerRecreates, EditRecreates, PowerUndoes, PowerSaves
  <1>3. RowsAsTheyAre
    <2>1. CASE UNCHANGED rows
      BY <2>1, NothingRewritten
    <2>2. ASSUME NEW r, r = Max(power.todo), StillMatches(r), ApplyField(r), PowerApplies PROVE RowsAsTheyAre
      <3>1. r \in RowIds
        BY <1>0, <2>2, ListEnds DEF PowerApplies, PowerHas, OfKind
      <3> QED
        BY <1>0, <2>2, <3>1, FieldApplied DEF RowsAsTheyAre
    <2>3. CASE PowerUndoes
      BY <1>0, <2>3, RowsUndone DEF PowerUndoes, RowsAsTheyAre, OfKind
    <2>4. ASSUME NEW from \in {"staged", "applied"}, NEW to \in {"staged", "applied"}, rows' = FilesSetTo(power.content, from, to) PROVE RowsAsTheyAre
      <3>1. RowsKept
        BY <1>0, <2>4, FilesKept
      <3>2. FilesMoved(power.content, from, to)
        BY <1>0, <2>4, FilesSet
      <3> QED
        BY <3>1, <3>2 DEF RowsAsTheyAre, RowsKept, FilesMoved
    <2>5. CASE PowerMarks
      <3>1. UNCHANGED rows \/ rows' = FilesSetTo(power.content, "staged", "applied")
        BY <2>5 DEF PowerMarks, FilesSetTo
      <3> QED
        BY <2>1, <2>4, <3>1
    <2>6. CASE PowerApplies
      <3>1. \/ \E r : r = Max(power.todo) /\ StillMatches(r) /\ ApplyField(r)
            \/ rows' = FilesSetTo(power.content, "applied", "staged")
        BY <2>6 DEF PowerApplies, FilesSetTo
      <3> QED
        BY <2>2, <2>4, <2>6, <3>1
    <2> QED
      BY <2>1, <2>3, <2>5, <2>6 DEF PowerStep, PowerBegins, EditSaves, PowerLooks, PowerFiles, PowerDecides,
         PowerRecreates, EditRecreates, PowerSaves, PowerFinishes
  <1> QED
    BY <1>1, <1>2, <1>3

\* A start ends, or goes on under the transition with the lists it has or makes.
LEMMA PowerLists ==
  ASSUME StagedInv, Held, PowerStep
  PROVE  \/ ~UnderWay' /\ transition' = (IF UnderWay THEN "free" ELSE transition)
         \/ /\ UnderWay' /\ transition' = "power" /\ (UnderWay \/ transition = "free")
            /\ \/ power'.content = {}
               \/ UnderWay /\ power'.content = power.content
               \/ \E b \in BatchIds : batches[b].window = "next_restart" /\ power'.content = Waiting("file", b)
            /\ power'.todo \subseteq OnRestart \/ (UnderWay /\ power'.todo \subseteq power.todo)
  <1>0. power \in Job
    BY DEF StagedInv
  <1>1. CASE PowerBegins \/ EditSaves
    <2>1. /\ power'.content = {} /\ power'.todo = {} /\ power'.pc \in {"look", "recreate edited"} /\ transition' = "power" /\ transition = "free"
      BY <1>1 DEF PowerBegins, EditSaves, Resting
    <2> QED
      BY <2>1 DEF UnderWay
  <1>2. CASE PowerFinishes
    <2>1. power.pc = "finish" /\ power'.pc = "idle" /\ UNCHANGED transition
      BY <1>2 DEF PowerFinishes, Resting
    <2> QED
      BY <2>1 DEF UnderWay
  <1>3. CASE PowerEnds /\ UnderWay
    BY <1>3 DEF PowerEnds, Resting, UnderWay
  <1>4. CASE PowerLooks
    <2>1. power.pc = "look" /\ power'.pc = "files" /\ UNCHANGED transition /\ power'.todo = power.todo
      BY <1>0, <1>4 DEF PowerLooks, Job
    <2>2. \/ power'.content = {}
          \/ \E b \in BatchIds : batches[b].window = "next_restart" /\ power'.content = Waiting("file", b)
      <3>1. PICK due : /\ due = {b \in OpenBatches : batches[b].window = "next_restart"}
                       /\ power' = [power EXCEPT !.pc = "files", !.was = live,
                            !.content = IF due = {} THEN {} ELSE Waiting("file", CHOOSE b \in due : TRUE)]
        BY <1>4 DEF PowerLooks
      <3>2. power'.content = IF due = {} THEN {} ELSE Waiting("file", CHOOSE b \in due : TRUE)
        BY <1>0, <3>1 DEF Job
      <3>3. due # {} => (CHOOSE b \in due : TRUE) \in due
        OBVIOUS
      <3> QED
        BY <3>1, <3>2, <3>3 DEF OpenBatches
    <2> QED
      BY <2>1, <2>2 DEF UnderWay, Held
  <1>5. CASE \/ power' = [power EXCEPT !.pc = "fields", !.todo = OnRestart]
             \/ power' = [power EXCEPT !.pc = "mark", !.snap = live.file]
             \/ \E pc \in {"undo", "save"} : power' = [power EXCEPT !.pc = pc]
             \/ power' = [power EXCEPT !.pc = "recreate", !.config = live.field]
             \/ \E r : power' = [power EXCEPT !.todo = @ \ {r}, !.done = Append(@, r)]
    <2>1. CASE UnderWay /\ UNCHANGED transition
      <3>1. /\ power'.content = power.content /\ (power'.todo = OnRestart \/ power'.todo \subseteq power.todo)
            /\ power'.pc \in {"fields", "mark", "undo", "save", "recreate", power.pc}
        BY <1>0, <1>5 DEF Job
      <3> QED
        BY <2>1, <3>1 DEF UnderWay, Held
    <2>2. (UnderWay /\ UNCHANGED transition) \/ (PowerEnds /\ UnderWay) \/ PowerBegins \/ EditSaves \/ PowerLooks \/ PowerFinishes \/ PowerSaves
      BY DEF PowerStep, PowerFiles, PowerMarks, PowerApplies, PowerDecides, PowerRecreates, EditRecreates,
         PowerUndoes, UnderWay
    <2>3. CASE PowerSaves
      BY <2>3 DEF PowerSaves, PowerEnds, Resting, UnderWay
    <2> QED
      BY <1>1, <1>2, <1>3, <1>4, <2>1, <2>2, <2>3
  <1>6. CASE PowerSaves
    BY <1>6 DEF PowerSaves, PowerEnds, Resting, UnderWay
  <1>7. CASE PowerFiles \/ PowerMarks \/ PowerApplies
    BY <1>3, <1>5, <1>7 DEF PowerFiles, PowerMarks, PowerApplies, UnderWay
  <1>8. CASE PowerDecides \/ PowerRecreates \/ EditRecreates \/ PowerUndoes
    BY <1>3, <1>5, <1>8 DEF PowerDecides, PowerRecreates, EditRecreates, PowerUndoes, UnderWay
  <1> QED
    BY <1>1, <1>2, <1>4, <1>6, <1>7, <1>8 DEF PowerStep


LEMMA WindowStarts == StagedInit => WindowInv
  BY DEF StagedInit, WindowInv, Held, InWindow, Moves, FieldsFollow, UnderWay, Resting, NotStaging, Kinds, RowIds

LEMMA WindowPublishes ==
  ASSUME StagedInv, WindowInv, SweepStep \/ PowerStep
  PROVE  WindowInv'
  <1>0. /\ Held /\ InWindow /\ Moves /\ FieldsFollow /\ rows \in Seq(StagedRow)
        /\ \A r \in RowIds : rows[r].batch \in BatchIds
        /\ power.content \subseteq RowIds /\ power.todo \subseteq RowIds
    BY DEF WindowInv, StagedInv, Tables, PowerHas, InHand, OfKind
  <1>1. RowsAsTheyAre /\ WindowsAsTheyAre /\ UNCHANGED staging /\ cut \subseteq cut'
    BY SweepRewrites, PowerRewrites
  <1>2. \A r \in RowIds : rows'[r].batch = rows[r].batch /\ batches'[rows[r].batch].window = batches[rows[r].batch].window
    BY <1>0, <1>1 DEF RowsAsTheyAre, WindowsAsTheyAre
  <1>3. Held' /\ InWindow'
    <2>1. CASE SweepStep
      <3>1. UNCHANGED transition /\ power'.pc = power.pc /\ power'.content = power.content /\ power'.todo = power.todo
        BY <2>1, SweepRewrites
      <3>2. Held'
        BY <1>0, <1>1, <3>1 DEF Held, UnderWay
      <3>3. InWindow'
        BY <1>0, <1>1, <1>2, <3>1 DEF InWindow, UnderWay, RowsAsTheyAre
      <3> QED
        BY <3>2, <3>3
    <2>2. CASE PowerStep
      <3>1. CASE ~UnderWay' /\ transition' = (IF UnderWay THEN "free" ELSE transition)
        BY <1>0, <1>1, <3>1 DEF Held, InWindow
      <3>2. CASE /\ UnderWay' /\ transition' = "power" /\ (UnderWay \/ transition = "free")
                 /\ \/ power'.content = {}
                    \/ UnderWay /\ power'.content = power.content
                    \/ \E b \in BatchIds : batches[b].window = "next_restart" /\ power'.content = Waiting("file", b)
                 /\ power'.todo \subseteq OnRestart \/ (UnderWay /\ power'.todo \subseteq power.todo)
        <4>1. Held'
          BY <1>0, <1>1, <3>2 DEF Held
        <4>2. \A r \in power'.content : r \in RowIds /\ batches[rows[r].batch].window = "next_restart"
          BY <1>0, <3>2 DEF InWindow, Waiting
        <4>3. \A r \in power'.todo : r \in RowIds /\ rows[r].mode = "next_restart"
          BY <1>0, <3>2 DEF InWindow, OnRestart
        <4>4. InWindow'
          BY <1>1, <1>2, <4>2, <4>3 DEF InWindow, RowsAsTheyAre
        <4> QED
          BY <4>1, <4>4
      <3> QED
        BY <1>0, <2>2, <3>1, <3>2, PowerLists
    <2> QED
      BY <2>1, <2>2
  <1>4. Moves'
    <2>1. staging["field"].pc # "idle" => staging["field"].batch \in BatchIds
      BY DEF StagedInv, Requests, Kinds
    <2> QED
      BY <1>0, <1>1, <2>1 DEF Moves, WindowsAsTheyAre
  <1>5. FieldsFollow'
    BY <1>0, <1>1, <1>2 DEF FieldsFollow, RowsAsTheyAre
  <1> QED
    BY <1>3, <1>4, <1>5 DEF WindowInv

LEMMA WindowStages ==
  ASSUME StagedInv, WindowInv,
         \/ \E w \in Windows : StageField(w)
         \/ StageFile \/ SaveWindow \/ AdoptWindow
         \/ \E k \in Kinds : InsertRow(k) \/ StagingFails(k)
         \/ \E r \in RowIds : DiscardItem(r)
  PROVE  WindowInv'
  <1>0. /\ Held /\ InWindow /\ Moves /\ FieldsFollow /\ rows \in Seq(StagedRow) /\ batches \in Seq(Batch)
        /\ \A r \in RowIds : rows[r].batch \in BatchIds
        /\ power.content \subseteq RowIds /\ power.todo \subseteq RowIds
        /\ "field" \in Kinds /\ "file" \in Kinds /\ Kinds \ {"field"} = {"file"}
    BY DEF WindowInv, StagedInv, Tables, PowerHas, InHand, OfKind, Kinds
  <1>1. ASSUME NEW w \in Windows, StageField(w) PROVE WindowInv'
    <2>1. /\ BatchIds \subseteq BatchIds' /\ \A b \in BatchIds : batches'[b] = batches[b]
          /\ staging'["field"].pc \in {"window", "insert"} /\ staging'["field"].window = w
      BY <1>0, <1>1, RequestBegins DEF StageField
    <2>2. staging'["field"].pc = "window"
      <3>1. staging \in [Kinds -> Request]
        BY DEF StagedInv, Requests
      <3> QED
        BY <1>0, <1>1, <3>1 DEF StageField, EnsureOpenBatch
    <2>3. staging["field"].pc = "idle" /\ transition = "free" /\ transition' = "staging" /\ UNCHANGED <<rows, power, cut>>
      BY <1>1 DEF StageField
    <2>4. Held' /\ Moves'
      BY <1>0, <2>2, <2>3 DEF Held, Moves, UnderWay
    <2>5. InWindow' /\ FieldsFollow'
      BY <1>0, <2>1, <2>2, <2>3 DEF InWindow, FieldsFollow, UnderWay, RowIds
    <2> QED
      BY <2>4, <2>5 DEF WindowInv
  <1>2. CASE StageFile
    <2>1. /\ BatchIds \subseteq BatchIds' /\ \A b \in BatchIds : batches'[b] = batches[b]
          /\ staging'["field"] = staging["field"]
      BY <1>0, <1>2, RequestBegins DEF StageFile, Windows
    <2>2. UNCHANGED <<rows, power, cut, transition>>
      BY <1>2 DEF StageFile
    <2>3. Held' /\ InWindow' /\ FieldsFollow'
      BY <1>0, <2>1, <2>2 DEF Held, InWindow, FieldsFollow, UnderWay, RowIds
    <2>4. Moves'
      <3>1. staging["field"].pc # "idle" => staging["field"].batch \in BatchIds
        BY DEF StagedInv, Requests, Kinds
      <3> QED
        BY <1>0, <2>1, <3>1 DEF Moves
    <2> QED
      BY <2>3, <2>4 DEF WindowInv
  <1>3. CASE SaveWindow
    <2>0. /\ staging["field"].batch \in BatchIds /\ staging["field"].window \in Windows /\ staging["field"].pc = "window"
          /\ transition = "staging" /\ ~UnderWay /\ UNCHANGED <<rows, power, cut>>
      BY <1>0, <1>3 DEF SaveWindow, StagedInv, Requests, Request, Held
    <2>1. CASE /\ batches' = [batches EXCEPT ![staging["field"].batch] = [window |-> staging["field"].window, open |-> TRUE]]
               /\ staging' = [staging EXCEPT !["field"].pc = "mode"] /\ UNCHANGED transition
      <3>1. PICK new : new = [window |-> staging["field"].window, open |-> TRUE]
        OBVIOUS
      <3>2. new \in Batch /\ new.window = staging["field"].window
        BY <2>0, <3>1 DEF Batch
      <3>3. BatchIds' = BatchIds /\ \A b \in BatchIds : batches'[b] = IF b = staging["field"].batch THEN new ELSE batches[b]
        BY <1>0, <2>0, <2>1, <3>1, <3>2, BatchSet
      <3>4. /\ staging'["field"].pc = "mode" /\ staging'["field"].window = staging["field"].window
            /\ staging'["field"].batch = staging["field"].batch
        BY <2>0, <2>1, <3>3, RequestGoesOn
      <3>5. Held' /\ InWindow'
        BY <1>0, <2>0, <2>1 DEF Held, InWindow, UnderWay
      <3>6. Moves'
        BY <2>0, <3>2, <3>3, <3>4 DEF Moves
      <3>7. FieldsFollow'
        BY <1>0, <2>0, <3>3, <3>4 DEF FieldsFollow, RowIds
      <3> QED
        BY <3>5, <3>6, <3>7 DEF WindowInv
    <2>2. CASE StagingEnds("field") /\ UNCHANGED batches
      <3>1. BatchIds' = BatchIds
        BY <2>2 DEF BatchIds
      <3>2. staging'["field"].pc = "idle"
        BY <1>0, <2>2, <3>1, RequestEnds DEF NotStaging
      <3>3. Held' /\ InWindow' /\ Moves' /\ FieldsFollow'
        BY <1>0, <2>0, <2>2, <3>1, <3>2 DEF Held, InWindow, Moves, FieldsFollow, UnderWay, RowIds
      <3> QED
        BY <3>3 DEF WindowInv
    <2> QED
      BY <1>3, <2>1, <2>2 DEF SaveWindow
  <1>4. CASE AdoptWindow
    <2>0. /\ staging["field"].pc = "mode" /\ transition = "staging" /\ ~UnderWay /\ UNCHANGED <<batches, power, cut, transition>>
          /\ BatchIds' = BatchIds
      BY <1>0, <1>4 DEF AdoptWindow, Held, BatchIds
    <2>1. /\ staging'["field"].pc = "insert" /\ staging'["field"].window = staging["field"].window
          /\ staging'["field"].batch = staging["field"].batch
      BY <1>4, <2>0, RequestGoesOn DEF AdoptWindow
    <2>2. /\ RowIds' = RowIds
          /\ \A q \in RowIds : /\ rows'[q].kind = rows[q].kind /\ rows'[q].batch = rows[q].batch /\ rows'[q].status = rows[q].status
                               /\ rows'[q].mode = IF /\ rows[q].kind = "field" /\ rows[q].status = "staged"
                                                     /\ rows[q].batch = staging["field"].batch
                                                  THEN staging["field"].window ELSE rows[q].mode
      BY <1>0, <1>4, WindowAdopted DEF StagedInv
    <2>3. Held' /\ InWindow' /\ Moves'
      BY <1>0, <2>0, <2>1 DEF Held, InWindow, Moves, UnderWay
    <2>4. FieldsFollow'
      BY <1>0, <2>0, <2>1, <2>2 DEF FieldsFollow, Moves
    <2> QED
      BY <2>3, <2>4 DEF WindowInv
  <1>5. ASSUME NEW k \in Kinds, InsertRow(k) PROVE WindowInv'
    <2>0. BatchIds' = BatchIds /\ UNCHANGED <<batches, power, cut>> /\ StagingEnds(k) /\ staging[k].pc = "insert"
      BY <1>5 DEF InsertRow, BatchIds
    <2>1. staging'[k].pc = "idle" /\ \A o \in Kinds \ {k} : staging'[o] = staging[o]
      BY <2>0, RequestEnds DEF NotStaging
    <2>2. PICK q : q = [kind |-> k, batch |-> staging[k].batch, mode |-> staging[k].window, base |-> staging[k].base,
                        prev |-> 0, status |-> "staged"]
      OBVIOUS
    <2>3. q \in StagedRow /\ q.kind = k /\ q.batch = staging[k].batch /\ q.mode = staging[k].window
      <3>1. staging[k] \in Request
        BY DEF StagedInv, Requests
      <3> QED
        BY <2>2, <3>1 DEF StagedRow, Request, RowStatuses
    <2>4. /\ RowIds' = RowIds \union {Len(rows) + 1} /\ rows'[Len(rows) + 1] = q
          /\ \A r \in RowIds : rows'[r] = rows[r]
      BY <1>0, <1>5, <2>2, <2>3, RowAppended DEF InsertRow
    <2>5. Held' /\ InWindow' /\ Moves'
      BY <1>0, <2>0, <2>1, <2>4 DEF Held, InWindow, Moves, UnderWay, StagingEnds, Kinds
    <2>6. FieldsFollow'
      BY <1>0, <2>0, <2>1, <2>3, <2>4 DEF FieldsFollow, Moves, Kinds
    <2> QED
      BY <2>5, <2>6 DEF WindowInv
  <1>6. ASSUME NEW k \in Kinds, StagingFails(k) PROVE WindowInv'
    <2>0. BatchIds' = BatchIds /\ RowIds' = RowIds /\ UNCHANGED <<batches, rows, power>> /\ StagingEnds(k)
      BY <1>6 DEF StagingFails, BatchIds, RowIds
    <2>1. staging'[k].pc = "idle" /\ \A o \in Kinds \ {k} : staging'[o] = staging[o]
      BY <2>0, RequestEnds DEF NotStaging
    <2>2. cut' = IF staging[k].pc = "mode" THEN cut \union {"window"} ELSE cut
      BY <1>6 DEF StagingFails, CutIf
    <2>3. Held' /\ InWindow' /\ Moves'
      BY <1>0, <2>0, <2>1 DEF Held, InWindow, Moves, UnderWay, StagingEnds, Kinds
    <2>4. FieldsFollow'
      BY <1>0, <2>0, <2>1, <2>2 DEF FieldsFollow, Kinds
    <2> QED
      BY <2>3, <2>4 DEF WindowInv
  <1>7. ASSUME NEW r \in RowIds, DiscardItem(r) PROVE WindowInv'
    <2>1. rows[r].status = "staged" /\ rows' = [rows EXCEPT ![r].status = "discarded"]
          /\ UNCHANGED <<transition, power, staging, cut>>
      BY <1>7 DEF DiscardItem
    <2>2. PICK status \in RowStatuses : status = "discarded"
      BY DEF RowStatuses
    <2>3. rows \in Seq(StagedRow) /\ rows' = [rows EXCEPT ![r].status = status]
      BY <1>0, <2>1, <2>2
    <2>4. /\ RowIds' = RowIds
          /\ \A q \in RowIds : /\ rows'[q].kind = rows[q].kind /\ rows'[q].batch = rows[q].batch /\ rows'[q].mode = rows[q].mode
                               /\ rows'[q].status = IF q = r THEN status ELSE rows[q].status
      BY <1>7, <2>2, <2>3, StatusSet
    <2>5. BatchIds' = BatchIds /\ \A b \in BatchIds : batches'[b].window = batches[b].window
      BY <1>0, <1>7, BatchesClosed DEF DiscardItem
    <2>6. Held' /\ InWindow'
      BY <1>0, <2>1, <2>4, <2>5 DEF Held, InWindow, UnderWay
    <2>7. Moves'
      BY <1>0, <2>1, <2>5 DEF Moves, StagedInv, Requests
    <2>8. FieldsFollow'
      BY <1>0, <2>1, <2>2, <2>4, <2>5 DEF FieldsFollow
    <2> QED
      BY <2>6, <2>7, <2>8 DEF WindowInv
  <1> QED
    BY <1>1, <1>2, <1>3, <1>4, <1>5, <1>6, <1>7

LEMMA WindowSteps == StagedInv /\ WindowInv /\ [StagedNext]_stagedVars => WindowInv'
  <1> SUFFICES ASSUME StagedInv, WindowInv, [StagedNext]_stagedVars PROVE WindowInv'
    OBVIOUS
  <1>1. CASE UNCHANGED stagedVars
    BY <1>1 DEF stagedVars, WindowInv, Held, InWindow, Moves, FieldsFollow, UnderWay, RowIds
  <1>2. CASE PanelDies
    <2>1. /\ power'.pc = "idle" /\ staging'["field"].pc = "idle" /\ UNCHANGED <<batches, rows>>
          /\ cut \subseteq cut' /\ (staging["field"].pc = "mode" => "window" \in cut')
      BY <1>2 DEF PanelDies, Resting, NotStaging, Kinds
    <2> QED
      BY <2>1 DEF WindowInv, Held, InWindow, Moves, FieldsFollow, UnderWay, RowIds
  <1> QED
    BY <1>1, <1>2, WindowStages, WindowPublishes DEF StagedNext, SweepStep, PowerStep

\* A start or restart marks only the files, and applies only the fields, of a batch whose window is
\* the next restart: UpdateConfigBatch moves the batch and its fields under the transition, and a
\* request that is cut between the two writes is the only one that leaves them apart.
LEMMA WindowIsKept ==
  ASSUME StagedInv, WindowInv, PowerMarks \/ PowerApplies, NEW r \in RowIds, rows[r].status = "staged",
         rows'[r].status = "applied", rows[r].kind = "file" \/ "window" \notin cut
  PROVE  batches[rows[r].batch].window = "next_restart"
  <1>0. /\ rows \in Seq(StagedRow) /\ live \in Pair /\ power \in Job /\ OfKind(power.content, "file") /\ OfKind(power.todo, "field")
        /\ Held /\ InWindow /\ FieldsFollow /\ UnderWay
        /\ {"staged", "applied"} \subseteq RowStatuses
    BY DEF StagedInv, Tables, PowerHas, InHand, WindowInv, PowerMarks, PowerApplies, UnderWay, RowStatuses
  <1>1. ASSUME NEW from \in RowStatuses, NEW to \in RowStatuses, rows' = FilesSetTo(power.content, from, to)
        PROVE  r \in power.content
    <2>1. FilesMoved(power.content, from, to)
      BY <1>0, <1>1, FilesSet
    <2> QED
      BY <2>1 DEF FilesMoved
  <1>2. ASSUME NEW q, q = Max(power.todo), power.todo # {}, StillMatches(q), ApplyField(q)
        PROVE  r \in power.todo
    <2>1. q \in power.todo /\ q \in RowIds
      BY <1>0, <1>2, ListEnds DEF OfKind
    <2>2. rows'[r].status = IF r = q THEN "applied" ELSE rows[r].status
      BY <1>0, <1>2, <2>1, FieldApplied
    <2> QED
      BY <2>1, <2>2
  <1>3. r \in power.content \/ r \in power.todo
    <2>1. CASE PowerMarks
      <3>1. rows' = FilesSetTo(power.content, "staged", "applied") \/ UNCHANGED rows
        BY <2>1 DEF PowerMarks, FilesSetTo
      <3> QED
        BY <1>0, <1>1, <3>1
    <2>2. CASE PowerApplies
      <3>1. \/ \E q : q = Max(power.todo) /\ StillMatches(q) /\ ApplyField(q)
            \/ rows' = FilesSetTo(power.content, "applied", "staged")
        BY <2>2 DEF PowerApplies, FilesSetTo
      <3> QED
        BY <1>0, <1>1, <1>2, <2>2, <3>1 DEF PowerApplies
    <2> QED
      BY <2>1, <2>2
  <1>4. CASE r \in power.content
    BY <1>0, <1>4 DEF InWindow
  <1>5. CASE r \in power.todo
    <2>1. rows[r].kind = "field" /\ rows[r].mode = "next_restart" /\ "window" \notin cut
      BY <1>0, <1>5 DEF InWindow, OfKind
    <2>2. staging["field"].pc = "idle"
      BY <1>0 DEF Held
    <2> QED
      BY <1>0, <2>1, <2>2 DEF FieldsFollow
  <1> QED
    BY <1>3, <1>4, <1>5

THEOREM StagedInvariant == StagedSpec => [](StagedInv /\ WindowInv)
  BY StagedStarts, StagedSteps, WindowStarts, WindowSteps, PTL DEF StagedSpec

\* What waits for a time survives an incidental start or restart.
THEOREM WindowHoldsHolds == StagedSpec => WindowHolds
  <1>1. StagedInv /\ WindowInv /\ [StagedNext]_stagedVars =>
          [PowerMarks \/ PowerApplies =>
             \A r \in RowIds :
               rows[r].status = "staged" /\ rows'[r].status = "applied" /\ (rows[r].kind = "file" \/ "window" \notin cut)
                 => batches[rows[r].batch].window = "next_restart"]_stagedVars
    BY WindowIsKept
  <1> QED
    BY <1>1, StagedInvariant, PTL DEF WindowHolds, StagedSpec


-----------------------------------------------------------------------------
(* A restart owes the change *)

Clean == failures = 0 /\ "sweep" \notin cut
\* A field that a restart applied, and what the next start knows of it.
Restarted(x) == x \in RowIds /\ rows[x].kind = "field" /\ rows[x].mode = "next_restart" /\ rows[x].status = "applied"
Owed(x) == Restarted(x) => (built = x \/ x \notin settled)

\* A sweep that has fields in hand meets no start, and what it would put back is owed; a start knows
\* what is settled and recreates from what is live.
NeverBoth == ~(Publishes(sweep) /\ UnderWay)
OwesBefore(job) == \A i \in DOMAIN job.done : rows[job.done[i]].status = "applied" => Owed(rows[job.done[i]].prev)
SweepOwes ==
  /\ sweep.pc \in {"list", "files"} => sweep.done = <<>>
  /\ sweep.pc \in {"list", "files", "fields", "recreate", "undo"} => OwesBefore(sweep)
  /\ sweep.pc = "recreate" => (sweep.done # <<>> /\ sweep.config = live.field)
PowerOwes ==
  /\ power.pc \in {"look", "files", "mark", "fields", "recreate"} => settled = power.since
  /\ power.pc \in {"recreate", "recreate edited"} => power.config = live.field
  /\ power.pc = "save" => (Restarted(live.field) => built = live.field)
  /\ power.pc # "undo"
OwesInv == Clean => (Owed(live.field) /\ NeverBoth /\ SweepOwes /\ PowerOwes)

\* The rows are applied by nobody.
Quiet ==
  /\ RowIds \subseteq RowIds' /\ \A x : Restarted(x)' => Restarted(x)
  /\ \A q \in RowIds : /\ rows'[q].prev = rows[q].prev
                       /\ rows[q].kind = "field" /\ rows'[q].status = "applied" => rows[q].status = "applied"

LEMMA OwesKept ==
  ASSUME StagedInv, Quiet, UNCHANGED <<built, settled>>
  PROVE  /\ \A x : Owed(x) => Owed(x)'
         /\ \A job \in Job : InHand(job) /\ OwesBefore(job) => OwesBefore(job)'
  <1>1. \A x : Owed(x) => Owed(x)'
    BY DEF Quiet, Owed
  <1>2. ASSUME NEW job \in Job, InHand(job), OwesBefore(job), NEW i \in DOMAIN job.done, rows'[job.done[i]].status = "applied"
        PROVE  Owed(rows[job.done[i]].prev)'
    <2>1. PICK q \in RowIds : q = job.done[i] /\ rows[q].kind = "field"
      BY <1>2 DEF InHand, OfKind
    <2>2. PICK x : x = rows[q].prev
      OBVIOUS
    <2>3. rows'[q].prev = x /\ rows[q].status = "applied"
      BY <1>2, <2>1, <2>2 DEF Quiet
    <2>4. Owed(x)'
      BY <1>1, <1>2, <2>1, <2>2, <2>3 DEF OwesBefore
    <2> QED
      BY <2>1, <2>3, <2>4 DEF Owed, Restarted
  <1> QED
    BY <1>1, <1>2 DEF OwesBefore

LEMMA QuietRows == ASSUME UNCHANGED rows PROVE Quiet
  BY DEF Quiet, Restarted, RowIds

Undoable == {"list", "files", "fields", "recreate", "undo"}

\* A step that applies no field and changes neither the field nor the container.
LEMMA OwesQuietly ==
  ASSUME StagedInv, OwesInv, Clean' => Clean, Quiet, UNCHANGED <<built, settled>>, live'.field = live.field,
         Clean' => NeverBoth', sweep'.done \in {sweep.done, <<>>},
         Clean => /\ sweep'.pc \in {"list", "files"} => sweep'.done = <<>>
                  /\ sweep'.pc \in Undoable => (sweep'.done = <<>> \/ sweep.pc \in Undoable)
                  /\ sweep'.pc = "recreate" => (sweep'.done # <<>> /\ sweep'.config = live.field),
         power'.pc = power.pc, power'.since = power.since, power'.config = power.config
  PROVE  OwesInv'
  <1> SUFFICES ASSUME Clean' PROVE Owed(live.field)' /\ NeverBoth' /\ SweepOwes' /\ PowerOwes'
    BY DEF OwesInv
  <1>1. Clean /\ Owed(live.field) /\ SweepOwes /\ PowerOwes
    BY DEF OwesInv
  <1>2. PICK x : x = live.field
    OBVIOUS
  <1>3. Owed(x)'
    BY <1>1, <1>2, OwesKept
  <1>4. Owed(live.field)'
    BY <1>2, <1>3 DEF Owed, Restarted
  <1>5. sweep'.pc \in Undoable => OwesBefore(sweep)'
    <2>1. CASE sweep'.done = <<>>
      BY <2>1 DEF OwesBefore
    <2>2. CASE sweep'.done = sweep.done /\ sweep.pc \in Undoable
      <3>1. PICK job \in Job : job = sweep /\ InHand(job)
        BY DEF StagedInv, SweepHas
      <3>2. OwesBefore(job)
        BY <1>1, <2>2, <3>1 DEF SweepOwes, Undoable
      <3>3. OwesBefore(job)'
        BY <3>1, <3>2, OwesKept
      <3> QED
        BY <2>2, <3>1, <3>3 DEF OwesBefore
    <2> QED
      BY <1>1, <2>1, <2>2
  <1>6. SweepOwes'
    BY <1>1, <1>5 DEF SweepOwes, Undoable
  <1>7. PowerOwes'
    <2>1. Restarted(live.field)' => Restarted(live.field)
      BY DEF Quiet, Restarted
    <2> QED
      BY <1>1, <2>1 DEF PowerOwes
  <1> QED
    BY <1>4, <1>6, <1>7

LEMMA OwesStaged ==
  ASSUME StagedInv, OwesInv,
         \/ \E w \in Windows : StageField(w)
         \/ StageFile \/ SaveWindow \/ AdoptWindow
         \/ \E k \in Kinds : InsertRow(k) \/ StagingFails(k)
         \/ \E r \in RowIds : DiscardItem(r)
         \/ UNCHANGED stagedVars
  PROVE  OwesInv'
  <1>0. /\ rows \in Seq(StagedRow) /\ Requests /\ staging \in [Kinds -> Request] /\ sweep \in Job /\ InHand(sweep)
    BY DEF StagedInv, Tables, Requests, SweepHas
  <1>1. /\ UNCHANGED <<live, built, settled, sweep, power>> /\ cut \subseteq cut' /\ (failures' = failures \/ CallFails)
    BY DEF StageField, StageFile, SaveWindow, AdoptWindow, InsertRow, StagingFails, DiscardItem, stagedVars, CutIf
  <1>2. Clean' => Clean
    BY <1>1, FailuresAre DEF Clean, StagedInv, Tables
  <1>3. Quiet
    <2>1. CASE UNCHANGED rows
      BY <2>1, QuietRows
    <2>2. CASE AdoptWindow
      BY <1>0, <2>2, WindowAdopted DEF Quiet, Restarted
    <2>3. ASSUME NEW k \in Kinds, InsertRow(k) PROVE Quiet
      <3>1. PICK q : q = [kind |-> k, batch |-> staging[k].batch, mode |-> staging[k].window, base |-> staging[k].base,
                          prev |-> 0, status |-> "staged"]
        OBVIOUS
      <3>2. q \in StagedRow /\ q.status = "staged"
        <4>1. staging[k] \in Request
          BY <1>0
        <4> QED
          BY <3>1, <4>1 DEF StagedRow, Request, RowStatuses
      <3>3. /\ RowIds' = RowIds \union {Len(rows) + 1} /\ rows'[Len(rows) + 1] = q
            /\ \A r \in RowIds : rows'[r] = rows[r]
        BY <1>0, <2>3, <3>1, <3>2, RowAppended DEF InsertRow
      <3> QED
        BY <3>2, <3>3 DEF Quiet, Restarted
    <2>4. ASSUME NEW r \in RowIds, DiscardItem(r) PROVE Quiet
      <3>1. PICK status \in RowStatuses : status = "discarded"
        BY DEF RowStatuses
      <3>2. rows' = [rows EXCEPT ![r].status = status]
        BY <2>4, <3>1 DEF DiscardItem
      <3>3. /\ RowIds' = RowIds
            /\ \A q \in RowIds : /\ rows'[q].kind = rows[q].kind /\ rows'[q].mode = rows[q].mode /\ rows'[q].prev = rows[q].prev
                                 /\ rows'[q].status = IF q = r THEN status ELSE rows[q].status
        BY <1>0, <3>2, StatusSet
      <3> QED
        BY <3>1, <3>3 DEF Quiet, Restarted
    <2> QED
      BY <2>1, <2>2, <2>3, <2>4 DEF StageField, StageFile, SaveWindow, StagingFails, stagedVars
  <1>4. Clean' => NeverBoth'
    BY <1>1, <1>2 DEF OwesInv, NeverBoth, Publishes, UnderWay
  <1>5. Clean => /\ sweep'.pc \in {"list", "files"} => sweep'.done = <<>>
                 /\ sweep'.pc \in Undoable => (sweep'.done = <<>> \/ sweep.pc \in Undoable)
                 /\ sweep'.pc = "recreate" => (sweep'.done # <<>> /\ sweep'.config = live.field)
    BY <1>1 DEF OwesInv, SweepOwes
  <1> QED
    BY <1>1, <1>2, <1>3, <1>4, <1>5, OwesQuietly

\* An apply: the row was not settled, and what was live was owed.
LEMMA AppliedIsOwed ==
  ASSUME StagedInv, NEW r \in RowIds, rows[r].kind = "field", rows[r].status = "staged", ApplyField(r), UNCHANGED <<built, settled>>
  PROVE  /\ Owed(r)' /\ live'.field = r
         /\ \A x : Owed(x) => Owed(x)'
         /\ \A q \in RowIds : /\ rows'[q].prev = IF q = r THEN live.field ELSE rows[q].prev
                              /\ rows'[q].status = IF q = r THEN "applied" ELSE rows[q].status
  <1>1. rows \in Seq(StagedRow) /\ live \in Pair /\ Settles(settled)
    BY DEF StagedInv, Tables
  <1>2. /\ RowIds' = RowIds /\ live'.field = r
        /\ \A q \in RowIds : /\ rows'[q].kind = rows[q].kind /\ rows'[q].mode = rows[q].mode
                             /\ rows'[q].prev = IF q = r THEN live.field ELSE rows[q].prev
                             /\ rows'[q].status = IF q = r THEN "applied" ELSE rows[q].status
    BY <1>1, FieldApplied
  <1>3. r \notin settled
    BY <1>1 DEF Settles
  <1>4. Owed(r)'
    BY <1>3 DEF Owed
  <1>5. \A x : Owed(x) => Owed(x)'
    BY <1>2, <1>3 DEF Owed, Restarted
  <1> QED
    BY <1>2, <1>4, <1>5

LEMMA OwesSwept ==
  ASSUME StagedInv, OwesInv, SweepStep
  PROVE  OwesInv'
  <1>0. /\ rows \in Seq(StagedRow) /\ live \in Pair /\ sweep \in Job /\ SweepHas(sweep) /\ InHand(sweep) /\ power \in Job /\ failures \in Nat
        /\ power' \in {power, Disturbed(power)}
    BY DEF StagedInv, Tables, SweepHas, SweepStep, SweepReads, SweepLists, SweepFiles, SweepApplies,
       SweepPublishes, SweepRecreates,
           SweepUndoes, SweepMarks, SweepCloses
  <1>1. /\ power'.pc = power.pc /\ power'.since = power.since /\ power'.config = power.config
    BY <1>0, DisturbedIs
  <1>2. Clean' => Clean /\ UNCHANGED failures
    <2>1. cut \subseteq cut'
      BY SweepRewrites
    <2>2. failures' = failures \/ CallFails
      BY DEF SweepStep, SweepReads, SweepLists, SweepFiles, SweepApplies, SweepPublishes, SweepRecreates,
         SweepUndoes, SweepMarks, SweepCloses, UndoApply
    <2> QED
      BY <1>0, <2>1, <2>2, FailuresAre DEF Clean
  <1> SUFFICES ASSUME Clean' PROVE OwesInv'
    BY DEF OwesInv
  <1>3. /\ Clean /\ ~CallFails /\ Owed(live.field) /\ NeverBoth /\ SweepOwes /\ PowerOwes
    BY <1>0, <1>2, FailuresAre DEF OwesInv, Clean
  <1>4. InHand(sweep)' /\ sweep' \in Job /\ StagedInv'
    BY SweepLooks, SweepWorks DEF SweepStep, StagedInv, SweepHas
  <1>5. CASE (\E b \in BatchIds : SweepReads(b)) \/ SweepLists \/ SweepFiles \/ SweepPublishes \/ SweepMarks \/ SweepCloses
    <2>1. UNCHANGED <<built, settled>> /\ live'.field = live.field
      BY <1>0, <1>5 DEF SweepReads, SweepLists, SweepFiles, SweepPublishes, SweepMarks, SweepCloses, Pair
    <2>2. Quiet
      <3>1. CASE UNCHANGED rows
        BY <3>1, QuietRows
      <3>2. ASSUME NEW r, r = Min(sweep.todo), rows' = [rows EXCEPT ![r].status = "applied"], SweepMarks PROVE Quiet
        <4>1. r \in RowIds /\ rows[r].kind = "file"
          <5>1. OfKind(sweep.todo, "file") /\ sweep.todo # {}
            BY <1>0, <3>2 DEF SweepMarks, SweepHas
          <5>2. r \in sweep.todo
            BY <1>0, <3>2, <5>1, ListEnds
          <5> QED
            BY <5>1, <5>2 DEF OfKind
        <4>2. PICK status \in RowStatuses : status = "applied"
          BY DEF RowStatuses
        <4>3. /\ RowIds' = RowIds
              /\ \A q \in RowIds : /\ rows'[q].kind = rows[q].kind /\ rows'[q].mode = rows[q].mode /\ rows'[q].prev = rows[q].prev
                                   /\ rows'[q].status = IF q = r THEN status ELSE rows[q].status
          BY <1>0, <3>2, <4>1, <4>2, StatusSet
        <4> QED
          BY <4>1, <4>2, <4>3 DEF Quiet, Restarted
      <3> QED
        BY <1>5, <3>1, <3>2 DEF SweepReads, SweepLists, SweepFiles, SweepPublishes, SweepMarks, SweepCloses
    <2>3. \/ sweep'.pc \in {"idle", "mark"} /\ sweep'.done \in {sweep.done, <<>>}
          \/ sweep'.pc = "list" /\ sweep'.done = <<>>
          \/ /\ sweep'.done = sweep.done
             /\ \/ sweep.pc = "list" /\ sweep'.pc = "files" /\ SweepLists
                \/ /\ sweep.pc \in {"files", "fields"} /\ sweep'.todo = sweep.todo /\ sweep'.pc \in {"fields", "recreate"}
                   /\ sweep'.pc = "recreate" => (sweep.done # <<>> /\ sweep'.config = live.field)
      <3>1. Resting.pc = "idle" /\ Resting.done = <<>>
        BY Rested
      <3>2. ASSUME NEW b \in BatchIds, SweepReads(b) PROVE sweep'.pc = "list" /\ sweep'.done = <<>>
        BY <3>2 DEF SweepReads, Resting
      <3>3. CASE SweepLists
        BY <1>0, <3>1, <3>3 DEF SweepLists, SweepEnds, Job
      <3>4. CASE SweepFiles
        BY <1>0, <1>3, <3>1, <3>4 DEF SweepFiles, SweepEnds, Job
      <3>5. CASE SweepPublishes
        BY <1>0, <1>3, <3>5 DEF SweepPublishes, Job
      <3>6. CASE SweepMarks \/ SweepCloses
        BY <1>0, <3>1, <3>6 DEF SweepMarks, SweepCloses, SweepEnds, Job
      <3> QED
        BY <1>5, <3>2, <3>3, <3>4, <3>5, <3>6
    <2>4. NeverBoth'
      <3>1. CASE SweepLists
        <4>1. Publishes(sweep') /\ UnderWay => "sweep" \in cut'
          BY <3>1 DEF SweepLists, CutIf
        <4> QED
          BY <1>1, <4>1 DEF NeverBoth, Publishes, UnderWay, Clean
      <3>2. CASE ~SweepLists
        BY <1>1, <1>3, <2>3, <3>2 DEF NeverBoth, Publishes, UnderWay
      <3> QED
        BY <3>1, <3>2
    <2>5. /\ sweep'.pc \in {"list", "files"} => sweep'.done = <<>>
          /\ sweep'.pc \in Undoable => (sweep'.done = <<>> \/ sweep.pc \in Undoable)
          /\ sweep'.pc = "recreate" => (sweep'.done # <<>> /\ sweep'.config = live.field)
          /\ sweep'.done \in {sweep.done, <<>>}
      BY <1>3, <2>3 DEF SweepOwes, Undoable
    <2> QED
      BY <1>1, <1>3, <2>1, <2>2, <2>4, <2>5, OwesQuietly
  <1>6. CASE SweepApplies
    <2>1. sweep.pc = "fields" /\ sweep.todo # {} /\ UNCHANGED <<built, settled>>
      BY <1>6 DEF SweepApplies
    <2>2. CASE sweep' = [sweep EXCEPT !.pc = "undo"] /\ UNCHANGED <<live, rows, power>>
      <3>1. sweep'.pc = "undo" /\ sweep'.done = sweep.done /\ sweep'.todo = sweep.todo
        BY <1>0, <2>2 DEF Job
      <3>2. NeverBoth'
        BY <1>3, <2>1, <2>2, <3>1 DEF NeverBoth, Publishes, UnderWay
      <3> QED
        BY <1>1, <1>3, <2>1, <2>2, <3>1, <3>2, QuietRows, OwesQuietly DEF Undoable
    <2>3. PICK r : r = Min(sweep.todo)
      OBVIOUS
    <2>4. CASE /\ StillMatches(r) /\ ApplyField(r) /\ sweep' = [sweep EXCEPT !.todo = @ \ {r}, !.done = Append(@, r)]
      <3>1. r \in RowIds /\ rows[r].kind = "field" /\ rows[r].status = "staged"
        <4>1. OfKind(sweep.todo, "field")
          BY <1>0, <2>1 DEF SweepHas
        <4>2. r \in sweep.todo
          BY <1>0, <2>1, <2>3, <4>1, ListEnds
        <4> QED
          BY <2>4, <4>1, <4>2 DEF OfKind, StillMatches
      <3>2. /\ Owed(r)' /\ live'.field = r
            /\ \A x : Owed(x) => Owed(x)'
            /\ \A q \in RowIds : /\ rows'[q].prev = IF q = r THEN live.field ELSE rows[q].prev
                                 /\ rows'[q].status = IF q = r THEN "applied" ELSE rows[q].status
        BY <2>1, <2>4, <3>1, AppliedIsOwed
      <3>3. Owed(live.field)'
        BY <3>2 DEF Owed, Restarted
      <3>4. ~UnderWay
        BY <1>3, <2>1 DEF NeverBoth, Publishes
      <3>5. NeverBoth' /\ PowerOwes'
        BY <1>1, <3>4 DEF NeverBoth, UnderWay, PowerOwes
      <3>6. sweep'.pc = "fields" /\ sweep'.done = Append(sweep.done, r) /\ sweep.done \in Seq(Nat)
        BY <1>0, <2>1, <2>4 DEF Job
      <3>7. PICK x : x = live.field
        OBVIOUS
      <3>8. Owed(x)'
        BY <1>3, <3>2, <3>7
      <3>9. ASSUME NEW i \in DOMAIN sweep'.done, rows'[sweep'.done[i]].status = "applied"
            PROVE  Owed(rows[sweep.done[i]].prev)'
        <4>1. PICK q : q = sweep'.done[i]
          OBVIOUS
        <4>2. CASE q = r
          BY <3>1, <3>2, <3>7, <3>8, <4>1, <4>2 DEF Owed, Restarted
        <4>3. CASE q # r
          <5>1. i \in DOMAIN sweep.done /\ q = sweep.done[i] /\ q \in RowIds
            <6>1. i \in DOMAIN sweep.done /\ q = sweep.done[i]
              BY <3>1, <3>6, <4>1, <4>3 DEF RowIds
            <6> QED
              BY <1>0, <6>1 DEF InHand, OfKind
          <5>2. PICK y : y = rows[q].prev
            OBVIOUS
          <5>3. rows'[q].prev = y /\ rows[q].status = "applied"
            BY <3>2, <3>9, <4>1, <4>3, <5>1, <5>2
          <5>4. Owed(y)
            BY <1>3, <2>1, <5>1, <5>2, <5>3 DEF SweepOwes, OwesBefore
          <5>5. Owed(y)'
            BY <3>2, <5>4
          <5> QED
            BY <4>1, <5>3, <5>5 DEF Owed, Restarted
        <4> QED
          BY <4>2, <4>3
      <3>10. SweepOwes'
        BY <3>6, <3>9 DEF SweepOwes, OwesBefore
      <3> QED
        BY <3>3, <3>5, <3>10 DEF OwesInv
    <2> QED
      BY <1>6, <2>2, <2>3, <2>4 DEF SweepApplies
  <1>7. CASE SweepRecreates
    <2>1. /\ sweep.pc = "recreate" /\ built' = sweep.config /\ settled' = sweep.since
          /\ sweep' = [sweep EXCEPT !.pc = "mark", !.todo = sweep.content] /\ UNCHANGED <<rows, live, power>>
      BY <1>3, <1>7 DEF SweepRecreates
    <2>2. built' = live'.field /\ ~UnderWay
      BY <1>3, <2>1 DEF SweepOwes, NeverBoth, Publishes
    <2>3. sweep'.pc = "mark"
      BY <1>0, <2>1 DEF Job
    <2>4. Owed(live.field)' /\ NeverBoth' /\ SweepOwes' /\ PowerOwes'
      BY <2>1, <2>2, <2>3, <1>3 DEF Owed, NeverBoth, Publishes, UnderWay, SweepOwes, PowerOwes
    <2> QED
      BY <2>4 DEF OwesInv
  <1>8. CASE SweepUndoes
    <2>1. sweep.pc = "undo" /\ sweep' = Resting /\ UNCHANGED <<built, settled>>
      BY <1>8 DEF SweepUndoes, SweepEnds
    <2>2. PICK lost : UndoApply(sweep, {}, lost)
      BY <1>8 DEF SweepUndoes
    <2>3. lost = {}
      BY <1>3, <2>2 DEF UndoApply
    <2>4. /\ RowIds' = RowIds
          /\ \A q \in RowIds : /\ rows'[q].kind = rows[q].kind /\ rows'[q].mode = rows[q].mode /\ rows'[q].prev = rows[q].prev
                               /\ rows'[q].status = "applied" => rows[q].status = "applied"
      BY <1>0, <2>2, RowsUndone
    <2>5. Quiet
      BY <2>4 DEF Quiet, Restarted
    <2>6. live'.field = FieldBefore(sweep.done)
      BY <2>2, <2>3 DEF UndoApply
    <2>7. sweep'.pc = "idle" /\ sweep'.done = <<>>
      BY <2>1, Rested
    <2>8. NeverBoth'
      BY <2>7 DEF NeverBoth, Publishes
    <2>9. CASE Revertible(sweep.done) = {}
      BY <1>1, <1>3, <2>1, <2>5, <2>6, <2>7, <2>8, <2>9, OwesQuietly DEF FieldBefore, Undoable
    <2>10. CASE Revertible(sweep.done) # {}
      <3>1. PICK i : i = Max(Revertible(sweep.done))
        OBVIOUS
      <3>2. i \in Revertible(sweep.done)
        <4>1. sweep.done \in Seq(Nat) /\ Revertible(sweep.done) \subseteq 1 .. Len(sweep.done) /\ Len(sweep.done) \in Nat
          BY <1>0 DEF Job, Revertible
        <4>2. IsFiniteSet(1 .. Len(sweep.done))
          BY <4>1, FS_Interval
        <4>3. IsFiniteSet(Revertible(sweep.done)) /\ Revertible(sweep.done) \subseteq Nat
          BY <4>1, <4>2, FS_Subset
        <4> QED
          BY <2>10, <3>1, <4>3, HasExtremes
      <3>3. i \in DOMAIN sweep.done /\ rows[sweep.done[i]].status = "applied"
        BY <3>2 DEF Revertible
      <3>4. PICK x : x = rows[sweep.done[i]].prev
        OBVIOUS
      <3>5. Owed(x)
        BY <1>3, <2>1, <3>3, <3>4 DEF SweepOwes, OwesBefore
      <3>6. live'.field = x
        BY <2>6, <2>10, <3>1, <3>4 DEF FieldBefore
      <3>7. Owed(x)'
        BY <2>1, <2>5, <3>5, OwesKept
      <3>8. Owed(live.field)'
        BY <3>6, <3>7 DEF Owed, Restarted
      <3>9. ~UnderWay
        <4>1. sweep.done # <<>>
          BY <3>3
        <4> QED
          BY <1>3, <2>1, <4>1 DEF NeverBoth, Publishes
      <3>10. SweepOwes' /\ PowerOwes'
        BY <1>1, <2>7, <3>9 DEF SweepOwes, PowerOwes, UnderWay
      <3> QED
        BY <2>8, <3>8, <3>10 DEF OwesInv
    <2> QED
      BY <2>9, <2>10
  <1> QED
    BY <1>5, <1>6, <1>7, <1>8 DEF SweepStep


\* The rows change only in what is known of files.
LEMMA FilesAreQuiet ==
  ASSUME StagedInv, NEW from \in RowStatuses, NEW to \in RowStatuses, rows' = FilesSetTo(power.content, from, to)
  PROVE  Quiet
  <1>1. rows \in Seq(StagedRow) /\ OfKind(power.content, "file")
    BY DEF StagedInv, Tables, PowerHas, InHand
  <1>2. FilesMoved(power.content, from, to)
    BY <1>1, FilesSet
  <1>3. \A q \in RowIds : rows[q].kind = "field" => q \notin power.content
    BY <1>1 DEF OfKind
  <1> QED
    BY <1>2, <1>3 DEF Quiet, Restarted, FilesMoved

LEMMA OwesPowered ==
  ASSUME StagedInv, OwesInv, PowerStep
  PROVE  OwesInv'
  <1>0. /\ rows \in Seq(StagedRow) /\ live \in Pair /\ power \in Job /\ PowerHas(power) /\ sweep \in Job /\ failures \in Nat
        /\ edits \in Nat /\ MaxChanges \in Nat /\ sweep' \in {sweep, Disturbed(sweep)}
    BY StagedAssumption DEF StagedInv, Tables, PowerStep, PowerBegins, EditSaves, PowerLooks, PowerFiles,
       PowerMarks, PowerApplies,
       PowerDecides, PowerRecreates, EditRecreates, PowerUndoes, PowerSaves, PowerFinishes
  <1>1. /\ sweep'.pc = sweep.pc /\ sweep'.done = sweep.done /\ sweep'.todo = sweep.todo /\ sweep'.config = sweep.config
    BY <1>0, DisturbedIs
  <1>2. Clean' => Clean /\ UNCHANGED failures
    <2>1. cut \subseteq cut'
      BY PowerRewrites
    <2>2. failures' = failures \/ CallFails
      BY DEF PowerStep, PowerBegins, EditSaves, PowerLooks, PowerFiles, PowerMarks, PowerApplies, PowerDecides,
         PowerRecreates,
         EditRecreates, PowerUndoes, PowerSaves, PowerFinishes, UndoApply
    <2> QED
      BY <1>0, <2>1, <2>2, FailuresAre DEF Clean
  <1> SUFFICES ASSUME Clean' PROVE OwesInv'
    BY DEF OwesInv
  <1>3. Clean /\ ~CallFails /\ Owed(live.field) /\ NeverBoth /\ SweepOwes /\ PowerOwes
    BY <1>0, <1>2, FailuresAre DEF OwesInv, Clean
  <1>4. CASE PowerFinishes
    <2>1. power' = Resting /\ UNCHANGED <<rows, live, built, settled, sweep>>
      BY <1>4 DEF PowerFinishes
    <2>2. NeverBoth' /\ PowerOwes'
      BY <2>1, Rested DEF NeverBoth, UnderWay, PowerOwes
    <2>3. Owed(live.field)' /\ SweepOwes'
      BY <1>3, <2>1 DEF Owed, Restarted, SweepOwes, OwesBefore, RowIds
    <2> QED
      BY <2>2, <2>3 DEF OwesInv
  <1>5. ASSUME ~PowerFinishes PROVE NeverBoth' /\ SweepOwes'
    <2>1. ~Publishes(sweep)
      <3>1. CASE PowerBegins \/ EditSaves
        <4>1. Publishes(sweep) => "sweep" \in cut'
          BY <3>1 DEF PowerBegins, EditSaves, CutIf
        <4> QED
          BY <4>1 DEF Clean
      <3>2. CASE ~(PowerBegins \/ EditSaves)
        <4>1. UnderWay
          BY <1>5, <3>2 DEF PowerStep, PowerLooks, PowerFiles, PowerMarks, PowerApplies, PowerDecides,
             PowerRecreates, EditRecreates,
             PowerUndoes, PowerSaves, UnderWay
        <4> QED
          BY <1>3, <4>1 DEF NeverBoth
      <3> QED
        BY <3>1, <3>2
    <2>2. NeverBoth'
      BY <1>1, <2>1 DEF NeverBoth, Publishes
    <2>3. sweep.pc \in Undoable => sweep.done = <<>>
      BY <1>3, <2>1 DEF Publishes, SweepOwes, Undoable
    <2>4. SweepOwes'
      BY <1>1, <1>3, <2>3 DEF SweepOwes, OwesBefore, Undoable
    <2> QED
      BY <2>2, <2>4
  <1>6. ASSUME Quiet, UNCHANGED <<built, settled>>, live'.field = live.field PROVE Owed(live.field)'
    <2>1. PICK x : x = live.field
      OBVIOUS
    <2>2. Owed(x)'
      BY <1>3, <1>6, <2>1, OwesKept
    <2> QED
      BY <1>6, <2>1, <2>2 DEF Owed, Restarted
  <1>7. Quiet \/ \E r : r = Max(power.todo) /\ StillMatches(r) /\ ApplyField(r) /\ PowerApplies
    <2>1. "staged" \in RowStatuses /\ "applied" \in RowStatuses
      BY DEF RowStatuses
    <2>2. \/ UNCHANGED rows
          \/ rows' = FilesSetTo(power.content, "staged", "applied") \/ rows' = FilesSetTo(power.content, "applied", "staged")
          \/ \E r : r = Max(power.todo) /\ StillMatches(r) /\ ApplyField(r) /\ PowerApplies
      BY <1>3 DEF PowerStep, PowerBegins, EditSaves, PowerLooks, PowerFiles, PowerMarks, PowerApplies,
         PowerDecides, PowerRecreates,
         EditRecreates, PowerUndoes, PowerSaves, PowerFinishes, FilesSetTo, PowerOwes
    <2> QED
      BY <2>1, <2>2, QuietRows, FilesAreQuiet
  <1>8. CASE PowerEnds /\ UNCHANGED <<built, settled>> /\ live'.field = live.field /\ Quiet /\ ~PowerFinishes
    <2>1. power'.pc = "idle"
      BY <1>8, Rested DEF PowerEnds
    <2>2. PowerOwes'
      BY <2>1 DEF PowerOwes
    <2> QED
      BY <1>5, <1>6, <1>8, <2>2 DEF OwesInv
  <1>9. CASE PowerBegins
    <2>1. power'.pc = "look" /\ power'.since = settled /\ UNCHANGED <<built, settled, live, rows>>
      BY <1>9 DEF PowerBegins, Resting
    <2>2. PowerOwes'
      BY <2>1 DEF PowerOwes
    <2>3. ~PowerFinishes
      BY <1>9 DEF PowerBegins, PowerFinishes
    <2> QED
      BY <1>5, <1>6, <2>1, <2>2, <2>3, QuietRows DEF OwesInv
  <1>10. CASE EditSaves
    <2>1. PICK x : x = MaxChanges + edits + 1
      OBVIOUS
    <2>2. /\ power'.pc = "recreate edited" /\ power'.config = x /\ live'.field = x /\ UNCHANGED rows /\ power.pc = "idle"
      BY <1>0, <1>10, <2>1 DEF EditSaves, Resting, Pair
    <2>3. x \notin RowIds
      <3>1. Len(rows) + edits + Cardinality({k \in Kinds : staging[k].pc # "idle"}) < MaxChanges
        BY <1>10 DEF EditSaves, Changes
      <3>2. Cardinality({k \in Kinds : staging[k].pc # "idle"}) \in Nat
        <4>1. IsFiniteSet({"file"}) /\ IsFiniteSet({"file"} \union {"field"})
          BY FS_EmptySet, FS_AddElement, FS_Singleton
        <4>2. IsFiniteSet(Kinds)
          <5>1. Kinds = {"file"} \union {"field"}
            BY DEF Kinds
          <5> QED
            BY <4>1, <5>1
        <4>3. {k \in Kinds : staging[k].pc # "idle"} \subseteq Kinds
          OBVIOUS
        <4> QED
          BY <4>2, <4>3, FS_Subset, FS_CardinalityType
      <3>3. PICK n \in Nat : n = Len(rows) /\ RowIds = 1 .. n
        BY <1>0 DEF RowIds
      <3>4. PICK c \in Nat : c = Cardinality({k \in Kinds : staging[k].pc # "idle"})
        BY <3>2
      <3>5. n + edits + c < MaxChanges
        BY <3>1, <3>3, <3>4
      <3> QED
        BY <1>0, <2>1, <3>3, <3>5
    <2>4. Owed(live.field)'
      BY <2>2, <2>3 DEF Owed, Restarted, RowIds
    <2>5. PowerOwes'
      BY <2>2 DEF PowerOwes
    <2>6. ~PowerFinishes
      BY <2>2 DEF PowerFinishes
    <2> QED
      BY <1>5, <2>4, <2>5, <2>6 DEF OwesInv
  <1>11. CASE PowerLooks \/ PowerFiles \/ PowerMarks
    <2>1. /\ UNCHANGED <<built, settled>> /\ live'.field = live.field /\ power.pc \in {"look", "files", "mark"}
          /\ \/ power'.pc \in {"files", "mark", "fields"} /\ power'.since = power.since
             \/ PowerEnds
      <3>1. CASE PowerLooks
        BY <1>0, <3>1 DEF PowerLooks, Job
      <3>2. CASE PowerFiles
        BY <1>0, <3>2 DEF PowerFiles, Job, Pair
      <3>3. CASE PowerMarks
        BY <1>0, <3>3 DEF PowerMarks, Job, Pair
      <3> QED
        BY <1>11, <3>1, <3>2, <3>3
    <2>2. Quiet /\ ~PowerFinishes
      BY <1>7, <2>1 DEF PowerApplies, PowerFinishes
    <2>3. CASE power'.pc \in {"files", "mark", "fields"} /\ power'.since = power.since
      <3>1. PowerOwes'
        BY <1>3, <2>1, <2>3 DEF PowerOwes
      <3> QED
        BY <1>5, <1>6, <2>1, <2>2, <3>1 DEF OwesInv
    <2> QED
      BY <1>8, <2>1, <2>2, <2>3
  <1>12. CASE PowerApplies
    <2>1. power.pc = "fields" /\ power.todo # {} /\ UNCHANGED <<built, settled>> /\ ~PowerFinishes
      BY <1>12 DEF PowerApplies, PowerFinishes
    <2>2. PICK r : r = Max(power.todo)
      OBVIOUS
    <2>3. CASE /\ StillMatches(r) /\ ApplyField(r) /\ power' = [power EXCEPT !.todo = @ \ {r}, !.done = Append(@, r)]
      <3>1. r \in RowIds /\ rows[r].kind = "field" /\ rows[r].status = "staged"
        <4>1. OfKind(power.todo, "field")
          BY <1>0 DEF PowerHas
        <4>2. r \in power.todo
          BY <1>0, <2>1, <2>2, <4>1, ListEnds
        <4> QED
          BY <2>3, <4>1, <4>2 DEF OfKind, StillMatches
      <3>2. Owed(r)' /\ live'.field = r
        BY <2>1, <2>3, <3>1, AppliedIsOwed
      <3>3. Owed(live.field)'
        BY <3>2 DEF Owed, Restarted
      <3>4. power'.pc = "fields" /\ power'.since = power.since
        BY <1>0, <2>1, <2>3 DEF Job
      <3>5. PowerOwes'
        BY <1>3, <2>1, <3>4 DEF PowerOwes
      <3> QED
        BY <1>5, <2>1, <3>3, <3>5 DEF OwesInv
    <2>4. CASE /\ live' = [live EXCEPT !.file = FileBefore(power)] /\ PowerEnds
               /\ rows' = FilesSetTo(power.content, "applied", "staged")
      <3>1. Quiet
        BY <2>4, FilesAreQuiet DEF RowStatuses
      <3>2. live'.field = live.field
        BY <1>0, <2>4 DEF Pair
      <3> QED
        BY <1>8, <2>1, <2>4, <3>1, <3>2
    <2> QED
      BY <1>12, <2>2, <2>3, <2>4 DEF PowerApplies, FilesSetTo
  <1>13. CASE PowerDecides
    <2>0. power.pc = "fields" /\ ~PowerFinishes /\ UNCHANGED <<rows, live, settled>> /\ settled = power.since
      BY <1>3, <1>13 DEF PowerDecides, PowerFinishes, PowerOwes
    <2>1. CASE power' = [power EXCEPT !.pc = "recreate", !.config = live.field] /\ UNCHANGED built
      <3>1. power'.pc = "recreate" /\ power'.config = live'.field /\ power'.since = power.since
        BY <1>0, <2>0, <2>1 DEF Job
      <3>2. PowerOwes'
        BY <2>0, <3>1 DEF PowerOwes
      <3> QED
        BY <1>5, <1>6, <2>0, <2>1, <3>2, QuietRows DEF OwesInv
    <2>2. CASE ~Pending /\ built' \in {built, live.field} /\ power' = [power EXCEPT !.pc = "save"]
      <3>1. power'.pc = "save"
        BY <1>0, <2>2 DEF Job
      <3>2. Restarted(live.field) => built = live.field
        BY <1>3, <2>0, <2>2 DEF Pending, Restarted, Owed
      <3>3. Restarted(live.field)' => built' = live'.field
        BY <2>0, <2>2, <3>2 DEF Restarted, RowIds
      <3>4. Owed(live.field)' /\ PowerOwes'
        BY <3>1, <3>3 DEF Owed, PowerOwes
      <3> QED
        BY <1>5, <2>0, <3>4 DEF OwesInv
    <2> QED
      BY <1>3, <1>13, <2>1, <2>2 DEF PowerDecides
  <1>14. CASE PowerRecreates \/ EditRecreates
    <2>1. /\ built' = live'.field /\ ~PowerFinishes
          /\ power' = [power EXCEPT !.pc = "save"] \/ PowerEnds
      BY <1>3, <1>14 DEF PowerRecreates, EditRecreates, PowerFinishes, PowerOwes
    <2>2. power'.pc \in {"save", "idle"}
      BY <1>0, <2>1, Rested DEF Job, PowerEnds
    <2>3. Owed(live.field)' /\ PowerOwes'
      BY <2>1, <2>2 DEF Owed, PowerOwes
    <2> QED
      BY <1>5, <2>1, <2>3 DEF OwesInv
  <1>15. CASE PowerSaves
    <2>1. power.pc = "save" /\ power' = [Resting EXCEPT !.pc = "finish"] /\ ~PowerFinishes /\ UNCHANGED <<rows, live, built>>
      BY <1>3, <1>15 DEF PowerSaves, PowerFinishes
    <2>2. power'.pc = "finish"
      BY <2>1 DEF Resting
    <2>3. Restarted(live.field) => built = live.field
      BY <1>3, <2>1 DEF PowerOwes
    <2>4. Owed(live.field)' /\ PowerOwes'
      BY <2>1, <2>2, <2>3 DEF Owed, PowerOwes, Restarted, RowIds
    <2> QED
      BY <1>5, <2>1, <2>4 DEF OwesInv
  <1>16. ~PowerUndoes
    BY <1>3 DEF PowerUndoes, PowerOwes
  <1> QED
    BY <1>4, <1>9, <1>10, <1>11, <1>12, <1>13, <1>14, <1>15, <1>16 DEF PowerStep

LEMMA OwesStarts == StagedInit => OwesInv
  BY Rested DEF StagedInit, OwesInv, Owed, Restarted, NeverBoth, Publishes, SweepOwes, PowerOwes, RowIds, UnderWay

LEMMA OwesSteps == StagedInv /\ OwesInv /\ [StagedNext]_stagedVars => OwesInv'
  <1> SUFFICES ASSUME StagedInv, OwesInv, [StagedNext]_stagedVars PROVE OwesInv'
    OBVIOUS
  <1>1. CASE PanelDies
    <2>1. /\ UNCHANGED <<rows, live, built, settled, failures>> /\ cut \subseteq cut' /\ power' = Resting /\ sweep' = Resting
      BY <1>1 DEF PanelDies
    <2>2. NeverBoth' /\ SweepOwes' /\ PowerOwes'
      BY <2>1, Rested DEF NeverBoth, Publishes, SweepOwes, PowerOwes
    <2>3. OwesInv => (Clean => Owed(live.field)')
      BY <2>1 DEF OwesInv, Owed, Restarted, RowIds
    <2> QED
      BY <2>1, <2>2, <2>3 DEF OwesInv, Clean
  <1> QED
    BY <1>1, OwesStaged, OwesSwept, OwesPowered DEF StagedNext, SweepStep, PowerStep

\* A field that a restart has applied reaches the container, over any number of crashes.
THEOREM RestartOwesTheChangeHolds == StagedSpec => []RestartOwesTheChange
  <1>1. OwesInv => RestartOwesTheChange
    BY DEF OwesInv, Clean, Owed, Restarted, RestartOwesTheChange
  <1> QED
    BY <1>1, StagedInvariant, OwesStarts, OwesSteps, PTL DEF StagedSpec


-----------------------------------------------------------------------------
(* A publish that failed leaves what it found *)

\* How a step may change the rows that are there.
RowsMove ==
  /\ RowIds \subseteq RowIds'
  /\ \A q \in RowIds :
       /\ rows'[q].kind = rows[q].kind /\ rows'[q].batch = rows[q].batch /\ rows'[q].base = rows[q].base
       /\ \/ rows'[q].prev = rows[q].prev
          \/ /\ rows[q].kind = "field" /\ rows[q].status = "staged" /\ rows'[q].status = "applied"
             /\ rows'[q].prev = live.field
       /\ (rows[q].kind = "field" /\ rows[q].status = "applied") =>
            \/ rows'[q].status = "applied"
            \/ /\ rows'[q].status = "rolled_back"
               /\ (SweepUndoes /\ q \in Range(sweep.done)) \/ (PowerUndoes /\ q \in Range(power.done))
       /\ (rows[q].kind = "field" /\ rows[q].status = "rolled_back") => rows'[q].status = "rolled_back"
       /\ (rows[q].kind = "file" /\ rows'[q].status = "applied") =>
            (rows[q].status = "applied" \/ (PowerMarks /\ q \in power.content) \/ SweepMarks)

LEMMA HowRowsMove ==
  ASSUME StagedInv, [StagedNext]_stagedVars
  PROVE  RowsMove
  <1>0. /\ rows \in Seq(StagedRow) /\ live \in Pair /\ Requests
        /\ SweepHas(sweep) /\ OfKind(power.content, "file") /\ OfKind(power.todo, "field")
        /\ \A s \in {"staged", "applied", "discarded", "rolled_back"} : s \in RowStatuses
    BY DEF StagedInv, Tables, PowerHas, InHand, RowStatuses
  <1>1. CASE UNCHANGED rows
    BY <1>1 DEF RowsMove, RowIds
  <1>2. ASSUME NEW r \in RowIds, rows[r].kind = "field", rows[r].status = "staged", ApplyField(r) PROVE RowsMove
    <2>1. /\ RowIds' = RowIds
          /\ \A q \in RowIds : /\ rows'[q].kind = rows[q].kind /\ rows'[q].batch = rows[q].batch /\ rows'[q].base = rows[q].base
                               /\ rows'[q].prev = IF q = r THEN live.field ELSE rows[q].prev
                               /\ rows'[q].status = IF q = r THEN "applied" ELSE rows[q].status
      BY <1>0, <1>2, FieldApplied
    <2> QED
      BY <1>2, <2>1 DEF RowsMove
  <1>3. ASSUME NEW from, NEW to, (from = "staged" /\ to = "applied" /\ PowerMarks) \/ (from = "applied" /\ to = "staged"),
               rows' = FilesSetTo(power.content, from, to)
        PROVE  RowsMove
    <2>1. PICK S : S = power.content
      OBVIOUS
    <2>2. rows' = FilesSetTo(S, from, to) /\ from \in RowStatuses /\ to \in RowStatuses /\ OfKind(S, "file")
      BY <1>0, <1>3, <2>1
    <2>3. FilesMoved(S, from, to)
      BY <1>0, <2>2, FilesSet
    <2>4. \A q \in RowIds : rows[q].kind = "field" => q \notin S
      BY <2>2 DEF OfKind
    <2> QED
      BY <1>3, <2>1, <2>3, <2>4 DEF RowsMove, FilesMoved
  <1>4. ASSUME NEW r \in RowIds, NEW status \in RowStatuses, rows' = [rows EXCEPT ![r].status = status],
               \/ rows[r].kind = "file" /\ SweepMarks
               \/ rows[r].status = "staged" /\ status = "discarded"
        PROVE  RowsMove
    <2>1. /\ RowIds' = RowIds
          /\ \A q \in RowIds : /\ rows'[q].kind = rows[q].kind /\ rows'[q].batch = rows[q].batch /\ rows'[q].base = rows[q].base
                               /\ rows'[q].prev = rows[q].prev
                               /\ rows'[q].status = IF q = r THEN status ELSE rows[q].status
      BY <1>0, <1>4, StatusSet
    <2> QED
      BY <1>4, <2>1 DEF RowsMove
  <1>5. CASE AdoptWindow
    <2>1. /\ RowIds' = RowIds
          /\ \A q \in RowIds : /\ rows'[q].kind = rows[q].kind /\ rows'[q].batch = rows[q].batch
                               /\ rows'[q].prev = rows[q].prev /\ rows'[q].base = rows[q].base /\ rows'[q].status = rows[q].status
      BY <1>0, <1>5, WindowAdopted
    <2> QED
      BY <2>1 DEF RowsMove
  <1>6. ASSUME NEW k \in Kinds, InsertRow(k) PROVE RowsMove
    <2>1. rows' = Append(rows, rows'[Len(rows) + 1]) /\ RowIds = 1 .. Len(rows) /\ Len(rows) \in Nat
      BY <1>0, <1>6 DEF InsertRow, RowIds
    <2>2. RowIds \subseteq RowIds' /\ \A r \in RowIds : rows'[r] = rows[r]
      BY <1>0, <1>6, <2>1 DEF InsertRow, RowIds
    <2> QED
      BY <2>2 DEF RowsMove
  <1>7. ASSUME NEW job, NEW marked, NEW lost, UndoApply(job, marked, lost), OfKind(marked, "file"),
               (SweepUndoes /\ job = sweep) \/ (PowerUndoes /\ job = power)
        PROVE  RowsMove
    <2>1. /\ RowIds' = RowIds
          /\ \A q \in RowIds : /\ rows'[q].kind = rows[q].kind /\ rows'[q].batch = rows[q].batch
                               /\ rows'[q].mode = rows[q].mode /\ rows'[q].prev = rows[q].prev /\ rows'[q].base = rows[q].base
                               /\ \/ rows'[q].status = rows[q].status
                                  \/ rows[q].status = "applied" /\ rows'[q].status = "rolled_back"
                                  \/ q \in marked /\ rows[q].status = "applied" /\ rows'[q].status = "staged"
      BY <1>0, <1>7, RowsUndone
    <2>2. \A q \in RowIds : rows[q].status = "applied" /\ rows'[q].status = "rolled_back" => q \in Range(job.done)
      BY <1>0, <1>7 DEF UndoApply
    <2>3. \A q \in RowIds : rows[q].kind = "field" => q \notin marked
      BY <1>7 DEF OfKind
    <2> QED
      BY <1>7, <2>1, <2>2, <2>3 DEF RowsMove
  <1>8. CASE SweepApplies \/ PowerApplies
    <2>1. ASSUME NEW r, NEW todo, OfKind(todo, "field"), r \in todo, StillMatches(r), ApplyField(r) PROVE RowsMove
      BY <1>2, <2>1 DEF OfKind, StillMatches
    <2>2. \/ UNCHANGED rows
          \/ \E r \in sweep.todo : OfKind(sweep.todo, "field") /\ StillMatches(r) /\ ApplyField(r)
          \/ \E r \in power.todo : StillMatches(r) /\ ApplyField(r)
          \/ rows' = FilesSetTo(power.content, "applied", "staged")
      <3>1. CASE SweepApplies
        <4>1. OfKind(sweep.todo, "field") /\ sweep.todo # {}
          BY <1>0, <3>1 DEF SweepApplies, SweepHas
        <4>2. Min(sweep.todo) \in sweep.todo
          BY <1>0, <4>1, ListEnds
        <4> QED
          BY <3>1, <4>1, <4>2 DEF SweepApplies
      <3>2. CASE PowerApplies
        <4>1. Max(power.todo) \in power.todo
          BY <1>0, <3>2, ListEnds DEF PowerApplies
        <4> QED
          BY <3>2, <4>1 DEF PowerApplies, FilesSetTo
      <3> QED
        BY <1>8, <3>1, <3>2
    <2> QED
      BY <1>0, <1>1, <1>3, <2>1, <2>2
  <1>9. CASE SweepMarks
    <2>1. OfKind(sweep.todo, "file") /\ sweep.todo # {}
      BY <1>0, <1>9 DEF SweepMarks, SweepHas
    <2>2. PICK r : r = Min(sweep.todo) /\ r \in sweep.todo
      BY <1>0, <2>1, ListEnds
    <2>3. UNCHANGED rows \/ rows' = [rows EXCEPT ![r].status = "applied"]
      BY <1>9, <2>2 DEF SweepMarks
    <2> QED
      BY <1>0, <1>1, <1>4, <1>9, <2>1, <2>2, <2>3 DEF OfKind
  <1>10. CASE PowerMarks
    <2>1. PICK from, to : from = "staged" /\ to = "applied"
      OBVIOUS
    <2>2. UNCHANGED rows \/ rows' = FilesSetTo(power.content, from, to)
      BY <1>10, <2>1 DEF PowerMarks, FilesSetTo
    <2>3. CASE rows' = FilesSetTo(power.content, from, to)
      <3>1. (from = "staged" /\ to = "applied" /\ PowerMarks) \/ (from = "applied" /\ to = "staged")
        BY <1>10, <2>1
      <3> QED
        BY <1>3, <2>3, <3>1
    <2> QED
      BY <1>1, <2>2, <2>3
  <1>11. CASE SweepUndoes
    <2>1. OfKind({}, "file")
      BY DEF OfKind
    <2> QED
      BY <1>7, <1>11, <2>1 DEF SweepUndoes
  <1>12. CASE PowerUndoes
    BY <1>0, <1>7, <1>12 DEF PowerUndoes
  <1>13. ASSUME NEW r \in RowIds, DiscardItem(r) PROVE RowsMove
    BY <1>0, <1>4, <1>13 DEF DiscardItem
  <1>14. CASE UNCHANGED stagedVars
    BY <1>1, <1>14 DEF stagedVars
  <1>15. ASSUME NEW w \in Windows, StageField(w) PROVE RowsMove
    BY <1>1, <1>15 DEF StageField
  <1>16. ASSUME NEW k \in Kinds, StagingFails(k) PROVE RowsMove
    BY <1>1, <1>16 DEF StagingFails
  <1>17. ASSUME NEW b \in BatchIds, SweepReads(b) PROVE RowsMove
    BY <1>1, <1>17 DEF SweepReads
  <1>18. CASE \/ StageFile \/ SaveWindow \/ SweepLists \/ SweepFiles \/ SweepPublishes \/ SweepRecreates \/ SweepCloses
              \/ PowerBegins \/ EditSaves \/ PowerLooks \/ PowerFiles \/ PowerDecides \/ PowerRecreates \/ EditRecreates
              \/ PowerSaves \/ PowerFinishes \/ PanelDies
    BY <1>1, <1>18 DEF StageFile, SaveWindow, SweepLists, SweepFiles, SweepPublishes, SweepRecreates, SweepCloses,
       PowerBegins, EditSaves,
       PowerLooks, PowerFiles, PowerDecides, PowerRecreates, EditRecreates, PowerSaves, PowerFinishes, PanelDies
  <1> QED
    BY <1>5, <1>6, <1>8, <1>9, <1>10, <1>11, <1>12, <1>13, <1>14, <1>15, <1>16, <1>17, <1>18 DEF StagedNext


\* A value that was live: nothing, an edit, or a field that was applied.
Past(v) ==
  v = 0 \/ v > MaxChanges \/ (v \in RowIds /\ rows[v].kind = "field" /\ rows[v].status \in {"applied", "rolled_back"})
Busy(k) == IF staging[k].pc = "idle" THEN 0 ELSE 1

\* No row that is still staged is live, or the base of another.
Bounded == Len(rows) + edits + Busy("file") + Busy("field") =< MaxChanges
FreshInv ==
  /\ Bounded /\ Past(live.field)
  /\ \A r \in RowIds : Past(rows[r].base) /\ Past(rows[r].prev)
  /\ \A k \in Kinds : Past(staging[k].base)

LEMMA PastKept == ASSUME RowsMove PROVE \A v : Past(v) => Past(v)'
  BY DEF RowsMove, Past

LEMMA PastIsNotStaged ==
  ASSUME StagedInv, Bounded, NEW v, Past(v), NEW r \in RowIds, rows[r].status = "staged"
  PROVE  v # r
  <1>1. Len(rows) \in Nat /\ edits \in Nat /\ MaxChanges \in Nat /\ RowIds = 1 .. Len(rows)
    BY StagedAssumption DEF StagedInv, Tables, RowIds
  <1>2. Busy("file") \in {0, 1} /\ Busy("field") \in {0, 1}
    BY DEF Busy
  <1>3. r # 0 /\ ~(r > MaxChanges)
    BY <1>1, <1>2 DEF Bounded
  <1> QED
    BY <1>3 DEF Past

LEMMA RoomIs == ASSUME Requests PROVE Cardinality({k \in Kinds : staging[k].pc # "idle"}) = Busy("file") + Busy("field")
  <1>1. Cardinality({}) = 0 /\ Cardinality({"file"}) = 1 /\ Cardinality({"field"}) = 1 /\ IsFiniteSet({"file"})
    BY FS_EmptySet, FS_Singleton
  <1>2. Cardinality({"file"} \union {"field"}) = 2
    BY <1>1, FS_AddElement
  <1>3. PICK f, g : f = (staging["file"].pc = "idle") /\ g = (staging["field"].pc = "idle")
    OBVIOUS
  <1>4. CASE staging["file"].pc = "idle" /\ staging["field"].pc = "idle"
    <2>1. {k \in Kinds : staging[k].pc # "idle"} = {}
      BY <1>4 DEF Kinds
    <2> QED
      BY <1>1, <1>4, <2>1 DEF Busy
  <1>5. CASE staging["file"].pc # "idle" /\ staging["field"].pc = "idle"
    <2>1. {k \in Kinds : staging[k].pc # "idle"} = {"file"}
      BY <1>5 DEF Kinds
    <2> QED
      BY <1>1, <1>5, <2>1 DEF Busy
  <1>6. CASE staging["file"].pc = "idle" /\ staging["field"].pc # "idle"
    <2>1. {k \in Kinds : staging[k].pc # "idle"} = {"field"}
      BY <1>6 DEF Kinds
    <2> QED
      BY <1>1, <1>6, <2>1 DEF Busy
  <1>7. CASE staging["file"].pc # "idle" /\ staging["field"].pc # "idle"
    <2>1. {k \in Kinds : staging[k].pc # "idle"} = {"file"} \union {"field"}
      BY <1>7 DEF Kinds
    <2>2. Busy("file") + Busy("field") = 2
      BY <1>7 DEF Busy
    <2>3. Cardinality({k \in Kinds : staging[k].pc # "idle"}) = 2
      BY <1>2, <2>1, Zenon
    <2> QED
      BY <2>2, <2>3
  <1> QED
    BY <1>4, <1>5, <1>6, <1>7

LEMMA BoundedSteps == ASSUME StagedInv, Bounded, [StagedNext]_stagedVars PROVE Bounded'
  <1>0. /\ rows \in Seq(StagedRow) /\ Len(rows) \in Nat /\ edits \in Nat /\ MaxChanges \in Nat /\ Requests /\ staging \in [Kinds -> Request]
        /\ rows' \in Seq(StagedRow) /\ Len(rows') \in Nat /\ RowIds = 1 .. Len(rows) /\ RowIds' = 1 .. Len(rows')
        /\ "file" \in Kinds /\ "field" \in Kinds /\ "file" # "field"
    BY StagedAssumption, StagedSteps DEF StagedInv, Tables, Requests, RowIds, Kinds
  <1>1. Busy("file") \in {0, 1} /\ Busy("field") \in {0, 1} /\ Busy("file")' \in {0, 1} /\ Busy("field")' \in {0, 1}
    BY DEF Busy
  <1>2. ASSUME RowIds' = RowIds PROVE Len(rows') = Len(rows)
    BY <1>0, <1>2
  <1>3. CASE SweepStep \/ PowerStep
    <2>1. RowIds' = RowIds /\ UNCHANGED staging
      BY <1>3, SweepRewrites, PowerRewrites DEF RowsAsTheyAre
    <2>2. edits' = edits \/ (edits' = edits + 1 /\ Changes < MaxChanges)
      BY <1>3 DEF SweepStep, PowerStep, SweepReads, SweepLists, SweepFiles, SweepApplies, SweepPublishes,
         SweepRecreates, SweepUndoes, SweepMarks, SweepCloses,
         PowerBegins, EditSaves, PowerLooks, PowerFiles, PowerMarks, PowerApplies, PowerDecides, PowerRecreates,
         EditRecreates, PowerUndoes, PowerSaves, PowerFinishes
    <2> QED
      BY <1>0, <1>1, <1>2, <2>1, <2>2, RoomIs DEF Bounded, Changes, Busy
  <1>4. CASE UNCHANGED stagedVars \/ PanelDies \/ SaveWindow \/ AdoptWindow
    <2>1. UNCHANGED edits /\ RowIds' = RowIds
      BY <1>0, <1>4, WindowAdopted DEF stagedVars, PanelDies, SaveWindow, AdoptWindow, RowIds
    <2>2. \A k \in Kinds : Busy(k)' \in Nat /\ Busy(k)' =< Busy(k)
      <3>1. CASE UNCHANGED staging
        BY <3>1 DEF Busy
      <3>2. CASE PanelDies
        BY <3>2 DEF PanelDies, Busy, NotStaging
      <3>3. CASE SaveWindow \/ AdoptWindow
        <4>1. /\ staging["field"].pc # "idle" /\ \/ \E pc : staging' = [staging EXCEPT !["field"].pc = pc]
                                                 \/ staging' = [staging EXCEPT !["field"] = NotStaging]
          BY <3>3 DEF SaveWindow, AdoptWindow, StagingEnds
        <4>2. staging'["file"] = staging["file"]
          BY <1>0, <4>1
        <4> QED
          BY <4>1, <4>2 DEF Busy, Kinds
      <3> QED
        BY <1>4, <3>1, <3>2, <3>3 DEF stagedVars
    <2> QED
      BY <1>0, <1>1, <1>2, <2>1, <2>2 DEF Bounded
  <1>5. ASSUME NEW k \in Kinds, NEW w \in Windows, EnsureOpenBatch(k, w), staging[k].pc = "idle", Room, UNCHANGED <<rows, edits>>
        PROVE  Bounded'
    <2>1. \A o \in Kinds \ {k} : staging'[o] = staging[o]
      BY <1>5, RequestBegins
    <2> QED
      BY <1>0, <1>1, <1>5, <2>1, RoomIs DEF Bounded, Room, Changes, Busy, Kinds
  <1>6. ASSUME NEW k \in Kinds, StagingEnds(k), staging[k].pc # "idle", UNCHANGED <<batches, edits>>,
               RowIds' = RowIds \/ rows' = Append(rows, rows'[Len(rows) + 1])
        PROVE  Bounded'
    <2>1. staging'[k].pc = "idle" /\ \A o \in Kinds \ {k} : staging'[o] = staging[o]
      BY <1>0, <1>6 DEF StagingEnds, NotStaging
    <2>2. Len(rows') = Len(rows) \/ Len(rows') = Len(rows) + 1
      BY <1>0, <1>2, <1>6
    <2> QED
      BY <1>0, <1>1, <1>6, <2>1, <2>2 DEF Bounded, Busy, Kinds
  <1>7. ASSUME NEW w \in Windows, StageField(w) PROVE Bounded'
    BY <1>0, <1>5, <1>7 DEF StageField
  <1>8. CASE StageFile
    BY <1>0, <1>5, <1>8 DEF StageFile, Windows
  <1>9. ASSUME NEW k \in Kinds, InsertRow(k) \/ StagingFails(k) PROVE Bounded'
    <2>1. CASE InsertRow(k)
      <3>1. PICK q : rows' = Append(rows, q)
        BY <2>1 DEF InsertRow
      <3>2. rows' = Append(rows, rows'[Len(rows) + 1])
        BY <1>0, <3>1
      <3> QED
        BY <1>6, <2>1, <3>2 DEF InsertRow
    <2>2. CASE StagingFails(k)
      <3>1. RowIds' = RowIds
        BY <2>2 DEF StagingFails, RowIds
      <3> QED
        BY <1>6, <2>2, <3>1 DEF StagingFails
    <2> QED
      BY <1>9, <2>1, <2>2
  <1>10. ASSUME NEW r \in RowIds, DiscardItem(r) PROVE Bounded'
    <2>1. UNCHANGED <<staging, edits>> /\ RowIds' = RowIds
      BY <1>0, <1>10 DEF DiscardItem, RowIds
    <2> QED
      BY <1>0, <1>2, <2>1 DEF Bounded, Busy
  <1> QED
    BY <1>3, <1>4, <1>7, <1>8, <1>9, <1>10 DEF StagedNext, SweepStep, PowerStep


\* What an undo puts back of a field was live before.
LEMMA UndoneIsPast ==
  ASSUME StagedInv, FreshInv, NEW job \in Job, InHand(job), NEW marked, NEW lost, UndoApply(job, marked, lost)
  PROVE  Past(live'.field)
  <1>1. live'.field = live.field \/ live'.field = FieldBefore(job.done)
    BY DEF UndoApply
  <1>2. CASE Revertible(job.done) = {}
    BY <1>1, <1>2 DEF FieldBefore, FreshInv
  <1>3. CASE Revertible(job.done) # {}
    <2>1. job.done \in Seq(Nat) /\ Revertible(job.done) \subseteq 1 .. Len(job.done) /\ Len(job.done) \in Nat
      BY DEF Job, Revertible
    <2>2. IsFiniteSet(1 .. Len(job.done))
      BY <2>1, FS_Interval
    <2>3. IsFiniteSet(Revertible(job.done)) /\ Revertible(job.done) \subseteq Nat
      BY <2>1, <2>2, FS_Subset
    <2>4. Max(Revertible(job.done)) \in Revertible(job.done)
      BY <1>3, <2>3, HasExtremes
    <2>5. \A i \in Revertible(job.done) : job.done[i] \in RowIds
      BY DEF Revertible, InHand, OfKind
    <2> QED
      BY <1>1, <1>3, <2>4, <2>5 DEF FieldBefore, FreshInv
  <1> QED
    BY <1>2, <1>3

LEMMA FreshSteps == ASSUME StagedInv, FreshInv, [StagedNext]_stagedVars PROVE FreshInv'
  <1>0. /\ rows \in Seq(StagedRow) /\ live \in Pair /\ edits \in Nat /\ MaxChanges \in Nat /\ staging \in [Kinds -> Request]
        /\ sweep \in Job /\ SweepHas(sweep) /\ power \in Job /\ PowerHas(power) /\ Bounded
        /\ "file" \in Kinds /\ "field" \in Kinds
    BY StagedAssumption DEF StagedInv, Tables, Requests, FreshInv, Kinds
  <1>1. RowsMove /\ Bounded'
    BY <1>0, HowRowsMove, BoundedSteps
  <1>2. \A v : Past(v) => Past(v)'
    BY <1>1, PastKept
  <1>3. Past(0) /\ Past(live.field)
    BY DEF Past, FreshInv
  <1>4. Past(live.field)'
    <2>1. ASSUME NEW v, Past(v), live'.field = v PROVE Past(live.field)'
      <3>1. Past(v)'
        BY <1>2, <2>1
      <3> QED
        BY <2>1, <3>1 DEF Past
    <2>2. ASSUME NEW r, NEW todo, OfKind(todo, "field"), r \in todo, ApplyField(r) PROVE Past(live.field)'
      <3>1. r \in RowIds /\ rows[r].kind = "field"
        BY <2>2 DEF OfKind
      <3>2. /\ RowIds' = RowIds /\ live' = [file |-> live.file, field |-> r]
            /\ \A q \in RowIds : /\ rows'[q].kind = rows[q].kind
                                 /\ rows'[q].status = IF q = r THEN "applied" ELSE rows[q].status
        BY <1>0, <2>2, <3>1, FieldApplied
      <3> QED
        BY <3>1, <3>2 DEF Past
    <2>3. CASE SweepApplies
      <3>1. OfKind(sweep.todo, "field") /\ sweep.todo # {}
        BY <1>0, <2>3 DEF SweepApplies, SweepHas
      <3>2. Min(sweep.todo) \in sweep.todo
        BY <1>0, <3>1, ListEnds
      <3> QED
        BY <1>3, <2>1, <2>2, <2>3, <3>1, <3>2 DEF SweepApplies
    <2>4. CASE PowerApplies
      <3>1. OfKind(power.todo, "field") /\ power.todo # {}
        BY <1>0, <2>4 DEF PowerApplies, PowerHas
      <3>2. Max(power.todo) \in power.todo
        BY <1>0, <3>1, ListEnds
      <3>3. live'.field = live.field \/ ApplyField(Max(power.todo))
        BY <1>0, <2>4 DEF PowerApplies, Pair
      <3> QED
        BY <1>3, <2>1, <2>2, <3>1, <3>2, <3>3
    <2>5. CASE SweepUndoes
      <3>1. PICK lost, job : job = sweep /\ job \in Job /\ InHand(job) /\ UndoApply(job, {}, lost)
        BY <1>0, <2>5 DEF SweepUndoes, SweepHas
      <3>2. Past(live'.field)
        BY <3>1, UndoneIsPast
      <3> QED
        BY <2>1, <3>2
    <2>6. CASE PowerUndoes
      <3>1. PICK lost, job, marked : job = power /\ job \in Job /\ InHand(job) /\ UndoApply(job, marked, lost)
        BY <1>0, <2>6 DEF PowerUndoes, PowerHas
      <3>2. Past(live'.field)
        BY <3>1, UndoneIsPast
      <3> QED
        BY <2>1, <3>2
    <2>7. CASE EditSaves
      <3>1. live'.field = MaxChanges + edits + 1
        BY <1>0, <2>7 DEF EditSaves, Pair
      <3> QED
        BY <1>0, <3>1 DEF Past
    <2>8. CASE ~(SweepApplies \/ PowerApplies \/ SweepUndoes \/ PowerUndoes \/ EditSaves)
      <3>1. live'.field = live.field
        BY <1>0, <2>8 DEF Pair, StagedNext, stagedVars, StageField, StageFile, SaveWindow, AdoptWindow, InsertRow,
           StagingFails, DiscardItem,
           SweepReads, SweepLists, SweepFiles, SweepPublishes, SweepRecreates, SweepMarks, SweepCloses,
           PowerBegins, PowerLooks,
           PowerFiles, PowerMarks, PowerDecides, PowerRecreates, EditRecreates, PowerSaves, PowerFinishes, PanelDies
      <3> QED
        BY <1>3, <2>1, <3>1
    <2> QED
      BY <2>3, <2>4, <2>5, <2>6, <2>7, <2>8
  <1>5. \A k \in Kinds : Past(staging'[k].base)
    <2>1. \A k \in Kinds : Past(staging[k].base)
      BY DEF FreshInv
    <2>2. ASSUME NEW k \in Kinds, NEW w \in Windows, EnsureOpenBatch(k, w) PROVE \A o \in Kinds : Past(staging'[o].base)
      <3>1. staging'[k].base = live.field /\ \A o \in Kinds \ {k} : staging'[o] = staging[o]
        BY <1>0, <2>2 DEF EnsureOpenBatch
      <3> QED
        BY <1>3, <2>1, <3>1
    <2>3. ASSUME NEW k \in Kinds, StagingEnds(k) PROVE \A o \in Kinds : Past(staging'[o].base)
      BY <1>0, <1>3, <2>1, <2>3 DEF StagingEnds, NotStaging
    <2>4. CASE UNCHANGED staging
      BY <2>1, <2>4
    <2>5. ASSUME NEW w \in Windows, StageField(w) PROVE \A k \in Kinds : Past(staging'[k].base)
      BY <1>0, <2>2, <2>5 DEF StageField
    <2>6. CASE StageFile
      BY <1>0, <2>2, <2>6 DEF StageFile, Windows
    <2>7. CASE SaveWindow \/ AdoptWindow
      <3>1. StagingEnds("field") \/ \E pc : staging' = [staging EXCEPT !["field"].pc = pc]
        BY <2>7 DEF SaveWindow, AdoptWindow
      <3>2. (\E pc : staging' = [staging EXCEPT !["field"].pc = pc]) => \A k \in Kinds : staging'[k].base = staging[k].base
        BY <1>0 DEF Request
      <3> QED
        BY <1>0, <2>1, <2>3, <3>1, <3>2
    <2>8. ASSUME NEW k \in Kinds, InsertRow(k) \/ StagingFails(k) PROVE \A o \in Kinds : Past(staging'[o].base)
      BY <2>3, <2>8 DEF InsertRow, StagingFails
    <2>9. CASE PanelDies
      BY <1>3, <2>9 DEF PanelDies, NotStaging
    <2>10. CASE (\E r \in RowIds : DiscardItem(r)) \/ UNCHANGED stagedVars
      BY <2>4, <2>10 DEF DiscardItem, stagedVars
    <2>11. CASE SweepStep \/ PowerStep
      BY <2>4, <2>11, SweepRewrites, PowerRewrites
    <2> QED
      BY <2>5, <2>6, <2>7, <2>8, <2>9, <2>10, <2>11 DEF StagedNext, SweepStep, PowerStep
  <1>6. \A k \in Kinds : Past(staging[k].base)'
    BY <1>2, <1>5 DEF Past
  <1>7. \A r \in RowIds' : Past(rows'[r].base) /\ Past(rows'[r].prev)
    <2>1. \A r \in RowIds : Past(rows'[r].base) /\ Past(rows'[r].prev)
      BY <1>1, <1>3 DEF RowsMove, FreshInv
    <2>2. ASSUME NEW k \in Kinds, InsertRow(k), NEW r \in RowIds', r \notin RowIds PROVE Past(rows'[r].base) /\ Past(rows'[r].prev)
      <3>1. PICK q : rows' = Append(rows, q) /\ q.base = staging[k].base /\ q.prev = 0
        BY <2>2 DEF InsertRow
      <3>2. rows'[r] = q
        BY <1>0, <2>2, <3>1 DEF RowIds
      <3>3. rows'[r].base = staging[k].base /\ rows'[r].prev = 0
        BY <3>1, <3>2
      <3> QED
        BY <1>3, <3>3 DEF FreshInv
    <2>3. CASE \E k \in Kinds : InsertRow(k)
      BY <2>1, <2>2, <2>3
    <2>4. CASE ~\E k \in Kinds : InsertRow(k)
      <3>1. RowIds' = RowIds
        <4>1. CASE SweepStep \/ PowerStep
          BY <4>1, SweepRewrites, PowerRewrites DEF RowsAsTheyAre
        <4>2. CASE AdoptWindow
          BY <1>0, <4>2, WindowAdopted DEF StagedInv
        <4>3. CASE \E r \in RowIds : DiscardItem(r)
          BY <1>0, <4>3 DEF DiscardItem, RowIds
        <4>4. CASE UNCHANGED rows
          BY <4>4 DEF RowIds
        <4> QED
          BY <2>4, <4>1, <4>2, <4>3, <4>4 DEF StagedNext, SweepStep, PowerStep, stagedVars, StageField, StageFile,
             SaveWindow, StagingFails, PanelDies
      <3> QED
        BY <2>1, <3>1
    <2> QED
      BY <2>3, <2>4
  <1>8. \A r \in RowIds' : Past(rows[r].base)' /\ Past(rows[r].prev)'
    BY <1>2, <1>7 DEF Past
  <1> QED
    BY <1>1, <1>4, <1>6, <1>8 DEF FreshInv


-----------------------------------------------------------------------------
(* What a job knows of what it changed *)

\* The fields a job has applied are its own, and those it has not begun to apply are none.
Took(job) == \A i \in DOMAIN job.done : rows[job.done[i]].status \in {"applied", "rolled_back"}
TookApart == \A i \in DOMAIN sweep.done, j \in DOMAIN power.done : sweep.done[i] # power.done[j]
DoneInv ==
  /\ Took(sweep) /\ Took(power) /\ TookApart
  /\ sweep.pc \in {"list", "files"} => sweep.done = <<>>
  /\ power.pc \in {"look", "files", "mark"} => power.done = <<>>

\* A job takes one more staged field, keeps what it has, or begins anew.
TakesOne(old, new) ==
  \E r \in RowIds : /\ rows[r].kind = "field" /\ rows[r].status = "staged" /\ rows'[r].status = "applied"
                    /\ new.done = Append(old.done, r)
Takes(old, new) == new.done = <<>> \/ new.done = old.done \/ TakesOne(old, new)

LEMMA TookIsKept ==
  ASSUME RowsMove, NEW old \in Job, NEW new \in Job, InHand(old), Took(old), Takes(old, new)
  PROVE  Took(new)'
  <1>1. \A i \in DOMAIN old.done : rows'[old.done[i]].status \in {"applied", "rolled_back"}
    <2>1. SUFFICES ASSUME NEW i \in DOMAIN old.done PROVE rows'[old.done[i]].status \in {"applied", "rolled_back"}
      OBVIOUS
    <2>2. PICK q : q = old.done[i] /\ q \in RowIds /\ rows[q].kind = "field" /\ rows[q].status \in {"applied", "rolled_back"}
      BY DEF InHand, OfKind, Took
    <2> QED
      BY <2>2 DEF RowsMove
  <1>2. CASE new.done = <<>> \/ new.done = old.done
    BY <1>1, <1>2 DEF Took
  <1>3. CASE TakesOne(old, new)
    <2>1. PICK r : rows'[r].status = "applied" /\ new.done = Append(old.done, r)
      BY <1>3 DEF TakesOne
    <2>2. old.done \in Seq(Nat) /\ new.done \in Seq(Nat)
      BY DEF Job
    <2>3. \A i \in DOMAIN new.done : new.done[i] = r \/ (i \in DOMAIN old.done /\ new.done[i] = old.done[i])
      BY <2>1, <2>2
    <2> QED
      BY <1>1, <2>1, <2>3 DEF Took
  <1> QED
    BY <1>2, <1>3 DEF Takes

LEMMA ApartIsKept ==
  ASSUME NEW old \in Job, NEW new \in Job, NEW other \in Job, Takes(old, new), Took(other),
         \A i \in DOMAIN old.done, j \in DOMAIN other.done : old.done[i] # other.done[j]
  PROVE  \A i \in DOMAIN new.done, j \in DOMAIN other.done : new.done[i] # other.done[j]
  <1>1. CASE new.done = <<>> \/ new.done = old.done
    BY <1>1
  <1>2. CASE TakesOne(old, new)
    <2>1. PICK r : rows[r].status = "staged" /\ new.done = Append(old.done, r)
      BY <1>2 DEF TakesOne
    <2>2. old.done \in Seq(Nat) /\ new.done \in Seq(Nat)
      BY DEF Job
    <2>3. \A i \in DOMAIN new.done : new.done[i] = r \/ (i \in DOMAIN old.done /\ new.done[i] = old.done[i])
      BY <2>1, <2>2
    <2>4. \A j \in DOMAIN other.done : other.done[j] # r
      BY <2>1 DEF Took
    <2> QED
      BY <2>3, <2>4
  <1> QED
    BY <1>1, <1>2 DEF Takes

\* What a step of one party does to the other: nothing, or it disturbs it.
Untouched(job) == (job' = job /\ live' = live) \/ job' = Disturbed(job)

LEMMA OthersMove ==
  /\ SweepStep => Untouched(power)
  /\ PowerStep => Untouched(sweep)
  /\ StagedNext => SweepStep \/ PowerStep \/ UNCHANGED <<sweep, power, live>>
                     \/ (sweep' = Resting /\ power' = Resting /\ UNCHANGED <<rows, live>>)
  <1>1. SweepStep => Untouched(power)
    BY DEF Untouched, SweepStep, SweepReads, SweepLists, SweepFiles, SweepApplies, SweepPublishes, SweepRecreates,
       SweepUndoes, SweepMarks, SweepCloses
  <1>2. PowerStep => Untouched(sweep)
    BY DEF Untouched, PowerStep, PowerBegins, EditSaves, PowerLooks, PowerFiles, PowerMarks, PowerApplies,
       PowerDecides, PowerRecreates,
       EditRecreates, PowerUndoes, PowerSaves, PowerFinishes
  <1>3. StagedNext => SweepStep \/ PowerStep \/ UNCHANGED <<sweep, power, live>>
                        \/ (sweep' = Resting /\ power' = Resting /\ UNCHANGED <<rows, live>>)
    BY DEF StagedNext, SweepStep, PowerStep, StageField, StageFile, SaveWindow, AdoptWindow, InsertRow,
       StagingFails, DiscardItem, PanelDies
  <1> QED
    BY <1>1, <1>2, <1>3

LEMMA UntouchedIs ==
  ASSUME NEW job \in Job, NEW new, new = job \/ new = Disturbed(job)
  PROVE  /\ new \in Job /\ new.done = job.done /\ new.pc = job.pc /\ new.batch = job.batch
         /\ new.content = job.content /\ new.todo = job.todo /\ new.was = job.was
  BY DisturbedIs

\* What its own steps do to the list of what a job has taken.
LEMMA SweepTakes ==
  ASSUME StagedInv, SweepStep
  PROVE  /\ Takes(sweep, sweep')
         /\ sweep'.pc \in {"list", "files"} => (sweep'.done = <<>> \/ (sweep'.done = sweep.done /\ sweep.pc \in {"list", "files"}))
  <1>0. /\ rows \in Seq(StagedRow) /\ live \in Pair /\ sweep \in Job /\ SweepHas(sweep)
        /\ Resting.done = <<>> /\ Resting.pc = "idle"
    BY Rested DEF StagedInv, Tables
  <1>1. CASE SweepEnds
    BY <1>0, <1>1 DEF SweepEnds, Takes
  <1>2. CASE \E b \in BatchIds : SweepReads(b)
    <2>1. sweep'.done = <<>>
      BY <1>2 DEF SweepReads, Resting
    <2> QED
      BY <2>1 DEF Takes
  <1>3. CASE SweepApplies
    <2>1. PICK r : r = Min(sweep.todo)
      OBVIOUS
    <2>2. CASE sweep' = [sweep EXCEPT !.pc = "undo"]
      <3>1. sweep'.done = sweep.done /\ sweep'.pc = "undo"
        BY <1>0, <2>2 DEF Job
      <3> QED
        BY <3>1 DEF Takes
    <2>3. CASE StillMatches(r) /\ ApplyField(r) /\ sweep' = [sweep EXCEPT !.todo = @ \ {r}, !.done = Append(@, r)]
      <3>1. sweep'.done = Append(sweep.done, r) /\ sweep'.pc = sweep.pc /\ sweep.pc = "fields"
        BY <1>0, <1>3, <2>3 DEF Job, SweepApplies
      <3>2. OfKind(sweep.todo, "field") /\ sweep.todo # {}
        BY <1>0, <1>3 DEF SweepApplies, SweepHas
      <3>3. r \in RowIds /\ rows[r].kind = "field" /\ rows[r].status = "staged"
        BY <1>0, <2>1, <2>3, <3>2, ListEnds DEF OfKind, StillMatches
      <3>4. rows'[r].status = "applied"
        BY <1>0, <2>3, <3>3, FieldApplied
      <3> QED
        BY <3>1, <3>3, <3>4 DEF Takes, TakesOne
    <2> QED
      BY <1>3, <2>1, <2>2, <2>3 DEF SweepApplies
  <1>4. CASE SweepLists \/ SweepFiles \/ SweepPublishes \/ SweepRecreates \/ SweepUndoes \/ SweepMarks \/ SweepCloses
    <2>1. ASSUME ~SweepEnds
          PROVE  sweep'.done = sweep.done /\ (sweep'.pc \in {"list", "files"} => sweep.pc \in {"list", "files"})
      BY <1>0, <1>4, <2>1 DEF Job, SweepLists, SweepFiles, SweepPublishes, SweepRecreates, SweepUndoes, SweepMarks,
         SweepCloses
    <2> QED
      BY <1>1, <2>1 DEF Takes
  <1> QED
    BY <1>2, <1>3, <1>4 DEF SweepStep

LEMMA PowerTakes ==
  ASSUME StagedInv, PowerStep
  PROVE  /\ Takes(power, power')
         /\ power'.pc \in {"look", "files", "mark"} =>
              (power'.done = <<>> \/ (power'.done = power.done /\ power.pc \in {"look", "files", "mark"}))
  <1>0. /\ rows \in Seq(StagedRow) /\ live \in Pair /\ power \in Job /\ PowerHas(power)
        /\ Resting.done = <<>> /\ Resting.pc = "idle"
    BY Rested DEF StagedInv, Tables
  <1>1. CASE power'.done = <<>>
    BY <1>1 DEF Takes
  <1>2. CASE PowerEnds \/ PowerBegins \/ EditSaves \/ PowerFinishes
    <2>1. power'.done = <<>>
      BY <1>0, <1>2 DEF PowerEnds, PowerBegins, EditSaves, PowerFinishes, Resting
    <2> QED
      BY <1>1, <2>1
  <1>3. CASE PowerApplies
    <2>1. PICK r : r = Max(power.todo)
      OBVIOUS
    <2>2. CASE PowerEnds
      BY <1>2, <2>2
    <2>3. CASE StillMatches(r) /\ ApplyField(r) /\ power' = [power EXCEPT !.todo = @ \ {r}, !.done = Append(@, r)]
      <3>1. power'.done = Append(power.done, r) /\ power'.pc = power.pc /\ power.pc = "fields"
        BY <1>0, <1>3, <2>3 DEF Job, PowerApplies
      <3>2. OfKind(power.todo, "field") /\ power.todo # {}
        BY <1>0, <1>3 DEF PowerApplies, PowerHas
      <3>3. r \in RowIds /\ rows[r].kind = "field" /\ rows[r].status = "staged"
        BY <1>0, <2>1, <2>3, <3>2, ListEnds DEF OfKind, StillMatches
      <3>4. rows'[r].status = "applied"
        BY <1>0, <2>3, <3>3, FieldApplied
      <3> QED
        BY <3>1, <3>3, <3>4 DEF Takes, TakesOne
    <2> QED
      BY <1>3, <2>1, <2>2, <2>3 DEF PowerApplies
  <1>4. CASE PowerSaves
    <2>1. power'.done = <<>>
      BY <1>4 DEF PowerSaves, PowerEnds, Resting
    <2> QED
      BY <1>1, <2>1
  <1>5. CASE PowerLooks \/ PowerFiles \/ PowerMarks \/ PowerDecides \/ PowerRecreates \/ EditRecreates \/ PowerUndoes
    <2>1. ASSUME ~PowerEnds
          PROVE  power'.done = power.done /\ (power'.pc \in {"look", "files", "mark"} => power.pc \in {"look", "files", "mark"})
      BY <1>0, <1>5, <2>1 DEF Job, PowerLooks, PowerFiles, PowerMarks, PowerDecides, PowerRecreates, EditRecreates,
         PowerUndoes
    <2> QED
      BY <1>2, <2>1 DEF Takes
  <1> QED
    BY <1>2, <1>3, <1>4, <1>5 DEF PowerStep


LEMMA DoneSteps == ASSUME StagedInv, DoneInv, [StagedNext]_stagedVars PROVE DoneInv'
  <1>0. /\ sweep \in Job /\ InHand(sweep) /\ power \in Job /\ InHand(power)
        /\ sweep' \in Job /\ power' \in Job /\ RowsMove
        /\ Resting.done = <<>> /\ Resting.pc = "idle"
    BY Rested, StagedSteps, HowRowsMove DEF StagedInv, SweepHas, PowerHas
  <1>1. PICK s, p, news, newp : s = sweep /\ p = power /\ news = sweep' /\ newp = power'
    OBVIOUS
  <1>2. /\ s \in Job /\ p \in Job /\ news \in Job /\ newp \in Job /\ InHand(s) /\ InHand(p) /\ Took(s) /\ Took(p)
        /\ \A i \in DOMAIN s.done, j \in DOMAIN p.done : s.done[i] # p.done[j]
    BY <1>0, <1>1 DEF DoneInv, TookApart
  <1>3. /\ Took(news)' /\ Took(newp)'
        /\ \A i \in DOMAIN news.done, j \in DOMAIN newp.done : news.done[i] # newp.done[j]
        /\ news.pc \in {"list", "files"} => news.done = <<>>
        /\ newp.pc \in {"look", "files", "mark"} => newp.done = <<>>
    <2>1. CASE SweepStep
      <3>1. newp.done = p.done /\ newp.pc = p.pc
        BY <1>0, <1>1, <2>1, OthersMove, UntouchedIs DEF Untouched
      <3>2. /\ Takes(s, news)
            /\ news.pc \in {"list", "files"} => (news.done = <<>> \/ (news.done = s.done /\ s.pc \in {"list", "files"}))
        BY <1>1, <2>1, SweepTakes DEF Takes, TakesOne
      <3>3. Took(news)' /\ Took(newp)'
        BY <1>0, <1>2, <3>1, <3>2, TookIsKept DEF Takes
      <3>4. \A i \in DOMAIN news.done, j \in DOMAIN p.done : news.done[i] # p.done[j]
        BY <1>2, <3>2, ApartIsKept
      <3> QED
        BY <1>1, <3>1, <3>2, <3>3, <3>4 DEF DoneInv
    <2>2. CASE PowerStep
      <3>1. news.done = s.done /\ news.pc = s.pc
        BY <1>0, <1>1, <2>2, OthersMove, UntouchedIs DEF Untouched
      <3>2. /\ Takes(p, newp)
            /\ newp.pc \in {"look", "files", "mark"} => (newp.done = <<>> \/ (newp.done = p.done /\ p.pc \in {"look", "files", "mark"}))
        BY <1>1, <2>2, PowerTakes DEF Takes, TakesOne
      <3>3. Took(news)' /\ Took(newp)'
        BY <1>0, <1>2, <3>1, <3>2, TookIsKept DEF Takes
      <3>4. \A i \in DOMAIN newp.done, j \in DOMAIN s.done : newp.done[i] # s.done[j]
        BY <1>2, <3>2, ApartIsKept
      <3> QED
        BY <1>1, <3>1, <3>2, <3>3, <3>4 DEF DoneInv
    <2>3. CASE UNCHANGED <<sweep, power>>
      <3>1. news = s /\ newp = p
        BY <1>1, <2>3
      <3>2. Takes(s, news) /\ Takes(p, newp)
        BY <3>1 DEF Takes
      <3>3. Took(news)' /\ Took(newp)'
        BY <1>0, <1>2, <3>2, TookIsKept
      <3> QED
        BY <1>1, <1>2, <3>1, <3>3 DEF DoneInv
    <2>4. CASE sweep' = Resting /\ power' = Resting
      BY <1>0, <1>1, <2>4 DEF Took
    <2> QED
      BY <2>1, <2>2, <2>3, <2>4, OthersMove DEF stagedVars
  <1>4. Took(sweep)' /\ Took(power)' /\ TookApart'
    BY <1>1, <1>3 DEF Took, TookApart
  <1> QED
    BY <1>1, <1>3, <1>4 DEF DoneInv

\* What a job that nobody has disturbed knows: the file it puts back is the one it found, and so is
\* the field, or it has applied one field, which is live and says what was before.
KnowsFile(job) ==
  IF job.content = {} \/ job.pc = "files" THEN live.file = job.was.file ELSE job.snap = job.was.file
AppliedOne(job, x) ==
  /\ job.done = <<x>> /\ live.field = x /\ rows[x].status = "applied" /\ rows[x].prev = job.was.field
  /\ \A r \in job.todo : rows[r].base # x
KnowsField(job) ==
  \/ job.done = <<>> /\ live.field = job.was.field
  \/ \E x \in RowIds : AppliedOne(job, x)
Knows(job) == KnowsFile(job) /\ KnowsField(job)

\* The sweep marks its files last, and the files that a start marks meanwhile are not among them.
SweepKnows ==
  (sweep.clean /\ sweep.pc \in {"files", "fields", "recreate", "undo"}) =>
    Knows(sweep) /\ \A r \in sweep.content : rows[r].batch = sweep.batch /\ rows[r].status # "applied"
SweepApart ==
  (power.pc = "mark" /\ sweep.clean /\ sweep.pc # "idle") => \A r \in power.content : rows[r].batch # sweep.batch
PowerKnows ==
  (power.clean /\ power.pc \in {"files", "mark", "fields", "recreate", "undo"}) => Knows(power)
KnowsInv == FreshInv /\ DoneInv /\ SweepKnows /\ SweepApart /\ PowerKnows

\* A job knows its field still when it goes on with no more to do, nobody having written.
LEMMA FieldIsKnown ==
  ASSUME NEW job, NEW new, KnowsField(job), live'.field = live.field, RowIds \subseteq RowIds', OfKind(job.todo, "field"),
         \A r \in RowIds : rows'[r].base = rows[r].base,
         \A x \in RowIds : (job.done = <<x>> /\ rows[x].status = "applied")
                             => rows'[x].status = "applied" /\ rows'[x].prev = rows[x].prev,
         new.done = job.done, new.was = job.was, new.done = <<>> \/ new.todo \subseteq job.todo
  PROVE  KnowsField(new)'
  <1>1. CASE job.done = <<>> /\ live.field = job.was.field
    BY <1>1 DEF KnowsField
  <1>2. ASSUME NEW x \in RowIds, AppliedOne(job, x) PROVE KnowsField(new)'
    <2>1. job.done = <<x>> /\ job.done # <<>> /\ rows[x].status = "applied" /\ rows[x].prev = job.was.field /\ live.field = x
      BY <1>2 DEF AppliedOne
    <2>2. rows'[x].status = "applied" /\ rows'[x].prev = job.was.field
      BY <2>1
    <2>3. \A r \in new.todo : rows'[r].base # x
      BY <1>2, <2>1 DEF AppliedOne, OfKind
    <2>4. AppliedOne(new, x)' /\ x \in RowIds'
      BY <2>1, <2>2, <2>3 DEF AppliedOne
    <2> QED
      BY <2>4 DEF KnowsField
  <1> QED
    BY <1>1, <1>2 DEF KnowsField

\* The first field it applies it knows; a second does not match once one is live.
LEMMA FieldBecomesKnown ==
  ASSUME StagedInv, FreshInv, NEW job \in Job, NEW new, KnowsField(job), OfKind(job.todo, "field"),
         NEW r \in job.todo, StillMatches(r), ApplyField(r),
         new.done = Append(job.done, r), new.todo = job.todo \ {r}, new.was = job.was
  PROVE  KnowsField(new)'
  <1>0. rows \in Seq(StagedRow) /\ live \in Pair /\ r \in RowIds /\ rows[r].status = "staged" /\ rows[r].base = live.field /\ Bounded
    BY DEF StagedInv, Tables, OfKind, StillMatches, FreshInv
  <1>1. job.done = <<>> /\ live.field = job.was.field
    <2>1. ASSUME NEW x \in RowIds, AppliedOne(job, x) PROVE FALSE
      BY <1>0, <2>1 DEF AppliedOne
    <2> QED
      BY <2>1 DEF KnowsField
  <1>2. /\ RowIds' = RowIds /\ live'.field = r /\ rows'[r].status = "applied" /\ rows'[r].prev = live.field
        /\ \A q \in RowIds : rows'[q].base = rows[q].base
    BY <1>0, FieldApplied
  <1>3. \A q \in RowIds : rows[q].base # r
    <2>1. \A q \in RowIds : Past(rows[q].base)
      BY DEF FreshInv
    <2> QED
      BY <1>0, <2>1, PastIsNotStaged
  <1>4. \A q \in new.todo : rows'[q].base # r
    BY <1>2, <1>3 DEF OfKind
  <1>5. new.done = <<r>>
    BY <1>1
  <1>6. AppliedOne(new, r)'
    BY <1>1, <1>2, <1>4, <1>5 DEF AppliedOne
  <1> QED
    BY <1>0, <1>2, <1>6 DEF KnowsField

\* An undo no part of which fails puts back what the job found.
LEMMA UndoRestores ==
  ASSUME StagedInv, NEW job \in Job, InHand(job), Knows(job), job.pc = "undo",
         NEW marked, NEW lost, UndoApply(job, marked, lost), failures' = failures
  PROVE  /\ live' = job.was
         /\ \A r \in Range(job.done) : rows'[r].status = "rolled_back"
         /\ \A r \in RowIds : rows'[r].status = "applied" => (rows[r].status = "applied" /\ r \notin marked)
  <1>0. rows \in Seq(StagedRow) /\ live \in Pair /\ failures \in Nat /\ job.was \in Pair /\ \A r \in RowIds : rows[r] \in StagedRow
    BY DEF StagedInv, Tables, Job, RowIds
  <1>1. lost = {}
    BY <1>0 DEF UndoApply, CallFails
  <1>2. live' = [file |-> FileBefore(job), field |-> FieldBefore(job.done)]
    BY <1>1 DEF UndoApply
  <1>3. FileBefore(job) = job.was.file
    BY DEF FileBefore, Knows, KnowsFile
  <1>4. FieldBefore(job.done) = job.was.field
    <2>1. CASE job.done = <<>> /\ live.field = job.was.field
      BY <2>1 DEF FieldBefore, Revertible
    <2>2. ASSUME NEW x \in RowIds, AppliedOne(job, x) PROVE FieldBefore(job.done) = job.was.field
      <3>1. job.done = <<x>> /\ rows[x].status = "applied" /\ rows[x].prev = job.was.field
        BY <2>2 DEF AppliedOne
      <3>2. Revertible(job.done) = {1} /\ job.done[1] = x
        BY <3>1 DEF Revertible
      <3>3. IsFiniteSet({1})
        BY FS_Singleton
      <3>4. {1} \subseteq Nat /\ {1} # {}
        OBVIOUS
      <3>5. Max({1}) \in {1}
        BY <3>3, <3>4, HasExtremes
      <3> QED
        BY <3>1, <3>2, <3>5 DEF FieldBefore
    <2> QED
      BY <2>1, <2>2 DEF Knows, KnowsField
  <1>5. live' = job.was
    BY <1>0, <1>2, <1>3, <1>4 DEF Pair
  <1>6. \A r \in RowIds :
          rows'[r].status = IF r \in Range(job.done) /\ rows[r].status = "applied" THEN "rolled_back"
                            ELSE IF r \in marked /\ rows[r].status = "applied" THEN "staged" ELSE rows[r].status
    BY <1>0, <1>1 DEF UndoApply, StagedRow
  <1>7. \A r \in Range(job.done) : r \in RowIds /\ rows[r].status = "applied"
    <2>1. CASE job.done = <<>>
      BY <2>1 DEF Range
    <2>2. ASSUME NEW x \in RowIds, AppliedOne(job, x) PROVE \A r \in Range(job.done) : r \in RowIds /\ rows[r].status = "applied"
      BY <2>2 DEF AppliedOne, Range
    <2> QED
      BY <2>1, <2>2 DEF Knows, KnowsField
  <1> QED
    BY <1>5, <1>6, <1>7


\* A step that writes neither rows nor configuration leaves the job what it knows.
LEMMA KnownQuietly ==
  ASSUME NEW job \in Job, NEW new \in Job, Knows(job), UNCHANGED <<rows, live>>, OfKind(job.todo, "field"),
         new.content = job.content, new.snap = job.snap, new.was = job.was, new.done = job.done,
         new.done = <<>> \/ new.todo \subseteq job.todo,
         \/ job.pc # "files" /\ new.pc # "files"
         \/ job.pc = "files" /\ job.content = {}
  PROVE  Knows(new)'
  <1>1. KnowsField(new)'
    <2>1. RowIds' = RowIds
      BY DEF RowIds
    <2> QED
      BY <2>1, FieldIsKnown DEF Knows
  <1>2. KnowsFile(new)'
    BY DEF Knows, KnowsFile
  <1> QED
    BY <1>1, <1>2 DEF Knows

\* Nor does it forget when it writes its files.
LEMMA KnownWithFiles ==
  ASSUME NEW job \in Job, NEW new \in Job, Knows(job), UNCHANGED rows, live'.field = live.field, OfKind(job.todo, "field"),
         new.content = job.content, new.was = job.was, new.done = job.done, new.todo = job.todo,
         job.pc = "files", new.pc # "files", job.content # {}, new.snap = live.file
  PROVE  Knows(new)'
  <1>1. KnowsField(new)'
    <2>1. RowIds' = RowIds
      BY DEF RowIds
    <2> QED
      BY <2>1, FieldIsKnown DEF Knows
  <1>2. KnowsFile(new)'
    BY DEF Knows, KnowsFile
  <1> QED
    BY <1>1, <1>2 DEF Knows

\* And when it applies a field.
LEMMA KnownWithField ==
  ASSUME StagedInv, FreshInv, NEW job \in Job, NEW new \in Job, Knows(job), OfKind(job.todo, "field"),
         NEW r \in job.todo, StillMatches(r), ApplyField(r), job.pc = "fields", new.pc = "fields",
         new.content = job.content, new.snap = job.snap, new.was = job.was,
         new.done = Append(job.done, r), new.todo = job.todo \ {r}
  PROVE  Knows(new)'
  <1>1. KnowsField(new)'
    BY FieldBecomesKnown DEF Knows
  <1>2. live'.file = live.file
    <2>1. rows \in Seq(StagedRow) /\ live \in Pair /\ r \in RowIds
      BY DEF StagedInv, Tables, OfKind
    <2> QED
      BY <2>1, FieldApplied
  <1>3. KnowsFile(new)'
    BY <1>2 DEF Knows, KnowsFile
  <1> QED
    BY <1>1, <1>3 DEF Knows

\* What the sweep has listed of files is of its batch and not applied.
ListIsOpen(job) == \A r \in job.content : rows[r].batch = job.batch /\ rows[r].status # "applied"

LEMMA SweepLearns ==
  ASSUME StagedInv, KnowsInv, SweepStep, sweep'.clean, sweep'.pc \in {"files", "fields", "recreate", "undo"}
  PROVE  Knows(sweep)' /\ ListIsOpen(sweep)'
  <1>0. /\ rows \in Seq(StagedRow) /\ live \in Pair /\ sweep \in Job /\ SweepHas(sweep) /\ sweep' \in Job /\ FreshInv
        /\ Resting.pc = "idle" /\ OfKind(sweep.content, "file")
    <2>1. StagedNext
      BY DEF SweepStep, StagedNext
    <2>2. sweep' \in Job
      BY <2>1, StagedSteps DEF StagedInv
    <2> QED
      BY <2>2, Rested DEF StagedInv, Tables, SweepHas, InHand, KnowsInv
  <1>1. PICK s, news : s = sweep /\ news = sweep' /\ s \in Job /\ news \in Job
    BY <1>0
  <1>2. (s.clean /\ s.pc \in {"files", "fields", "recreate", "undo"}) => Knows(s) /\ ListIsOpen(s)
    BY <1>1 DEF KnowsInv, SweepKnows, ListIsOpen
  <1>3. s.pc # "mark" => OfKind(s.todo, "field")
    BY <1>0, <1>1 DEF SweepHas
  <1>4. Knows(news)' /\ ListIsOpen(news)'
    <2>1. CASE SweepLists
      <3>1. /\ s.pc = "list" /\ news.pc = "files" /\ news.content = Waiting("file", s.batch) /\ news.was = live /\ news.batch = s.batch
            /\ news.done = s.done /\ UNCHANGED <<rows, live>>
        BY <1>0, <1>1, <2>1 DEF SweepLists, SweepEnds, Job
      <3>2. news.done = <<>>
        BY <1>1, <3>1 DEF KnowsInv, DoneInv
      <3>3. Knows(news)'
        BY <3>1, <3>2 DEF Knows, KnowsFile, KnowsField
      <3>4. ListIsOpen(news)'
        BY <3>1 DEF ListIsOpen, Waiting
      <3> QED
        BY <3>3, <3>4
    <2>2. CASE SweepFiles
      <3>1. /\ s.pc = "files" /\ news.pc = "fields" /\ s.clean /\ news.was = s.was /\ news.batch = s.batch /\ news.content = s.content
            /\ news.done = s.done /\ news.todo = s.todo /\ UNCHANGED rows
            /\ \/ s.content = {} /\ UNCHANGED live /\ news.snap = s.snap
               \/ s.content # {} /\ live'.field = live.field /\ news.snap = live.file
        BY <1>0, <1>1, <2>2 DEF SweepFiles, SweepEnds, Job, Pair
      <3>2. ListIsOpen(news)'
        BY <1>2, <3>1 DEF ListIsOpen
      <3>3. Knows(news)'
        BY <1>1, <1>2, <1>3, <3>1, KnownQuietly, KnownWithFiles
      <3> QED
        BY <3>2, <3>3
    <2>3. CASE SweepApplies
      <3>1. PICK r : r = Min(sweep.todo)
        OBVIOUS
      <3>2. CASE UNCHANGED <<live, rows>> /\ sweep' = [sweep EXCEPT !.pc = "undo"]
        <4>1. /\ s.pc = "fields" /\ news.pc = "undo" /\ s.clean /\ news.was = s.was /\ news.batch = s.batch /\ news.content = s.content
              /\ news.done = s.done /\ news.todo = s.todo /\ news.snap = s.snap
          BY <1>0, <1>1, <2>3, <3>2 DEF SweepApplies, Job
        <4>2. ListIsOpen(news)'
          BY <1>2, <3>2, <4>1 DEF ListIsOpen
        <4> QED
          BY <1>1, <1>2, <1>3, <3>2, <4>1, <4>2, KnownQuietly
      <3>3. CASE StillMatches(r) /\ ApplyField(r) /\ sweep' = [sweep EXCEPT !.todo = @ \ {r}, !.done = Append(@, r)]
        <4>1. /\ s.pc = "fields" /\ news.pc = "fields" /\ s.clean /\ news.was = s.was /\ news.batch = s.batch /\ news.content = s.content
              /\ news.done = Append(s.done, r) /\ news.todo = s.todo \ {r} /\ news.snap = s.snap /\ s.todo # {}
          BY <1>0, <1>1, <2>3, <3>3 DEF SweepApplies, Job
        <4>2. r \in s.todo /\ r \in RowIds /\ rows[r].kind = "field"
          BY <1>0, <1>1, <1>3, <3>1, <4>1, ListEnds DEF OfKind
        <4>3. ListIsOpen(news)'
          <5>1. \A q \in RowIds : rows'[q].batch = rows[q].batch /\ (q # r => rows'[q].status = rows[q].status)
            BY <1>0, <3>3, <4>2, FieldApplied
          <5>2. \A q \in s.content : q \in RowIds /\ q # r
            BY <1>0, <1>1, <4>2 DEF OfKind
          <5> QED
            BY <1>2, <4>1, <5>1, <5>2 DEF ListIsOpen
        <4>4. Knows(news)'
          BY <1>0, <1>1, <1>2, <1>3, <3>3, <4>1, <4>2, KnownWithField
        <4> QED
          BY <4>3, <4>4
      <3> QED
        BY <2>3, <3>1, <3>2, <3>3 DEF SweepApplies
    <2>4. CASE SweepPublishes \/ SweepRecreates
      <3>1. /\ s.pc \in {"fields", "recreate"} /\ news.pc \in {"recreate", "undo"} /\ s.clean /\ news.was = s.was /\ news.batch = s.batch
            /\ news.content = s.content /\ news.done = s.done /\ news.todo = s.todo /\ news.snap = s.snap /\ UNCHANGED <<rows, live>>
        BY <1>0, <1>1, <2>4 DEF SweepPublishes, SweepRecreates, Job
      <3>2. ListIsOpen(news)'
        BY <1>2, <3>1 DEF ListIsOpen
      <3> QED
        BY <1>1, <1>2, <1>3, <3>1, <3>2, KnownQuietly
    <2>5. CASE (\E b \in BatchIds : SweepReads(b)) \/ SweepUndoes \/ SweepMarks \/ SweepCloses
      <3>1. sweep'.pc \notin {"files", "fields", "recreate", "undo"}
        BY <1>0, <2>5 DEF SweepReads, SweepUndoes, SweepMarks, SweepCloses, SweepEnds, Resting, Job
      <3> QED
        BY <3>1
    <2> QED
      BY <2>1, <2>2, <2>3, <2>4, <2>5 DEF SweepStep
  <1> QED
    BY <1>1, <1>4 DEF Knows, KnowsFile, KnowsField, AppliedOne, ListIsOpen


LEMMA PowerLearns ==
  ASSUME StagedInv, KnowsInv, PowerStep, power'.clean, power'.pc \in {"files", "mark", "fields", "recreate", "undo"}
  PROVE  Knows(power)'
  <1>0. /\ rows \in Seq(StagedRow) /\ live \in Pair /\ power \in Job /\ PowerHas(power) /\ power' \in Job /\ FreshInv
        /\ Resting.pc = "idle"
    <2>1. StagedNext
      BY DEF PowerStep, StagedNext
    <2>2. power' \in Job
      BY <2>1, StagedSteps DEF StagedInv
    <2> QED
      BY <2>2, Rested DEF StagedInv, Tables, KnowsInv
  <1>1. PICK p, newp : p = power /\ newp = power' /\ p \in Job /\ newp \in Job
    BY <1>0
  <1>2. (p.clean /\ p.pc \in {"files", "mark", "fields", "recreate", "undo"}) => Knows(p)
    BY <1>1 DEF KnowsInv, PowerKnows
  <1>3. OfKind(p.todo, "field") /\ (p.pc \in {"look", "files", "mark"} => p.done = <<>>)
    BY <1>0, <1>1 DEF PowerHas, KnowsInv, DoneInv
  <1>4. Knows(newp)'
    <2>1. CASE PowerLooks
      <3>1. p.pc = "look" /\ newp.pc = "files" /\ newp.was = live /\ newp.done = p.done /\ UNCHANGED <<rows, live>>
        BY <1>0, <1>1, <2>1 DEF PowerLooks, Job
      <3> QED
        BY <1>3, <3>1 DEF Knows, KnowsFile, KnowsField
    <2>2. CASE PowerFiles
      <3>1. /\ p.pc = "files" /\ newp.pc \in {"fields", "mark"} /\ p.clean /\ newp.was = p.was /\ newp.content = p.content
            /\ newp.done = p.done /\ UNCHANGED rows
            /\ \/ p.content = {} /\ UNCHANGED live /\ newp.snap = p.snap
               \/ p.content # {} /\ live'.field = live.field /\ newp.snap = live.file /\ newp.todo = p.todo
        BY <1>0, <1>1, <2>2 DEF PowerFiles, PowerEnds, Job, Pair
      <3>2. newp.done = <<>>
        BY <1>3, <3>1
      <3> QED
        BY <1>1, <1>2, <1>3, <3>1, <3>2, KnownQuietly, KnownWithFiles
    <2>3. CASE PowerMarks
      <3>1. /\ p.pc = "mark" /\ newp.pc = "fields" /\ p.clean /\ newp.was = p.was /\ newp.content = p.content
            /\ newp.done = p.done /\ UNCHANGED live /\ newp.snap = p.snap
        BY <1>0, <1>1, <2>3 DEF PowerMarks, PowerEnds, Job
      <3>2. newp.done = <<>>
        BY <1>3, <3>1
      <3> QED
        BY <1>2, <3>1, <3>2 DEF Knows, KnowsFile, KnowsField, AppliedOne
    <2>4. CASE PowerApplies
      <3>1. PICK r : r = Max(power.todo) /\ StillMatches(r) /\ ApplyField(r) /\ power' = [power EXCEPT !.todo = @ \ {r}, !.done = Append(@, r)]
        BY <1>0, <2>4 DEF PowerApplies, PowerEnds
      <3>2. /\ p.pc = "fields" /\ newp.pc = "fields" /\ p.clean /\ newp.was = p.was /\ newp.content = p.content
            /\ newp.done = Append(p.done, r) /\ newp.todo = p.todo \ {r} /\ newp.snap = p.snap /\ p.todo # {}
        BY <1>0, <1>1, <2>4, <3>1 DEF PowerApplies, Job
      <3>3. r \in p.todo
        BY <1>0, <1>1, <1>3, <3>1, <3>2, ListEnds
      <3> QED
        BY <1>0, <1>1, <1>2, <1>3, <3>1, <3>2, <3>3, KnownWithField
    <2>5. CASE PowerDecides \/ PowerRecreates
      <3>1. /\ p.pc \in {"fields", "recreate"} /\ newp.pc \in {"recreate", "undo"} /\ p.clean /\ newp.was = p.was
            /\ newp.content = p.content /\ newp.done = p.done /\ newp.todo = p.todo /\ newp.snap = p.snap /\ UNCHANGED <<rows, live>>
        BY <1>0, <1>1, <2>5 DEF PowerDecides, PowerRecreates, PowerEnds, Job
      <3> QED
        BY <1>1, <1>2, <1>3, <3>1, KnownQuietly
    <2>6. CASE PowerBegins \/ EditSaves \/ EditRecreates \/ PowerUndoes \/ PowerSaves \/ PowerFinishes
      <3>1. power'.pc \in {"look", "recreate edited", "idle", "finish"}
        BY <1>0, <2>6 DEF PowerBegins, EditSaves, EditRecreates, PowerUndoes, PowerSaves, PowerFinishes, PowerEnds,
           Resting
      <3> QED
        BY <3>1
    <2> QED
      BY <2>1, <2>2, <2>3, <2>4, <2>5, <2>6 DEF PowerStep
  <1> QED
    BY <1>1, <1>4 DEF Knows, KnowsFile, KnowsField, AppliedOne

\* What nobody else takes back.
LEMMA KnownThroughOthers ==
  ASSUME RowsMove, NEW job \in Job, Knows(job), UNCHANGED live, OfKind(job.todo, "field"), OfKind(Range(job.done), "field"),
         ~(SweepUndoes /\ \E x \in Range(job.done) : x \in Range(sweep.done)),
         ~(PowerUndoes /\ \E x \in Range(job.done) : x \in Range(power.done))
  PROVE  Knows(job)'
  <1>1. \A x \in RowIds : (job.done = <<x>> /\ rows[x].status = "applied")
                            => rows'[x].status = "applied" /\ rows'[x].prev = rows[x].prev
    <2>1. SUFFICES ASSUME NEW x \in RowIds, job.done = <<x>>, rows[x].status = "applied"
                   PROVE  rows'[x].status = "applied" /\ rows'[x].prev = rows[x].prev
      OBVIOUS
    <2>2. x \in Range(job.done)
      BY <2>1 DEF Range
    <2>3. rows[x].kind = "field"
      BY <2>2 DEF OfKind
    <2> QED
      BY <2>1, <2>2, <2>3 DEF RowsMove
  <1>2. KnowsField(job)'
    BY <1>1, FieldIsKnown DEF Knows, RowsMove
  <1>3. KnowsFile(job)'
    BY DEF Knows, KnowsFile
  <1> QED
    BY <1>2, <1>3 DEF Knows

LEMMA TakenAre ==
  ASSUME NEW job \in Job, InHand(job)
  PROVE  OfKind(Range(job.done), "field")
  BY DEF InHand, OfKind, Range


LEMMA NobodyElseTakesBack ==
  ASSUME StagedInv, DoneInv
  PROVE  /\ OfKind(Range(sweep.done), "field") /\ OfKind(Range(power.done), "field")
         /\ ~\E x \in Range(sweep.done) : x \in Range(power.done)
  <1>1. OfKind(Range(sweep.done), "field") /\ OfKind(Range(power.done), "field")
    BY TakenAre DEF StagedInv, SweepHas, PowerHas
  <1>2. ~\E x \in Range(sweep.done) : x \in Range(power.done)
    BY DEF DoneInv, TookApart, Range
  <1> QED
    BY <1>1, <1>2

\* A job that is not at work is disturbed, or finds what it left.
LEMMA Undisturbed ==
  ASSUME NEW job \in Job, NEW new, new = Disturbed(job), new.clean
  PROVE  new.pc = "idle"
  BY DEF Disturbed, Job

LEMMA SweepRemembers ==
  ASSUME StagedInv, KnowsInv, [StagedNext]_stagedVars, ~SweepStep
  PROVE  SweepKnows'
  <1>0. sweep \in Job /\ SweepHas(sweep) /\ RowsMove /\ DoneInv /\ rows \in Seq(StagedRow) /\ OfKind(sweep.content, "file")
    BY HowRowsMove DEF StagedInv, Tables, SweepHas, InHand, KnowsInv
  <1>1. PICK s : s = sweep /\ s \in Job /\ s.done = sweep.done
    BY <1>0
  <1>2. CASE sweep' = Disturbed(sweep) \/ sweep' = Resting
    <2>1. sweep'.clean => sweep'.pc = "idle"
      BY <1>0, <1>2, Rested, Undisturbed
    <2> QED
      BY <2>1 DEF SweepKnows
  <1>3. CASE UNCHANGED <<sweep, live>>
    <2>1. SUFFICES ASSUME s.clean, s.pc \in {"files", "fields", "recreate", "undo"}
                   PROVE  Knows(s)' /\ ListIsOpen(s)'
      BY <1>1, <1>3 DEF SweepKnows, ListIsOpen, Knows, KnowsFile, KnowsField, AppliedOne
    <2>2. Knows(s) /\ ListIsOpen(s)
      BY <1>1, <2>1 DEF KnowsInv, SweepKnows, ListIsOpen
    <2>3. OfKind(s.todo, "field") /\ OfKind(Range(s.done), "field")
      BY <1>0, <1>1, <2>1, NobodyElseTakesBack DEF SweepHas
    <2>4. Knows(s)'
      <3>1. ~SweepUndoes
        BY DEF SweepStep
      <3>2. ~\E x \in Range(s.done) : x \in Range(power.done)
        BY <1>0, <1>1, NobodyElseTakesBack
      <3> QED
        BY <1>0, <1>1, <1>3, <2>2, <2>3, <3>1, <3>2, KnownThroughOthers
    <2>5. ListIsOpen(s)'
      <3>1. SUFFICES ASSUME NEW r \in s.content PROVE rows'[r].batch = s.batch /\ rows'[r].status # "applied"
        BY DEF ListIsOpen
      <3>2. r \in RowIds /\ rows[r].kind = "file" /\ rows[r].batch = s.batch /\ rows[r].status # "applied"
        BY <1>0, <1>1, <2>2 DEF OfKind, ListIsOpen
      <3>3. ~(PowerMarks /\ r \in power.content)
        BY <1>1, <2>1, <3>2 DEF KnowsInv, SweepApart, PowerMarks
      <3>4. ~SweepMarks
        BY DEF SweepStep
      <3> QED
        BY <1>0, <3>2, <3>3, <3>4 DEF RowsMove
    <2> QED
      BY <2>4, <2>5
  <1> QED
    BY <1>2, <1>3, OthersMove DEF Untouched, stagedVars

LEMMA PowerRemembers ==
  ASSUME StagedInv, KnowsInv, [StagedNext]_stagedVars, ~PowerStep
  PROVE  PowerKnows'
  <1>0. power \in Job /\ PowerHas(power) /\ RowsMove /\ DoneInv
    BY HowRowsMove DEF StagedInv, KnowsInv
  <1>1. PICK p : p = power /\ p \in Job /\ p.done = power.done
    BY <1>0
  <1>2. CASE power' = Disturbed(power) \/ power' = Resting
    <2>1. power'.clean => power'.pc = "idle"
      BY <1>0, <1>2, Rested, Undisturbed
    <2> QED
      BY <2>1 DEF PowerKnows
  <1>3. CASE UNCHANGED <<power, live>>
    <2>1. SUFFICES ASSUME p.clean, p.pc \in {"files", "mark", "fields", "recreate", "undo"}
                   PROVE  Knows(p)'
      BY <1>1, <1>3 DEF PowerKnows, Knows, KnowsFile, KnowsField, AppliedOne
    <2>2. Knows(p)
      BY <1>1, <2>1 DEF KnowsInv, PowerKnows
    <2>3. OfKind(p.todo, "field") /\ OfKind(Range(p.done), "field")
      BY <1>0, <1>1, NobodyElseTakesBack DEF PowerHas
    <2>4. ~PowerUndoes
      BY DEF PowerStep
    <2>5. ~\E x \in Range(p.done) : x \in Range(sweep.done)
      BY <1>0, <1>1, NobodyElseTakesBack
    <2> QED
      BY <1>0, <1>1, <1>3, <2>2, <2>3, <2>4, <2>5, KnownThroughOthers
  <1> QED
    BY <1>2, <1>3, OthersMove DEF Untouched, stagedVars

\* A start lists files of batches that wait for a restart, a sweep reads one that waits for a time.
LEMMA ApartSteps ==
  ASSUME StagedInv, WindowInv, KnowsInv, [StagedNext]_stagedVars
  PROVE  SweepApart'
  <1>0. sweep \in Job /\ power \in Job /\ RowsMove /\ OfKind(power.content, "file")
    BY HowRowsMove DEF StagedInv, PowerHas, InHand
  <1>1. SUFFICES ASSUME power'.pc = "mark", sweep'.clean, sweep'.pc # "idle", NEW r \in power'.content
                 PROVE  rows'[r].batch # sweep'.batch
    BY DEF SweepApart
  <1>2. ~PowerEnds
    BY <1>1, Rested DEF PowerEnds
  <1>3. CASE PowerStep
    <2>1. CASE PowerFiles
      <3>1. sweep' = Disturbed(sweep)
        BY <1>0, <1>1, <1>2, <2>1 DEF PowerFiles, Job
      <3> QED
        BY <1>0, <1>1, <3>1, Undisturbed
    <2>2. CASE ~PowerFiles
      <3>1. power'.pc # "mark"
        <4>1. CASE PowerBegins \/ EditSaves \/ PowerSaves \/ PowerFinishes
          <5>1. power'.pc \in {"look", "recreate edited", "finish", "idle"}
            BY <1>0, <4>1, Rested DEF PowerBegins, EditSaves, PowerSaves, PowerFinishes, PowerEnds, Resting
          <5> QED
            BY <5>1
        <4>2. CASE PowerLooks \/ PowerMarks \/ PowerApplies \/ PowerDecides \/ PowerRecreates
          <5>1. power'.pc \in {"files", "fields", "recreate", "save", "undo"}
            BY <1>0, <1>2, <4>2 DEF PowerLooks, PowerMarks, PowerApplies, PowerDecides, PowerRecreates, Job
          <5> QED
            BY <5>1
        <4>3. CASE EditRecreates \/ PowerUndoes
          BY <1>2, <4>3 DEF EditRecreates, PowerUndoes
        <4> QED
          BY <1>3, <2>2, <4>1, <4>2, <4>3 DEF PowerStep
      <3> QED
        BY <1>1, <3>1
    <2> QED
      BY <2>1, <2>2
  <1>4. CASE SweepStep
    <2>1. power.pc = "mark" /\ r \in power.content
      BY <1>0, <1>1, <1>4, OthersMove, UntouchedIs DEF Untouched
    <2>2. r \in RowIds /\ rows'[r].batch = rows[r].batch
      BY <1>0, <2>1 DEF OfKind, RowsMove
    <2>3. ASSUME NEW b \in BatchIds, SweepReads(b) PROVE rows'[r].batch # sweep'.batch
      <3>1. sweep'.batch = b /\ batches[b].window = "timed"
        BY <2>3 DEF SweepReads, Resting
      <3>2. batches[rows[r].batch].window = "next_restart"
        BY <2>1 DEF WindowInv, InWindow, UnderWay
      <3> QED
        BY <2>2, <3>1, <3>2
    <2>4. ASSUME ~\E b \in BatchIds : SweepReads(b) PROVE rows'[r].batch # sweep'.batch
      <3>1. ~SweepEnds
        BY <1>1, Rested DEF SweepEnds
      <3>2. sweep'.batch = sweep.batch /\ sweep'.clean = sweep.clean /\ sweep.pc # "idle"
        BY <1>0, <1>4, <2>4, <3>1 DEF SweepStep, SweepLists, SweepFiles, SweepApplies, SweepPublishes,
           SweepRecreates, SweepUndoes,
           SweepMarks, SweepCloses, Job
      <3> QED
        BY <1>1, <2>1, <2>2, <3>2 DEF KnowsInv, SweepApart
    <2> QED
      BY <2>3, <2>4
  <1>5. CASE UNCHANGED <<sweep, power>>
    <2>1. r \in power.content /\ r \in RowIds /\ rows'[r].batch = rows[r].batch
      BY <1>0, <1>1, <1>5 DEF OfKind, RowsMove
    <2> QED
      BY <1>1, <1>5, <2>1 DEF KnowsInv, SweepApart
  <1>6. CASE sweep' = Resting
    BY <1>1, <1>6, Rested
  <1> QED
    BY <1>3, <1>4, <1>5, <1>6, OthersMove DEF stagedVars

LEMMA KnowsStarts == StagedInit => KnowsInv
  <1> SUFFICES ASSUME StagedInit PROVE KnowsInv
    OBVIOUS
  <1>1. /\ rows = <<>> /\ live = [file |-> 0, field |-> 0] /\ sweep = Resting /\ power = Resting /\ edits = 0
        /\ staging = [k \in Kinds |-> NotStaging] /\ RowIds = {} /\ Len(rows) = 0
    BY DEF StagedInit, RowIds
  <1>2. Busy("file") = 0 /\ Busy("field") = 0
    BY <1>1 DEF Busy, NotStaging, Kinds
  <1>3. FreshInv
    BY <1>1, <1>2, StagedAssumption DEF FreshInv, Bounded, Past, NotStaging
  <1>4. DoneInv
    BY <1>1, Rested DEF DoneInv, Took, TookApart
  <1> QED
    BY <1>1, <1>3, <1>4, Rested DEF KnowsInv, SweepKnows, SweepApart, PowerKnows

LEMMA KnowsSteps == StagedInv /\ WindowInv /\ KnowsInv /\ [StagedNext]_stagedVars => KnowsInv'
  <1> SUFFICES ASSUME StagedInv, WindowInv, KnowsInv, [StagedNext]_stagedVars PROVE KnowsInv'
    OBVIOUS
  <1>1. FreshInv' /\ DoneInv'
    BY FreshSteps, DoneSteps DEF KnowsInv
  <1>2. SweepKnows'
    <2>1. CASE SweepStep
      BY <2>1, SweepLearns DEF SweepKnows, ListIsOpen
    <2>2. CASE ~SweepStep
      BY <2>2, SweepRemembers
    <2> QED
      BY <2>1, <2>2
  <1>3. PowerKnows'
    <2>1. CASE PowerStep
      BY <2>1, PowerLearns DEF PowerKnows
    <2>2. CASE ~PowerStep
      BY <2>2, PowerRemembers
    <2> QED
      BY <2>1, <2>2
  <1> QED
    BY <1>1, <1>2, <1>3, ApartSteps DEF KnowsInv

\* The undo of a publish that failed, by the sweep or by a start, restores the file and the field it
\* found and leaves no row of its applied: undoApply of internal/staging/apply.go.
THEOREM FailureRestoresHolds == StagedSpec => FailureRestores
  <1>1. ASSUME StagedInv, KnowsInv, [StagedNext]_stagedVars,
               NEW job \in {sweep, power}, job.pc = "undo", job.clean,
               IF job = sweep THEN SweepUndoes ELSE PowerUndoes, failures' = failures
        PROVE  /\ live' = job.was
               /\ \A r \in job.content : rows'[r].status # "applied"
               /\ \A r \in Range(job.done) : rows'[r].status = "rolled_back"
    <2>1. CASE job = sweep
      <3>1. PICK s, marked, lost : s = sweep /\ s \in Job /\ InHand(s) /\ marked = {} /\ UndoApply(s, marked, lost)
        BY <1>1, <2>1 DEF StagedInv, SweepHas, SweepUndoes
      <3>2. Knows(s) /\ ListIsOpen(s) /\ s.pc = "undo"
        BY <1>1, <2>1, <3>1 DEF KnowsInv, SweepKnows, ListIsOpen
      <3>3. /\ live' = s.was
            /\ \A r \in Range(s.done) : rows'[r].status = "rolled_back"
            /\ \A r \in RowIds : rows'[r].status = "applied" => rows[r].status = "applied"
        BY <1>1, <3>1, <3>2, UndoRestores
      <3>4. \A r \in s.content : r \in RowIds /\ rows[r].status # "applied"
        BY <3>1, <3>2 DEF InHand, OfKind, ListIsOpen
      <3> QED
        BY <2>1, <3>1, <3>3, <3>4
    <2>2. CASE job # sweep
      <3>1. PICK p, marked, lost : p = power /\ p \in Job /\ InHand(p) /\ marked = p.content /\ UndoApply(p, marked, lost)
        BY <1>1, <2>2 DEF StagedInv, PowerHas, PowerUndoes
      <3>2. Knows(p) /\ p.pc = "undo" /\ job = p
        BY <1>1, <2>2, <3>1 DEF KnowsInv, PowerKnows
      <3>3. /\ live' = p.was
            /\ \A r \in Range(p.done) : rows'[r].status = "rolled_back"
            /\ \A r \in RowIds : rows'[r].status = "applied" => r \notin marked
        BY <1>1, <3>1, <3>2, UndoRestores
      <3>4. \A r \in p.content : r \in RowIds /\ r \in marked
        BY <3>1 DEF InHand, OfKind
      <3> QED
        BY <3>2, <3>3, <3>4
    <2> QED
      BY <2>1, <2>2
  <1>2. StagedInv /\ KnowsInv /\ [StagedNext]_stagedVars
          => [\A job \in {sweep, power} :
                /\ job.pc = "undo" /\ job.clean
                /\ IF job = sweep THEN SweepUndoes ELSE PowerUndoes
                /\ failures' = failures
                => /\ live' = job.was
                   /\ \A r \in job.content : rows'[r].status # "applied"
                   /\ \A r \in Range(job.done) : rows'[r].status = "rolled_back"]_stagedVars
    BY <1>1
  <1> QED
    BY <1>2, StagedInvariant, KnowsStarts, KnowsSteps, PTL DEF StagedSpec, FailureRestores
=============================================================================
