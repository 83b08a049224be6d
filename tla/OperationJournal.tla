-------------------------- MODULE OperationJournal --------------------------
(***************************************************************************)
(* The durable lifecycle journal: internal/operation and                   *)
(* internal/db/server_operation.go, with the startup sequence of           *)
(* cmd/carbon-panel/main.go that recovers it.                              *)
(*                                                                         *)
(* A caller (an RPC handler, the staged-batch sweep, a snapshot rollback)  *)
(* runs RunJournaled: it inserts a row that owns the server's lock,        *)
(* advances it to executing, calls the mutation, and finalizes the row.    *)
(* The panel may crash anywhere; at the next start every row that still    *)
(* owns a lock is observed and released, or kept for review.               *)
(*                                                                         *)
(* A row is identified by (server, request key); the uuid primary key adds *)
(* nothing, since a pruned key is reused only after the process that held  *)
(* it is gone.  The kind is part of the key (StorageKey).  An empty        *)
(* request id is a key that no second call picks.                          *)
(***************************************************************************)
EXTENDS Naturals

CONSTANTS
  Servers,      \* managed servers
  Keys,         \* request keys: "<request id>:<kind>"
  Callers,      \* threads of the panel that run journaled mutations
  Containers,   \* container identities that enter the payload digest
  MaxFaults     \* bound on failed journal writes in one behaviour

ASSUME JournalAssumption ==
  /\ MaxFaults \in Nat
  /\ Servers # {} /\ Keys # {} /\ Containers # {}

VARIABLES
  row,          \* the server_operations table, a row per (server, key)
  caller,       \* where each thread is in RunJournaled
  mode,         \* the life of the panel process
  scan,         \* rows RecoverInterrupted has listed and not yet observed
  review,       \* the ids RetryReview polls (Summary.ReviewIDs)
  reachable,    \* whether a server's Docker daemon can be observed
  faults,       \* failed journal writes so far
  ran,          \* history: calls of mutate since the row was inserted
  worked        \* history: mutate returned nil for this row

journalVars == <<row, caller, mode, scan, review, reachable, faults, ran, worked>>

Ids == Servers \X Keys
ServerOf(id) == id[1]

Live == {"prepared", "executing"}
Terminal == {"complete", "failed", "recovered"}
Phases == {"absent"} \union Live \union Terminal

Row == [phase: Phases, container: Containers, active: BOOLEAN, old: BOOLEAN]

Answers == {"nil", "in_progress", "already_failed", "needs_new_key", "conflict",
            "intent_error", "attempt_error", "mutation_error"}
Busy == {"prepared", "executing", "finalize_nil", "finalize_error"}
Caller == [pc: {"idle", "answered"} \union Busy, id: Ids, answer: Answers]

NoRow == [phase |-> "absent", container |-> CHOOSE cid \in Containers : TRUE,
          active |-> FALSE, old |-> FALSE]
NoCall == [pc |-> "idle", id |-> CHOOSE id \in Ids : TRUE, answer |-> "nil"]

\* A thread inside RunJournaled whose row it inserted itself.
Owns(c, id) == caller[c].pc \in Busy /\ caller[c].id = id
\* Mutant: no unique index on active_server.
Locked_Unindexed(s) == FALSE
Locked(s) == \E id \in Ids : ServerOf(id) = s /\ row[id].active
Orphan(id) == row[id].active /\ \A c \in Callers : ~Owns(c, id)

-----------------------------------------------------------------------------
JournalInit ==
  /\ row = [id \in Ids |-> NoRow]
  /\ caller = [c \in Callers |-> NoCall]
  /\ mode = "down"
  /\ scan = {}
  /\ review = {}
  /\ reachable \in [Servers -> BOOLEAN]
  /\ faults = 0
  /\ ran = [id \in Ids |-> 0]
  /\ worked = [id \in Ids |-> FALSE]

\* One failed read or write of the journal.
Fault == faults < MaxFaults /\ faults' = faults + 1

Answer(c, id, a) ==
  caller' = [caller EXCEPT ![c] = [pc |-> "answered", id |-> id, answer |-> a]]

\* AdvanceServerOperation: the UPDATE matches only the expected phase of a row
\* that still owns the lock, and a terminal phase gives the lock up.
CanAdvance(id, from) == row[id].phase = from /\ row[id].active
Advanced(id, to) ==
  [row EXCEPT ![id].phase = to, ![id].active = (to \notin Terminal), ![id].old = FALSE]

-----------------------------------------------------------------------------
(* RunJournaled *)

\* What a repeat of a recorded key answers, without running the mutation.
\* Mutant: a recovered key counts as a completed one.
Replay_TrustsRecovered(r, cid) ==
  IF r.container # cid THEN "conflict"
  ELSE CASE r.phase \in {"complete", "recovered"} -> "nil"
         [] r.phase = "failed" -> "already_failed"
         [] OTHER              -> "in_progress"

Replay(r, cid) ==
  IF r.container # cid THEN "conflict"
  ELSE CASE r.phase = "complete" -> "nil"
         [] r.phase = "failed"   -> "already_failed"
         [] r.phase \in Live     -> "in_progress"
         [] OTHER                -> "needs_new_key"

BeginReused(c, id, cid) ==
  /\ mode = "up" /\ caller[c].pc = "idle"
  /\ row[id].phase # "absent"
  /\ Answer(c, id, Replay(row[id], cid))
  /\ UNCHANGED <<row, mode, scan, review, reachable, faults, ran, worked>>

\* The unique index on active_server refuses a second lock owner of a server.
BeginRefused(c, id) ==
  /\ mode = "up" /\ caller[c].pc = "idle"
  /\ \/ row[id].phase = "absent" /\ Locked(ServerOf(id)) /\ UNCHANGED faults
     \/ Fault
  /\ Answer(c, id, "intent_error")
  /\ UNCHANGED <<row, mode, scan, review, reachable, ran, worked>>

BeginInserted(c, id, cid) ==
  /\ mode = "up" /\ caller[c].pc = "idle"
  /\ row[id].phase = "absent"
  /\ ~Locked(ServerOf(id))
  /\ row' = [row EXCEPT ![id] = [phase |-> "prepared", container |-> cid,
                                 active |-> TRUE, old |-> FALSE]]
  /\ caller' = [caller EXCEPT ![c] = [pc |-> "prepared", id |-> id, answer |-> "nil"]]
  /\ ran' = [ran EXCEPT ![id] = 0]
  /\ worked' = [worked EXCEPT ![id] = FALSE]
  /\ UNCHANGED <<mode, scan, review, reachable, faults>>

\* prepared -> executing, after which mutate is called.
Enter(c) ==
  LET id == caller[c].id IN
  /\ caller[c].pc = "prepared"
  /\ CanAdvance(id, "prepared")
  /\ row' = Advanced(id, "executing")
  /\ caller' = [caller EXCEPT ![c].pc = "executing"]
  /\ ran' = [ran EXCEPT ![id] = @ + 1]
  /\ UNCHANGED <<mode, scan, review, reachable, faults, worked>>

\* The attempt could not be recorded: the row was resolved by the operator, or
\* the write failed.  One write then tries to give the lock back.
EnterFails(c) ==
  LET id == caller[c].id IN
  /\ caller[c].pc = "prepared"
  /\ \/ ~CanAdvance(id, "prepared") /\ UNCHANGED <<row, faults>>
     \/ CanAdvance(id, "prepared") /\ Fault /\ row' = Advanced(id, "failed")
     \/ CanAdvance(id, "prepared") /\ Fault /\ UNCHANGED row
  /\ Answer(c, id, "attempt_error")
  /\ UNCHANGED <<mode, scan, review, reachable, ran, worked>>

\* Mutant: a failed mutation is tried again under the same row.
Mutate_Retries(c, ok) ==
  LET id == caller[c].id IN
  /\ caller[c].pc = "executing"
  /\ caller' = [caller EXCEPT ![c].pc = IF ok THEN "finalize_nil" ELSE "executing"]
  /\ ran' = [ran EXCEPT ![id] = IF ok \/ @ > 1 THEN @ ELSE @ + 1]
  /\ worked' = [worked EXCEPT ![id] = @ \/ ok]
  /\ UNCHANGED <<row, mode, scan, review, reachable, faults>>

\* The mutation returns.  Its effects on containers are outside this module.
Mutate(c, ok) ==
  LET id == caller[c].id IN
  /\ caller[c].pc = "executing"
  /\ caller' = [caller EXCEPT ![c].pc = IF ok THEN "finalize_nil" ELSE "finalize_error"]
  /\ worked' = [worked EXCEPT ![id] = @ \/ ok]
  /\ UNCHANGED <<row, mode, scan, review, reachable, faults, ran>>

\* finishMutation: the final phase is written with a detached context; a write
\* that fails is only logged and the row keeps the lock.
Finalize(c) ==
  LET id == caller[c].id
      ok == caller[c].pc = "finalize_nil"
  IN
  /\ caller[c].pc \in {"finalize_nil", "finalize_error"}
  /\ \/ /\ CanAdvance(id, "executing")
        /\ row' = Advanced(id, IF ok THEN "complete" ELSE "failed")
        /\ UNCHANGED faults
     \/ ~CanAdvance(id, "executing") /\ UNCHANGED <<row, faults>>
     \/ Fault /\ UNCHANGED row
  /\ Answer(c, id, IF ok THEN "nil" ELSE "mutation_error")
  /\ UNCHANGED <<mode, scan, review, reachable, ran, worked>>

Return(c) ==
  /\ caller[c].pc = "answered"
  /\ caller' = [caller EXCEPT ![c] = NoCall]
  /\ UNCHANGED <<row, mode, scan, review, reachable, faults, ran, worked>>

-----------------------------------------------------------------------------
(* The process: crash, start, recovery, review, and the operator *)

Crash ==
  /\ mode # "down"
  /\ mode' = "down"
  /\ caller' = [c \in Callers |-> NoCall]
  /\ scan' = {}
  /\ review' = {}
  /\ UNCHANGED <<row, reachable, faults, ran, worked>>

\* Mutant: old rows go even while they own a lock.
Prune_ForgetsOwners ==
  /\ mode = "down"
  /\ mode' = "pruned"
  /\ row' = [id \in Ids |-> IF row[id].old THEN NoRow ELSE row[id]]
  /\ UNCHANGED <<caller, scan, review, reachable, faults, ran, worked>>

\* PruneServerOperations: finished rows past retention go; an error is logged.
Prune ==
  /\ mode = "down"
  /\ mode' = "pruned"
  /\ \/ /\ row' = [id \in Ids |-> IF ~row[id].active /\ row[id].old
                                  THEN NoRow ELSE row[id]]
        /\ UNCHANGED faults
     \/ Fault /\ UNCHANGED row
  /\ UNCHANGED <<caller, scan, review, reachable, ran, worked>>

\* RecoverInterrupted lists the lock owners; when the list fails main logs it
\* and starts without recovery and without RetryReview.
ListActive ==
  /\ mode = "pruned"
  /\ mode' = "recovering"
  /\ \/ scan' = {id \in Ids : row[id].active} /\ UNCHANGED faults
     \/ Fault /\ scan' = {}
  /\ UNCHANGED <<row, caller, review, reachable, ran, worked>>

\* Mutant: a row whose daemon cannot be read is not listed for review.
RecoverOne_Skips(id) ==
  /\ mode = "recovering" /\ id \in scan
  /\ scan' = scan \ {id}
  /\ row' = IF reachable[ServerOf(id)] THEN Advanced(id, "recovered") ELSE row
  /\ UNCHANGED <<caller, mode, review, reachable, faults, ran, worked>>

RecoverOne(id) ==
  /\ mode = "recovering" /\ id \in scan
  /\ scan' = scan \ {id}
  /\ \/ /\ reachable[ServerOf(id)] /\ row[id].active
        /\ row' = Advanced(id, "recovered")
        /\ UNCHANGED <<review, faults>>
     \/ /\ ~reachable[ServerOf(id)] \/ ~row[id].active
        /\ review' = review \union {id}
        /\ UNCHANGED <<row, faults>>
     \/ Fault /\ review' = review \union {id} /\ UNCHANGED row
  /\ UNCHANGED <<caller, mode, reachable, ran, worked>>

Serve ==
  /\ mode = "recovering" /\ scan = {}
  /\ mode' = "up"
  /\ UNCHANGED <<row, caller, scan, review, reachable, faults, ran, worked>>

\* Mutant: a daemon that cannot be read ends the review.
RetryReview_GivesUp(id) ==
  /\ mode \in {"recovering", "up"} /\ scan = {}
  /\ id \in review
  /\ row' = IF row[id].active /\ reachable[ServerOf(id)] THEN Advanced(id, "recovered") ELSE row
  /\ review' = review \ {id}
  /\ UNCHANGED <<caller, mode, scan, reachable, faults, ran, worked>>

\* One id of one RetryReview pass.  A failed read or write leaves the id in
\* the list, which is a step that changes nothing.
RetryReview(id) ==
  /\ mode \in {"recovering", "up"} /\ scan = {}
  /\ id \in review
  /\ \/ ~row[id].active /\ UNCHANGED row
     \/ row[id].active /\ reachable[ServerOf(id)] /\ row' = Advanced(id, "recovered")
  /\ review' = review \ {id}
  /\ UNCHANGED <<caller, mode, scan, reachable, faults, ran, worked>>

\* "-operations resolve" runs in a process of its own, whatever the panel does.
Resolve(id) ==
  /\ row[id].active
  /\ row' = Advanced(id, "recovered")
  /\ UNCHANGED <<caller, mode, scan, review, reachable, faults, ran, worked>>

\* Thirty days pass without a write to the row.
Age(id) ==
  /\ row[id].phase # "absent" /\ ~row[id].old
  /\ row' = [row EXCEPT ![id].old = TRUE]
  /\ UNCHANGED <<caller, mode, scan, review, reachable, faults, ran, worked>>

DaemonFlips(s) ==
  /\ reachable' = [reachable EXCEPT ![s] = ~@]
  /\ UNCHANGED <<row, caller, mode, scan, review, faults, ran, worked>>

-----------------------------------------------------------------------------
CallerStep(c) ==
  \/ \E id \in Ids, cid \in Containers : BeginReused(c, id, cid) \/ BeginInserted(c, id, cid)
  \/ \E id \in Ids : BeginRefused(c, id)
  \/ Enter(c) \/ EnterFails(c)
  \/ \E ok \in BOOLEAN : Mutate(c, ok)
  \/ Finalize(c)
  \/ Return(c)

Startup == Prune \/ ListActive \/ Serve \/ \E id \in Ids : RecoverOne(id)

JournalNext ==
  \/ \E c \in Callers : CallerStep(c)
  \/ Crash
  \/ Startup
  \/ \E id \in Ids : RetryReview(id) \/ Resolve(id) \/ Age(id)
  \/ \E s \in Servers : DaemonFlips(s)

JournalSpec == JournalInit /\ [][JournalNext]_journalVars

\* The panel's own goroutines run; crashes, aging, the operator and the daemon
\* owe nothing.
JournalFairness ==
  /\ WF_journalVars(Startup)
  /\ \A id \in Ids : WF_journalVars(RetryReview(id))
  /\ \A c \in Callers :
       WF_journalVars(Enter(c) \/ EnterFails(c) \/ Finalize(c) \/ \E ok \in BOOLEAN : Mutate(c, ok))

JournalFairSpec == JournalSpec /\ JournalFairness
-----------------------------------------------------------------------------
(* What the journal must guarantee *)

JournalTypeOK ==
  /\ row \in [Ids -> Row]
  /\ caller \in [Callers -> Caller]
  /\ mode \in {"down", "pruned", "recovering", "up"}
  /\ scan \subseteq Ids
  /\ review \subseteq Ids
  /\ reachable \in [Servers -> BOOLEAN]
  /\ faults \in 0..MaxFaults
  /\ ran \in [Ids -> Nat]
  /\ worked \in [Ids -> BOOLEAN]

\* Two mutations of one server overlap only when the operator has released the
\* lock of one of them by hand (journal.go:62: "no two lifecycle mutations of
\* one world can interleave").
NoInterleaving ==
  \A c, d \in Callers :
    (/\ c # d
     /\ caller[c].pc \in Busy /\ caller[d].pc \in Busy
     /\ ServerOf(caller[c].id) = ServerOf(caller[d].id))
    => row[caller[c].id].phase = "recovered" \/ row[caller[d].id].phase = "recovered"

\* A key's mutation is called at most once for as long as its row is kept, over
\* repeats, crashes, recovery and operator action.
AtMostOnce == \A id \in Ids : row[id].phase # "absent" => ran[id] <= 1

\* While no journal write has failed, every lock that no running call holds is
\* on RetryReview's list: nothing stays locked that nobody will look at.
OrphansAreReviewed ==
  (mode = "up" /\ faults = 0) => \A id \in Ids : Orphan(id) => id \in review

\* A caller is told nil only when the mutation of its key has succeeded, in this
\* call or in the one that recorded the key.
NilMeansWorked ==
  \A c \in Callers :
    (caller[c].pc = "answered" /\ caller[c].answer = "nil") => worked[caller[c].id]

\* A lock is given up by the call that owns it, once its mutation has returned
\* or could not be entered, with the phase that says which; or as recovered, by
\* a pass that can read the daemon or by the operator, who moves neither list
\* (knowledge/operations/lifecycle-journal.md: "Do not release a lock when the
\* container state cannot be read").
GivesUp(c, id) ==
  /\ Owns(c, id)
  /\ \/ caller[c].pc = "finalize_nil" /\ row'[id].phase = "complete"
     \/ caller[c].pc \in {"prepared", "finalize_error"} /\ row'[id].phase = "failed"

LockGivenUpKnowingly ==
  [][\A id \in Ids :
       (row[id].active /\ ~row'[id].active) =>
         \/ \E c \in Callers : GivesUp(c, id)
         \/ /\ row'[id].phase = "recovered"
            /\ reachable[ServerOf(id)] \/ UNCHANGED <<scan, review>>]_journalVars

\* Recovery and review never touch the row of a mutation that is still running
\* (retry.go:25: "an in-flight mutation is never finalized by this loop").
ReviewLeavesTheLiveAlone ==
  \A id \in scan \union review : \A c \in Callers : ~Owns(c, id)

\* An interrupted operation listed at startup is released once its daemon stays
\* reachable, unless the panel goes down first.
ReviewDrains ==
  \A id \in Ids :
    (<>[]reachable[ServerOf(id)]) =>
      (id \in scan \union review ~> ~row[id].active \/ mode = "down")

\* The journal implements the lock it promises.
Fate == [id \in Ids |-> CASE row[id].phase = "absent"    -> "new"
                          [] row[id].phase = "prepared"  -> "claimed"
                          [] row[id].phase = "executing" -> "started"
                          [] OTHER                       -> row[id].phase]
Lock == INSTANCE LifecycleLock WITH fate <- Fate
LockSpec == Lock!Spec
=============================================================================
