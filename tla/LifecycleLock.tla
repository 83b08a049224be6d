--------------------------- MODULE LifecycleLock ----------------------------
(***************************************************************************)
(* What the lifecycle journal promises, free of threads, processes and     *)
(* recovery: the rules of knowledge/operations/lifecycle-journal.md.       *)
(*                                                                         *)
(* A key is claimed while no other key of its server is open, its mutation *)
(* starts at most once, and it ends complete only after the mutation has   *)
(* worked.  A decided key stays decided until its record is forgotten, and *)
(* an open key is never forgotten.                                         *)
(***************************************************************************)
CONSTANTS Servers, Keys

VARIABLES
  fate,     \* what has become of each (server, key)
  worked    \* whether its mutation has returned success

vars == <<fate, worked>>

Ids == Servers \X Keys
Open == {"claimed", "started"}
Decided == {"complete", "failed", "recovered"}

TypeOK ==
  /\ fate \in [Ids -> {"new"} \union Open \union Decided]
  /\ worked \in [Ids -> BOOLEAN]

Init ==
  /\ fate = [id \in Ids |-> "new"]
  /\ worked = [id \in Ids |-> FALSE]

Claim(id) ==
  /\ fate[id] = "new"
  /\ \A other \in Ids : other[1] = id[1] => fate[other] \notin Open
  /\ fate' = [fate EXCEPT ![id] = "claimed"]
  /\ worked' = [worked EXCEPT ![id] = FALSE]

Start(id) ==
  /\ fate[id] = "claimed"
  /\ fate' = [fate EXCEPT ![id] = "started"]
  /\ UNCHANGED worked

\* The mutation may still return after the operator has released its lock.
Works(id) ==
  /\ fate[id] \in {"started", "recovered"}
  /\ worked' = [worked EXCEPT ![id] = TRUE]
  /\ UNCHANGED fate

Decide(id, outcome) ==
  /\ fate[id] \in Open
  /\ outcome = "complete" => fate[id] = "started" /\ worked[id]
  /\ fate' = [fate EXCEPT ![id] = outcome]
  /\ UNCHANGED worked

Forget(ids) ==
  /\ \A id \in ids : fate[id] \in Decided
  /\ fate' = [id \in Ids |-> IF id \in ids THEN "new" ELSE fate[id]]
  /\ UNCHANGED worked

Next ==
  \/ \E id \in Ids : Claim(id) \/ Start(id) \/ Works(id)
  \/ \E id \in Ids, outcome \in Decided : Decide(id, outcome)
  \/ \E ids \in SUBSET Ids : Forget(ids)

Spec == Init /\ [][Next]_vars

\* At most one key of a server is open.
OneOpen ==
  \A id, other \in Ids :
    (id[1] = other[1] /\ fate[id] \in Open /\ fate[other] \in Open) => id = other
=============================================================================
