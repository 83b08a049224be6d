---------------------------- MODULE AtomicWorld -----------------------------
(***************************************************************************)
(* What internal/worldstore promises of a server's world, free of stages,  *)
(* journals, recoveries and nodes: a restore replaces the whole world in   *)
(* one step or not at all.                                                 *)
(*                                                                         *)
(* A restore answers success only when it has replaced the world.  One     *)
(* that failed or died before it did never replaces the world afterwards,  *)
(* whoever recovers what it left.  Migrations and backups keep the world,  *)
(* and only the game changes it otherwise.                                 *)
(***************************************************************************)
CONSTANTS Restorers, Jobs

VARIABLES
  kept,   \* the world the server has in the end, if nothing more is restored
  call    \* how far the call of each job has come

vars == <<kept, call>>

Live == {"open", "replaced"}

Init == kept = "original" /\ call = [j \in Jobs |-> "open"]

Replace(j) ==
  /\ j \in Restorers /\ call[j] = "open"
  /\ kept' = "archived" /\ call' = [call EXCEPT ![j] = "replaced"]

Answer(j, answer) ==
  /\ call[j] \in Live
  /\ answer = "ok" /\ j \in Restorers => call[j] = "replaced"
  /\ call' = [call EXCEPT ![j] = answer]
  /\ UNCHANGED kept

Play == kept' = "played" /\ UNCHANGED call

Crash(dead) ==
  /\ \A j \in dead : call[j] \in Live
  /\ call' = [j \in Jobs |-> IF j \in dead THEN "dead" ELSE call[j]]
  /\ UNCHANGED kept

Next ==
  \/ \E j \in Jobs : Replace(j) \/ Answer(j, "ok") \/ Answer(j, "error")
  \/ Play
  \/ \E dead \in SUBSET Jobs : Crash(dead)

Spec == Init /\ [][Next]_vars
=============================================================================
