----------------------- MODULE MCContainerReplacement -----------------------
(***************************************************************************)
(* Model-checking instance of ContainerReplacement, and of StagedBatch,    *)
(* which takes a replacement for one step.  They share no state: a         *)
(* behaviour is one of the replacement or one of the staging.              *)
(***************************************************************************)
EXTENDS ContainerReplacement, StagedBatch

VARIABLE part

Init == ReplacementInit /\ StagedInit /\ part \in {"replacement", "staging"}

Next ==
  \/ part = "replacement" /\ ReplacementNext /\ UNCHANGED <<stagedVars, part>>
  \/ part = "staging" /\ StagedNext /\ UNCHANGED <<replacementVars, part>>

Spec == Init /\ [][Next]_<<replacementVars, stagedVars, part>>
=============================================================================
