-------------------------- MODULE MCServerLifecycle --------------------------
(* Model-checking instances of ServerLifecycle. *)
EXTENDS ServerLifecycle, TLC
AnyThread == Permutations(Threads)
=============================================================================
