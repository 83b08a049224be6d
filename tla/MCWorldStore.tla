---------------------------- MODULE MCWorldStore ----------------------------
(* Model-checking instances of WorldStore. *)
EXTENDS WorldStore, TLC
AnyRestorer == Permutations(Restorers)
=============================================================================
