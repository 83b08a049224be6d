---------------------------- MODULE MCServerPages ----------------------------
(* Model-checking instance of ServerPages. *)
EXTENDS ServerPages
==============================================================================
