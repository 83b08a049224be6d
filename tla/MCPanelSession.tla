---------------------------- MODULE MCPanelSession ----------------------------
(* Model-checking instance of PanelSession. *)
EXTENDS PanelSession
===============================================================================
