---------------------------- MODULE MCConsoleSocket ----------------------------
(* Model-checking instance of ConsoleSocket: two servers, one tab.              *)
EXTENDS ConsoleSocket
=================================================================================
