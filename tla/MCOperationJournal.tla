------------------------- MODULE MCOperationJournal -------------------------
(* Model-checking instance of OperationJournal. *)
EXTENDS OperationJournal

=============================================================================
