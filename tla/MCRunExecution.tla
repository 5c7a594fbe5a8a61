--------------------------- MODULE MCRunExecution ---------------------------
(* Instances of RunExecution for TLC. *)
EXTENDS RunExecution
=============================================================================
