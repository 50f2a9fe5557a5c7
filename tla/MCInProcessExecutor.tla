------------------------ MODULE MCInProcessExecutor ------------------------
(* The in-process loop on the small plans. *)
EXTENDS InProcessExecutor, MCActiveExecution
=============================================================================
