----------------------- MODULE MCMultiprocessExecutor -----------------------
(* The multiprocess executor on the small plans. *)
EXTENDS MultiprocessExecutor, MCActiveExecution
=============================================================================
