-------------------------- MODULE MCStepDelegating --------------------------
(* The step delegating executor on a small plan. *)
EXTENDS StepDelegating, MCActiveExecution

\* b takes an output of a, which may be left out, and was there in a past run; b has a
\* pool, may be retried, and may run beside a.
RelayStep ==
  "a" :> [PlainStep({}) EXCEPT !.priority = 1]
  @@ "b" :> [PlainStep({In("a.x")}) EXCEPT !.pool = TRUE, !.maxRetries = 1]
RelayOutput == "a.x" :> Optional("a")
RelayPast   == {"a.x"}
=============================================================================
