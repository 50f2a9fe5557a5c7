------------------------- MODULE MCActiveExecution -------------------------
(* Small plans for ActiveExecution. *)
EXTENDS ActiveExecutionLife, TLC

In(h)         == [from |-> {h}, fanIn |-> FALSE, collect |-> None]
Collect(d, H) == [from |-> H, fanIn |-> TRUE, collect |-> d]

PlainStep(inputs) ==
  [inputs |-> inputs, spawn |-> None, needs |-> {}, priority |-> 0,
   pool |-> FALSE, tagged |-> FALSE, maxRetries |-> 0]
Required(s) == [source |-> s, required |-> TRUE, kind |-> "plain"]
Optional(s) == [source |-> s, required |-> FALSE, kind |-> "plain"]

\* a may leave its output out, b may be retried: d is abandoned or not, and e is
\* downstream of both.
BranchStep ==
  "a" :> [PlainStep({}) EXCEPT !.tagged = TRUE]
  @@ "b" :> [PlainStep({}) EXCEPT !.tagged = TRUE, !.maxRetries = 1, !.priority = 1, !.pool = TRUE]
  @@ "d" :> PlainStep({In("b.r")})
  @@ "e" :> PlainStep({In("a.o"), In("d.r")})
BranchOutput ==
  "a.o" :> Optional("a") @@ "b.r" :> Required("b") @@ "d.r" :> Required("d")

\* g maps to at most two steps, n collects them, o follows n; p reads g directly.
DynamicStep ==
  "g" :> [PlainStep({}) EXCEPT !.maxRetries = 1]
  @@ "m1" :> [PlainStep({In("g.1")}) EXCEPT !.spawn = "g.1", !.needs = {"g"}, !.tagged = TRUE]
  @@ "m2" :> [PlainStep({In("g.2")}) EXCEPT !.spawn = "g.2", !.needs = {"g"}, !.tagged = TRUE,
                                           !.priority = 1, !.pool = TRUE]
  @@ "n" :> [PlainStep({Collect("g", {"m1.r", "m2.r"})}) EXCEPT !.needs = {"g"}]
  @@ "o" :> [PlainStep({In("n.r")}) EXCEPT !.needs = {"g"}]
  @@ "p" :> [PlainStep({Collect("g", {"g.1", "g.2"})}) EXCEPT !.needs = {"g"}]
DynamicOutput(required) ==
  "g.*" :> [source |-> "g", required |-> required, kind |-> "whole"]
  @@ "g.1" :> [source |-> "g", required |-> required, kind |-> "element"]
  @@ "g.2" :> [source |-> "g", required |-> required, kind |-> "element"]
  @@ "m1.r" :> Optional("m1") @@ "m2.r" :> Required("m2") @@ "n.r" :> Required("n")
DynamicOptional == DynamicOutput(FALSE)
DynamicRequired == DynamicOutput(TRUE)

\* The plan of branches beside a dynamic step g with one mapped step: b's failure
\* abandons d, and e is skipped or abandoned.
LoopStep ==
  BranchStep
  @@ "g" :> PlainStep({})
  @@ "m1" :> [PlainStep({In("g.1")}) EXCEPT !.spawn = "g.1", !.needs = {"g"}, !.pool = TRUE]
LoopOutput ==
  BranchOutput
  @@ "g.*" :> [source |-> "g", required |-> FALSE, kind |-> "whole"]
  @@ "g.1" :> [source |-> "g", required |-> FALSE, kind |-> "element"]

\* a emits three outputs, two of them optional, and may be retried.
MultiStep ==
  "a" :> [PlainStep({}) EXCEPT !.maxRetries = 1]
  @@ "b" :> PlainStep({In("a.x")})
  @@ "c" :> PlainStep({In("a.y")})
  @@ "d" :> PlainStep({In("b.r"), In("c.r")})
  @@ "e" :> PlainStep({In("a.x"), In("z.r")})
MultiOutput ==
  "a.x" :> Required("a") @@ "a.y" :> Optional("a") @@ "b.r" :> Required("b")
  @@ "c.r" :> Required("c") @@ "z.r" :> Required(None)

\* b needs an output of a and the result of a blocking check on it.
GatedStep ==
  "a" :> PlainStep({})
  @@ "b" :> PlainStep({[from |-> {"a.x", "a.k"}, fanIn |-> FALSE, collect |-> None]})
  @@ "c" :> PlainStep({In("b.r")})
GatedOutput ==
  "a.x" :> Required("a") @@ "b.r" :> Required("b")
  @@ "a.k" :> [source |-> "a", required |-> FALSE, kind |-> "check"]

\* What the parent run had produced, and the steps selected when it is run again.
PastOutputs   == {"a.x", "z.r"}
PastInstances == {"m1.r", "m2.r"}
Unresolved    == {"g", "n", "o", "p"}

NoHandles  == {}
StepKeys   == DOMAIN Step
HandleKeys == DOMAIN Output
=============================================================================
