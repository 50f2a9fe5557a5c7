------------------------ MODULE ActiveExecutionLife ------------------------
(***************************************************************************)
(* ActiveExecution as an implementation of StepLife.                       *)
(***************************************************************************)
EXTENDS ActiveExecution

UpstreamOf == [s \in Steps |->
  ({Output[h].source : h \in UNION {i.from : i \in Step[s].inputs}}
     \cup {i.collect : i \in Step[s].inputs}) \ {None}]

StageOf(s) ==
  CASE s \notin planned  -> "absent"
    [] s \in inFlight    -> "running"
    [] s \in success     -> "success"
    [] s \in failed      -> "failed"
    [] s \in skipped     -> "skipped"
    [] s \in abandoned   -> "abandoned"
    [] OTHER             -> "waiting"

Life == INSTANCE StepLife WITH
  Upstream <- UpstreamOf,
  Mapped <- {s \in Steps : Step[s].spawn # None},
  stage <- [s \in Steps |-> StageOf(s)]

\* Whatever the order in which an executor calls the methods, each step of the
\* run lives the life that StepLife allows: nothing runs before its upstream
\* ended well, nothing is skipped or abandoned without a reason upstream, and
\* what has ended stays ended.
LivesAsPromised == Life!Spec
=============================================================================
