------------------------------ MODULE StepLife ------------------------------
(***************************************************************************)
(* What a run promises about its steps, whatever executor drives them: a   *)
(* step is absent until the plan knows it, waits, runs, may wait and run   *)
(* again, and ends once.  It runs only when everything upstream has ended  *)
(* well, is skipped only downstream of something that ended well, and is   *)
(* abandoned only downstream of something that did not.                    *)
(***************************************************************************)
CONSTANTS
  Steps,     \* the steps the plan can come to have
  Upstream,  \* Upstream[s]: the steps s can depend on
  Mapped     \* steps that exist only if a dynamic output maps to them

VARIABLE stage

Unfinished == {"absent", "waiting", "running"}
EndedWell  == {"success", "skipped"}
EndedBadly == {"failed", "abandoned"}
Stages     == Unfinished \cup EndedWell \cup EndedBadly

Init == stage \in [Steps -> {"absent", "waiting"}]

\* Everything upstream of s has ended well, or will never exist.
MayRun(s) ==
  \A u \in Upstream[s] : stage[u] \in EndedWell \/ (u \in Mapped /\ stage[u] = "absent")

Some(s, stages) == \E u \in Upstream[s] : stage[u] \in stages

\* The plan comes to know s.
Plan(s) == stage[s] = "absent" /\ stage'[s] = "waiting"

\* A step may be known and started, skipped or abandoned at once.
Start(s)   == stage[s] \in {"absent", "waiting"} /\ MayRun(s) /\ stage'[s] = "running"
Skip(s)    == stage[s] \in {"absent", "waiting"} /\ Some(s, EndedWell) /\ stage'[s] = "skipped"
Abandon(s) == stage[s] \in {"absent", "waiting"} /\ Some(s, EndedBadly) /\ stage'[s] = "abandoned"

\* A running step is retried or ends; lost to its executor, it is abandoned.
Leave(s) ==
  stage[s] = "running" /\ stage'[s] \in {"waiting", "success", "failed", "abandoned"}

Stay(s) == stage'[s] = stage[s]

\* Several steps may move at once, each on what it sees upstream before.
Next ==
  /\ stage' \in [Steps -> Stages]
  /\ \A s \in Steps :
       Plan(s) \/ Start(s) \/ Skip(s) \/ Abandon(s) \/ Leave(s) \/ Stay(s)

Spec == Init /\ [][Next]_stage
=============================================================================
