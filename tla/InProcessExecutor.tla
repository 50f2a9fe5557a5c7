-------------------------- MODULE InProcessExecutor --------------------------
(***************************************************************************)
(* inner_plan_execution_iterator: the loop that executes one step after    *)
(* the other in the run worker's own process, around ActiveExecution.      *)
(***************************************************************************)
EXTENDS ActiveExecution

VARIABLES
  at,       \* where the loop is
  current   \* the step whose events are being handled, or None

loop == <<at, current>>
executorVars == <<vars, loop>>

Places == {"next", "run", "skip", "abandon", "done"}

ExecutorInit == Init /\ at = "next" /\ current = None

GoTo(place) == at' = place /\ UNCHANGED current

\* get_next_step; without a step to run the loop sleeps and starts again.
GetNextStep(due, asked, refused) ==
  /\ at = "next" /\ ~Complete
  /\ GetStepsToExecute(1, due, asked, refused)
  /\ IF asked = refused THEN GoTo("next")
     ELSE at' = "run" /\ current' = CHOOSE s \in asked \ refused : TRUE

\* An event of dagster_event_sequence_for_step, which ends the step or not.
HandleEvent ==
  /\ at = "run"
  /\ StepEvent(current)
  /\ IF current \in inFlight' THEN UNCHANGED loop
     ELSE at' = "skip" /\ current' = None

\* The first loop of plan_events_iterator goes on until nothing is skipped.
AfterSkips == IF SkipVended = {} THEN "abandon" ELSE "skip"

ProcessSkips == \E due \in SUBSET waitingToRetry :
  at = "skip" /\ SkipRound(due) /\ GoTo(AfterSkips)

\* Mutant of AfterAbandons: what was abandoned is not looked at again.
AfterAbandonsMutant == "next"

AfterAbandons == IF AbandonVended = {} THEN "next" ELSE "abandon"

ProcessAbandons == \E due \in SUBSET waitingToRetry :
  at = "abandon" /\ AbandonRound(due) /\ GoTo(AfterAbandons)

EndPlan == at = "next" /\ Complete /\ GoTo("done") /\ UNCHANGED vars

Loop ==
  \/ \E due \in SUBSET waitingToRetry : \E asked \in SUBSET NowExecutable(due) :
       \E refused \in SUBSET {s \in asked : Step[s].pool} : GetNextStep(due, asked, refused)
  \/ ProcessSkips \/ ProcessAbandons \/ EndPlan

ExecutorNext == Loop \/ HandleEvent

ExecutorSpec == ExecutorInit /\ [][ExecutorNext]_executorVars

EventThatEnds(s) == HandleEvent /\ current = s /\ s \notin inFlight'

\* The loop goes on, each step ends, the time of each retry comes.  An iteration
\* that changes nothing is a stuttering step, so pools do not refuse for ever.
Fairness ==
  /\ WF_executorVars(Loop)
  /\ \A s \in Steps : SF_executorVars(EventThatEnds(s))
  /\ \A s \in Steps : SF_executorVars(s \in waitingToRetry /\ Loop /\ s \notin waitingToRetry')

FairExecutorSpec == ExecutorSpec /\ Fairness

-----------------------------------------------------------------------------
(* Properties *)

ExecutorTypeOK ==
  /\ TypeOK
  /\ at \in Places
  /\ (at = "run") = (current # None)
  /\ current # None => inFlight = {current}

\* is_complete is true only when the plan is: every step that the resolved
\* mappings call for has ended, and no resolved mapping is left to look at.
EndsDecided == at = "done" => Terminal = {s \in Steps : Known(s)} /\ ~newMappings

\* Steps are left to skip and none to execute: the loop sleeps and asks for
\* another step, and processes skips only after it has executed one.
StuckOnSkips ==
  /\ at = "next" /\ pendingSkip # {} /\ pendingAbandon = {}
  /\ NowExecutable(waitingToRetry) = {}

\* Whichever steps fail, are retried, leave outputs out or come from a mapping,
\* the loop ends, unless the last round of abandonments has decided a skip: then,
\* and only then, it sleeps for ever.
PlanEnds == <>(at = "done" \/ StuckOnSkips)

\* A step that can be skipped or abandoned is: plan_events_iterator processes
\* all of them.  The code does not keep it: see StuckOnSkips.
DecidedStepsEnd == \A s \in Steps : s \in pendingSkip \cup pendingAbandon ~> s \in Terminal

\* A step whose upstream steps are all over does not stay undecided.
UpstreamOverDecides ==
  \A s \in Steps : (s \in pending /\ Deps(s) \subseteq Terminal) ~> s \notin pending
=============================================================================
