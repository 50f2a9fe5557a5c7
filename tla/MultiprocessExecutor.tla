------------------------ MODULE MultiprocessExecutor ------------------------
(***************************************************************************)
(* MultiprocessExecutor.execute: the loop that keeps up to MaxConcurrent   *)
(* child processes, one for each step, around ActiveExecution.  In every   *)
(* round it asks each child for at most one event.  A child may die        *)
(* before its step's terminal event, or between it and its own exit, when  *)
(* it runs hooks and tears its resources down.                             *)
(***************************************************************************)
EXTENDS ActiveExecution

CONSTANTS
  Crashes,       \* when a child may die: "running", "exiting"
  Interruptible  \* TRUE: the worker may be told to terminate

ASSUME ExecutorAssumption ==
  /\ MaxConcurrent \in Nat \ {0}
  /\ RetryMode # "deferred"
  /\ Crashes \subseteq {"running", "exiting"}
  /\ Interruptible \in BOOLEAN

VARIABLES
  at,          \* where the loop is
  activeIters, \* the steps with an entry in active_iters
  exiting,     \* those whose child has reported its terminal event
  toPoll,      \* those not asked for an event in this round yet
  emptyIters,  \* those whose iterator has ended in this round
  replaced,    \* steps whose earlier child was still exiting when its iterator
               \* was replaced, and has not exited since
  stopping

loop == <<at, activeIters, exiting, toPoll, emptyIters, replaced, stopping>>
executorVars == <<vars, loop>>

Places == {"check", "launch", "poll", "clear", "skip", "abandon", "done", "raised"}

ExecutorInit ==
  /\ Init
  /\ at = "check" /\ activeIters = {} /\ exiting = {} /\ toPoll = {} /\ emptyIters = {}
  /\ replaced = {} /\ stopping = FALSE

\* Mutant of GoOn: the children that still exit are not waited for.
GoOnMutant == ~stopping /\ ~Complete

GoOn == (~stopping /\ ~Complete) \/ activeIters # {}

\* The condition of the loop, and its check for interrupts.
StartRound ==
  /\ at = "check" /\ GoOn
  /\ at' = "launch"
  /\ stopping' \in {stopping} \cup (IF Interruptible THEN {TRUE} ELSE {})
  /\ UNCHANGED <<vars, activeIters, exiting, toPoll, emptyIters, replaced>>

EndPlan ==
  /\ at = "check" /\ ~GoOn /\ at' = "done"
  /\ UNCHANGED <<vars, activeIters, exiting, toPoll, emptyIters, replaced, stopping>>

BeginPolling == at' = "poll" /\ toPoll' = activeIters

FreeChildren == MaxConcurrent - Cardinality(activeIters)

\* Steps are launched until there are none: a step that is up for retry may be
\* launched while its earlier child is still exiting, and takes its place.
Launch(due, asked, refused) ==
  LET batch == asked \ refused IN
  /\ at = "launch" /\ ~stopping
  /\ GetStepsToExecute(FreeChildren, due, asked, refused)
  /\ activeIters' = activeIters \cup batch
  /\ exiting' = exiting \ batch
  /\ replaced' = replaced \cup (batch \cap exiting)
  /\ IF batch = {} THEN BeginPolling ELSE UNCHANGED <<at, toPoll>>
  /\ UNCHANGED <<emptyIters, stopping>>

LaunchNothing ==
  /\ at = "launch" /\ stopping /\ BeginPolling
  /\ UNCHANGED <<vars, activeIters, exiting, emptyIters, replaced, stopping>>

-----------------------------------------------------------------------------
(* next(step_iter) *)

Polling(s) == at = "poll" /\ s \in toPoll

Polled(s) ==
  toPoll' = toPoll \ {s} /\ UNCHANGED <<at, activeIters, replaced, stopping>>

NoEvent(s) == Polling(s) /\ Polled(s) /\ UNCHANGED <<vars, exiting, emptyIters>>

ReportOutput(s) ==
  /\ Polling(s) /\ s \notin exiting
  /\ \E h \in Handles : OutputEvent(s, h)
  /\ Polled(s) /\ UNCHANGED <<exiting, emptyIters>>

\* Also a failure of resources, which the executor turns into one of these.
ReportEnd(s) ==
  /\ Polling(s) /\ s \notin exiting
  /\ SuccessEvent(s) \/ FailureEvent(s) \/ \E delayed \in BOOLEAN : RetryEvent(s, delayed)
  /\ exiting' = exiting \cup {s}
  /\ Polled(s) /\ UNCHANGED emptyIters

\* The child is done, or has failed outside of its step.
ChildEnds(s) ==
  /\ Polling(s)
  /\ emptyIters' = emptyIters \cup {s}
  /\ Polled(s) /\ UNCHANGED <<vars, exiting>>

\* log_failure_or_retry_event_after_error
FailureOrRetry(s) ==
  IF MayRetry(s) THEN \E delayed \in BOOLEAN : RetryEvent(s, delayed) ELSE FailureEvent(s)

ChildCrashes(s) ==
  /\ "running" \in Crashes
  /\ Polling(s) /\ s \notin exiting
  /\ FailureOrRetry(s)
  /\ emptyIters' = emptyIters \cup {s}
  /\ Polled(s) /\ UNCHANGED exiting

\* The step has ended, so handle_event raises in _mark_complete, after the step
\* was put among the failed or the pending ones; the exception ends the run.
CrashAfterEnd(s) ==
  /\ "exiting" \in Crashes
  /\ Polling(s) /\ s \in exiting
  /\ failed' = IF MayRetry(s) THEN failed ELSE failed \cup {s}
  /\ pending' = IF MayRetry(s) THEN pending \cup {s} ELSE pending
  /\ attempts' = IF MayRetry(s) THEN [attempts EXCEPT ![s] = @ + 1] ELSE attempts
  /\ at' = "raised"
  /\ UNCHANGED <<planned, executable, pendingSkip, pendingAbandon, waitingToRetry, inFlight,
                 success, skipped, abandoned, unknownState, stepOutputs, mappings, emitted,
                 activeIters, exiting, toPoll, emptyIters, replaced, stopping>>

EndPolling ==
  /\ at = "poll" /\ toPoll = {} /\ at' = "clear"
  /\ UNCHANGED <<vars, activeIters, exiting, toPoll, emptyIters, replaced, stopping>>

-----------------------------------------------------------------------------
(* The rest of the round *)

\* Mutant of Unreported: nothing is checked when an iterator ends.
UnreportedMutant == {}

\* verify_complete: children that ended without a terminal event.
Unreported == emptyIters \cap inFlight

StillExiting == exiting \ emptyIters

ClearEnded ==
  /\ at = "clear"
  /\ activeIters' = activeIters \ emptyIters
  /\ exiting' = StillExiting
  /\ emptyIters' = {}
  /\ MarkUnknownState(Unreported)
  /\ at' = "skip"
  /\ UNCHANGED <<toPoll, replaced, stopping>>

AfterSkips == IF SkipVended = {} THEN "abandon" ELSE "skip"

ProcessSkips == \E due \in SUBSET waitingToRetry :
  /\ at = "skip" /\ SkipRound(due) /\ at' = AfterSkips
  /\ UNCHANGED <<activeIters, exiting, toPoll, emptyIters, replaced, stopping>>

AfterAbandons == IF AbandonVended = {} THEN "check" ELSE "abandon"

ProcessAbandons == \E due \in SUBSET waitingToRetry :
  /\ at = "abandon" /\ AbandonRound(due) /\ at' = AfterAbandons
  /\ UNCHANGED <<activeIters, exiting, toPoll, emptyIters, replaced, stopping>>

\* A child nobody listens to any more exits.
ReplacedChildExits(s) ==
  /\ s \in replaced /\ replaced' = replaced \ {s}
  /\ UNCHANGED <<vars, at, activeIters, exiting, toPoll, emptyIters, stopping>>

LaunchSome == \E due \in SUBSET waitingToRetry : \E asked \in SUBSET NowExecutable(due) :
  \E refused \in SUBSET {s \in asked : Step[s].pool} : Launch(due, asked, refused)

Poll(s) ==
  NoEvent(s) \/ ReportOutput(s) \/ ReportEnd(s) \/ ChildEnds(s) \/ ChildCrashes(s)
    \/ CrashAfterEnd(s)

Loop ==
  \/ StartRound \/ EndPlan \/ LaunchSome \/ LaunchNothing
  \/ \E s \in Steps : Poll(s)
  \/ EndPolling \/ ClearEnded \/ ProcessSkips \/ ProcessAbandons

ExecutorNext == Loop \/ \E s \in Steps : ReplacedChildExits(s)

ExecutorSpec == ExecutorInit /\ [][ExecutorNext]_executorVars

\* The loop goes on, pools that are asked again and again grant a slot, children
\* end, the time of each retry comes.
Fairness ==
  /\ WF_executorVars(Loop)
  /\ SF_executorVars(LaunchSome /\ inFlight' # inFlight)
  /\ \A s \in Steps : SF_executorVars(ChildEnds(s) \/ ChildCrashes(s))
  /\ \A s \in Steps : SF_executorVars(s \in waitingToRetry /\ Loop /\ s \notin waitingToRetry')

FairExecutorSpec == ExecutorSpec /\ Fairness

-----------------------------------------------------------------------------
(* Properties *)

ExecutorTypeOK ==
  /\ TypeOK
  /\ at \in Places
  /\ activeIters \subseteq Steps /\ replaced \subseteq Steps
  /\ exiting \subseteq activeIters /\ toPoll \subseteq activeIters /\ emptyIters \subseteq activeIters
  /\ stopping \in BOOLEAN

\* Each step in flight has an iterator whose child has not reported its end, and
\* the other iterators belong to children that have: no step is in flight that
\* nobody watches, and no watched child runs a step that is over.
InFlightIsWatched ==
  /\ inFlight \subseteq activeIters \ exiting
  /\ at \notin {"poll", "clear", "raised"} => inFlight = activeIters \ exiting

\* The limit on child processes holds for those that the executor listens to,
\* the ones that only clean up included.
ChildrenWithinLimit == Cardinality(activeIters) <= MaxConcurrent

\* The limit holds for all the child processes there are.
ProcessesWithinLimit == Cardinality(activeIters) + Cardinality(replaced) <= MaxConcurrent

\* is_complete is true only when the plan is, and no child is left then.
EndsDecided ==
  at = "done" =>
    /\ activeIters = {}
    /\ ~stopping => Terminal = {s \in Steps : Known(s)} /\ ~newMappings

\* No event ends a step that is not in flight.
MarksInFlightOnly == at # "raised"

\* The execution of the plan ends, whichever children fail, die or retry.
PlanEnds == <>(at \in {"done", "raised"})
=============================================================================
