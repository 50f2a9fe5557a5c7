--------------------- MODULE MultiprocessExecutorProofs ---------------------
(***************************************************************************)
(* Theorems about the multiprocess executor, for every plan, every limit   *)
(* and every moment at which a child may die.                              *)
(***************************************************************************)
EXTENDS MultiprocessExecutor, ActiveExecutionProofs

\* Until the loop has raised it calls ActiveExecution as any caller may.
PlanInv == StepSets /\ OtherTypes /\ (at # "raised" => Settled)

IterTypes ==
  /\ at \in Places /\ stopping \in BOOLEAN
  /\ activeIters \subseteq Steps /\ replaced \subseteq Steps
  /\ exiting \subseteq activeIters /\ toPoll \subseteq activeIters
  /\ emptyIters \subseteq activeIters

\* Only while the children are asked for events does the record of the ended
\* iterators differ from what ActiveExecution knows.
Watch ==
  /\ inFlight \subseteq activeIters \ exiting
  /\ (activeIters \ exiting) \ emptyIters \subseteq inFlight
  /\ at \notin {"poll", "clear", "raised"} => emptyIters = {}
  /\ at \notin {"poll", "raised"} => toPoll = {}

LoopInv ==
  /\ at \in {"check", "done"} => ~newMappings
  /\ at = "done" => activeIters = {} /\ (~stopping => Complete)

ExecutorInv == PlanInv /\ IterTypes /\ Watch /\ LoopInv

LEMMA InitExecutor == ExecutorInit => ExecutorInv
<1> SUFFICES ASSUME ExecutorInit PROVE ExecutorInv
  OBVIOUS
<1>1. PlanInv
  BY InitSettled DEF ExecutorInit, PlanInv, Settled, Sound
<1>2. IterTypes
  BY DEF ExecutorInit, IterTypes, Places
<1>3. Watch
  BY DEF ExecutorInit, Watch, Init
<1>4. LoopInv
  BY DEF ExecutorInit, LoopInv, Init
<1> QED BY <1>1, <1>2, <1>3, <1>4 DEF ExecutorInv

\* Every step of the loop but the one that raises is a call of a method, or none.
LEMMA LoopCalls ==
  ASSUME [ExecutorNext]_executorVars
  PROVE  [Call]_vars \/ \E s \in Steps : CrashAfterEnd(s)
<1>1. ASSUME NEW due, NEW asked, NEW refused, Launch(due, asked, refused) PROVE Call
  BY <1>1 DEF Launch, Call
<1>2. ASSUME NEW s \in Steps,
             NoEvent(s) \/ ReportOutput(s) \/ ReportEnd(s) \/ ChildEnds(s) \/ ChildCrashes(s)
      PROVE  [Call]_vars
  BY <1>2 DEF NoEvent, ReportOutput, ReportEnd, ChildEnds, ChildCrashes, FailureOrRetry, Call,
    StepEvent
<1>3. ASSUME ClearEnded \/ ProcessSkips \/ ProcessAbandons PROVE Call
  BY <1>3 DEF ClearEnded, ProcessSkips, ProcessAbandons, Call
<1>4. ASSUME \/ StartRound \/ EndPlan \/ LaunchNothing \/ EndPolling
             \/ \E s \in Steps : ReplacedChildExits(s)
             \/ UNCHANGED executorVars
      PROVE  UNCHANGED vars
  BY <1>4 DEF StartRound, EndPlan, LaunchNothing, EndPolling, ReplacedChildExits, executorVars
<1> QED BY <1>1, <1>2, <1>3, <1>4 DEF ExecutorNext, Loop, LaunchSome, Poll

\* Once raised, nothing calls ActiveExecution any more.
LEMMA StaysRaised ==
  ASSUME at = "raised", [ExecutorNext]_executorVars
  PROVE  at' = "raised" /\ UNCHANGED vars
<1>1. ~StartRound /\ ~EndPlan /\ ~LaunchNothing /\ ~EndPolling /\ ~ClearEnded
  BY DEF StartRound, EndPlan, LaunchNothing, EndPolling, ClearEnded
<1>2. ~LaunchSome /\ ~ProcessSkips /\ ~ProcessAbandons
  BY DEF LaunchSome, Launch, ProcessSkips, ProcessAbandons
<1>3. \A s \in Steps : ~Poll(s)
  BY DEF Poll, NoEvent, ReportOutput, ReportEnd, ChildEnds, ChildCrashes, CrashAfterEnd, Polling
<1>4. \A s \in Steps : ReplacedChildExits(s) => at' = "raised" /\ UNCHANGED vars
  BY DEF ReplacedChildExits
<1>5. UNCHANGED executorVars => at' = "raised" /\ UNCHANGED vars
  BY DEF executorVars, loop
<1> QED BY <1>1, <1>2, <1>3, <1>4, <1>5 DEF ExecutorNext, Loop

LEMMA NextPlanInv ==
  ASSUME PlanInv, [ExecutorNext]_executorVars
  PROVE  PlanInv'
<1>1. CASE at = "raised"
  BY <1>1, StaysRaised DEF PlanInv, StepSets, OtherTypes, vars, buckets
<1>2. ASSUME at # "raised", [Call]_vars PROVE PlanInv'
  BY <1>2, CallSettled DEF PlanInv, Settled, Sound
<1>3. ASSUME NEW s \in Steps, CrashAfterEnd(s) PROVE PlanInv'
  BY <1>3 DEF CrashAfterEnd, PlanInv, StepSets, OtherTypes, mappings
<1> QED BY <1>1, <1>2, <1>3, LoopCalls

LEMMA LaunchInv ==
  ASSUME ExecutorInv, NEW due, NEW asked, NEW refused, Launch(due, asked, refused)
  PROVE  (IterTypes /\ Watch /\ LoopInv)'
<1> DEFINE batch == asked \ refused
<1>1. batch \subseteq NowExecutable(due) /\ inFlight' = inFlight \cup batch
  BY DEF Launch, GetStepsToExecute, Selection
<1>2. batch \subseteq Steps
  BY <1>1, Decisions DEF Launch, GetStepsToExecute, Update, NowExecutable, Waiting,
    ExecutorInv, PlanInv, StepSets
<1>3. /\ at = "launch" /\ at' \in {"launch", "poll"}
      /\ activeIters' = activeIters \cup batch /\ exiting' = exiting \ batch
      /\ replaced' = replaced \cup (batch \cap exiting)
      /\ toPoll' = toPoll \/ (at' = "poll" /\ toPoll' = activeIters)
      /\ UNCHANGED <<emptyIters, stopping>>
  <2>1. CASE batch = {}
    BY <2>1 DEF Launch, BeginPolling
  <2>2. CASE batch # {}
    BY <2>2 DEF Launch, BeginPolling
  <2> QED BY <2>1, <2>2
<1> HIDE DEF batch
<1> QED BY <1>1, <1>2, <1>3 DEF ExecutorInv, IterTypes, Places, Watch, LoopInv

LEMMA PollInv ==
  ASSUME ExecutorInv, NEW s \in Steps, Poll(s)
  PROVE  (IterTypes /\ Watch /\ LoopInv)'
<1> USE DEF ExecutorInv, IterTypes, Places, Watch, LoopInv, Polling, Polled
<1>1. CASE NoEvent(s)
  BY <1>1 DEF NoEvent, vars, buckets
<1>2. CASE ReportOutput(s)
  BY <1>2 DEF ReportOutput, OutputEvent
<1>3. CASE ReportEnd(s)
  BY <1>3 DEF ReportEnd, SuccessEvent, FailureEvent, RetryEvent, MarkUpForRetry
<1>4. CASE ChildEnds(s)
  BY <1>4 DEF ChildEnds, vars, buckets
<1>5. CASE ChildCrashes(s)
  BY <1>5 DEF ChildCrashes, FailureOrRetry, FailureEvent, RetryEvent, MarkUpForRetry
<1>6. CASE CrashAfterEnd(s)
  BY <1>6 DEF CrashAfterEnd
<1> QED BY <1>1, <1>2, <1>3, <1>4, <1>5, <1>6 DEF Poll

LEMMA NextLoopInv ==
  ASSUME ExecutorInv, [ExecutorNext]_executorVars
  PROVE  (IterTypes /\ Watch /\ LoopInv)'
<1> USE DEF ExecutorInv, IterTypes, Places, Watch, LoopInv
<1>1. CASE StartRound
  BY <1>1 DEF StartRound, vars, buckets
<1>2. CASE EndPlan
  BY <1>2 DEF EndPlan, GoOn, vars, buckets, Complete
<1>3. CASE LaunchNothing
  BY <1>3 DEF LaunchNothing, BeginPolling, vars, buckets
<1>4. CASE EndPolling
  BY <1>4 DEF EndPolling, vars, buckets
<1>5. CASE ClearEnded
  BY <1>5 DEF ClearEnded, StillExiting, Unreported, MarkUnknownState
<1>6. CASE ProcessSkips
  BY <1>6 DEF ProcessSkips, AfterSkips, SkipRound
<1>7. CASE ProcessAbandons
  BY <1>7 DEF ProcessAbandons, AfterAbandons, AbandonRound
<1>8. ASSUME NEW s \in Steps, ReplacedChildExits(s) PROVE (IterTypes /\ Watch /\ LoopInv)'
  BY <1>8 DEF ReplacedChildExits, vars, buckets, Complete
<1>9. CASE UNCHANGED executorVars
  BY <1>9 DEF executorVars, loop, vars, buckets, Complete
<1> HIDE DEF ExecutorInv, IterTypes, Places, Watch, LoopInv
<1> QED BY <1>1, <1>2, <1>3, <1>4, <1>5, <1>6, <1>7, <1>8, <1>9, LaunchInv, PollInv
      DEF ExecutorNext, Loop, LaunchSome

LEMMA NextExecutorInv ==
  ASSUME ExecutorInv, [ExecutorNext]_executorVars
  PROVE  ExecutorInv'
  BY NextPlanInv, NextLoopInv DEF ExecutorInv

LEMMA AlwaysExecutor == ExecutorSpec => []ExecutorInv
  BY InitExecutor, NextExecutorInv, PTL DEF ExecutorSpec

-----------------------------------------------------------------------------

\* The types of the plan's variables, which hold even when the loop has raised,
\* and of the executor's own.
THEOREM ExecutorTypeCorrect == ExecutorSpec => []ExecutorTypeOK
<1>1. ExecutorInv => ExecutorTypeOK
  BY TypesApart DEF ExecutorInv, PlanInv, IterTypes, ExecutorTypeOK
<1> QED BY <1>1, AlwaysExecutor, PTL

\* No step is in flight that nobody watches, and no watched child runs a step
\* that is over, whenever children die.
THEOREM StepsAreWatched == ExecutorSpec => []InFlightIsWatched
<1>1. ExecutorInv => InFlightIsWatched
  BY DEF ExecutorInv, Watch, InFlightIsWatched
<1> QED BY <1>1, AlwaysExecutor, PTL

LEMMA ChildrenStayWithinLimit ==
  ASSUME ExecutorInv, ChildrenWithinLimit, [ExecutorNext]_executorVars
  PROVE  ChildrenWithinLimit'
<1>1. ASSUME NEW due, NEW asked, NEW refused, Launch(due, asked, refused)
      PROVE  ChildrenWithinLimit'
  <2> DEFINE batch == asked \ refused
  <2>1. batch \subseteq Steps /\ activeIters \subseteq Steps
    BY <1>1, Decisions DEF Launch, GetStepsToExecute, Selection, Update, NowExecutable, Waiting,
      ExecutorInv, PlanInv, StepSets, IterTypes
  <2>2. Cardinality(batch) <= MaxConcurrent - Cardinality(activeIters)
    BY <1>1 DEF Launch, GetStepsToExecute, Selection, FitBatch, FreeChildren
  <2>3. IsFiniteSet(batch) /\ IsFiniteSet(activeIters) /\ activeIters \cap batch \subseteq Steps
    BY <2>1, StepsFinite
  <2>4. Cardinality(activeIters \cup batch)
          = Cardinality(activeIters) + Cardinality(batch) - Cardinality(activeIters \cap batch)
    BY <2>3, FS_Union
  <2>5. /\ Cardinality(activeIters \cap batch) \in Nat /\ Cardinality(activeIters) \in Nat
        /\ Cardinality(batch) \in Nat /\ MaxConcurrent \in Nat
    BY <2>1, <2>3, StepsFinite, ExecutorAssumption
  <2>6. activeIters' = activeIters \cup batch
    BY <1>1 DEF Launch
  <2> HIDE DEF batch
  <2> QED BY <2>2, <2>4, <2>5, <2>6 DEF ChildrenWithinLimit
<1>2. ASSUME activeIters' \subseteq activeIters PROVE ChildrenWithinLimit'
  <2>1. activeIters \subseteq Steps /\ activeIters' \subseteq Steps
    BY <1>2 DEF ExecutorInv, IterTypes
  <2>2. Cardinality(activeIters') <= Cardinality(activeIters)
    BY <1>2, <2>1, StepsFinite, FS_Subset
  <2>3. Cardinality(activeIters) \in Nat /\ Cardinality(activeIters') \in Nat /\ MaxConcurrent \in Nat
    BY <2>1, StepsFinite, ExecutorAssumption
  <2> QED BY <2>2, <2>3 DEF ChildrenWithinLimit
<1>3. \/ \E due, asked, refused : Launch(due, asked, refused)
      \/ activeIters' \subseteq activeIters
  BY DEF ExecutorNext, Loop, LaunchSome, StartRound, EndPlan, LaunchNothing, BeginPolling, Poll,
    NoEvent, ReportOutput, ReportEnd, ChildEnds, ChildCrashes, CrashAfterEnd, Polled, EndPolling,
    ClearEnded, ProcessSkips, ProcessAbandons, ReplacedChildExits, executorVars, loop
<1> QED BY <1>1, <1>2, <1>3

\* The executor never listens to more than max_concurrent children.
THEOREM ChildrenLimited == ExecutorSpec => []ChildrenWithinLimit
<1>1. ExecutorInit => ChildrenWithinLimit
  BY FS_EmptySet, ExecutorAssumption DEF ExecutorInit, ChildrenWithinLimit
<1> QED BY <1>1, InitExecutor, NextExecutorInv, ChildrenStayWithinLimit, PTL DEF ExecutorSpec

\* The loop ends without children, and, unless it was told to stop, with every
\* step that the mappings call for ended.
THEOREM EndsWithThePlan == ExecutorSpec => []EndsDecided
<1>1. ExecutorInv => EndsDecided
  <2> SUFFICES ASSUME ExecutorInv, at = "done", ~stopping
               PROVE  Terminal = {s \in Steps : Known(s)} /\ ~newMappings
    BY DEF EndsDecided, ExecutorInv, LoopInv
  <2>1. planned = Terminal /\ ~newMappings
    BY DEF ExecutorInv, LoopInv, PlanInv, Complete, Settled, Sound, Apart, Undone
  <2>2. planned = {s \in Steps : Known(s)}
    BY <2>1 DEF ExecutorInv, PlanInv, Settled, Sound, StepSets, Mapped
  <2> QED BY <2>1, <2>2
<1> QED BY <1>1, AlwaysExecutor, PTL
=============================================================================
