----------------------- MODULE InProcessExecutorProofs -----------------------
(***************************************************************************)
(* Theorems about the in-process executor: it calls ActiveExecution as any *)
(* caller may, and it ends only when the plan has.                         *)
(***************************************************************************)
EXTENDS InProcessExecutor, ActiveExecutionProofs

\* The step being run is the only one in flight, and the mappings have been
\* looked at whenever the loop starts again.
LoopInv ==
  /\ at \in Places
  /\ at = "run" <=> current # None
  /\ current # None => current \in Steps
  /\ inFlight = IF current = None THEN {} ELSE {current}
  /\ at \in {"next", "done"} => ~newMappings
  /\ at = "done" => Complete

ExecutorInv == Settled /\ LoopInv

LEMMA InitExecutor == ExecutorInit => ExecutorInv
  BY InitSettled DEF ExecutorInit, ExecutorInv, LoopInv, Places, Init

\* Every step of the loop is a call of a method, or none.
LEMMA LoopCalls == ExecutorInv /\ [ExecutorNext]_executorVars => [Call]_vars
<1>1. ASSUME NEW due, NEW asked, NEW refused, GetNextStep(due, asked, refused) PROVE Call
  BY <1>1 DEF GetNextStep, Call
<1>2. ASSUME ExecutorInv, HandleEvent PROVE Call
  BY <1>2 DEF HandleEvent, Call, ExecutorInv, LoopInv
<1>3. ASSUME ProcessSkips \/ ProcessAbandons PROVE Call
  BY <1>3 DEF ProcessSkips, ProcessAbandons, Call
<1>4. EndPlan \/ UNCHANGED executorVars => UNCHANGED vars
  BY DEF EndPlan, executorVars
<1> QED BY <1>1, <1>2, <1>3, <1>4 DEF ExecutorNext, Loop

LEMMA NextLoopInv ==
  ASSUME ExecutorInv, [ExecutorNext]_executorVars
  PROVE  LoopInv'
<1> USE DEF ExecutorInv, LoopInv, Places, GoTo, loop
<1>1. ASSUME NEW due, NEW asked, NEW refused, GetNextStep(due, asked, refused) PROVE LoopInv'
  <2> DEFINE batch == asked \ refused
  <2>1. /\ inFlight' = inFlight \cup batch /\ ~newMappings'
        /\ batch \subseteq NowExecutable(due) /\ Cardinality(batch) <= 1
    BY <1>1 DEF GetNextStep, GetStepsToExecute, Selection, FitBatch
  <2>2. batch \subseteq Steps
    BY <1>1, <2>1, Decisions DEF GetNextStep, GetStepsToExecute, Update, NowExecutable, Waiting,
      Settled, Sound, StepSets
  <2>3. inFlight = {} /\ at = "next" /\ current = None
    BY <1>1 DEF GetNextStep
  <2>4. CASE asked = refused
    BY <1>1, <2>1, <2>3, <2>4 DEF GetNextStep
  <2>5. CASE asked # refused
    <3>1. refused \subseteq asked
      BY <1>1 DEF GetNextStep, GetStepsToExecute, Selection
    <3>2. PICK s : s \in batch
      BY <2>5, <3>1
    <3>3. batch = {s}
      <4>1. IsFiniteSet(batch)
        BY <2>2, StepsFinite
      <4>2. Cardinality(batch) = Cardinality({s})
        <5>1. Cardinality({s}) <= Cardinality(batch) /\ Cardinality({s}) = 1
          <6>1. {s} \in SUBSET batch
            BY <3>2
          <6>2. Cardinality({s}) <= Cardinality(batch)
            BY <4>1, <6>1, FS_Subset
          <6> QED BY <6>2, FS_Singleton
        <5>2. Cardinality(batch) \in Nat
          BY <2>2, StepsFinite
        <5> QED BY <2>1, <5>1, <5>2
      <4>3. {s} \in SUBSET batch
        BY <3>2
      <4> QED BY <4>1, <4>2, <4>3, FS_Subset
    <3>4. current' = s /\ at' = "run"
      BY <1>1, <2>5, <3>3 DEF GetNextStep
    <3>5. s # None
      BY <2>2, <3>2, PlanAssumption
    <3> QED BY <2>1, <2>2, <2>3, <3>2, <3>3, <3>4, <3>5
  <2> QED BY <2>4, <2>5
<1>2. CASE HandleEvent
  <2>1. inFlight' = inFlight \/ inFlight' = {}
    BY <1>2 DEF HandleEvent, StepEvent, OutputEvent, SuccessEvent, FailureEvent, RetryEvent, MarkUpForRetry,
      MarkUnknownState
  <2> QED BY <1>2, <2>1 DEF HandleEvent
<1>3. CASE ProcessSkips \/ ProcessAbandons
  BY <1>3 DEF ProcessSkips, ProcessAbandons, AfterSkips, AfterAbandons, SkipRound, AbandonRound
<1>4. CASE EndPlan
  BY <1>4 DEF EndPlan, vars, buckets, Complete
<1>5. CASE UNCHANGED executorVars
  BY <1>5 DEF executorVars, vars, buckets, Complete
<1> QED BY <1>1, <1>2, <1>3, <1>4, <1>5 DEF ExecutorNext, Loop

LEMMA AlwaysExecutor == ExecutorSpec => []ExecutorInv
<1>1. ExecutorInv /\ [ExecutorNext]_executorVars => ExecutorInv'
  BY LoopCalls, CallSettled, NextLoopInv DEF ExecutorInv
<1> QED BY <1>1, InitExecutor, PTL DEF ExecutorSpec

\* The loop is one of the callers that ActiveExecution allows, so that whatever
\* is proved of any caller holds for it.
THEOREM DrivesActiveExecution == ExecutorSpec => Spec
<1>1. ExecutorInit => Init
  BY DEF ExecutorInit
<1>2. ExecutorInv /\ [ExecutorNext]_executorVars => [Next]_vars
  <2> SUFFICES ASSUME ExecutorInv, [ExecutorNext]_executorVars PROVE [Next]_vars
    OBVIOUS
  <2>1. ASSUME NEW due \in SUBSET waitingToRetry, NEW asked \in SUBSET NowExecutable(due),
               NEW refused \in SUBSET {s \in asked : Step[s].pool},
               GetNextStep(due, asked, refused)
        PROVE  Next
    <3>1. 1 \in 0 .. Cardinality(Steps)
      <4>1. Steps # {}
        BY <2>1 DEF GetNextStep, Complete, ExecutorInv, Settled, Sound, StepSets
      <4>2. Cardinality(Steps) \in Nat /\ Cardinality(Steps) # 0
        BY <4>1, StepsFinite, FS_EmptySet
      <4> QED BY <4>2
    <3> QED BY <2>1, <3>1 DEF GetNextStep, Next, GetSomeSteps
  <2>2. CASE HandleEvent
    BY <2>2 DEF HandleEvent, Next, ExecutorInv, LoopInv
  <2>3. CASE ProcessSkips \/ ProcessAbandons
    BY <2>3 DEF ProcessSkips, ProcessAbandons, Next
  <2>4. CASE EndPlan \/ UNCHANGED executorVars
    BY <2>4 DEF EndPlan, executorVars
  <2> QED BY <2>1, <2>2, <2>3, <2>4 DEF ExecutorNext, Loop
<1> QED BY <1>1, <1>2, AlwaysExecutor, PTL DEF ExecutorSpec, Spec

\* At most the current step is in flight, and it is while its events come in.
THEOREM ExecutorTypeCorrect == ExecutorSpec => []ExecutorTypeOK
<1>1. ExecutorInv => ExecutorTypeOK
  <2>1. Settled => TypeOK
    BY TypesApart DEF Settled, Sound
  <2> QED BY <2>1 DEF ExecutorInv, LoopInv, ExecutorTypeOK
<1> QED BY <1>1, AlwaysExecutor, PTL

\* The loop ends only when every step that the mappings call for has ended.
THEOREM EndsWithThePlan == ExecutorSpec => []EndsDecided
<1>1. ExecutorInv => EndsDecided
  <2> SUFFICES ASSUME ExecutorInv, at = "done"
               PROVE  Terminal = {s \in Steps : Known(s)} /\ ~newMappings
    BY DEF EndsDecided
  <2>1. planned = Terminal /\ ~newMappings
    BY DEF ExecutorInv, LoopInv, Complete, Settled, Sound, Apart, Undone
  <2>2. planned = {s \in Steps : Known(s)}
    BY <2>1 DEF ExecutorInv, Settled, Sound, StepSets, Mapped
  <2> QED BY <2>1, <2>2
<1> QED BY <1>1, AlwaysExecutor, PTL
=============================================================================
