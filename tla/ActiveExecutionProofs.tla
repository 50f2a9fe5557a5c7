------------------------ MODULE ActiveExecutionProofs ------------------------
(***************************************************************************)
(* Theorems about ActiveExecution, for every plan, every limit and every   *)
(* order in which the methods are called.                                  *)
(***************************************************************************)
EXTENDS ActiveExecutionLife, FiniteSetTheorems, TLAPS

\* TypeOK and OneBucket, with the collections written out.
StepSets ==
  /\ planned \subseteq Steps /\ pending \subseteq Steps /\ executable \subseteq Steps
  /\ pendingSkip \subseteq Steps /\ pendingAbandon \subseteq Steps
  /\ waitingToRetry \subseteq Steps /\ inFlight \subseteq Steps
  /\ success \subseteq Steps /\ failed \subseteq Steps /\ skipped \subseteq Steps
  /\ abandoned \subseteq Steps /\ unknownState \subseteq Steps

OtherTypes ==
  /\ stepOutputs \subseteq Handles /\ emitted \subseteq Handles
  /\ gathering \in [Dynamic -> SUBSET Handles]
  /\ completed \subseteq Dynamic /\ noneMapped \subseteq completed
  /\ newMappings \in BOOLEAN
  /\ attempts \in [Steps -> Nat]

LEMMA TypesApart == TypeOK <=> StepSets /\ OtherTypes
  BY DEF TypeOK, StepSets, OtherTypes

Undone == pending \cup executable \cup pendingSkip \cup pendingAbandon \cup waitingToRetry

Apart ==
  /\ planned = Undone \cup inFlight \cup Terminal
  /\ pending \cap (executable \cup pendingSkip \cup pendingAbandon \cup waitingToRetry) = {}
  /\ executable \cap (pendingSkip \cup pendingAbandon \cup waitingToRetry) = {}
  /\ pendingSkip \cap (pendingAbandon \cup waitingToRetry) = {}
  /\ pendingAbandon \cap waitingToRetry = {}
  /\ Undone \cap (inFlight \cup Terminal) = {}
  /\ inFlight \cap Terminal = {}
  /\ success \cap (failed \cup skipped \cup abandoned) = {}
  /\ failed \cap (skipped \cup abandoned) = {}
  /\ skipped \cap abandoned = {}

LEMMA Collections ==
  /\ DOMAIN buckets = {1, 2, 3, 4, 5, 6, 7, 8, 9, 10}
  /\ buckets[1] = pending /\ buckets[2] = executable /\ buckets[3] = pendingSkip
  /\ buckets[4] = pendingAbandon /\ buckets[5] = waitingToRetry /\ buckets[6] = inFlight
  /\ buckets[7] = success /\ buckets[8] = failed /\ buckets[9] = skipped
  /\ buckets[10] = abandoned
  BY DEF buckets

LEMMA BucketsApart == OneBucket <=> Apart
<1>1. planned = UNION {buckets[i] : i \in DOMAIN buckets} <=> planned = Undone \cup inFlight \cup Terminal
  BY Collections DEF Undone, Terminal, EndedWell, EndedBadly
<1>2. ASSUME Apart
      PROVE  \A i, j \in DOMAIN buckets : i # j => buckets[i] \cap buckets[j] = {}
  BY <1>2, Collections DEF Apart, Undone, Terminal, EndedWell, EndedBadly
<1>3. ASSUME OneBucket
      PROVE  Apart
  BY <1>1, <1>3, Collections DEF OneBucket, Apart, Undone, Terminal, EndedWell, EndedBadly
<1> QED BY <1>1, <1>2, <1>3 DEF OneBucket, Apart

-----------------------------------------------------------------------------
(* What each action leaves of StepSets and of Apart. *)

\* Only steps that are in no collection are added, and the decisions share out
\* the waiting ones.
LEMMA Decisions ==
  /\ Resolved \subseteq Steps \ planned
  /\ ToSkip \subseteq Waiting
  /\ ToAbandon \subseteq Waiting \ ToSkip
  /\ ToExecute \subseteq Waiting \ (ToSkip \cup ToAbandon)
  BY DEF Resolved, ToSkip, ToAbandon, ToExecute

Sound == StepSets /\ Apart

LEMMA ExecuteSound ==
  ASSUME Sound, NEW limit, NEW due, NEW asked, NEW refused,
         GetStepsToExecute(limit, due, asked, refused)
  PROVE  Sound'
<1> DEFINE batch == asked \ refused
<1>1. batch \subseteq NowExecutable(due)
  BY DEF GetStepsToExecute, Selection
<1>2. StepSets'
  BY <1>1, Decisions DEF Sound, StepSets, GetStepsToExecute, Update, NowExecutable, Waiting
<1>3. Apart'
  BY <1>1, Decisions DEF Sound, Apart, Undone, Terminal, EndedWell, EndedBadly,
    GetStepsToExecute, Update, NowExecutable, Waiting
<1> QED BY <1>2, <1>3 DEF Sound

LEMMA SkipSound ==
  ASSUME Sound, NEW due, SkipRound(due)
  PROVE  Sound'
<1>1. StepSets'
  BY Decisions DEF Sound, StepSets, SkipRound, SkipVended, AbandonVended, Update,
    NowExecutable, Waiting
<1>2. Apart'
  BY Decisions DEF Sound, Apart, Undone, Terminal, EndedWell, EndedBadly, SkipRound,
    SkipVended, AbandonVended, Update, NowExecutable, Waiting
<1> QED BY <1>1, <1>2 DEF Sound

LEMMA AbandonSound ==
  ASSUME Sound, NEW due, AbandonRound(due)
  PROVE  Sound'
<1>1. StepSets'
  BY Decisions DEF Sound, StepSets, AbandonRound, SkipVended, AbandonVended, Update,
    NowExecutable, Waiting
<1>2. Apart'
  BY Decisions DEF Sound, Apart, Undone, Terminal, EndedWell, EndedBadly, AbandonRound,
    SkipVended, AbandonVended, Update, NowExecutable, Waiting
<1> QED BY <1>1, <1>2 DEF Sound

LEMMA LostSound ==
  ASSUME Sound, NEW lost, MarkUnknownState(lost)
  PROVE  Sound'
<1>1. StepSets'
  BY DEF Sound, StepSets, MarkUnknownState, undecided
<1>2. Apart'
  BY DEF Sound, Apart, Undone, Terminal, EndedWell, EndedBadly, MarkUnknownState, undecided
<1> QED BY <1>1, <1>2 DEF Sound

\* Whatever a step reports, it goes from in flight to one other collection.
LEMMA EventSound ==
  ASSUME Sound, NEW s, StepEvent(s)
  PROVE  Sound'
<1> USE DEF Sound, StepSets, Apart, Undone, Terminal, EndedWell, EndedBadly, undecided
<1>1. ASSUME NEW h \in Handles, OutputEvent(s, h) PROVE Sound'
  BY <1>1 DEF OutputEvent
<1>2. CASE SuccessEvent(s)
  BY <1>2 DEF SuccessEvent
<1>3. CASE FailureEvent(s)
  BY <1>3 DEF FailureEvent
<1>4. ASSUME NEW delayed \in BOOLEAN, RetryEvent(s, delayed) PROVE Sound'
  <2>1. CASE RetryMode = "enabled" /\ delayed
    BY <1>4, <2>1 DEF RetryEvent, MarkUpForRetry, Requeued
  <2>2. CASE RetryMode = "enabled" /\ ~delayed
    BY <1>4, <2>2 DEF RetryEvent, MarkUpForRetry, Requeued
  <2>3. CASE RetryMode = "deferred"
    BY <1>4, <2>3 DEF RetryEvent, MarkUpForRetry, Requeued
  <2> QED BY <1>4, <2>1, <2>2, <2>3, PlanAssumption DEF RetryEvent, MarkUpForRetry, MayRetry
<1>5. CASE s \in inFlight /\ MarkUnknownState({s})
  BY <1>5, LostSound
<1> QED BY <1>1, <1>2, <1>3, <1>4, <1>5 DEF StepEvent

LEMMA StutterSound ==
  ASSUME Sound, UNCHANGED vars
  PROVE  Sound'
  BY DEF Sound, StepSets, Apart, Undone, Terminal, EndedWell, EndedBadly, vars, buckets

LEMMA InitSound == Init => Sound
  BY DEF Init, Sound, StepSets, Apart, Undone, Terminal, EndedWell, EndedBadly

\* A method called by anybody, with any limit, or for several lost steps.
Call ==
  \/ \E limit, due, asked, refused : GetStepsToExecute(limit, due, asked, refused)
  \/ \E due : SkipRound(due) \/ AbandonRound(due)
  \/ \E s \in Steps : StepEvent(s)
  \/ \E lost : MarkUnknownState(lost)

LEMMA NextCalls == [Next]_vars => [Call]_vars
  BY DEF Next, Call, GetSomeSteps

LEMMA CallSound ==
  ASSUME Sound, [Call]_vars
  PROVE  Sound'
  BY ExecuteSound, SkipSound, AbandonSound, EventSound, LostSound, StutterSound DEF Call

LEMMA AlwaysSound == Spec => []Sound
  BY InitSound, NextCalls, CallSound, PTL DEF Spec

-----------------------------------------------------------------------------
(* Types *)

LEMMA InitTypes == Init => OtherTypes
<1> SUFFICES ASSUME Init PROVE OtherTypes
  OBVIOUS
<1>1. gathering \in [Dynamic -> SUBSET Handles] /\ attempts \in [Steps -> Nat]
  BY DEF Init
<1>2. stepOutputs \subseteq Handles
  BY PlanAssumption DEF Init
<1>3. emitted = {} /\ completed = {} /\ noneMapped = {} /\ newMappings = FALSE
  BY DEF Init
<1> QED BY <1>1, <1>2, <1>3 DEF OtherTypes

LEMMA CallTypes ==
  ASSUME OtherTypes, [Call]_vars
  PROVE  OtherTypes'
<1> USE DEF OtherTypes
<1>1. ASSUME NEW limit, NEW due, NEW asked, NEW refused,
             GetStepsToExecute(limit, due, asked, refused)
      PROVE  OtherTypes'
  BY <1>1 DEF GetStepsToExecute, Prepared
<1>2. ASSUME NEW due, SkipRound(due) PROVE OtherTypes'
  BY <1>2 DEF SkipRound
<1>3. ASSUME NEW due, AbandonRound(due) PROVE OtherTypes'
  BY <1>3 DEF AbandonRound
<1>4. ASSUME NEW lost, MarkUnknownState(lost) PROVE OtherTypes'
  BY <1>4 DEF MarkUnknownState, mappings
<1>5. ASSUME NEW s \in Steps, StepEvent(s) PROVE OtherTypes'
  <2>1. ASSUME NEW h \in Handles, OutputEvent(s, h) PROVE OtherTypes'
    BY <2>1 DEF OutputEvent
  <2>2. CASE SuccessEvent(s)
    BY <2>2 DEF SuccessEvent, Completes, ResolvedTo
  <2>3. CASE FailureEvent(s)
    BY <2>3 DEF FailureEvent, mappings
  <2>4. ASSUME NEW delayed \in BOOLEAN, RetryEvent(s, delayed) PROVE OtherTypes'
    BY <2>4 DEF RetryEvent, MarkUpForRetry, mappings
  <2> QED BY <1>4, <1>5, <2>1, <2>2, <2>3, <2>4 DEF StepEvent
<1>6. CASE UNCHANGED vars
  BY <1>6 DEF vars
<1> QED BY <1>1, <1>2, <1>3, <1>4, <1>5, <1>6 DEF Call

\* TypeOK, in whatever order an executor calls the methods.
THEOREM TypeCorrect == Spec => []TypeOK
<1>1. Spec => []OtherTypes
  BY InitTypes, NextCalls, CallTypes, PTL DEF Spec
<1>2. Sound /\ OtherTypes => TypeOK
  BY TypesApart DEF Sound
<1> QED BY <1>1, <1>2, AlwaysSound, PTL

\* No method loses a step, vends it twice or ends it twice: at any time a step
\* of the plan is in one collection.
THEOREM StepsInOneBucket == Spec => []OneBucket
<1>1. Sound => OneBucket
  BY BucketsApart DEF Sound
<1> QED BY <1>1, AlwaysSound, PTL

-----------------------------------------------------------------------------
(* The limits *)

LEMMA StepsFinite ==
  ASSUME NEW T, T \subseteq Steps
  PROVE  IsFiniteSet(T) /\ Cardinality(T) \in Nat
  BY FS_Subset, FS_CardinalityType, PlanAssumption

\* With fewer steps in flight the limits hold all the more.
LEMMA FewerWithinLimits ==
  ASSUME Sound, WithinLimits, inFlight' \subseteq inFlight
  PROVE  WithinLimits'
<1>1. Tagged(inFlight)' \subseteq Tagged(inFlight) /\ Tagged(inFlight) \subseteq Steps
  BY DEF Tagged, Sound, StepSets
<1>2. Cardinality(inFlight') <= Cardinality(inFlight)
  BY FS_Subset, StepsFinite DEF Sound, StepSets
<1>3. Cardinality(Tagged(inFlight)') <= Cardinality(Tagged(inFlight))
  BY <1>1, FS_Subset, StepsFinite
<1>4. Cardinality(inFlight) \in Nat /\ Cardinality(inFlight') \in Nat
  BY StepsFinite DEF Sound, StepSets
<1>5. Cardinality(Tagged(inFlight)) \in Nat /\ Cardinality(Tagged(inFlight)') \in Nat
  BY <1>1, StepsFinite
<1> QED BY <1>2, <1>3, <1>4, <1>5, PlanAssumption DEF WithinLimits

LEMMA ExecuteWithinLimits ==
  ASSUME Sound, WithinLimits, NEW limit, NEW due, NEW asked, NEW refused,
         GetStepsToExecute(limit, due, asked, refused)
  PROVE  WithinLimits'
<1> DEFINE batch == asked \ refused
<1>1. inFlight' = inFlight \cup batch /\ FitBatch(batch, limit) /\ FitTags(asked)
  BY DEF GetStepsToExecute, Selection
<1>2. asked \subseteq Steps /\ batch \subseteq Steps /\ inFlight \subseteq Steps
  BY Decisions DEF GetStepsToExecute, Selection, NowExecutable, Waiting, Update, Sound, StepSets
<1>3. ASSUME MaxConcurrent # None PROVE Cardinality(inFlight') <= MaxConcurrent
  <2>1. CASE batch = {}
    BY <1>1, <1>3, <2>1 DEF WithinLimits
  <2>2. CASE batch # {}
    <3>1. Cardinality(batch) + Cardinality(inFlight) <= MaxConcurrent
      BY <1>1, <1>3, <2>2 DEF FitBatch
    <3>2. Cardinality(inFlight \cup batch) <= Cardinality(batch) + Cardinality(inFlight)
      <4>1. IsFiniteSet(batch) /\ IsFiniteSet(inFlight) /\ inFlight \cap batch \subseteq Steps
        BY <1>2, StepsFinite
      <4>2. Cardinality(inFlight \cup batch)
              = Cardinality(inFlight) + Cardinality(batch) - Cardinality(inFlight \cap batch)
        BY <4>1, FS_Union
      <4>3. Cardinality(inFlight \cap batch) \in Nat
        BY <4>1, StepsFinite
      <4>4. Cardinality(inFlight) \in Nat /\ Cardinality(batch) \in Nat
        BY <1>2, StepsFinite
      <4> HIDE DEF batch
      <4> QED BY <4>2, <4>3, <4>4
    <3>3. /\ Cardinality(inFlight \cup batch) \in Nat /\ MaxConcurrent \in Nat
          /\ Cardinality(inFlight) \in Nat /\ Cardinality(batch) \in Nat
      BY <1>2, <1>3, StepsFinite, PlanAssumption
    <3> HIDE DEF batch
    <3> QED BY <1>1, <3>1, <3>2, <3>3
  <2> QED BY <2>1, <2>2
<1>4. ASSUME TagLimit # None PROVE Cardinality(Tagged(inFlight)') <= TagLimit
  <2>1. Tagged(inFlight)' \subseteq Tagged(inFlight \cup asked)
    BY <1>1 DEF Tagged
  <2>2. Tagged(inFlight \cup asked) \subseteq Steps
    BY <1>2 DEF Tagged
  <2>3. Cardinality(Tagged(inFlight)') <= Cardinality(Tagged(inFlight \cup asked))
    BY <2>1, <2>2, StepsFinite, FS_Subset
  <2>4. Cardinality(Tagged(inFlight \cup asked)) <= TagLimit
    BY <1>1, <1>4 DEF FitTags
  <2>5. /\ Cardinality(Tagged(inFlight)') \in Nat /\ TagLimit \in Nat
        /\ Cardinality(Tagged(inFlight \cup asked)) \in Nat
    BY <1>4, <2>1, <2>2, StepsFinite, PlanAssumption
  <2> QED BY <2>3, <2>4, <2>5
<1> QED BY <1>3, <1>4 DEF WithinLimits

LEMMA CallWithinLimits ==
  ASSUME Sound, WithinLimits, [Call]_vars
  PROVE  WithinLimits'
<1>1. ASSUME NEW due, SkipRound(due) \/ AbandonRound(due) PROVE WithinLimits'
  BY <1>1, FewerWithinLimits DEF SkipRound, AbandonRound
<1>2. ASSUME NEW s, StepEvent(s) PROVE WithinLimits'
  <2>1. inFlight' \subseteq inFlight
    BY <1>2 DEF StepEvent, OutputEvent, SuccessEvent, FailureEvent, RetryEvent, MarkUpForRetry, MarkUnknownState
  <2> QED BY <2>1, FewerWithinLimits
<1>3. ASSUME NEW lost, MarkUnknownState(lost) PROVE WithinLimits'
  BY <1>3, FewerWithinLimits DEF MarkUnknownState
<1>4. CASE UNCHANGED vars
  BY <1>4, FewerWithinLimits DEF vars, buckets
<1> QED BY <1>1, <1>2, <1>3, <1>4, ExecuteWithinLimits DEF Call

LEMMA InitWithinLimits == Init => WithinLimits
<1> SUFFICES ASSUME Init PROVE WithinLimits
  OBVIOUS
<1>1. inFlight = {} /\ Tagged(inFlight) = {}
  BY DEF Init, Tagged
<1>2. Cardinality(inFlight) = 0 /\ Cardinality(Tagged(inFlight)) = 0
  BY <1>1, FS_EmptySet
<1>3. (MaxConcurrent # None => MaxConcurrent \in Nat) /\ (TagLimit # None => TagLimit \in Nat)
  BY PlanAssumption
<1> QED BY <1>2, <1>3 DEF WithinLimits

\* The limit on concurrent steps and the limit on tagged steps are never
\* exceeded, for any plan, any limits, any refusals of the pools.
THEOREM LimitsHold == Spec => []WithinLimits
<1>1. Init => Sound /\ WithinLimits
  BY InitSound, InitWithinLimits
<1>2. (Sound /\ WithinLimits) /\ [Next]_vars => (Sound /\ WithinLimits)'
  BY NextCalls, CallSound, CallWithinLimits
<1> QED BY <1>1, <1>2, PTL DEF Spec

-----------------------------------------------------------------------------
(* The mappings *)

\* A dynamic step's elements are of its last attempt, and stand once it has
\* ended; the plan holds only steps that are known, and all of them unless there
\* are new mappings.
Mapped ==
  /\ \A d \in Dynamic : gathering[d] \subseteq {h \in emitted : Output[h].source = d}
  /\ completed = EndedWell \cap Dynamic
  /\ \A s \in planned : Known(s)
  /\ ~newMappings => \A s \in Steps : Known(s) => s \in planned

Settled == Sound /\ OtherTypes /\ Mapped

\* What is known stays known, as long as completed mappings stand.
LEMMA StaysKnown ==
  ASSUME OtherTypes, NEW s \in Steps, Known(s), completed \subseteq completed',
         \A d \in completed : gathering'[d] = gathering[d]
  PROVE  Known(s)'
<1>1. Step[s].needs \subseteq completed'
  BY DEF Known
<1>2. ASSUME Step[s].spawn # None
      PROVE  Step[s].spawn \in gathering'[Output[Step[s].spawn].source]
  <2>1. Output[Step[s].spawn].source \in completed
    BY <1>2, PlanAssumption DEF Known
  <2> QED BY <1>2, <2>1 DEF Known
<1> QED BY <1>1, <1>2 DEF Known

\* Nothing becomes known unless a mapping is completed.
LEMMA NothingNew ==
  ASSUME OtherTypes, NEW s \in Steps, Known(s)', completed' = completed,
         \A d \in completed : gathering'[d] = gathering[d]
  PROVE  Known(s)
<1>1. Step[s].needs \subseteq completed
  BY DEF Known
<1>2. ASSUME Step[s].spawn # None
      PROVE  Step[s].spawn \in gathering[Output[Step[s].spawn].source]
  <2>1. Output[Step[s].spawn].source \in completed
    BY <1>1, <1>2, PlanAssumption
  <2> QED BY <1>2, <2>1 DEF Known
<1> QED BY <1>1, <1>2 DEF Known

LEMMA InitMapped == Init => Mapped
<1> SUFFICES ASSUME Init PROVE Mapped
  OBVIOUS
<1>1. ASSUME NEW s \in Steps
      PROVE  Known(s) <=> s \in planned
  BY PlanAssumption DEF Init, Known
<1>2. planned \subseteq Steps
  BY DEF Init
<1>3. completed = EndedWell \cap Dynamic
  BY DEF Init, EndedWell
<1>4. \A d \in Dynamic : gathering[d] = {}
  BY DEF Init
<1> QED BY <1>1, <1>2, <1>3, <1>4 DEF Mapped

\* What an action has to leave alone, for the last two conjuncts of Mapped.
LEMMA PlanStays ==
  ASSUME Settled, completed \subseteq completed',
         \A d \in completed : gathering'[d] = gathering[d],
         planned' = planned \cup Resolved,
         ~newMappings' => completed' = completed
  PROVE  /\ \A s \in planned' : Known(s)'
         /\ ~newMappings' => \A s \in Steps : Known(s)' => s \in planned'
<1>1. \A s \in planned' : s \in Steps /\ Known(s)
  BY DEF Settled, Sound, StepSets, Mapped, Resolved
<1>2. \A s \in Steps : Known(s) => s \in planned'
  BY DEF Settled, Mapped, Resolved
<1> QED BY <1>1, <1>2, StaysKnown, NothingNew DEF Settled

LEMMA ExecuteMapped ==
  ASSUME Settled, NEW limit, NEW due, NEW asked, NEW refused,
         GetStepsToExecute(limit, due, asked, refused)
  PROVE  Mapped'
<1> DEFINE batch == asked \ refused
<1>1. batch \subseteq NowExecutable(due)
  BY DEF GetStepsToExecute, Selection
<1>2. batch \cap completed = {}
  BY <1>1, Decisions DEF Settled, Sound, StepSets, Apart, Undone, Terminal, EndedWell, Mapped,
    GetStepsToExecute, Update, NowExecutable, Waiting
<1>3. gathering' = Prepared(batch) /\ emitted' = {h \in emitted : Output[h].source \notin batch}
  BY DEF GetStepsToExecute
<1>4. \A d \in completed : gathering'[d] = gathering[d]
  BY <1>2, <1>3 DEF Prepared, Settled, OtherTypes
<1>5. \A d \in Dynamic : gathering'[d] \subseteq {h \in emitted' : Output[h].source = d}
  BY <1>3 DEF Prepared, Settled, Mapped
<1>6. completed' = completed /\ EndedWell' = EndedWell /\ planned' = planned \cup Resolved
  BY DEF GetStepsToExecute, Update, EndedWell
<1>7. completed' = EndedWell' \cap Dynamic
  BY <1>6 DEF Settled, Mapped
<1> HIDE DEF batch
<1> QED BY <1>4, <1>5, <1>6, <1>7, PlanStays DEF Mapped

LEMMA SkipMapped ==
  ASSUME Settled, NEW due, SkipRound(due)
  PROVE  Mapped'
<1>1. SkipVended \cap completed = {}
  BY Decisions DEF Settled, Sound, StepSets, Apart, Undone, Terminal, EndedWell, Mapped,
    SkipVended, Waiting
<1>2. gathering' = [d \in Dynamic |-> IF d \in SkipVended THEN {} ELSE gathering[d]]
  BY DEF SkipRound
<1>3. \A d \in completed : gathering'[d] = gathering[d]
  BY <1>1, <1>2 DEF Settled, OtherTypes
<1>4. \A d \in Dynamic : gathering'[d] \subseteq {h \in emitted' : Output[h].source = d}
  BY <1>2 DEF SkipRound, Settled, Mapped
<1>5. completed' = EndedWell' \cap Dynamic
  BY DEF SkipRound, Settled, Mapped, EndedWell
<1>6. completed \subseteq completed' /\ (~newMappings' => completed' = completed)
  BY DEF SkipRound
<1>7. planned' = planned \cup Resolved
  BY DEF SkipRound, Update
<1> QED BY <1>3, <1>4, <1>5, <1>6, <1>7, PlanStays DEF Mapped

LEMMA AbandonMapped ==
  ASSUME Settled, NEW due, AbandonRound(due)
  PROVE  Mapped'
<1>1. UNCHANGED <<gathering, completed, emitted, success, skipped>> /\ planned' = planned \cup Resolved
  BY DEF AbandonRound, Update
<1>2. completed' = EndedWell' \cap Dynamic
  BY <1>1 DEF Settled, Mapped, EndedWell
<1> QED BY <1>1, <1>2, PlanStays DEF Mapped, Settled

\* An action that leaves the plan and the ended mappings alone.
LEMMA QuietMapped ==
  ASSUME Settled, UNCHANGED <<planned, emitted, mappings, success, skipped>>
  PROVE  Mapped'
<1>1. completed' = EndedWell' \cap Dynamic
  BY DEF Settled, Mapped, EndedWell, mappings
<1>2. \A s \in Steps : Known(s)' = Known(s)
  BY DEF Known, mappings
<1> QED BY <1>1, <1>2 DEF Settled, Sound, StepSets, Mapped, mappings

LEMMA OutputMapped ==
  ASSUME Settled, NEW s \in Steps, NEW h \in Handles, OutputEvent(s, h)
  PROVE  Mapped'
<1>1. s \notin completed
  BY DEF OutputEvent, Settled, Sound, Apart, Terminal, EndedWell, Mapped
<1>2. \A d \in completed : gathering'[d] = gathering[d]
  BY <1>1 DEF OutputEvent, Settled, OtherTypes
<1>3. UNCHANGED <<planned, completed, newMappings, success, skipped>>
  BY DEF OutputEvent, undecided
<1>4. \A t \in Steps : Known(t)' <=> Known(t)
  BY <1>2, <1>3, StaysKnown, NothingNew DEF Settled
<1>5. \A d \in Dynamic : gathering'[d] \subseteq {g \in emitted' : Output[g].source = d}
  BY DEF OutputEvent, Outputs, Settled, OtherTypes, Mapped
<1> QED BY <1>3, <1>4, <1>5 DEF Settled, Sound, StepSets, Mapped, EndedWell

LEMMA SuccessMapped ==
  ASSUME Settled, NEW s \in Steps, SuccessEvent(s)
  PROVE  Mapped'
<1>1. UNCHANGED <<planned, gathering, emitted, skipped>> /\ success' = success \cup {s}
  BY DEF SuccessEvent, undecided
<1>2. completed' = completed \cup ({s} \cap Dynamic) /\ newMappings' = (newMappings \/ s \in Dynamic)
  BY DEF SuccessEvent, Completes
<1>3. completed' = EndedWell' \cap Dynamic
  BY <1>1, <1>2 DEF Settled, Mapped, EndedWell
<1>4. \A t \in Steps : Known(t) => Known(t)'
  BY <1>1, <1>2, StaysKnown DEF Settled
<1>5. ASSUME ~newMappings' PROVE \A t \in Steps : Known(t)' => Known(t)
  BY <1>1, <1>2, <1>5, NothingNew DEF Settled
<1> QED BY <1>1, <1>2, <1>3, <1>4, <1>5 DEF Settled, Sound, StepSets, Mapped

LEMMA CallMapped ==
  ASSUME Settled, [Call]_vars
  PROVE  Mapped'
<1>1. ASSUME NEW s \in Steps, StepEvent(s) PROVE Mapped'
  <2>1. CASE FailureEvent(s) \/ \E delayed \in BOOLEAN : RetryEvent(s, delayed)
    BY <2>1, QuietMapped DEF FailureEvent, RetryEvent, MarkUpForRetry, undecided
  <2>2. CASE MarkUnknownState({s})
    BY <2>2, QuietMapped DEF MarkUnknownState, undecided
  <2> QED BY <1>1, <2>1, <2>2, OutputMapped, SuccessMapped DEF StepEvent
<1>2. ASSUME NEW lost, MarkUnknownState(lost) PROVE Mapped'
  BY <1>2, QuietMapped DEF MarkUnknownState, undecided
<1>3. CASE UNCHANGED vars
  BY <1>3, QuietMapped DEF vars, buckets, mappings
<1> QED BY <1>1, <1>2, <1>3, ExecuteMapped, SkipMapped, AbandonMapped DEF Call

LEMMA InitSettled == Init => Settled
  BY InitSound, InitTypes, InitMapped DEF Settled

LEMMA CallSettled ==
  ASSUME Settled, [Call]_vars
  PROVE  Settled'
  BY CallSound, CallTypes, CallMapped DEF Settled

LEMMA AlwaysSettled == Spec => []Settled
  BY InitSettled, NextCalls, CallSettled, PTL DEF Spec

\* At any time the plan and the mappings not looked at yet make up all the steps
\* that are called for: no element is left without its mapped step.
THEOREM PlanResolved == Spec => []PlanIsResolved
<1>1. Settled => PlanIsResolved
  BY DEF Settled, Sound, StepSets, Mapped, PlanIsResolved, Resolved
<1> QED BY <1>1, AlwaysSettled, PTL

\* A mapped step goes back to an element that the last attempt of its dynamic
\* step has emitted, however often that step was retried.
THEOREM LastAttemptMapped == Spec => []MapsLastAttempt
<1>1. ASSUME Settled, NEW s \in planned, Step[s].spawn # None
      PROVE  Step[s].spawn \in emitted
  <2>1. s \in Steps /\ Known(s)
    BY <1>1 DEF Settled, Sound, StepSets, Mapped
  <2>2. Output[Step[s].spawn].source \in completed
    BY <1>1, <2>1, PlanAssumption DEF Known
  <2> QED BY <1>1, <2>1, <2>2 DEF Known, Settled, OtherTypes, Mapped
<1>2. Settled => MapsLastAttempt
  BY <1>1 DEF MapsLastAttempt
<1> QED BY <1>2, AlwaysSettled, PTL

-----------------------------------------------------------------------------
(* The decisions of ActiveExecution are never outdated, and with them it    *)
(* implements StepLife.                                                     *)

\* No past run has produced an output of a step that this run executes without
\* having selected it: of an instance that this run's own mapping spawns.
NoPastInstances ==
  \A h \in ParentOutputs : Output[h].source \in Steps => Output[h].source \in KeysToExecute

-----------------------------------------------------------------------------
(* What a known step depends on stands, once it is known. *)

NoneMappedEmpty == \A d \in noneMapped : gathering[d] = {}

SettledToo == Settled /\ NoneMappedEmpty /\ unknownState \subseteq abandoned

\* What any call leaves alone: ended steps, their outputs and their mappings.
Kept ==
  /\ EndedWell \subseteq EndedWell' /\ EndedBadly \subseteq EndedBadly'
  /\ \A h \in Handles : Output[h].source \in Terminal => (h \in stepOutputs <=> h \in stepOutputs')
  /\ stepOutputs \subseteq stepOutputs'
  /\ \A d \in completed : gathering'[d] = gathering[d] /\ (d \in noneMapped' <=> d \in noneMapped)

LEMMA CallKeeps ==
  ASSUME Settled, [Call]_vars
  PROVE  Kept
<1> USE DEF Kept, EndedWell, EndedBadly, Terminal
<1>1. ASSUME NEW limit, NEW due, NEW asked, NEW refused,
             GetStepsToExecute(limit, due, asked, refused)
      PROVE  Kept
  <2>1. asked \ refused \subseteq NowExecutable(due)
    BY <1>1 DEF GetStepsToExecute, Selection
  <2>2. (asked \ refused) \cap completed = {}
    BY <1>1, <2>1, Decisions DEF GetStepsToExecute, Update, NowExecutable, Waiting,
      Settled, Sound, StepSets, Apart, Undone, Mapped
  <2>3. \A d \in completed : gathering'[d] = gathering[d]
    BY <1>1, <2>2 DEF GetStepsToExecute, Prepared, Settled, OtherTypes
  <2> QED BY <1>1, <2>3 DEF GetStepsToExecute
<1>2. ASSUME NEW due, SkipRound(due) PROVE Kept
  <2>1. SkipVended \cap completed = {}
    BY Decisions DEF Settled, Sound, StepSets, Apart, Undone, Mapped, SkipVended, Waiting
  <2>2. \A d \in completed : gathering'[d] = gathering[d]
    BY <1>2, <2>1 DEF SkipRound, Settled, OtherTypes
  <2> QED BY <1>2, <2>1, <2>2 DEF SkipRound
<1>3. ASSUME NEW due, AbandonRound(due) PROVE Kept
  BY <1>3 DEF AbandonRound
<1>4. ASSUME NEW s \in Steps, NEW h \in Handles, OutputEvent(s, h) PROVE Kept
  <2>1. s \notin Terminal /\ s \notin completed /\ Output[h].source = s
    BY <1>4 DEF OutputEvent, Outputs, Settled, Sound, Apart, Mapped
  <2>2. \A d \in completed : gathering'[d] = gathering[d]
    BY <1>4, <2>1 DEF OutputEvent, Settled, OtherTypes
  <2>3. UNCHANGED <<success, failed, skipped, abandoned, noneMapped>> /\ stepOutputs' = stepOutputs \cup {h}
    BY <1>4 DEF OutputEvent
  <2> QED BY <2>1, <2>2, <2>3
<1>5. ASSUME NEW s \in Steps, SuccessEvent(s) PROVE Kept
  <2>1. s \notin completed
    BY <1>5 DEF SuccessEvent, Settled, Sound, Apart, Mapped
  <2> QED BY <1>5, <2>1 DEF SuccessEvent, ResolvedTo
<1>6. ASSUME NEW s \in Steps, FailureEvent(s) PROVE Kept
  BY <1>6 DEF FailureEvent, mappings
<1>7. ASSUME NEW s \in Steps, NEW delayed, RetryEvent(s, delayed) PROVE Kept
  BY <1>7 DEF RetryEvent, MarkUpForRetry, mappings
<1>8. ASSUME NEW lost, MarkUnknownState(lost) PROVE Kept
  BY <1>8 DEF MarkUnknownState, mappings
<1>9. CASE UNCHANGED vars
  BY <1>9 DEF vars, buckets
<1> QED BY <1>1, <1>2, <1>3, <1>4, <1>5, <1>6, <1>7, <1>8, <1>9 DEF Call, StepEvent

LEMMA CallSettledToo ==
  ASSUME SettledToo, [Call]_vars
  PROVE  SettledToo'
<1> USE DEF SettledToo, NoneMappedEmpty
<1>1. Settled'
  BY CallSettled
<1>2. \A d \in noneMapped : gathering'[d] = {}
  BY CallKeeps DEF Kept, Settled, OtherTypes
<1>3. ASSUME NEW due, SkipRound(due) PROVE SettledToo'
  BY <1>1, <1>2, <1>3 DEF SkipRound
<1>4. ASSUME NEW s \in Steps, SuccessEvent(s) PROVE SettledToo'
  BY <1>1, <1>2, <1>4 DEF SuccessEvent, ResolvedTo
<1>5. ASSUME NEW lost, MarkUnknownState(lost) PROVE SettledToo'
  BY <1>1, <1>2, <1>5 DEF MarkUnknownState, mappings
<1>6. ASSUME NEW s \in Steps, NEW delayed, RetryEvent(s, delayed) PROVE SettledToo'
  BY <1>1, <1>2, <1>6 DEF RetryEvent, MarkUpForRetry, mappings
<1>7. ASSUME UNCHANGED <<noneMapped, unknownState>>, abandoned \subseteq abandoned' PROVE SettledToo'
  BY <1>1, <1>2, <1>7
<1>8. ASSUME NEW s \in Steps, FailureEvent(s) \/ \E h \in Handles : OutputEvent(s, h) PROVE SettledToo'
  BY <1>7, <1>8 DEF FailureEvent, OutputEvent, mappings
<1>9. ASSUME \/ \E limit, due, asked, refused : GetStepsToExecute(limit, due, asked, refused)
             \/ \E due : AbandonRound(due)
      PROVE  SettledToo'
  BY <1>7, <1>9 DEF GetStepsToExecute, AbandonRound
<1>10. CASE UNCHANGED vars
  BY <1>7, <1>10 DEF vars, buckets
<1> QED BY <1>3, <1>4, <1>5, <1>6, <1>8, <1>9, <1>10 DEF Call, StepEvent

LEMMA InitSettledToo == Init => SettledToo
  BY InitSettled DEF Init, SettledToo, NoneMappedEmpty

\* A known step's inputs mean the same after any call.
LEMMA SourcesStand ==
  ASSUME Settled, [Call]_vars, NEW s \in Steps, Known(s), NEW i \in Step[s].inputs
  PROVE  Sources(i)' = Sources(i) /\ FanIn(i)' = FanIn(i) /\ Gating(i)' = Gating(i)
<1>1. i.collect # None => i.collect \in completed
  BY PlanAssumption DEF Known
<1>2. Sources(i)' = Sources(i) /\ FanIn(i)' = FanIn(i)
  <2>1. CASE i.collect = None
    <3>1. i.collect \notin noneMapped /\ i.collect \notin noneMapped'
      <4>1. None \notin Steps
        BY PlanAssumption
      <4>2. completed \subseteq Steps /\ completed' \subseteq Steps
        <5>1. Settled'
          BY CallSettled
        <5> QED BY <5>1 DEF Settled, Sound, StepSets, Mapped, EndedWell
      <4>3. noneMapped \subseteq completed /\ noneMapped' \subseteq completed'
        <5>1. Settled'
          BY CallSettled
        <5> QED BY <5>1 DEF Settled, OtherTypes
      <4> QED BY <2>1, <4>1, <4>2, <4>3
    <3> QED BY <2>1, <3>1 DEF Sources, FanIn
  <2>2. CASE i.collect # None
    BY <1>1, <2>2, CallKeeps DEF Kept, Sources, FanIn
  <2> QED BY <2>1, <2>2
<1> QED BY <1>2 DEF Gating

LEMMA DepsStand ==
  ASSUME Settled, [Call]_vars, NEW s \in Steps, Known(s)
  PROVE  SourcesOf(s)' = SourcesOf(s) /\ Deps(s)' = Deps(s)
<1>1. SourcesOf(s)' = SourcesOf(s)
  BY SourcesStand DEF SourcesOf
<1> QED BY <1>1 DEF Deps

\* An output that an ended step has left out stays left out.
LEMMA LeftOut ==
  ASSUME Settled, [Call]_vars, NEW h, h \notin stepOutputs, Output[h].source \in Terminal
  PROVE  h \notin stepOutputs'
<1>1. CASE h \in Handles
  BY <1>1, CallKeeps DEF Kept
<1>2. CASE h \notin Handles
  <2>1. Settled'
    BY CallSettled
  <2> QED BY <1>2, <2>1 DEF Settled, OtherTypes
<1> QED BY <1>1, <1>2

LEMMA MissingStays ==
  ASSUME Settled, [Call]_vars, NEW s \in Steps, Known(s), NEW i \in Step[s].inputs
  PROVE  Missing(i) \subseteq Missing(i)' /\ Missing(i)' \subseteq Gating(i)
<1>1. ASSUME NEW h \in Missing(i) PROVE h \in Missing(i)'
  <2>1. h \in Gating(i)' /\ Output[h].source \in EndedWell'
    BY <1>1, SourcesStand, CallKeeps DEF Missing, Kept
  <2>2. h \notin stepOutputs'
    BY <1>1, LeftOut DEF Missing, Terminal
  <2> QED BY <2>1, <2>2 DEF Missing
<1>2. Missing(i)' \subseteq Gating(i)'
  BY DEF Missing
<1> QED BY <1>1, <1>2, SourcesStand

\* What is to be skipped, and what is to be abandoned, stays so.
LEMMA ReasonsStand ==
  ASSUME Settled, [Call]_vars, NEW s \in Steps, Known(s)
  PROVE  /\ ShouldSkip(s) => ShouldSkip(s)'
         /\ ShouldAbandon(s) => ShouldAbandon(s)'
<1>1. ASSUME ShouldSkip(s) PROVE ShouldSkip(s)'
  <2>1. PICK i \in Step[s].inputs : Missing(i) # {} /\ (FanIn(i) => Missing(i) = Gating(i))
    BY <1>1 DEF ShouldSkip
  <2>2. Missing(i)' # {} /\ (FanIn(i)' => Missing(i)' = Gating(i)')
    BY <2>1, SourcesStand, MissingStays
  <2> QED BY <2>2 DEF ShouldSkip
<1>2. ASSUME ShouldAbandon(s) PROVE ShouldAbandon(s)'
  <2>1. CASE RequireUpstreamSuccess
    BY <1>2, <2>1, DepsStand, CallKeeps DEF ShouldAbandon, Kept
  <2>2. CASE ~RequireUpstreamSuccess
    <3>1. PICK h \in SourcesOf(s) : h \notin stepOutputs /\ Output[h].source \in EndedBadly
      BY <1>2, <2>2 DEF ShouldAbandon, LostSource
    <3>2. h \in SourcesOf(s)' /\ Output[h].source \in EndedBadly'
      BY <3>1, DepsStand, CallKeeps DEF Kept
    <3>3. h \notin stepOutputs'
      BY <3>1, LeftOut DEF Terminal
    <3> QED BY <2>2, <3>2, <3>3 DEF ShouldAbandon, LostSource
  <2> QED BY <2>1, <2>2
<1> QED BY <1>1, <1>2

\* What is ready to run stays so, unless a past run's instances get in the way.
Ready(s) ==
  /\ ~ShouldSkip(s)
  /\ IF RequireUpstreamSuccess THEN Deps(s) \subseteq EndedWell ELSE AllProduced(s)

LEMMA ReadyStays ==
  ASSUME Settled, [Call]_vars, NEW s \in Steps, Known(s), Ready(s),
         RequireUpstreamSuccess \/ NoPastInstances
  PROVE  Ready(s)'
<1>1. Deps(s) \subseteq EndedWell => Deps(s)' \subseteq EndedWell'
  BY DepsStand, CallKeeps DEF Kept
<1>2. AllProduced(s) => AllProduced(s)'
  BY DepsStand, CallKeeps DEF Kept, AllProduced, HasProduced
<1>3. ASSUME NEW i \in Step[s].inputs, NEW h \in Missing(i)' PROVE h \in Missing(i)
  <2>1. /\ h \in Gating(i) /\ h \in SourcesOf(s)
        /\ h \notin stepOutputs /\ h \notin stepOutputs' /\ Output[h].source \in EndedWell'
    BY <1>3, SourcesStand, CallKeeps DEF Kept, Missing, Gating, SourcesOf
  <2>2. Output[h].source \in Steps
    <3>1. Settled'
      BY CallSettled
    <3> QED BY <2>1, <3>1 DEF Settled, Sound, StepSets, EndedWell
  <2>3. CASE RequireUpstreamSuccess
    BY <2>1, <2>2, <2>3 DEF Ready, Deps, Missing
  <2>4. CASE ~RequireUpstreamSuccess
    <3>1. Output[h].source \notin KeysToExecute /\ h \in ParentOutputs
      BY <2>1, <2>4 DEF Ready, AllProduced, HasProduced
    <3> QED BY <2>2, <2>4, <3>1 DEF NoPastInstances
  <2> QED BY <2>3, <2>4
<1>4. \A i \in Step[s].inputs : Missing(i)' = Missing(i)
  BY <1>3, MissingStays
<1>5. ~ShouldSkip(s)'
  BY <1>4, SourcesStand DEF Ready, ShouldSkip
<1> QED BY <1>1, <1>2, <1>5 DEF Ready

-----------------------------------------------------------------------------
(* The decisions *)

Decided ==
  /\ \A s \in executable \cup inFlight \cup waitingToRetry \cup success \cup failed \cup unknownState :
       Ready(s)
  /\ \A s \in skipped \cup pendingSkip : ShouldSkip(s)
  /\ \A s \in pendingAbandon : ShouldAbandon(s)
  /\ \A s \in abandoned : ShouldAbandon(s) \/ s \in unknownState \/ attempts[s] > 0

\* What _update decides is right when it does.
LEMMA DecidedNow ==
  ASSUME Settled
  PROVE  /\ \A s \in ToSkip : ShouldSkip(s)
         /\ \A s \in ToAbandon : ShouldAbandon(s)
         /\ \A s \in ToExecute : Ready(s)
<1>1. ASSUME NEW s \in ToExecute PROVE Ready(s)
  <2>1. s \in Waiting /\ s \notin ToSkip /\ s \notin ToAbandon /\ Decidable(s) /\ ShouldExecute(s)
    BY DEF ToExecute
  <2>2. ~ShouldSkip(s) /\ ~ShouldAbandon(s)
    BY <2>1 DEF ToSkip, ToAbandon
  <2> QED BY <2>1, <2>2 DEF Ready, Decidable, ShouldAbandon, ShouldExecute, Terminal
<1> QED BY <1>1 DEF ToSkip, ToAbandon

LEMMA WaitingKnown ==
  ASSUME Settled, NEW s \in planned \cup Resolved
  PROVE  s \in Steps /\ Known(s)
  BY DEF Settled, Sound, StepSets, Mapped, Resolved

DecidedInv == SettledToo /\ Decided

\* Every step a call may find in the collections is in the plan.
LEMMA InThePlan ==
  ASSUME SettledToo
  PROVE  /\ executable \cup inFlight \cup waitingToRetry \cup success \cup failed \cup unknownState
              \cup skipped \cup pendingSkip \cup pendingAbandon \cup abandoned \subseteq planned
         /\ ToSkip \cup ToAbandon \cup ToExecute \subseteq planned \cup Resolved
  BY Decisions DEF SettledToo, Settled, Sound, Apart, Undone, Terminal, EndedWell, EndedBadly, Waiting

\* Which steps may come to be where, by any call.
Moves ==
  /\ executable' \subseteq executable \cup ToExecute \cup waitingToRetry
  /\ inFlight' \subseteq inFlight \cup executable \cup ToExecute \cup waitingToRetry
  /\ waitingToRetry' \cup success' \cup failed' \cup unknownState'
       \subseteq waitingToRetry \cup success \cup failed \cup unknownState \cup inFlight
  /\ pendingSkip' \cup skipped' \subseteq pendingSkip \cup skipped \cup ToSkip
  /\ pendingAbandon' \subseteq pendingAbandon \cup ToAbandon
  /\ \A s \in abandoned' : \/ s \in pendingAbandon \cup ToAbandon \cup unknownState'
                           \/ s \in abandoned /\ attempts'[s] = attempts[s]
                           \/ s \in abandoned \cup inFlight /\ attempts'[s] > 0
  /\ unknownState \subseteq unknownState'

LEMMA CallMoves ==
  ASSUME SettledToo, [Call]_vars
  PROVE  Moves
<1> USE DEF Moves
<1>1. ASSUME NEW limit, NEW due, NEW asked, NEW refused,
             GetStepsToExecute(limit, due, asked, refused)
      PROVE  Moves
  BY <1>1 DEF GetStepsToExecute, Selection, Update, NowExecutable
<1>2. ASSUME NEW due, SkipRound(due) PROVE Moves
  BY <1>2 DEF SkipRound, SkipVended, AbandonVended, Update, NowExecutable
<1>3. ASSUME NEW due, AbandonRound(due) PROVE Moves
  BY <1>3 DEF AbandonRound, SkipVended, AbandonVended, Update, NowExecutable
<1>4. ASSUME NEW s \in Steps, NEW h \in Handles, OutputEvent(s, h) PROVE Moves
  BY <1>4 DEF OutputEvent, undecided
<1>5. ASSUME NEW s \in Steps, SuccessEvent(s) PROVE Moves
  BY <1>5 DEF SuccessEvent, undecided
<1>6. ASSUME NEW s \in Steps, FailureEvent(s) PROVE Moves
  BY <1>6 DEF FailureEvent, undecided
<1>7. ASSUME NEW s \in Steps, NEW delayed, RetryEvent(s, delayed) PROVE Moves
  <2>1. attempts \in [Steps -> Nat] /\ abandoned \subseteq Steps /\ s \in inFlight /\ s \notin abandoned
    BY <1>7 DEF RetryEvent, MarkUpForRetry, SettledToo, Settled, OtherTypes, Sound, StepSets, Apart, Terminal, EndedBadly
  <2>2. attempts' = [attempts EXCEPT ![s] = @ + 1]
    BY <1>7 DEF RetryEvent, MarkUpForRetry
  <2>3. attempts'[s] > 0 /\ \A t \in abandoned : attempts'[t] = attempts[t]
    BY <2>1, <2>2
  <2> QED BY <1>7, <2>1, <2>3 DEF RetryEvent, MarkUpForRetry, undecided
<1>8. ASSUME NEW lost, MarkUnknownState(lost) PROVE Moves
  BY <1>8 DEF MarkUnknownState, undecided
<1>9. CASE UNCHANGED vars
  BY <1>9 DEF vars, buckets
<1> QED BY <1>1, <1>2, <1>3, <1>4, <1>5, <1>6, <1>7, <1>8, <1>9 DEF Call, StepEvent

LEMMA CallDecided ==
  ASSUME DecidedInv, [Call]_vars, RequireUpstreamSuccess \/ NoPastInstances
  PROVE  DecidedInv'
<1>1. SettledToo /\ Settled /\ SettledToo' /\ Moves
  BY CallSettledToo, CallMoves DEF DecidedInv, SettledToo
<1>2. ASSUME NEW s, \/ s \in executable \cup inFlight \cup waitingToRetry \cup success
                    \/ s \in failed \cup unknownState \cup ToExecute
      PROVE  Ready(s)'
  <2>1. s \in Steps /\ Known(s)
    BY <1>1, <1>2, InThePlan, WaitingKnown
  <2>2. Ready(s)
    BY <1>1, <1>2, DecidedNow DEF DecidedInv, Decided
  <2> QED BY <1>1, <2>1, <2>2, ReadyStays
<1>3. ASSUME NEW s \in skipped \cup pendingSkip \cup ToSkip PROVE ShouldSkip(s)'
  <2>1. s \in Steps /\ Known(s)
    BY <1>1, <1>3, InThePlan, WaitingKnown
  <2>2. ShouldSkip(s)
    BY <1>1, <1>3, DecidedNow DEF DecidedInv, Decided
  <2> QED BY <1>1, <2>1, <2>2, ReasonsStand
<1>4. ASSUME NEW s \in abandoned \cup pendingAbandon \cup ToAbandon, ShouldAbandon(s)
      PROVE  ShouldAbandon(s)'
  BY <1>1, <1>4, InThePlan, WaitingKnown, ReasonsStand
<1>5. \A s \in pendingAbandon \cup ToAbandon : ShouldAbandon(s)'
  BY <1>1, <1>4, DecidedNow DEF DecidedInv, Decided
<1>6. ASSUME NEW s \in abandoned'
      PROVE  ShouldAbandon(s)' \/ s \in unknownState' \/ attempts'[s] > 0
  BY <1>1, <1>4, <1>5, <1>6 DEF Moves, DecidedInv, Decided
<1> QED BY <1>1, <1>2, <1>3, <1>5, <1>6 DEF Moves, DecidedInv, Decided

LEMMA InitDecided == Init => DecidedInv
<1> SUFFICES ASSUME Init PROVE Decided
  BY InitSettledToo DEF DecidedInv
<1>1. /\ skipped \cup pendingSkip \cup pendingAbandon \cup abandoned = {}
      /\ inFlight \cup waitingToRetry \cup success \cup failed \cup unknownState = {}
  BY DEF Init
<1>2. ASSUME NEW s \in executable PROVE Ready(s)
  <2>1. RequireUpstreamSuccess => Deps(s) = {}
    BY <1>2 DEF Init
  <2>2. ShouldExecute(s)
    BY <1>2 DEF Init
  <2>3. ~ShouldSkip(s)
    BY DEF Init, ShouldSkip, Missing, EndedWell
  <2> QED BY <2>1, <2>2, <2>3 DEF Ready, ShouldExecute
<1> QED BY <1>1, <1>2 DEF Decided

LEMMA AlwaysDecided ==
  ASSUME RequireUpstreamSuccess \/ NoPastInstances
  PROVE  Spec => []DecidedInv
<1>1. DecidedInv /\ [Next]_vars => DecidedInv'
  BY NextCalls, CallDecided
<1> QED BY <1>1, InitDecided, PTL DEF Spec

\* A decision once made would be made again, whatever its upstream steps did
\* since, if steps wait for the success of their upstream steps or if no past run
\* has produced outputs of this run's own instances.
THEOREM DecisionsHold ==
  ASSUME RequireUpstreamSuccess \/ NoPastInstances
  PROVE  Spec => []DecisionsStand
<1>1. DecidedInv => DecisionsStand
  BY DEF DecidedInv, Decided, Ready, DecisionsStand
<1> QED BY <1>1, AlwaysDecided, PTL

\* On the same condition, a step never takes from a past run an output that this
\* run is to produce.  Without it the code does: run active_reexecution.
THEOREM OutputsOfThisRun ==
  ASSUME RequireUpstreamSuccess \/ NoPastInstances
  PROVE  Spec => []WaitsForThisRun
<1>1. ASSUME DecidedInv, NEW s \in executable \cup inFlight \cup success \cup failed,
             NEW h \in SourcesOf(s), Output[h].source \in planned, h \notin stepOutputs
      PROVE  RequireUpstreamSuccess /\ Output[h].source \in EndedWell
  <2>1. Ready(s)
    BY <1>1 DEF DecidedInv, Decided
  <2>2. Output[h].source \in Steps
    BY <1>1 DEF DecidedInv, SettledToo, Settled, Sound, StepSets
  <2>3. CASE RequireUpstreamSuccess
    BY <1>1, <2>1, <2>2, <2>3 DEF Ready, Deps
  <2>4. CASE ~RequireUpstreamSuccess
    BY <1>1, <2>1, <2>2, <2>4 DEF Ready, AllProduced, HasProduced, NoPastInstances
  <2> QED BY <2>3, <2>4
<1>2. DecidedInv => WaitsForThisRun
  BY <1>1 DEF WaitsForThisRun
<1> QED BY <1>2, AlwaysDecided, PTL

-----------------------------------------------------------------------------
(* The refinement of StepLife *)

\* The stage a step is in, by the collection it is in.
StageRow(s) ==
  /\ s \notin planned <=> StageOf(s) = "absent"
  /\ s \in Undone <=> StageOf(s) = "waiting"
  /\ s \in inFlight <=> StageOf(s) = "running"
  /\ s \in success <=> StageOf(s) = "success"
  /\ s \in failed <=> StageOf(s) = "failed"
  /\ s \in skipped <=> StageOf(s) = "skipped"
  /\ s \in abandoned <=> StageOf(s) = "abandoned"
  /\ StageOf(s) \in Life!Stages

StageTable == \A s \in Steps : StageRow(s)

LEMMA Stage == Settled => StageTable
<1> SUFFICES ASSUME Settled, NEW s \in Steps PROVE StageRow(s)
  BY DEF StageTable
<1> USE DEF StageRow, Settled, Sound, Apart, Undone, Terminal, EndedWell, EndedBadly,
      Life!Stages, Life!Unfinished, Life!EndedWell, Life!EndedBadly
<1>1. CASE s \notin planned
  BY <1>1 DEF StageOf
<1>2. CASE s \in inFlight
  BY <1>2 DEF StageOf
<1>3. CASE s \in success
  BY <1>3 DEF StageOf
<1>4. CASE s \in failed
  BY <1>4 DEF StageOf
<1>5. CASE s \in skipped
  BY <1>5 DEF StageOf
<1>6. CASE s \in abandoned
  BY <1>6 DEF StageOf
<1>7. CASE s \in Undone
  BY <1>7 DEF StageOf
<1> QED BY <1>1, <1>2, <1>3, <1>4, <1>5, <1>6, <1>7

LEMMA StageAfter == Settled' => StageTable'
  BY Stage, PTL

LEMMA UpstreamSteps == \A s \in Steps : UpstreamOf[s] \subseteq Steps
<1> SUFFICES ASSUME NEW s \in Steps, NEW i \in Step[s].inputs
             PROVE  /\ i.collect # None => i.collect \in Steps
                    /\ \A h \in i.from : Output[h].source # None => Output[h].source \in Steps
  BY DEF UpstreamOf
<1>1. i \in Input
  <2>1. Step[s].inputs \subseteq Input
    BY PlanAssumption DEF StepRecord
  <2> QED BY <2>1
<1>2. \A h \in i.from : Output[h] \in OutputRecord
  BY <1>1, PlanAssumption DEF Input
<1> QED BY <1>1, <1>2 DEF Input, OutputRecord

LEMMA DepsUpstream ==
  ASSUME Settled, NEW s \in Steps
  PROVE  Deps(s) \subseteq UpstreamOf[s]
<1>1. ASSUME NEW i \in Step[s].inputs, NEW h \in Sources(i), Output[h].source \in Steps
      PROVE  Output[h].source \in UpstreamOf[s]
  <2>1. Output[h].source # None
    BY <1>1, PlanAssumption
  <2>2. CASE h \in i.from
    BY <1>1, <2>1, <2>2 DEF UpstreamOf
  <2>3. CASE i.collect \in noneMapped /\ h = Whole(i.collect)
    <3>1. i.collect \in Dynamic
      BY <2>3 DEF Settled, OtherTypes
    <3>2. Output[h].source = i.collect
      BY <2>3, <3>1 DEF Dynamic, Whole
    <3> QED BY <2>1, <3>2 DEF UpstreamOf
  <2> QED BY <1>1, <2>2, <2>3 DEF Sources
<1> QED BY <1>1 DEF Deps, SourcesOf

\* Whatever a ready step could depend on has ended well, or is a mapped step that
\* the mapping, which is complete, does not call for.
LEMMA ReadyMayRun ==
  ASSUME SettledToo, RequireUpstreamSuccess, NEW s \in Steps, Known(s), Ready(s)
  PROVE  \A u \in UpstreamOf[s] :
           u \in EndedWell \/ (Step[u].spawn # None /\ u \notin planned)
<1>1. Step[s].needs \subseteq EndedWell
  BY DEF Known, SettledToo, Settled, Mapped
<1>2. ASSUME NEW i \in Step[s].inputs, i.collect # None
      PROVE  i.collect \in EndedWell
  BY <1>1, <1>2, PlanAssumption
<1>3. ASSUME NEW i \in Step[s].inputs, NEW h \in i.from, Output[h].source # None,
             Output[h].source \notin EndedWell
      PROVE  Step[Output[h].source].spawn # None /\ Output[h].source \notin planned
  <2> DEFINE u == Output[h].source
  <2>1. i \in Input /\ h \in Handles /\ u \in Steps
    <3>1. Step[s].inputs \subseteq Input
      BY PlanAssumption DEF StepRecord
    <3>2. i \in Input /\ h \in Handles
      BY <3>1, <1>3 DEF Input
    <3>3. Output[h] \in OutputRecord
      BY <3>2, PlanAssumption
    <3> QED BY <1>3, <3>2, <3>3 DEF OutputRecord
  <2>2. h \notin Sources(i)
    BY <1>3, <2>1 DEF Ready, Deps, SourcesOf
  <2>3. i.collect # None /\ i.collect \in EndedWell
    BY <1>2, <1>3, <2>2 DEF Sources
  <2>4. Output[h].kind # "element" /\ SpawnedBy(u, i.collect)
    BY <1>3, <2>3, PlanAssumption DEF CollectedOver
  <2>5. Element(h) = Step[u].spawn
    BY <2>4 DEF Element
  <2>6. Step[u].spawn \notin gathering[i.collect]
    BY <1>3, <2>2, <2>3, <2>5 DEF Sources, SettledToo, NoneMappedEmpty
  <2>7. ~Known(u)
    BY <2>4, <2>6 DEF Known, SpawnedBy
  <2> QED BY <2>4, <2>7 DEF SpawnedBy, SettledToo, Settled, Mapped
<1> QED BY <1>2, <1>3 DEF UpstreamOf

LEMMA MayRunNow ==
  ASSUME SettledToo, RequireUpstreamSuccess, NEW s \in Steps, Known(s), Ready(s)
  PROVE  Life!MayRun(s)
<1>1. ASSUME NEW u \in UpstreamOf[s]
      PROVE  \/ StageOf(u) \in Life!EndedWell
             \/ u \in {t \in Steps : Step[t].spawn # None} /\ StageOf(u) = "absent"
  <2>1. u \in Steps
    BY UpstreamSteps
  <2> QED BY <2>1, ReadyMayRun, Stage DEF StageTable, StageRow, SettledToo, EndedWell, Life!EndedWell
<1>2. UpstreamOf[s] \subseteq Steps
  BY UpstreamSteps
<1> QED BY <1>1, <1>2 DEF Life!MayRun

LEMMA SkipNow ==
  ASSUME Settled, NEW s \in Steps, ShouldSkip(s)
  PROVE  Life!Some(s, Life!EndedWell)
<1>1. PICK i \in Step[s].inputs : Missing(i) # {}
  BY DEF ShouldSkip
<1>2. PICK h \in Sources(i) : Output[h].source \in EndedWell
  BY <1>1 DEF Missing, Gating
<1>3. Output[h].source \in Deps(s)
  BY <1>1, <1>2 DEF Deps, SourcesOf, Settled, Sound, StepSets, EndedWell
<1>4. Output[h].source \in UpstreamOf[s] /\ Output[h].source \in Steps
  BY <1>3, DepsUpstream DEF Deps
<1>5. StageOf(Output[h].source) \in Life!EndedWell
  BY <1>2, <1>4, Stage DEF StageTable, StageRow, EndedWell, Life!EndedWell
<1> QED BY <1>4, <1>5 DEF Life!Some

LEMMA AbandonNow ==
  ASSUME Settled, RequireUpstreamSuccess, NEW s \in Steps, ShouldAbandon(s)
  PROVE  Life!Some(s, Life!EndedBadly)
<1>1. PICK u \in Deps(s) : u \in EndedBadly
  BY DEF ShouldAbandon
<1>2. u \in UpstreamOf[s] /\ u \in Steps
  BY <1>1, DepsUpstream DEF Deps
<1>3. StageOf(u) \in Life!EndedBadly
  BY <1>1, <1>2, Stage DEF StageTable, StageRow, EndedBadly, Life!EndedBadly
<1> QED BY <1>2, <1>3 DEF Life!Some

LEMMA InitLife == Init => Life!Init
<1> SUFFICES ASSUME Init PROVE \A s \in Steps : StageOf(s) \in {"absent", "waiting"}
  BY DEF Life!Init
<1> TAKE s \in Steps
<1>1. Settled
  BY InitSettled
<1>2. s \notin planned \/ s \in Undone
  BY DEF Init, Undone
<1> QED BY <1>1, <1>2, Stage DEF StageTable, StageRow

\* In one step of ActiveExecution, any number of steps move as StepLife allows.
Lives(s) ==
  \/ Life!Plan(s) \/ Life!Start(s) \/ Life!Skip(s) \/ Life!Abandon(s) \/ Life!Leave(s)
  \/ Life!Stay(s)

LEMMA ExecuteLives ==
  ASSUME DecidedInv, Settled', RequireUpstreamSuccess, NEW s \in Steps,
         NEW limit, NEW due, NEW asked, NEW refused, GetStepsToExecute(limit, due, asked, refused)
  PROVE  Lives(s)
<1> USE DEF DecidedInv, SettledToo
<1> DEFINE batch == asked \ refused
<1>1. batch \subseteq executable \cup ToExecute \cup waitingToRetry
  BY DEF GetStepsToExecute, Selection, Update, NowExecutable
<1>2. CASE s \in batch
  <2>1. s \in planned \cup Resolved /\ Ready(s)
    BY <1>1, <1>2, InThePlan, DecidedNow DEF Decided
  <2>2. Life!MayRun(s)
    BY <2>1, WaitingKnown, MayRunNow
  <2>3. StageOf(s) \in {"absent", "waiting"}
    BY <1>1, <1>2, Decisions, Stage DEF StageTable, StageRow, Settled, Sound, Apart, Undone, Waiting
  <2>4. StageOf(s)' = "running"
    BY <1>2, StageAfter DEF StageTable, StageRow, GetStepsToExecute
  <2> QED BY <2>2, <2>3, <2>4 DEF Lives, Life!Start
<1>3. CASE s \in Resolved \ batch
  <2>1. StageOf(s) = "absent"
    BY <1>3, Stage DEF StageTable, StageRow, Resolved
  <2>2. s \in Undone'
    BY <1>3 DEF GetStepsToExecute, Update, NowExecutable, Waiting, Undone
  <2>3. StageOf(s)' = "waiting"
    BY <2>2, StageAfter DEF StageTable, StageRow
  <2> QED BY <2>1, <2>3 DEF Lives, Life!Plan
<1>4. CASE s \notin Resolved \cup batch
  <2>1. /\ s \in planned' <=> s \in planned
        /\ s \in inFlight' <=> s \in inFlight
        /\ UNCHANGED <<success, failed, skipped, abandoned>>
    BY <1>4 DEF GetStepsToExecute, Update
  <2>2. StageOf(s)' = StageOf(s)
    BY <2>1 DEF StageOf
  <2> QED BY <2>2 DEF Lives, Life!Stay
<1> QED BY <1>2, <1>3, <1>4

LEMMA StaysUnmoved ==
  ASSUME NEW s \in Steps, StageOf(s)' = StageOf(s)
  PROVE  Lives(s)
  BY DEF Lives, Life!Stay

\* A step that a round neither vends nor adds.
LEMMA RoundLives ==
  ASSUME DecidedInv, Settled', NEW s \in Steps, NEW due, Update(due),
         UNCHANGED <<inFlight, success, failed>>,
         s \in skipped' <=> s \in skipped, s \in abandoned' <=> s \in abandoned
  PROVE  Lives(s)
<1> USE DEF DecidedInv, SettledToo, StageTable, StageRow
<1>1. CASE s \in Resolved
  <2>1. s \in planned' /\ s \notin planned
    BY <1>1 DEF Update, Resolved
  <2>2. s \notin inFlight \cup Terminal
    BY <2>1 DEF Settled, Sound, Apart
  <2>3. s \notin inFlight' \cup Terminal'
    BY <2>2 DEF Terminal, EndedWell, EndedBadly
  <2>4. s \in Undone'
    BY <2>1, <2>3 DEF Settled, Sound, Apart
  <2>5. StageOf(s) = "absent" /\ StageOf(s)' = "waiting"
    BY <2>1, <2>4, Stage, StageAfter
  <2> QED BY <2>5 DEF Lives, Life!Plan
<1>2. CASE s \notin Resolved
  <2>1. s \in planned' <=> s \in planned
    BY <1>2 DEF Update
  <2>2. StageOf(s)' = StageOf(s)
    BY <2>1 DEF StageOf
  <2> QED BY <2>2, StaysUnmoved
<1> QED BY <1>1, <1>2

LEMMA SkipLives ==
  ASSUME DecidedInv, Settled', NEW s \in Steps, NEW due, SkipRound(due)
  PROVE  Lives(s)
<1> USE DEF DecidedInv, SettledToo, StageTable, StageRow
<1>1. CASE s \in SkipVended
  <2>1. ShouldSkip(s)
    BY <1>1, DecidedNow DEF SkipVended, Decided
  <2>2. Life!Some(s, Life!EndedWell)
    BY <2>1, SkipNow
  <2>3. s \notin planned \/ s \in Undone
    BY <1>1, Decisions DEF SkipVended, Undone, Waiting, Resolved
  <2>4. StageOf(s) \in {"absent", "waiting"}
    BY <2>3, Stage
  <2>5. StageOf(s)' = "skipped"
    BY <1>1, StageAfter DEF SkipRound
  <2> QED BY <2>2, <2>4, <2>5 DEF Lives, Life!Skip
<1>2. CASE s \notin SkipVended
  BY <1>2, RoundLives DEF SkipRound
<1> QED BY <1>1, <1>2

LEMMA AbandonLives ==
  ASSUME DecidedInv, Settled', RequireUpstreamSuccess, NEW s \in Steps, NEW due, AbandonRound(due)
  PROVE  Lives(s)
<1> USE DEF DecidedInv, SettledToo, StageTable, StageRow
<1>1. CASE s \in AbandonVended
  <2>1. ShouldAbandon(s)
    BY <1>1, DecidedNow DEF AbandonVended, Decided
  <2>2. Life!Some(s, Life!EndedBadly)
    BY <2>1, AbandonNow
  <2>3. s \notin planned \/ s \in Undone
    BY <1>1, Decisions DEF AbandonVended, Undone, Waiting, Resolved
  <2>4. StageOf(s) \in {"absent", "waiting"}
    BY <2>3, Stage
  <2>5. StageOf(s)' = "abandoned"
    BY <1>1, StageAfter DEF AbandonRound
  <2> QED BY <2>2, <2>4, <2>5 DEF Lives, Life!Abandon
<1>2. CASE s \notin AbandonVended
  BY <1>2, RoundLives DEF AbandonRound
<1> QED BY <1>1, <1>2

\* The step an event is about leaves the running ones, or nothing moves.
LEMMA EventLives ==
  ASSUME DecidedInv, Settled', NEW s \in Steps, NEW t \in Steps, StepEvent(t)
  PROVE  Lives(s)
<1> USE DEF DecidedInv, SettledToo, StageTable, StageRow
<1>1. planned' = planned
  BY DEF StepEvent, OutputEvent, SuccessEvent, FailureEvent, RetryEvent, MarkUpForRetry, MarkUnknownState, undecided
<1>2. CASE s = t /\ s \in inFlight /\ s \notin inFlight'
  <2>1. StageOf(s) = "running"
    BY <1>2, Stage
  <2>2. s \notin skipped'
    BY <1>2 DEF StepEvent, OutputEvent, SuccessEvent, FailureEvent, RetryEvent, MarkUpForRetry, MarkUnknownState,
      Settled, Sound, Apart, Terminal, EndedWell
  <2>3. s \in Undone' \cup success' \cup failed' \cup abandoned'
    BY <1>1, <1>2, <2>2 DEF Settled, Sound, Apart, Terminal, EndedWell, EndedBadly
  <2>4. StageOf(s)' \in {"waiting", "success", "failed", "abandoned"}
    BY <2>3, StageAfter
  <2> QED BY <2>1, <2>4 DEF Lives, Life!Leave
<1>3. CASE ~(s = t /\ s \in inFlight /\ s \notin inFlight')
  <2>1. /\ s \in inFlight' <=> s \in inFlight
        /\ s \in success' <=> s \in success
        /\ s \in failed' <=> s \in failed
        /\ s \in skipped' <=> s \in skipped
        /\ s \in abandoned' <=> s \in abandoned
    BY <1>3 DEF StepEvent, OutputEvent, SuccessEvent, FailureEvent, RetryEvent, MarkUpForRetry, MarkUnknownState
  <2>2. StageOf(s)' = StageOf(s)
    BY <1>1, <2>1 DEF StageOf
  <2> QED BY <2>2, StaysUnmoved
<1> QED BY <1>2, <1>3

LEMMA NextLives ==
  ASSUME DecidedInv, RequireUpstreamSuccess, [Next]_vars
  PROVE  Life!Next
<1>1. Settled'
  BY NextCalls, CallSettled DEF DecidedInv, SettledToo
<1>2. ASSUME NEW s \in Steps PROVE Lives(s)
  <2>1. CASE UNCHANGED vars
    <3>1. StageOf(s)' = StageOf(s)
      BY <2>1 DEF StageOf, vars, buckets
    <3> QED BY <3>1, StaysUnmoved
  <2> QED BY <1>1, <2>1, ExecuteLives, SkipLives, AbandonLives, EventLives DEF Next, GetSomeSteps
<1>3. \A s \in Steps : StageOf(s)' \in Life!Stages
  BY <1>1, StageAfter DEF StageTable, StageRow
<1> QED BY <1>2, <1>3 DEF Life!Next, Lives

\* Where steps wait for the success of their upstream steps, ActiveExecution
\* implements StepLife, for every plan and in whatever order it is called.
THEOREM ImplementsStepLife ==
  ASSUME RequireUpstreamSuccess
  PROVE  Spec => LivesAsPromised
<1>1. DecidedInv /\ [Next]_vars => Life!Next
  BY NextLives
<1>2. Spec => []DecidedInv
  BY AlwaysDecided
<1> QED BY <1>1, <1>2, InitLife, PTL DEF Spec, LivesAsPromised, Life!Spec
=============================================================================
