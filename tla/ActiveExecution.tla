--------------------------- MODULE ActiveExecution ---------------------------
(***************************************************************************)
(* ActiveExecution: the state machine that decides, for one run, which     *)
(* step is executed, skipped, abandoned or retried, as the events of its   *)
(* steps come in.  Every executor drives one; here any caller may call its *)
(* methods in any order.  Each method begins with _update, so each action  *)
(* that stands for a method does too.                                      *)
(*                                                                         *)
(* The plan is static data: `Step` and `Output` say of every step and      *)
(* every output that can exist what the plan's objects say.  A dynamic     *)
(* step has one dynamic output; each of its elements is a handle of its    *)
(* own and may spawn mapped steps.                                         *)
(***************************************************************************)
EXTENDS Naturals, FiniteSets

CONSTANTS
  Steps,           \* every step this run's plan can come to have
  Step,            \* Step[s]: what the plan says of step s
  Handles,         \* output handles, of this run's steps and of others
  Output,          \* Output[h]: what the plan says of output h
  KeysToExecute,   \* plan.step_keys_to_execute; never names a mapped step
                   \* that is spawned in this run
  ReadyOutputs,    \* known_state.ready_outputs
  ParentOutputs,   \* what the runs this one re-executes have produced
  RequireUpstreamSuccess, \* step_dependency_config.require_upstream_step_success
  RetryMode,
  MaxConcurrent,   \* max_concurrent of the executor, or None
  TagLimit,        \* the limit on steps that carry the limited tag, or None
  None

Input == [from : SUBSET Handles, fanIn : BOOLEAN, collect : Steps \cup {None}]

\* spawn: the dynamic element that makes a mapped step, or None.  needs: the
\* dynamic steps that must be resolved before the step is executable.
StepRecord ==
  [inputs : SUBSET Input, spawn : Handles \cup {None}, needs : SUBSET Steps,
   priority : Nat, pool : BOOLEAN, tagged : BOOLEAN, maxRetries : Nat]

\* source: None for a step this run does not execute.  whole: a dynamic output
\* without a mapping key.  check: the result of an asset check.
OutputRecord ==
  [source : Steps \cup {None}, required : BOOLEAN,
   kind : {"plain", "element", "whole", "check"}]

SpawnedBy(s, d) == Step[s].spawn # None /\ Output[Step[s].spawn].source = d

\* What a collect input collects over d: elements of d, or what is mapped over them.
CollectedOver(h, d) ==
  \/ Output[h].kind = "element" /\ Output[h].source = d
  \/ Output[h].kind # "element" /\ Output[h].source # None /\ SpawnedBy(Output[h].source, d)

ASSUME PlanAssumption ==
  /\ IsFiniteSet(Steps)
  /\ Step \in [Steps -> StepRecord]
  /\ Output \in [Handles -> OutputRecord]
  /\ \A s \in Steps : Step[s].spawn # None => Output[Step[s].spawn].source \in Step[s].needs
  /\ \A s \in Steps : \A i \in Step[s].inputs : i.collect # None =>
       i.collect \in Step[s].needs /\ \A h \in i.from : CollectedOver(h, i.collect)
  /\ KeysToExecute \subseteq Steps
  /\ ReadyOutputs \subseteq Handles /\ ParentOutputs \subseteq Handles
  /\ RequireUpstreamSuccess \in BOOLEAN
  /\ RetryMode \in {"enabled", "disabled", "deferred"}
  /\ MaxConcurrent \in Nat \cup {None} /\ TagLimit \in Nat \cup {None}
  /\ None \notin Steps \cup Handles \cup Nat

VARIABLES
  planned,        \* keys of plan.get_executable_step_deps()
  pending, executable, pendingSkip, pendingAbandon, waitingToRetry, inFlight,
  success, failed, skipped, abandoned, unknownState,
  stepOutputs,    \* _step_outputs
  gathering,      \* gathering[d]: elements of d, in this attempt or at its end
  completed,      \* the dynamic steps in _completed_dynamic_outputs
  noneMapped,     \* those of them whose mapping is None
  newMappings,    \* _new_dynamic_mappings
  attempts,       \* _retry_state
  emitted         \* outputs a step's process has emitted in its last attempt

buckets == <<pending, executable, pendingSkip, pendingAbandon, waitingToRetry,
             inFlight, success, failed, skipped, abandoned>>
vars == <<planned, buckets, unknownState, stepOutputs, gathering, completed,
          noneMapped, newMappings, attempts, emitted>>

-----------------------------------------------------------------------------
(* The plan, as far as it is resolved. *)

Outputs(s) == {h \in Handles : Output[h].source = s /\ Output[h].kind # "whole"}
Dynamic    == {Output[h].source : h \in {g \in Handles : Output[g].kind = "whole"}} \ {None}
Whole(d)   == CHOOSE h \in Handles : Output[h].source = d /\ Output[h].kind = "whole"

\* The dynamic element an output goes back to: itself, or its step's.
Element(h) == IF Output[h].kind = "element" THEN h ELSE Step[Output[h].source].spawn

\* A collect input stands for the outputs mapped so far; for the whole dynamic
\* output, which nobody emits, when the mapping is None.
Sources(i) ==
  IF i.collect = None THEN i.from
  ELSE IF i.collect \in noneMapped THEN {Whole(i.collect)}
  ELSE {h \in i.from : Element(h) \in gathering[i.collect]}

\* isinstance(source, FromMultipleSources)
FanIn(i)  == i.fanIn /\ i.collect \notin noneMapped
Gating(i) == {h \in Sources(i) : Output[h].kind # "check"}

SourcesOf(s) == UNION {Sources(i) : i \in Step[s].inputs}
Deps(s)      == {Output[h].source : h \in SourcesOf(s)} \cap Steps

\* In the executable map, and not downstream of an unresolved collect.
Known(s) ==
  /\ Step[s].needs \subseteq completed
  /\ Step[s].spawn # None =>
       Step[s].spawn \in gathering[Output[Step[s].spawn].source]

\* Mutant of Resolved: the new mappings are not looked at.
ResolvedMutant == {}

\* The steps that plan.resolve adds.
Resolved == IF newMappings THEN {s \in Steps : Known(s)} \ planned ELSE {}

-----------------------------------------------------------------------------
(* _update: which of the waiting steps are decided. *)

EndedWell  == success \cup skipped
EndedBadly == failed \cup abandoned
Terminal   == EndedWell \cup EndedBadly

Missing(i) == {h \in Gating(i) : Output[h].source \in EndedWell /\ h \notin stepOutputs}

\* A fan-in is skipped when all its sources are missing, others when one is.
ShouldSkip(s) ==
  \E i \in Step[s].inputs : Missing(i) # {} /\ (FanIn(i) => Missing(i) = Gating(i))

\* Mutant of HasProduced: outputs of past runs count for steps of this run, too.
HasProducedMutant(h) == h \in stepOutputs \cup ParentOutputs

HasProduced(h) ==
  \/ h \in stepOutputs
  \/ Output[h].source \notin KeysToExecute /\ h \in ParentOutputs

AllProduced(s) == \A h \in SourcesOf(s) : HasProduced(h)

LostSource(s) == \E h \in SourcesOf(s) : h \notin stepOutputs /\ Output[h].source \in EndedBadly

\* Mutant of Decidable: a step is looked at before its dependencies are over.
DecidableMutant(s) == RequireUpstreamSuccess => Deps(s) \cap Terminal # {}

Decidable(s) == RequireUpstreamSuccess => Deps(s) \subseteq Terminal

\* Mutant of ShouldAbandon: only failures count, not what they led to.
ShouldAbandonMutant(s) == Deps(s) \cap failed # {}

ShouldAbandon(s) ==
  IF RequireUpstreamSuccess THEN Deps(s) \cap EndedBadly # {} ELSE LostSource(s)

ShouldExecute(s) == RequireUpstreamSuccess \/ AllProduced(s)

Waiting   == pending \cup Resolved
ToSkip    == {s \in Waiting : Decidable(s) /\ ShouldSkip(s)}
ToAbandon == {s \in Waiting \ ToSkip : Decidable(s) /\ ShouldAbandon(s)}
ToExecute == {s \in Waiting \ (ToSkip \cup ToAbandon) : Decidable(s) /\ ShouldExecute(s)}

\* The part of _update that no method goes on to change.  `due` are the steps
\* whose time to retry has come.
Update(due) ==
  /\ due \subseteq waitingToRetry
  /\ planned' = planned \cup Resolved
  /\ pending' = Waiting \ (ToSkip \cup ToAbandon \cup ToExecute)
  /\ waitingToRetry' = waitingToRetry \ due

NowExecutable(due) == executable \cup ToExecute \cup due

-----------------------------------------------------------------------------
(* get_steps_to_execute *)

Before(s, t) == Step[s].priority > Step[t].priority

Full(n, limit) ==
  n >= limit \/ (MaxConcurrent # None /\ n + Cardinality(inFlight) >= MaxConcurrent)

Tagged(T) == {s \in T : Step[s].tagged}

TagFull(T) == TagLimit # None /\ Cardinality(Tagged(inFlight \cup T)) >= TagLimit

\* Mutant of FitTags: the tags of the steps in flight are not counted.
FitTagsMutant(asked) == TagLimit # None => Cardinality(Tagged(asked)) <= TagLimit

FitTags(asked) == TagLimit # None => Cardinality(Tagged(inFlight \cup asked)) <= TagLimit

FitBatch(batch, limit) ==
  /\ Cardinality(batch) <= limit
  /\ batch # {} /\ MaxConcurrent # None =>
       Cardinality(batch) + Cardinality(inFlight) <= MaxConcurrent

\* Going through the candidates by priority, ties in any order: the pool of each
\* step of `asked` is asked for a slot, and `refused` get none.  The loop ends
\* when the batch is full, and passes over a step whose tag is at its limit.
Selection(candidates, limit, asked, refused) ==
  LET batch == asked \ refused IN
  /\ asked \subseteq candidates
  /\ refused \subseteq {s \in asked : Step[s].pool}
  /\ FitBatch(batch, limit) /\ FitTags(asked)
  /\ \A s \in asked : ~Full(Cardinality({b \in batch : Before(b, s)}), limit)
  /\ \A s \in candidates \ asked :
       \/ Full(Cardinality({b \in batch : ~Before(s, b)}), limit)
       \/ Step[s].tagged /\ TagFull({a \in asked : ~Before(s, a)})

\* Mutant of Prepared: the elements of an earlier attempt are kept.
PreparedMutant(batch) == gathering

\* _prep_for_dynamic_outputs
Prepared(batch) == [d \in Dynamic |-> IF d \in batch THEN {} ELSE gathering[d]]

GetStepsToExecute(limit, due, asked, refused) ==
  LET batch == asked \ refused IN
  /\ Selection(NowExecutable(due), limit, asked, refused)
  /\ Update(due)
  /\ executable' = NowExecutable(due) \ batch
  /\ pendingSkip' = pendingSkip \cup ToSkip
  /\ pendingAbandon' = pendingAbandon \cup ToAbandon
  /\ inFlight' = inFlight \cup batch
  /\ newMappings' = FALSE
  /\ gathering' = Prepared(batch)
  /\ emitted' = {h \in emitted : Output[h].source \notin batch}
  /\ UNCHANGED <<success, failed, skipped, abandoned, unknownState, stepOutputs,
                 completed, noneMapped, attempts>>

GetSomeSteps(limit) ==
  \E due \in SUBSET waitingToRetry : \E asked \in SUBSET NowExecutable(due) :
    \E refused \in SUBSET {s \in asked : Step[s].pool} :
      GetStepsToExecute(limit, due, asked, refused)

-----------------------------------------------------------------------------
(* plan_events_iterator: one round of each of its loops, which vends a batch *)
(* of steps and marks them one after the other.                              *)

SkipVended    == pendingSkip \cup ToSkip
AbandonVended == pendingAbandon \cup ToAbandon

\* get_steps_to_skip, and mark_skipped of each.
SkipRound(due) ==
  /\ Update(due)
  /\ executable' = NowExecutable(due)
  /\ pendingAbandon' = AbandonVended
  /\ pendingSkip' = {}
  /\ skipped' = skipped \cup SkipVended
  /\ completed' = completed \cup (SkipVended \cap Dynamic)
  /\ noneMapped' = noneMapped \cup (SkipVended \cap Dynamic)
  /\ newMappings' = (SkipVended \cap Dynamic # {})
  /\ gathering' = [d \in Dynamic |-> IF d \in SkipVended THEN {} ELSE gathering[d]]
  /\ UNCHANGED <<inFlight, success, failed, abandoned, unknownState, stepOutputs,
                 attempts, emitted>>

\* get_steps_to_abandon, and mark_abandoned of each.
AbandonRound(due) ==
  /\ Update(due)
  /\ executable' = NowExecutable(due)
  /\ pendingSkip' = SkipVended
  /\ pendingAbandon' = {}
  /\ abandoned' = abandoned \cup AbandonVended
  /\ newMappings' = FALSE
  /\ UNCHANGED <<inFlight, success, failed, skipped, unknownState, stepOutputs,
                 gathering, completed, noneMapped, attempts, emitted>>

-----------------------------------------------------------------------------
(* handle_event and verify_complete.  What a step's process may report is in *)
(* the guards: each output once, success after the required outputs, a retry *)
(* while the step's policy has any left.                                     *)

undecided == <<planned, pending, executable, pendingSkip, pendingAbandon, waitingToRetry>>
mappings  == <<gathering, completed, noneMapped, newMappings>>

OutputEvent(s, h) ==
  /\ s \in inFlight /\ h \in Outputs(s) \ emitted
  /\ emitted' = emitted \cup {h}
  /\ stepOutputs' = stepOutputs \cup {h}
  /\ gathering' = IF Output[h].kind = "element"
                  THEN [gathering EXCEPT ![s] = @ \cup {h}] ELSE gathering
  /\ UNCHANGED <<undecided, inFlight, success, failed, skipped, abandoned, unknownState,
                 completed, noneMapped, newMappings, attempts>>

RequiredOutputs(s) == {h \in Outputs(s) : Output[h].kind # "element" /\ Output[h].required}

\* _resolve_any_dynamic_outputs: whether s gets a mapping, and whether it is None.
Completes(s) == {s} \cap Dynamic

ResolvedTo(s) ==
  IF s \in Dynamic /\ gathering[s] = {} /\ ~Output[Whole(s)].required THEN {s} ELSE {}

SuccessEvent(s) ==
  /\ s \in inFlight /\ RequiredOutputs(s) \subseteq emitted
  /\ success' = success \cup {s}
  /\ inFlight' = inFlight \ {s}
  /\ completed' = completed \cup Completes(s)
  /\ noneMapped' = noneMapped \cup ResolvedTo(s)
  /\ newMappings' = (newMappings \/ s \in Dynamic)
  /\ UNCHANGED <<undecided, failed, skipped, abandoned, unknownState, stepOutputs, gathering,
                 attempts, emitted>>

FailureEvent(s) ==
  /\ s \in inFlight
  /\ failed' = failed \cup {s}
  /\ inFlight' = inFlight \ {s}
  /\ UNCHANGED <<undecided, success, skipped, abandoned, unknownState, stepOutputs, mappings,
                 attempts, emitted>>

MayRetry(s) == RetryMode # "disabled" /\ attempts[s] < Step[s].maxRetries

\* Mutant of Requeued: the retried step is not put back.
RequeuedMutant(s, delayed) == FALSE

\* An immediate retry waits among the pending steps.
Requeued(s, delayed) == RetryMode = "enabled" /\ ~delayed

MarkUpForRetry(s, delayed) ==
  /\ s \in inFlight
  /\ pending' = IF Requeued(s, delayed) THEN pending \cup {s} ELSE pending
  /\ waitingToRetry' = IF RetryMode = "enabled" /\ delayed
                       THEN waitingToRetry \cup {s} ELSE waitingToRetry
  /\ abandoned' = IF RetryMode = "deferred" THEN abandoned \cup {s} ELSE abandoned
  /\ attempts' = [attempts EXCEPT ![s] = @ + 1]
  /\ inFlight' = inFlight \ {s}
  /\ UNCHANGED <<planned, executable, pendingSkip, pendingAbandon, success, failed, skipped,
                 unknownState, stepOutputs, mappings, emitted>>

RetryEvent(s, delayed) == MayRetry(s) /\ MarkUpForRetry(s, delayed)

\* verify_complete and mark_unknown_state, of each of `lost`.
MarkUnknownState(lost) ==
  /\ lost \subseteq inFlight
  /\ unknownState' = unknownState \cup lost
  /\ abandoned' = abandoned \cup lost
  /\ inFlight' = inFlight \ lost
  /\ UNCHANGED <<undecided, success, failed, skipped, stepOutputs, mappings, attempts, emitted>>

Complete ==
  pending \cup executable \cup pendingSkip \cup pendingAbandon \cup waitingToRetry
    \cup inFlight = {}

-----------------------------------------------------------------------------

\* __init__ with its call of _update: at first nothing is skipped or abandoned.
Init ==
  LET first == {s \in Steps : Step[s].needs = {} /\ Step[s].spawn = None}
      ready == {s \in first : /\ RequireUpstreamSuccess => Deps(s) = {}
                              /\ ShouldExecute(s)}
  IN
  /\ stepOutputs = ReadyOutputs
  /\ completed = {} /\ noneMapped = {} /\ newMappings = FALSE
  /\ gathering = [d \in Dynamic |-> {}]
  /\ success = {} /\ failed = {} /\ skipped = {} /\ abandoned = {}
  /\ planned = first /\ executable = ready /\ pending = first \ ready
  /\ pendingSkip = {} /\ pendingAbandon = {} /\ waitingToRetry = {} /\ inFlight = {}
  /\ unknownState = {}
  /\ attempts = [s \in Steps |-> 0]
  /\ emitted = {}

StepEvent(s) ==
  \/ \E h \in Handles : OutputEvent(s, h)
  \/ SuccessEvent(s)
  \/ FailureEvent(s)
  \/ \E delayed \in BOOLEAN : RetryEvent(s, delayed)
  \/ s \in inFlight /\ MarkUnknownState({s})

\* Any caller: methods in any order, with any limit.
Next ==
  \/ \E limit \in 0 .. Cardinality(Steps) : GetSomeSteps(limit)
  \/ \E due \in SUBSET waitingToRetry : SkipRound(due) \/ AbandonRound(due)
  \/ \E s \in Steps : StepEvent(s)

Spec == Init /\ [][Next]_vars

-----------------------------------------------------------------------------
(* Properties *)

TypeOK ==
  /\ \A B \in {planned, pending, executable, pendingSkip, pendingAbandon, waitingToRetry,
               inFlight, success, failed, skipped, abandoned, unknownState} : B \subseteq Steps
  /\ stepOutputs \subseteq Handles /\ emitted \subseteq Handles
  /\ gathering \in [Dynamic -> SUBSET Handles]
  /\ completed \subseteq Dynamic /\ noneMapped \subseteq completed
  /\ newMappings \in BOOLEAN
  /\ attempts \in [Steps -> Nat]

\* Every step the plan knows is in exactly one of the collections, and no other
\* step is in any: no method loses a step, vends it twice or ends it twice.
OneBucket ==
  /\ planned = UNION {buckets[i] : i \in DOMAIN buckets}
  /\ \A i, j \in DOMAIN buckets : i # j => buckets[i] \cap buckets[j] = {}

\* A decision once made would be made again: a step that is ready, runs or has
\* run has all it needs, a skipped step still lacks an input, an abandoned one
\* still has a lost dependency, whatever its upstream steps did since.
DecisionsStand ==
  /\ \A s \in executable \cup inFlight \cup waitingToRetry \cup success \cup failed \cup unknownState :
       /\ ~ShouldSkip(s)
       /\ IF RequireUpstreamSuccess THEN Deps(s) \subseteq EndedWell ELSE AllProduced(s)
  /\ \A s \in skipped \cup pendingSkip : ShouldSkip(s)
  /\ \A s \in abandoned \cup pendingAbandon :
       ShouldAbandon(s) \/ s \in unknownState \/ attempts[s] > 0

\* A step takes an output of another step of this run from this run, and never
\* from a past one.
WaitsForThisRun ==
  \A s \in executable \cup inFlight \cup success \cup failed : \A h \in SourcesOf(s) :
    Output[h].source \in planned /\ h \notin stepOutputs =>
      RequireUpstreamSuccess /\ Output[h].source \in EndedWell

\* The executor's limits hold at any time, whichever method was called last.
WithinLimits ==
  /\ MaxConcurrent # None => Cardinality(inFlight) <= MaxConcurrent
  /\ TagLimit # None => Cardinality(Tagged(inFlight)) <= TagLimit

\* With the new mappings looked at, the plan holds exactly the steps that the
\* resolved mappings call for: no element is left without its mapped step, and a
\* mapping that came out empty or None calls for none.
PlanIsResolved == planned \cup Resolved = {s \in Steps : Known(s)}

\* A retried dynamic step is mapped over what its last attempt has emitted.
MapsLastAttempt == \A s \in planned : Step[s].spawn # None => Step[s].spawn \in emitted
=============================================================================
