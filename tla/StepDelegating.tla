--------------------------- MODULE StepDelegating ---------------------------
(***************************************************************************)
(* StepDelegatingExecutor.execute: the loop that has each step executed by *)
(* a worker of its own, a container say, around ActiveExecution.  It hears *)
(* of its workers by the run's event log alone: it reads the new events,   *)
(* asks from time to time whether the workers are healthy, and writes the  *)
(* failure of those that are not into the log itself.  The executor may    *)
(* die while its workers go on; when the run is resumed, a new one replays *)
(* the log to find out where the plan is, and launches what does not run.  *)
(*                                                                         *)
(* Plans here have no dynamic outputs, and no two steps of one priority:   *)
(* among those the code keeps an order of its own.                         *)
(***************************************************************************)
EXTENDS ActiveExecution, Sequences, SequencesExt

CONSTANTS
  WillResume,    \* what run_will_resume says to an executor that is interrupted
  Interruptible, \* whether the run's worker may be interrupted
  MaxRetries,    \* bound: the most retries any step's policy has
  MaxFaults      \* bound: workers that break, and executors that die or leave the run

ASSUME DelegatingAssumption ==
  /\ Dynamic = {} /\ KeysToExecute = Steps /\ \A s \in Steps : Step[s].needs = {}
  /\ RetryMode # "deferred"
  /\ MaxFaults \in Nat /\ MaxRetries \in Nat
  /\ \A s \in Steps : Step[s].maxRetries <= MaxRetries
  /\ \A s, t \in Steps : s # t => Step[s].priority # Step[t].priority
  /\ {WillResume, Interruptible} \subseteq BOOLEAN

VARIABLES
  at,        \* where the executor is
  log, read, \* the run's events, those the executor looks at; how many it has handled
  fetched,   \* how many of them _pop_events has fetched, while they are handled
  running,   \* running_steps
  toStart,   \* steps of the last batch that are not launched yet
  slots,     \* steps that hold a slot of their pool
  worker,    \* of each attempt of a step that was launched: what has become of its worker
  sent,      \* outputs that worker has reported
  faults,    \* workers that broke, executors that died or left
  resumed,   \* history: the run was resumed
  doubtful,  \* history: a loop has launched a worker a second time
  crossed    \* history: steps failed or relaunched for a worker that is gone, their end unread

workers == <<worker, sent>>
place   == <<read, fetched, running, toStart>>
past    == <<resumed, doubtful, crossed>>
delegatingVars == <<vars, at, log, place, slots, workers, faults, past>>

Ends(s) == {<<"success", s>>, <<"failure", s>>} \cup {<<"retry", s, delayed>> : delayed \in BOOLEAN}
Events  == (UNION {Ends(s) \cup {<<"skip", s>>, <<"init", s>>} : s \in Steps})
           \cup {<<"output", Output[h].source, h>> : h \in {g \in Handles : Output[g].source \in Steps}}
Looping == {"check", "handle", "skip", "abandon", "health", "launch", "start"}
Replays == {"refresh", "replay"}
Over    == {"done", "stopped", "failed", "raised"}

DelegatingInit ==
  /\ Init
  /\ at = "check" /\ log = <<>> /\ read = 0 /\ fetched = 0 /\ running = {} /\ toStart = {} /\ slots = {}
  /\ worker = <<>> /\ sent = <<>>
  /\ faults = 0 /\ resumed = FALSE /\ doubtful = FALSE /\ crossed = {}

(***************************************************************************)
(* Workers.                                                                *)
(***************************************************************************)

Works(w) == w \in DOMAIN worker /\ worker[w] = "running"

Report(w, event, state) ==
  /\ worker' = [worker EXCEPT ![w] = state] /\ log' = Append(log, event)
  /\ UNCHANGED <<vars, at, place, slots, faults, past>>

EmitOutput(w, h) ==
  /\ Works(w) /\ h \in Outputs(w.step) \ sent[w] /\ sent' = [sent EXCEPT ![w] = @ \cup {h}]
  /\ Report(w, <<"output", w.step, h>>, "running")

\* The last event of a worker: "init" is the failure of a resource.  It has yet to exit then, or
\* has exited with 0, which nobody can tell apart as long as it does not fail (see Break).
EndStep(w) ==
  /\ Works(w)
  /\ \/ RequiredOutputs(w.step) \subseteq sent[w] /\ Report(w, <<"success", w.step>>, "reported")
     \/ Report(w, <<"failure", w.step>>, "reported")
     \/ /\ RetryMode # "disabled" /\ w.attempt < Step[w.step].maxRetries
        /\ \E delayed \in BOOLEAN : Report(w, <<"retry", w.step, delayed>>, "reported")
     \/ Report(w, <<"init", w.step>>, "reported")
  /\ UNCHANGED sent

Goes(w, from, to) ==
  /\ w \in DOMAIN worker /\ worker[w] = from /\ worker' = [worker EXCEPT ![w] = to]
  /\ UNCHANGED <<vars, at, log, place, slots, sent, past>>

\* A worker is lost, killed, or exits with a code other than 0: before its last report, or after it.
Break(w) ==
  /\ faults < MaxFaults /\ faults' = faults + 1
  /\ Goes(w, "running", "broken") \/ Goes(w, "reported", "failed")

(***************************************************************************)
(* What the executor does to its workers.                                  *)
(***************************************************************************)

\* The step handler knows a worker by its step, and by how often that was retried.
Current(s)   == [step |-> s, attempt |-> attempts[s]]
CurrentOf(S) == {Current(s) : s \in S}

Launched(S) ==
  /\ worker' = [w \in DOMAIN worker \cup CurrentOf(S) |-> IF w \in CurrentOf(S) THEN "running" ELSE worker[w]]
  /\ sent' = [w \in DOMAIN sent \cup CurrentOf(S) |-> IF w \in CurrentOf(S) THEN {} ELSE sent[w]]

\* What workers do when they are told to terminate: the loop is over, and reads none of it.
Terminated(S) ==
  /\ worker' = [w \in DOMAIN worker |-> IF w \in CurrentOf(S) /\ worker[w] = "running" THEN "broken" ELSE worker[w]]
  /\ UNCHANGED sent

\* "Unexpected exception while steps were still in-progress - terminating running steps"
RaiseTo(label) == at' = label /\ Terminated(running)

\* log_failure_or_retry_event_after_error
FailureOrRetry(s) ==
  IF MayRetry(s) THEN {<<"retry", s, delayed>> : delayed \in BOOLEAN} ELSE {<<"failure", s>>}

\* check_step_health: a worker that has not exited, or has exited with 0, is healthy.
Is(s, state) == Current(s) \in DOMAIN worker /\ worker[Current(s)] = state

\* Mutant: a step whose worker was never launched passes for healthy.
UnhealthyMutant(s) == Is(s, "broken") \/ Is(s, "failed")

Unhealthy(s) == Current(s) \notin DOMAIN worker \/ Is(s, "broken") \/ Is(s, "failed")

Unread(s) == \E i \in read + 1 .. Len(log) : log[i] \in Ends(s) \cup {<<"init", s>>}

CrossedOf(S) == {s \in S : Is(s, "failed") /\ Unread(s)}

(***************************************************************************)
(* ActiveExecution.handle_event, for the next event.                       *)
(***************************************************************************)

NextEvent == log[read + 1]
Of(e)     == e[2]
IsEnd(e)  == e \in Ends(Of(e))

\* An event that ends a step that is not in flight fails a check.
Refused(e) == IsEnd(e) /\ Of(e) \notin inFlight

Handled(e) ==
  /\ slots' = IF IsEnd(e) \/ e[1] = "init" THEN slots \ ({Of(e)} \cap inFlight) ELSE slots
  /\ \/ e[1] = "success" /\ SuccessEvent(Of(e))
     \/ e[1] = "failure" /\ FailureEvent(Of(e))
     \/ e[1] = "retry" /\ MarkUpForRetry(Of(e), e[3])
     \/ /\ e[1] = "output"
        /\ stepOutputs' = stepOutputs \cup {e[3]} /\ emitted' = emitted \cup {e[3]}
        /\ UNCHANGED <<undecided, inFlight, success, failed, skipped, abandoned, unknownState,
                       mappings, attempts>>
     \/ e[1] = "init" /\ UNCHANGED vars

(***************************************************************************)
(* A round of the loop.                                                    *)
(***************************************************************************)

EndPlan ==
  /\ at = "check" /\ Complete /\ at' = "done"
  /\ UNCHANGED <<vars, log, place, slots, workers, faults, past>>

Leave == faults < MaxFaults /\ faults' = faults + 1 /\ at' = "down"

Interrupted ==
  /\ Interruptible /\ at = "check" /\ ~ Complete
  /\ IF WillResume THEN Leave /\ UNCHANGED workers
                   ELSE at' = "stopped" /\ Terminated(running) /\ UNCHANGED faults
  /\ UNCHANGED <<vars, log, place, slots, past>>

\* _pop_events, if there are steps in flight.
PopEvents ==
  /\ at = "check" /\ ~ Complete
  /\ IF inFlight # {} THEN at' = "handle" /\ fetched' = Len(log) ELSE at' = "skip" /\ UNCHANGED fetched
  /\ UNCHANGED <<vars, log, read, running, toStart, slots, workers, faults, past>>

HandleEvent ==
  /\ at = "handle" /\ read < fetched /\ read' = read + 1
  /\ \/ Refused(NextEvent) /\ RaiseTo("raised") /\ UNCHANGED <<vars, log, running, slots>>
     \/ /\ ~ Refused(NextEvent) /\ NextEvent[1] # "skip" /\ Handled(NextEvent)
        /\ running' = IF IsEnd(NextEvent) THEN running \ {Of(NextEvent)} ELSE running
        /\ IF NextEvent[1] = "init" THEN \E e \in FailureOrRetry(Of(NextEvent)) : log' = Append(log, e)
                                    ELSE UNCHANGED log
        /\ UNCHANGED <<at, workers>>
     \/ /\ NextEvent[1] = "skip" /\ MarkUnknownState({Of(NextEvent)} \cap inFlight)   \* verify_complete
        /\ UNCHANGED <<at, log, running, slots, workers>>
  /\ UNCHANGED <<fetched, toStart, faults, past>>

ProcessSkips == \E due \in SUBSET waitingToRetry :
  /\ at = "skip" \/ (at = "handle" /\ read = fetched)
  /\ SkipRound(due) /\ fetched' = 0
  /\ at' = IF SkipVended = {} THEN "abandon" ELSE "skip"
  /\ log' = log \o [i \in 1 .. Cardinality(SkipVended) |-> <<"skip", SetToSeq(SkipVended)[i]>>]
  /\ UNCHANGED <<read, running, toStart, slots, workers, faults, past>>

ProcessAbandons == \E due \in SUBSET waitingToRetry :
  /\ at = "abandon" /\ AbandonRound(due) /\ at' = IF AbandonVended = {} THEN "health" ELSE "abandon"
  /\ UNCHANGED <<log, place, slots, workers, faults, past>>

\* Mutant: a worker that is gone is not healthy, whatever its exit code.
SickMutant == {s \in running : ~ Is(s, "running")}

Sick == {s \in running : Unhealthy(s)}

HealthCheck ==
  /\ at = "health" /\ at' = "launch"
  /\ \E events \in [Sick -> UNION {FailureOrRetry(s) : s \in Sick}] :
       /\ \A s \in Sick : events[s] \in FailureOrRetry(s)
       /\ log' = log \o [i \in 1 .. Cardinality(Sick) |-> events[SetToSeq(Sick)[i]]]
  /\ crossed' = crossed \cup CrossedOf(Sick)
  /\ UNCHANGED <<vars, place, slots, workers, faults, resumed, doubtful>>

Free == IF MaxConcurrent = None THEN Cardinality(Steps) ELSE MaxConcurrent - Cardinality(running)

\* Mutant: a slot is noted for a step that asks for none.
TakeStepsMutant(limit, batch) ==
  /\ \E due \in SUBSET waitingToRetry :
       \E refused \in SUBSET {s \in NowExecutable(due) \ (batch \cup slots) : Step[s].pool} :
         GetStepsToExecute(limit, due, batch \cup refused, refused)
  /\ slots' = slots \cup batch

\* get_steps_to_execute; a step that holds a slot of its pool from before gets it again.
TakeSteps(limit, batch) ==
  /\ \E due \in SUBSET waitingToRetry :
       \E refused \in SUBSET {s \in NowExecutable(due) \ (batch \cup slots) : Step[s].pool} :
         GetStepsToExecute(limit, due, batch \cup refused, refused)
  /\ slots' = slots \cup {s \in batch : Step[s].pool}

\* With or without a health check, which may not be due, or may raise.
LaunchSome ==
  /\ at \in {"health", "launch"} /\ at' = "start"
  /\ \E batch \in SUBSET Steps : TakeSteps(Free, batch) /\ toStart' = batch
  /\ UNCHANGED <<log, read, fetched, running, workers, faults, past>>

StartStep(s) ==
  /\ at = "start" /\ s \in toStart /\ toStart' = toStart \ {s} /\ running' = running \cup {s}
  /\ \/ /\ Launched({s}) /\ UNCHANGED at
        /\ doubtful' = (doubtful \/ Current(s) \in DOMAIN worker)
     \/ RaiseTo("failed") /\ UNCHANGED doubtful                       \* launch_step raises
  /\ UNCHANGED <<vars, log, read, fetched, slots, faults, resumed, crossed>>

Sleep ==
  /\ at = "start" /\ toStart = {} /\ at' = "check"
  /\ UNCHANGED <<vars, log, place, slots, workers, faults, past>>

(***************************************************************************)
(* The executor dies, and the run is resumed.                              *)
(***************************************************************************)

Die ==
  /\ at \in Looping \cup Replays /\ Leave
  /\ UNCHANGED <<vars, log, place, slots, workers, past>>

\* A new ActiveExecution, as Init has it; the events up to now are fetched.
Resume ==
  /\ at = "down" /\ at' = "refresh" /\ resumed' = TRUE
  /\ LET ready == {s \in Steps :
                     IF RequireUpstreamSuccess THEN Deps(s) = {}
                     ELSE \A h \in SourcesOf(s) :
                            \/ h \in ReadyOutputs
                            \/ Output[h].source \notin KeysToExecute /\ h \in ParentOutputs}
     IN  /\ executable' = ready /\ pending' = Steps \ ready
  /\ stepOutputs' = ReadyOutputs /\ planned' = Steps
  /\ completed' = {} /\ noneMapped' = {} /\ newMappings' = FALSE /\ gathering' = [d \in Dynamic |-> {}]
  /\ success' = {} /\ failed' = {} /\ skipped' = {} /\ abandoned' = {} /\ unknownState' = {}
  /\ pendingSkip' = {} /\ pendingAbandon' = {} /\ waitingToRetry' = {} /\ inFlight' = {}
  /\ attempts' = [s \in Steps |-> 0] /\ emitted' = {}
  /\ read' = 0 /\ fetched' = Len(log) /\ running' = {} /\ toStart' = {}
  /\ UNCHANGED <<log, slots, workers, faults, doubtful, crossed>>

\* rebuild_from_events: get_steps_to_execute() first, and after each event.
Refresh ==
  /\ at = "refresh" /\ at' = "replay"
  /\ \E batch \in SUBSET Steps : TakeSteps(Cardinality(Steps), batch)
  /\ UNCHANGED <<log, place, workers, faults, past>>

\* An exception here is not caught: the workers go on.
Replay ==
  /\ at = "replay" /\ read < fetched /\ read' = read + 1
  /\ IF Refused(NextEvent) \/ NextEvent[1] = "skip"
       THEN at' = "raised" /\ UNCHANGED <<vars, slots>>
       ELSE at' = "refresh" /\ Handled(NextEvent)
  /\ UNCHANGED <<log, fetched, running, toStart, workers, faults, past>>

\* Mutant: what is possibly in flight is taken to be running.
RelaunchedMutant == {}

Relaunched == {s \in inFlight : Unhealthy(s)}

\* An exception of launch_step is not caught.
Recheck ==
  /\ at = "replay" /\ read = fetched /\ fetched' = 0 /\ running' = inFlight
  /\ \/ at' = "check" /\ Launched(Relaunched)
     \/ at' = "failed" /\ \E S \in SUBSET Relaunched : S # Relaunched /\ Launched(S)
  /\ crossed' = crossed \cup CrossedOf(Relaunched)
  /\ UNCHANGED <<vars, log, read, toStart, slots, faults, resumed, doubtful>>

(***************************************************************************)

Round ==
  \/ EndPlan \/ PopEvents \/ HandleEvent \/ ProcessSkips \/ ProcessAbandons
  \/ HealthCheck \/ LaunchSome \/ \E s \in Steps : StartStep(s)
  \/ Sleep
Resuming == Resume \/ Refresh \/ Replay \/ Recheck

DelegatingNext ==
  \/ Round \/ Interrupted \/ Die \/ Resuming
  \/ \E w \in DOMAIN worker : EndStep(w) \/ Break(w) \/ \E h \in Handles : EmitOutput(w, h)

\* A fault may lead to one retry more than the policy allows.
Workers == [step : Steps, attempt : 0 .. MaxRetries + MaxFaults]

\* The loop goes on, the health of the workers is looked at again and again,
\* pools grant slots, the time of each retry comes, workers end, and the run is resumed.
DelegatingFairness ==
  /\ WF_delegatingVars(Round \/ Resuming)
  /\ SF_delegatingVars(HealthCheck)
  /\ SF_delegatingVars(LaunchSome /\ toStart' # {})
  /\ \A w \in Workers : WF_delegatingVars(EndStep(w))
  /\ \A s \in Steps : SF_delegatingVars(s \in waitingToRetry /\ Round /\ s \notin waitingToRetry')

DelegatingSpec     == DelegatingInit /\ [][DelegatingNext]_delegatingVars
FairDelegatingSpec == DelegatingSpec /\ DelegatingFairness

(***************************************************************************)
(* Properties.                                                             *)
(***************************************************************************)

\* Every variable has its type.
DelegatingTypeOK ==
  /\ TypeOK
  /\ at \in Looping \cup Replays \cup Over \cup {"down"}
  /\ log \in Seq(Events) /\ {read, fetched} \subseteq 0 .. Len(log)
  /\ running \subseteq Steps /\ toStart \subseteq Steps /\ slots \subseteq {s \in Steps : Step[s].pool}
  /\ DOMAIN worker \subseteq [step : Steps, attempt : Nat]
  /\ worker \in [DOMAIN worker -> {"running", "reported", "broken", "failed"}]
  /\ sent \in [DOMAIN worker -> SUBSET Handles]
  /\ faults \in 0 .. MaxFaults /\ resumed \in BOOLEAN /\ doubtful \in BOOLEAN /\ crossed \subseteq Steps

\* A resumed executor takes no notice of a failed resource that was reported before, and the
\* worker, which is gone with an exit code of 0, passes for healthy.
Forgotten(s) == resumed /\ Is(s, "reported") /\ <<"init", s>> \in ToSet(log)

\* running_steps holds exactly the steps in flight that have been launched, after a resume, too, so
\* that the loop finds each step that ends; and each has a worker that runs or fails its next health
\* check, or an event to be read that ends it: none is waited for in vain.
NoneIsOrphaned ==
  at \in Looping =>
    /\ running \cup toStart = inFlight /\ running \cap toStart = {}
    /\ \A s \in running :
         \/ Is(s, "running") \/ Is(s, "broken") \/ Is(s, "failed")
         \/ Unread(s) \/ Forgotten(s)

\* How often the log has the step end for good.
TimesEnded(s) == Cardinality({i \in DOMAIN log : log[i] \in {<<"success", s>>, <<"failure", s>>}})

\* A step ends once, whatever dies between its worker's last report, the worker's exit, the
\* executor's reading of the report, the health checks and the replay, but for two things: a check
\* that finds the worker gone with an exit code other than 0 and its end unread fails the step a
\* second time (crossed), and the loop of a resumed executor may launch a worker a second time
\* (doubtful).  Without a resume and without the first, no handling of an event fails.
EndsOnce ==
  /\ doubtful \/ \A s \in Steps \ crossed : TimesEnded(s) <= 1
  /\ doubtful => resumed
  /\ at = "raised" => resumed \/ crossed # {}

\* Without these exceptions; the code does not keep it.
AlwaysEndsOnce == \A s \in Steps : TimesEnded(s) <= 1

\* When the loop ends, all steps are decided, and none executes, with the same exceptions.
EndsDecided ==
  at = "done" =>
    Terminal = Steps /\ (doubtful \/ crossed # {} \/ \A w \in DOMAIN worker : ~ Works(w))

\* The execution of the plan ends, whichever workers or executors die.
PlanEnds == <>(at \in Over \/ \E s \in running : Forgotten(s))

\* rebuild_from_events is to "replay events to rebuild the execution state and continue after a
\* failure": the replay of a log does not fail.
ReplayContinues == [][at = "replay" => (at' # "raised")]_delegatingVars
=============================================================================
