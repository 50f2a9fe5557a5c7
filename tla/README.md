# Dagster: specifications

TLA+ models of the parts of Dagster where processes share state through the
database: which actions there are, in which order their statements take effect,
what goes wrong when they interleave, and what holds anyhow. Paths below
are relative to `src/python_modules/dagster/dagster/` unless they begin with
`src/`.

## 1. Inventory

Dagster runs jobs made of steps. A *run* is a row of the run storage with a
status; a *run worker* process executes its steps through an *executor*; *daemons*
start, watch, retry and create runs; everybody meets in three databases (runs,
event log, schedules) and nowhere else: there are no messages between a daemon
and a worker but rows, process signals and the launcher.

| Component | State | Operations | Talks to | Hard behaviour | What makes it correct |
|---|---|---|---|---|---|
| Op-concurrency pools (`_core/storage/event_log/sql_event_log.py` 2211-3013, `_core/execution/plan/instance_concurrency_context.py`, `_daemon/monitoring/concurrency.py`) | tables `concurrency_limits`, `concurrency_slots`, `pending_steps`; each executor's `_pools`, `_pending_claims`, `_claims` | set/delete/default a limit, claim, free for a step, free for a run, assign | executors, monitoring daemon, UI and CLI | several connections, several statements for each operation, crashes, retries, stale caches | the slot rows are a semaphore, tables agree, limits hold, nothing stays held, nobody waits for ever |
| ActiveExecution (`_core/execution/plan/active.py`) | buckets of steps: pending, executable, in flight, waiting to retry, success, failed, skipped, abandoned, unknown; outputs seen; dynamic mappings | get steps to execute/skip/abandon, handle an event, mark unknown, rebuild from events | executors, pools | events out of order, retries, replay after a crash | each step in one bucket, a step runs only after its inputs, the plan ends |
| In-process executor (`_core/execution/plan/execute_plan.py`) | where its loop is, the current step | execute one step at a time, then process skips and abandonments | ActiveExecution | decisions made after the last look | the loop ends, and only with the plan |
| Multiprocess executor (`_core/executor/multiprocess.py`, `child_process_executor.py`) | `active_iters`, iterators that have ended, termination signals | start children up to the limit, ask each for an event, clear up | ActiveExecution, child processes | children that die before or after their terminal event, relaunch under the same key, interrupts | each step in flight has its child, the limit, the loop ends |
| Step-delegating executor (`_core/executor/step_delegating/`) | step handles, event cursor | start, check health, terminate, rebuild from events | ActiveExecution, event log, launcher | duplicate terminal events, resumption by replay | every started step reaches one terminal state |
| Run lifecycle (`_core/instance/methods/`, `_core/storage/runs/sql_run_storage.py`, `_core/launcher/`) | the status and tags of each run | report events, submit, launch, cancel, resume | all daemons and workers | read-then-write of the status without a condition | a finished run stays finished, one worker for each run |
| Run queue (`_core/run_coordinator/queued_run_coordinator.py`, `_daemon/run_coordinator/`, `_core/op_concurrency_limits_counter.py`) | queued runs, paused locations | enqueue, dequeue under limits, re-enqueue, cancel | run storage, launcher | cancellation against dequeueing, threads, failed launches | limits on runs, order, no run lost or launched twice |
| Run monitoring (`_daemon/monitoring/run_monitoring.py`) | none of its own | start and cancel timeouts, health, resume, maximum runtime | run storage, launcher | decisions on records read earlier | every run ends, resumptions are bounded |
| Automatic retries (`_daemon/auto_run_reexecution/`) | cursor over the event log, tags | consume failures, create the retry | run storage, queue | crash between creation and tagging | each failed run is retried at most once for each attempt |
| Scheduler (`_scheduler/scheduler.py`, `_core/scheduler/`) | the row of each schedule, its ticks, `iteration_times` in memory | start, stop, reset, find the times that are due, evaluate, submit, recover an unfinished tick | schedule storage, run storage, code server | crash inside a tick, rows written back that were read earlier | no time passed over, no request twice, a stopped schedule rests |
| Sensors (`_daemon/sensor.py`) | ticks, cursors, run keys | evaluate, submit, recover an unfinished tick | schedule storage, queue | crash inside a tick | no run key submitted twice |
| Backfills, asset daemon (`_daemon/backfill.py`, `_daemon/asset_daemon.py`) | checkpoints and cursors | iterate, submit, cancel | run storage, queue | crash between submission and checkpoint | each partition requested once |
| Daemon controller | threads, heartbeats | start, check, restart | all daemons | clock | a dead daemon is noticed |
| Definitions, configuration, serialization, gRPC, UI, CLI, integrations, build | immutable objects or I/O | - | - | - | - |

Every component is listed in `PROJECT.json` with its status, and every hazard
found while reading is there with its line and the properties that cover it, or
the reason why none does yet.

## 2. Plan

In the order of importance:

1. `ConcurrencyPools` - done: model, runs, proofs of every safety property they check.
2. `ActiveExecution`, with its abstract specification `StepLife` and the two executors that
   run steps on one machine, `InProcessExecutor` and `MultiprocessExecutor` - done: models,
   runs, proofs of every safety property and of the refinement.
3. `StepDelegating` - the executor between ActiveExecution and step workers: events from
   the log, health checks that report a failure beside the step's own, `rebuild_from_events`
   after a crash. Composes with 2 - done for plans without dynamic outputs: model, runs, proofs of
   every safety property.
4. `RunLifecycle` - the status of a run under submission, queue, launcher, worker,
   cancellation and monitoring, one action per read or write - done: model, runs, proofs of every
   safety property.
5. `RunQueue` - paging and dequeueing under run, tag and pool limits - done: model, run, proofs of
   the limits (a default one after the iteration that applies it) and of the order.
6. `AutoRetry` - the consumer of the event log and its cursors - done: model, run, proofs of every
   safety property.
7. `Scheduler` - the ticks of a schedule, their requests and the recovery of an unfinished tick -
   done: model, run, proofs of every property.
8. The sensor daemon and the backfill daemon's submission and checkpoint, which have the same
   shape: what was done before a death is found again in the storage.
9. `StepDelegating` for plans with dynamic outputs, and the theorems about it for them: the replay then has to find
   the mappings again before it can hand the mapped steps their events.

Runs stay at two or three runs, steps and rows: every hazard of the list needs at
most two actors and one bystander. The number of runs is kept small; a run of a new module
may replace one whose question a theorem has answered for every value of the constants. For the
same reason few runs repeat a type invariant; the large models are checked for what could go wrong.

## 3. Modules

| Module | What it is |
|---|---|
| `ConcurrencyPools` | The pools: database, executors' claim contexts, daemon, operator |
| `MCConcurrencyPools` | Constants for TLC: one pool, one or two runs, two or three steps, one to three slot ids |
| `ConcurrencyPoolsProofs` | Types; one row for each step, claims backed and within the limit; rows agree with limits, pruned rows and held slots can be found |
| `ActiveExecution` | One run's steps: plan, decisions, limits, events |
| `StepLife` | What a run promises about its steps, whatever executor drives them |
| `ActiveExecutionLife` | The refinement mapping from the one to the other |
| `ActiveExecutionProofs` | Types, the partition, the limits, the resolved plan; decisions stand; ActiveExecution implements StepLife |
| `InProcessExecutor`, `InProcessExecutorProofs` | The in-process loop around ActiveExecution |
| `MultiprocessExecutor`, `MultiprocessExecutorProofs` | The loop with child processes around ActiveExecution |
| `StepDelegating` | The loop with workers it hears of by the event log, around ActiveExecution |
| `StepDelegatingProofs` | Types; steps start on outputs of this run, none is waited for in vain, steps end once, the loop ends with the plan |
| `MCActiveExecution`, `MCInProcessExecutor`, `MCMultiprocessExecutor`, `MCStepDelegating` | Five small plans for TLC |
| `RunLifecycle`, `MCRunLifecycle` | One run's row and everybody who writes it |
| `RunLifecycleProofs` | Types; a finished run stays finished, launches are bounded, one worker at a time |
| `RunQueue`, `MCRunQueue` | Which queued runs the daemon launches, and in which order |
| `AutoRetry`, `MCAutoRetry` | The retries of failed runs |
| `AutoRetryProofs` | Types; one retry for each run, their bound, no failure behind a cursor forgotten |
| `Scheduler`, `MCScheduler` | One schedule, its ticks and their runs |
| `DaemonsProofs` | The scheduler: types, one run for each request, ended ticks, stopped schedules, no time passed over. The run queue: types, limits, order |

### ConcurrencyPools

*State.* `limits`, `slots`, `pending`, `assigned` and `older` are the three tables
(a pending row is its step, whether `assigned_timestamp` is set, and the rows that
were created before it). `lock` is the actor inside a transactional block. Each
actor (an executor of a run, the daemon, the operator) has a program counter `pc`
in the storage code and the local variables that live across statements: the
step(s) it is about (`target`), the pending count (`count`), row ids from a SELECT
(`rows`, `picked`) and the keys to assign (`toAssign`). `pools`, `pendingClaims` and
`claims` are the fields of `InstanceConcurrencyContext`; `inFlight` is
ActiveExecution's set. `world`, `finished` and the history variable `revoked` are
outside the code.

*Actions.* One action per SQL statement, named after the method or the statement:
claiming is `Claim`, `InitDefault`, `Resync`, `Unlimited`, `HasPendingStep`,
`CountAssigned`, `CountSlots`, `AddPendingStep`, `CheckPending`, `CheckSlot`,
`SelectSlot`, `TakeSlot`; freeing is `DeletePruned`, `SelectHeld`, `FreeSlots`,
`SelectPending`, `DeletePending`, `SelectQueued`, `SetAssigned`. Freeing is the same
code for an executor (`HandleEvent`, `ExitFree`), the daemon (`DaemonFree`) and
the operator (`OperatorFree`). `SetLimit`, `DeleteLimit` and `InitDefault` are
`index_transaction` blocks and one action each. Around them, `Launch`, `StepEnds`,
`MarkUnknownState`, `LeaveContext`, `ExitDone`, `Crash`, `Resume`, `ReplayFails`
and `EndRun` give the executor's and the run's life.

*Isolation.* `with self.index_connection()` is one transaction on SQLite and MySQL and
no transaction on Postgres, whose engine is in AUTOCOMMIT mode. The constant
`TransactionalBlocks` names the blocks that are atomic: all of them for SQLite, all but
`"assign"` for MySQL (its SELECT in `assign_pending_steps` takes no lock), none for
Postgres. A transaction of another actor blocks every statement; that is
coarser than row locks and exact for the blocks modelled, which touch the rows of one
pool. A crash inside a transaction is rolled back, so it is the crash before it.

*Abstractions.* Slot ids are model values that are never reused while somebody
remembers them, as auto-increment ids are. The 5 second interval between claims of
one step (`_pending_timeouts`) and the wait after a run's end before the daemon
frees (`free_slots_after_run_end_seconds`) are any delay. The pool
granularity `run`, the reconciliation of tables from old versions, and the read-only
queries of the UI are left out. `SlotIds` bounds the rows alive, `Limits` and
`DefaultLimits` what may be configured; nothing else is bounded.

### ActiveExecution

*The plan* is static: `Step[s]` has a step's inputs, the dynamic element that spawns it
(`spawn`), the dynamic steps that have to be resolved before it is executable (`needs`), its
priority, whether it has a pool and carries a limited tag, and how often its policy retries
it; `Output[h]` has an output's step, whether it is required and whether it is plain, an
element of a dynamic output, the whole of one (which nobody emits) or a check's result. An
input comes from one output, from several (`fanIn`) or collects over a dynamic step
(`collect`). `Known` is what the code computes by resolving the plan: `planned` holds the
keys of `get_executable_step_deps()`, and `Resolved` those that `plan.resolve` adds when
`newMappings` is set.

*State.* The collections have the names of the fields of `ActiveExecution`: `pending`,
`executable`, `pendingSkip`, `pendingAbandon`, `waitingToRetry`, `inFlight`, `success`,
`failed`, `skipped`, `abandoned`, `unknownState`; `stepOutputs`, `gathering`
(`_gathering_dynamic_outputs`, and `_completed_dynamic_outputs` for steps in `completed`),
`noneMapped` (those whose mapping is None), `newMappings`, `attempts` (`_retry_state`).
`emitted`, what a step's process has emitted in its last attempt, is outside the code.

*Actions.* Every method begins with `_update`, so every action that stands for one contains
`Update`: `ToSkip`, `ToAbandon` and `ToExecute` are its three decisions, in the order in
which the code asks. `GetStepsToExecute` is `get_steps_to_execute` with the batch that
priorities, tags, pools and the two limits allow (`Selection`); `SkipRound` and
`AbandonRound` are one round of the loops of `plan_events_iterator`; `OutputEvent`,
`SuccessEvent`, `FailureEvent`, `RetryEvent` and `MarkUnknownState` are `handle_event` and
`verify_complete`. `Spec` lets any caller call them in any order with any limit.

*Abstractions.* The methods are called by one thread, so each is one action. Times are any
delay: `due` are the steps whose time to retry has come at this call. The pool of a step
answers as it likes (`refused`); what it does is `ConcurrencyPools`, and because claims that
pend belong to executable steps, the conjunct of `is_complete` about pending claims
adds nothing and is left out. `_pending_retry` is declared in the code and never filled. Ties in
priority are broken in any order. A dynamic step has one dynamic output. What the user code of a step
does is in the guards of the events: each output once, success only after the required
outputs, a retry while the policy has any left. A vended step that is to be
skipped or abandoned is marked so in the same action, because the caller iterates at once.
Not modelled: `__exit__`'s complaints about an incomplete plan, and `raise_on_error`.
`rebuild_from_events` is in `StepDelegating`.

### StepLife

The abstract specification: a step is absent until the plan knows it, waits, runs, may wait
and run again, and ends once. It starts only when everything upstream has ended well or
will never exist, and is skipped (abandoned) only downstream of something that ended well
(badly). `ActiveExecutionLife` maps the collections to stages.

### InProcessExecutor, MultiprocessExecutor

*In-process.* `at` is where `inner_plan_execution_iterator` is: `next` (asks for one step),
`run` (`HandleEvent`, one event of the current step), `skip` and `abandon` (the two loops of
`plan_events_iterator`), `done`. `verify_complete` after a step is included as an event that
a step normally makes unnecessary. `StuckOnSkips` is where this loop does not end: the last round of abandonments has
decided a skip, there is nothing to execute, and skips are processed only after something was executed.

*Multiprocess.* A round of `execute` is `StartRound` (condition and interrupts), `Launch` until
a batch is empty, one poll of each child (`NoEvent`, `ReportOutput`, `ReportEnd`,
`ChildEnds`, `ChildCrashes`, `CrashAfterEnd`), `ClearEnded`, skips and abandonments.
`activeIters` and `emptyIters` are the dictionary and the list of the code; `exiting` are
steps whose child has reported its terminal event and has not ended; `replaced` counts
children whose entry a relaunch has overwritten. A child may die while it runs its step or
after its terminal event, while it runs hooks and tears down resources (`Crashes`).
Children are polled in any order (in the code: in order of insertion). A failure to
initialise resources is folded into `ReportEnd`. After `CrashAfterEnd` the loop has raised
and nothing else is modelled.

### StepDelegating

*State.* `log` is the event log of the run, those events the executor looks at; `read` is the
executor's cursor, `fetched` how far `_pop_events` has read; `running` is `running_steps`,
`toStart` what is left of the batch of `get_steps_to_execute` that is being launched. `worker`
says what has become of the worker of each attempt of a step that was launched (its domain), which is how
the step handler names its containers: it is running, it has reported its end and exited with 0 or not yet (`"reported"`), it is gone
without a report (`"broken"`), or gone after one with another exit code than 0 (`"failed"`); `sent` are the outputs it has reported. `slots` are the steps that hold a slot of their pool: what a resumed
executor gets again at once. `faults`, and the history `resumed`, `doubtful` and `crossed`, are outside the code.

*Actions.* A round of `execute` is `EndPlan` or `Interrupted` or `PopEvents`, then `HandleEvent` for
each event, `ProcessSkips`, `ProcessAbandons`, `HealthCheck`, `LaunchSome`, `StartStep` for each step of the
batch and `Sleep`. A worker reports (`EmitOutput`, `EndStep`) and may `Break`,
before its last report or after it, in its teardown or by a signal. The executor may `Die`
anywhere; `Resume` makes a new ActiveExecution, `Refresh` and `Replay` are
`rebuild_from_events` step by step, and `Recheck` looks at the workers of what is possibly in flight and launches
those that are gone.

*What holds with an exception.* After a resume, a failed resource (`"init"`) that the dead executor
had read is replayed without being turned into a failure of its step, and a worker that has exited with 0 passes
for healthy: such a step is waited for for ever (`Forgotten`, excepted in `NoneIsOrphaned` and
`PlanEnds`). A resumed executor vends steps anew in the course of the replay, and the loop may launch one whose worker
of the same name runs or has run (`doubtful`, excepted in `EndsOnce` and `EndsDecided`). A health check may find a worker gone with
another exit code than 0 while the end it has reported is not yet read: it reports a failure or a retry of its own beside that
end, and what is read second meets a step that is not in flight, so that the executor raises (active.py:572-577), or that has
been launched again (`crossed`, excepted in the same two; `AlwaysEndsOnce` states that there is no such step). If a pool refuses
during the replay a step that had its slot, the replay of its end raises.

*Abstractions.* Steps here have different priorities and no dynamic outputs, and every step of the
plan is executed (`DelegatingAssumption`, the theorems' too). The offset that makes the
tailer read events twice and drop those it has seen, and its limit of 1000 events, are left out: the
log is read in order and once. So are a health check that raises during a resume,
`should_verify_step`, name conflicts of containers, and what workers that were told to terminate still log.

### RunLifecycle

*State.* `status` and `tag` (the container's id) are the row; `enqueues` and `resumes` count events
that are counted again later. Every writer is an actor with a place `pc` in its own procedure: the
submitter, the dequeuing and the monitoring thread of the daemon, clients, and the containers that
execute the run. `report[a]` is what an actor has read and is about to write: `handle_run_event` reads
the body of the row and replaces body and status later, so that everything the others do in
between is lost (`ReportWith` and `Write`).

*Actions.* `Submit`, `Submitted`, `SubmitFails`; `Pick`, `Dequeue`, `FailedLaunch`; `Create`, `Start`
and `LaunchFails` of the launcher, called to execute and to resume; `ReadRecord` and the decisions of an
iteration of monitoring, each on the record it read (`StartTimeout`, `CancelTimeout`,
`CheckHealth`, `Recheck`, `Resume`, `RuntimeExceeded`, ...); `Terminate`, `Stop`, `ForceMark`, for the monitor
and for clients (`Request`, `Cancel`, `Canceled`); the worker's `Boot`, `Check`, `Begin`, `Succeed`, `Fail`,
`Interrupted`, `FailIfUnfinished`. Around them things die (`Crash`), are killed after a signal (`Kill`),
interrupted (`Evict`) and restarted (`Restart`).

*Abstractions.* The launcher is Docker's: it adds the tag between creating and starting the
container, and its health check and termination go by the tag. Timeouts are any delay. The steps a worker
executes are the executors' modules; here executing is one state. Runs share nothing but the
limits of the queue, so one run is modelled.

### RunQueue

*State.* `status` and `enqueues` of each run, `paused` locations, and one iteration's variables: `seen`
(the runs in progress, read once), `skipped` (paused locations, read once), `keys` (the pools with a limit, read once), `cursor`,
`batch`, and `launching`, the runs whose `launch_run` has not returned. `limited` are the pools that have a row in the
table of limits. The histories `page` and `overlooked` are outside the code.

*Actions.* `Begin`, `ReadPage` (a turn of the loop over the pages: sort, `Filter` by the limits, `Truncate`),
`Dequeue`, `Launched` and `LaunchFails` of each thread, `Iterated`, `DaemonDies`, `Unpause`; and what others do
meanwhile: `Submit`, `Start`, `Cancel`, `End`. A launch that fails for another reason than the code server
fails the run, as `End` does. The loop over the sorted batch is a recursive function of the number of
runs looked at (`Considered`), the sort is the one list of those runs that is in order (`PrioritySort`).

*Abstractions.* One run's status is written in one step; what happens between read and write is
`RunLifecycle`. A tag limit is on whatever the run has in `TagsOf`: a key, a key with its value, or
each value of a key. Pools are counted as for granularity `run`; for granularity `op` the pools are
`ConcurrencyPools` and the queue only guesses. Counting the pools may raise, and then they are ignored for the page
(`BlocksOnPools`). A pool without a row gets one with the default limit when a page has a run of it; the keys were read before
(queued_run_coordinator_daemon.py:278), so that the pool has no limit for the rest of this iteration
(op_concurrency_limits_counter.py:101-107, 237-239), and `overlooked` remembers it until its runs have come down to the limit. Only the
daemon adds rows here, and a limit is not changed.

### AutoRetry

*State.* The runs of one group (a run and what was re-executed from it, directly or not), each with its
status, parent, whether it is an automatic retry, and the two tags `will` and `retry`; the terminal
events (`log`); for each process that ends a run (`writer`), where it is between storing the event,
writing the row and tagging it; the persisted `cursor` of each event type; and the consumer.

*Actions.* A run's end is `Ends`, `WriteStatus`, `Decide`, `Tag`. An iteration of the consumer is `Fetch`,
`ReadRows`, `Examine` for each run, then `FindRetry`, `CreateRetry`, `TagRetry`, `SubmitRetry` (or `JobIsGone`, or
`RetryFails` wherever it raises), and `PersistCursors`. Both sides may die between any two. Users re-execute (`Reexecute`).

*Abstractions.* The tags with which a run overrides `max_retries` and
`retry_on_asset_or_op_failure`, and exceptions while a run is examined (the cursors move on all the same,
as after `RetryFails`), are left out. The runs of a submitted retry are started at once.

### Scheduler

*State.* `row` is the stored `InstigatorState` (status, `start_timestamp`,
`last_iteration_timestamp`), `tick` the stored tick of each execution time, `runs` what is found
of each request under its tags: how many runs were created, whether they have left `NOT_STARTED`, how often
one was submitted. `loop` is what the daemon's loop has read, `thread` the generator that
executes an iteration with its local variables, `memory` the process's `iteration_times`. `since` and
`dropped` are history: since when the schedule has run without being stopped, and which times `max_catchup_runs` left out.

*Actions.* The loop is `ReadStates`, then `PassStopped`, `Declare` (a schedule that runs by default
gets its row) or `Launch`. An iteration is `FindTimes`, `StartTick` for each time, and `EndIteration`,
which may write the row it was given back with its time (`Checkpoint`). A tick is `Evaluate` or `Skip`,
then `Existing` or `CreateRun` and `Submitted` or `SubmitRaises` for each request, then `Succeed`;
`Fail` and `Unreachable` end the iteration with it. The daemon dies between any two (`Crash`), the
clock goes on, and users call `StartSchedule`, `StopSchedule` and `ResetSchedule` at any point.

*Abstractions.* Schedules share no state, so there is one. A schedule without a partition set, where
the code forces one catch-up run, is one with `MaxCatchup = 1`. The jitter of the checkpoint is any of `0..MaxJitter`.
The code adopts a thread's iteration time when its loop next looks at the finished future; here the
memory has it when the thread ends. `reset_schedule` is offered for schedules that run by default.
A request has a run key, as the code's lookup by tags then needs it. Times are whole seconds.
Left out: changes of the cron string, the removal of rows whose schedule is gone, retention of ticks, several
threads that submit the requests of one tick, failures of the storage, and a request whose assets are not stale,
which is submitted to nobody, as one that is not requested.

## 4. Runs

### Pools

| Run | Shows | Bounds |
|---|---|---|
| `pools_operator` | limits and slots tables agree; pruned rows vanish with their holder; no step owns two rows; claims are backed - while the operator sets and deletes the limit and frees slots by hand, and defaults are applied | 1 run, 2 steps, 2 slot ids, limit 1, default none or 2; MySQL's isolation |
| `pools_crash` | claims are within the limit, a held slot can be found; assigned steps are served and finished runs' slots are freed - with a worker that dies and is resumed and a daemon that dies half-way | 2 runs, 1 step each, 1 slot; MySQL's isolation; fair |

Two racers and one holder are the most that any single row or counter of the model
tells apart: a third racer repeats the second. A default of 2 over a limit of 1 lets the
limit be raised and lowered, and a pruned row live beside a live one. One slot for two
steps is what makes the second one queue.

*Why the limits of the properties are what they are.* `ClaimsWithinLimit` is checked
where the limit is not changed. `ClaimsAreBacked` excludes steps whose slot was
taken away by somebody else (`revoked`): that is what the daemon and the operator are for.

*Stated and not kept.* Five more sentences about the pools do not hold of the code. With
`TransactionalBlocks = {}` (Postgres: the engine is created with AUTOCOMMIT, and `index_connection` opens no transaction)
two steps may select the same free slot before either updates it, both updates succeed, and `ClaimsWithinLimit`
is violated, while `docs/docs/guides/operate/managing-concurrency/concurrency-pools.md:59` promises a limit across runs. The others are stated in `ConcurrencyPools`:
`NoIdleSlotWhileQueued` (a slot is freed between the count of the unassigned slots and the insertion of a
pending step: the slot is idle, the step is queued unassigned, and no later free will assign it),
`ExplicitLimitKept` (the default limit may overwrite the one an operator has just set),
`AdmissionWithinLimit` (a freed assignment is handed on above a lowered limit), and
`FinishedRunsReleaseSlots` where a worker outlives its run (`OutlivedRuns`): a slot claimed
after the daemon's visit has no finished run to be found by.

### Steps of a run

| Run | Shows | Bounds |
|---|---|---|
| `active_plan` | each step in one collection; decisions stand; limits hold; the plan is what the mappings call for, over the last attempt; refinement of StepLife | 6 steps: a dynamic step that may be retried once, two mapped, one that collects, one after it, one that reads the elements; 2 at a time, 1 tagged |
| `inprocess` | the loop ends only with the plan; and it does end, unless it is `StuckOnSkips` | 6 steps: two branches that meet, with a retry, an output left out and a pool, and a dynamic step with one mapped step; fair |
| `multiprocess` | each step in flight has its child, and the loop ends, only with the plan | 4 steps in two branches, a retry, two children at a time, both crashes, termination, fair |
| `step_delegating` | each step in flight is launched, and ends or is seen to have died; steps start on outputs of this run; the loop ends, and only with the plan; steps end once, unless they are `crossed` or the run `doubtful` | 2 steps that start on their upstream outputs, one with a retry and an output it may leave out that a parent run had, one with a pool; one worker that breaks before or after its last report or one death of the executor, interrupts; fair |
| `step_delegating_resume` | violated: the replay of a run with a skipped step raises | the same plan without retries |

Two mapped elements are the least that a fan-in can lose one of; one retry is the least that
leaves something of an earlier attempt; two branches that meet are the least where a skip and an
abandonment compete; and two steps are the least where one is skipped and one has a pool while the executor dies.
One fault is enough: the code keeps nothing of a past fault but the log, and what a second resume
replays is a longer log of the same events.

*Stated and not kept.* `DecidedStepsEnd`: in the in-process loop, a skip that the last round of abandonments decides is never
processed, and the loop goes on for ever (execute_plan.py:59-66, active.py:481-524: skips come first). The plan of the run
has that case: where b fails and a leaves out its output, the abandonment of d decides that e is skipped; so `PlanEnds` excepts `StuckOnSkips`.
`AlwaysEndsOnce`: with the configuration of `step_delegating`, a worker reports the success of its step and then breaks, and the
health check reports a failure before the success is read.
`UpstreamOverDecides`: where steps start on their upstream outputs, a blocking check without a result leaves
the step behind it undecided for ever. `WaitsForThisRun` in a re-executed run with a
dynamic step and outputs of mapped instances in the parent run: the collecting step takes those instead of waiting. `MarksInFlightOnly`: a
child process that dies after its step's terminal event has the multiprocess executor end that step
again, which raises. `ProcessesWithinLimit` counts also children whose entry in `active_iters` a relaunch
has overwritten.

### The life of a run

| Run | Shows | Bounds |
|---|---|---|
| `run_lifecycle` | once everybody is done with a finished run, its status stands | 1 client with 1 request, 2 containers, 1 resume, 1 crash or eviction |
| `run_recovery` | one worker at a time, a bounded number of launches, and every run ends | no requests, 4 containers, 1 resume, 1 retry of the dequeue, 1 crash, restarts by the cluster; fair |
| `auto_retry` | a run is retried once unless a user has re-executed it; the automatic retries of the group are at most `max_retries`, repeated ones not counted; no failure behind a cursor is forgotten; retries are submitted | 4 runs in the group, 1 retry, 1 re-execution by a user, 1 death, 1 event read at a time; fair |
| `run_queue` | no limit is exceeded, but for a default limit in the iteration that applies it; order within what was read together, the queue drains | 4 runs, pages of 2, 2 runs at a time, a tag for one and a tag for two, a pool of one, a pool with a default limit of one, 2 locations, 1 retry, 1 failed launch, 1 death; fair |
| `scheduler` | a request gets one run, submitted at most once; ended ticks stand; no time is passed over; a stopped schedule rests | 3 execution times, 1 request each, 2 caught up with, 2 calls of a user, 1 death, 1 time that the code server is away |

Four containers are one for each launch that `LaunchesAreBounded` allows and one more, so that it can be
violated. Four runs on pages of two have the batch of the first page meet the second page once; a third page
would repeat that. Reading one event at a time lets the cursors of the two types part.
Three execution times are one that is dropped, one that is caught up with and one that comes later;
two calls stop a schedule and start it again while an iteration is in flight. The failures that are counted are
none to be retried there (`MaxTickRetries = 0`, the default): the unreachable server leaves a tick to be retried.
The clock and the users stop at their bounds, and a stopped schedule then has nothing to do, so deadlock is not checked.

*Stated and not kept.* In `RunLifecycle`, `ResumesDeadWorkersOnly`: an event reported while the launcher adds the container's id
loses the id, and the monitor, which then finds no container, resumes a run whose worker executes (hence `excused` in `OneWorker`).
`ReenqueuesUnstartedOnly`: with a launch that raises although the worker starts (`LateErrors`), the dequeuer enqueues a run
again over the status its worker has written since the check. In `AutoRetry`, `PromisesAreKept`: with a run that the
monitor fails while its worker ends it (`LateEnds`), or a row read between the event and its
status, a run tagged to be retried is passed over. `MaxRetriesHolds` (`_core/execution/retries.py:115`: "the automatic reexecution
system won't launch more than max_retries run itself"): the consumer dies between `CreateRetry` and `TagRetry`, a user re-executes the
failed run, and the consumer, which then finds the user's run where it looks for its own, creates the retry again; with the configuration of
`auto_retry` there are two automatic retries. In `RunQueue`, `DefaultLimitHolds`: two runs of a pool that gets its default limit of
one in this iteration are launched together, with the configuration of `run_queue`. `PriorityFirst`: a run left out on one page
because of one that a later page displaces is overtaken in this iteration (the docs: "Dagster
launches runs with higher priority first"). In `Scheduler`, `OnlyUsersChangeStatus`: the checkpoint at the end
of an iteration writes back the row that was read before it, and undoes a user's stop or start made meanwhile
(`_core/scheduler/instigation.py:46`: "User has taken some manual action to change the status").

The violated run is a disagreement of the code with its documentation, comments or
docstrings; `PROJECT.json` quotes both sides in "findings". Each of the properties above can be run with a
configuration of the kind its sentence describes.

### Fairness

*Pools.* `FairSpec` assumes that a live process goes on, that a connection waiting
for another's transaction gets its turn, that the executor's loop offers each executable
step again and again (`get_steps_to_execute` is called in every iteration of every
executor), that step processes end, that the end of a worker is noticed, and that the daemon
iterates for ever. Strong fairness is used for statements because another actor's
transaction disables them for a while, infinitely often. `CrashesEnd`: monitoring resumes
a run a limited number of times (`max_resume_run_attempts`), and a daemon that is started again does not die in
every iteration; without it no storage could promise anything. Interruptions, resumptions and operator actions
are never required.

*Executors.* The loop goes on (weak fairness of `Loop`: it is a plain loop in a live process);
each step's process ends, and the time of each retry comes (strong, because the loop comes by
only now and then). A pool that is asked for ever grants a slot now and then, which
`AssignedStepsAreServed` and `FinishedRunsReleaseSlots` of the pools justify: the multiprocess
executor has a conjunct of its own for it; in the in-process loop an iteration in which every
pool refuses and nothing else changes is a stuttering step, which weak fairness does not count.
That a step's terminal event arrives is not assumed of child processes: they may also die.
The step-delegating loop also looks at the health of its workers and launches what it may again and again,
and workers end (`EndStep`, unless they break); that a dead executor is resumed is what monitoring does in `RunLifecycle`.

*Runs.* Every process takes its next step, timeouts pass in the end, and docker kills what it was
told to stop. Nothing is assumed of user code (a worker may run for ever: then its maximum runtime passes), of users, or of
what dies. In the queue, runs end (which `RunEnds` of the lifecycle justifies), the daemon iterates, and the
timeouts of locations pass. In `AutoRetry` the consumer and whoever ends a run take their next step unless they
die; runs need not end. The properties of the scheduler are safety properties and assume nothing.

## 5. Proofs

All theorems hold for every value of the constants under the named assumptions of the modules:
`PoolsAssumption`, `PlanAssumption`, `ExecutorAssumption`, `DelegatingAssumption`; `ActorsAssumption`,
`BoundsAssumption` and `NoneAssumption` of `RunLifecycle`; `CountsAssumption`, `CasesAssumption` and `NoneAssumption` of
`AutoRetry`; `RunsAssumption` and `LimitsAssumption` of `RunQueue`; `CronTimesAssumption`, `BoundsAssumption` and
`NoneAssumption` of `Scheduler`. They ask for finite sets, a NULL that is no
value, a plan that is well-formed the way `ExecutionPlan` builds it, runs, times, bounds and limits that are numbers, and
in `StepDelegating` for the plans that it covers. What a theorem needs beyond that stands in its statement: isolated
transactions (`Isolated`), one default limit (`OneDefault`), nobody who frees slots by hand and no worker that
outlives its run (`OthersWait`), no mapped outputs of a parent run (`NoPastInstances`); section 4 says what
happens without isolation, in runs that are outlived, and with such outputs.

*Pools.* `TypeCorrect` is inductive by itself. `OneSlotForEachStep` (no step ever owns two slot
rows, in any storage) needs `ContextInv` and `RowInv`: `TargetsOK` says where an executor can be when it has a target,
`ClaimsInUse` that a claim is not asked for again, `OwnersOK` that between CHECK and
UPDATE of a claim the step still has no row; without the last, `TakeSlot` could give it a second one.
`ClaimsStayBacked` needs isolation (`Isolated`: the claim and free blocks are transactions)
and adds `SelectedRowsLocked`: a selected row is still free, and the held rows of a step
are still those that were selected, when the UPDATE comes. Without the assumption the code
violates the property, and with it `ClaimsWithinLimit` (section 4).
The other properties relate tables, and are proved from a list of what the steps do to them: `TableSteps` and `CallSteps` say
which steps change the limits and the rows, and that all others only move the actor, and whither. `SlotsFollowLimits` counts: allocation
creates exactly the rows that are missing or marks exactly those that are too many (`AllocationCounts`). For
`PrunedRowsGoWithTheirHolder`, a row that is pruned and free is gone in the same block (`Swept`, `AllocationSweeps`), which needs
the free block to be a transaction. For `SlotsStayRegistered` (a held slot's step has its assigned pending row,
by which the daemon finds the slot), `Registered` says of each actor what it has found out and must still be so: who goes for a row has an assigned pending
row, who deletes pending rows has freed the rows before; `GoneRuns`, that who frees is the only one to be
concerned with those steps. It needs `OthersWait`: a free by hand pulls the pending row away from under a claim.
For the limit itself, each claim in flight has a row of its own, since claims are backed and a row has one owner (an
injection into the live rows), and there are no more live rows than the limit as long as none is pruned
(`ClaimsFitLimit`). `UntouchedLimitHolds` adds that where nobody but the default sets limits, none ever is (`DefaultInv`).

*ActiveExecution.* `Sound` (types of the collections and their being apart) is inductive: each action
moves steps between two collections, and `Decisions` says that the three decisions share out the
waiting steps. From it follow `StepsInOneBucket` and, with cardinalities, `LimitsHold`. `Mapped` adds
that the plan holds only known steps, all of them unless there are new mappings, and that gathered elements
are of the last attempt; the induction rests on completed mappings being left alone, because
an ended step is never vended again. From it follow `PlanResolved` and `LastAttemptMapped`.
`Decided` says of each collection the reason why a step is in it; it is stable because
what a known step depends on does not change (`DepsStand`) and what an ended step has left out
stays left out (`LeftOut`). In the mode where steps start on outputs, one thing can go
wrong, outputs of past runs for steps that this run's own mapping spawns; so `DecisionsHold` and `OutputsOfThisRun`
assume `NoPastInstances` or the other mode; without it the code does not keep them (section 4).
`ImplementsStepLife` takes the reasons of `Decided` to the guards of StepLife, step by step.

*Executors.* Each step of a loop is a call of ActiveExecution or leaves it alone, so all of the above
holds in them: for the in-process loop this is the theorem `DrivesActiveExecution`
(`ExecutorSpec => Spec`); the multiprocess executor, which can raise half-way through an event, keeps
the invariants until it does. Their own invariants relate the loop's place to the collections:
the current step is what is in flight; a step in flight has an iterator, and once the ended
iterators are cleared nothing else has.

*StepDelegating.* The loop's actions are many and the facts about the log few, so each action is first shown to be one of a
few kinds of step (`Moved`: a worker reports, an event is handled, steps are taken, started, ...), and the rest
of the proof is about those. Events are counted by kind and step (`Reports`, `Retries`, `Finals`). `Heard`: the executor
knows what it has read, no more and no less. `Behind`: a worker has the number of the retries at its launch. `FirstRun`:
before a resume nothing is launched twice. `Staffed`: what the loop believes to run was launched. These give
`NoneWaitedForInVain`: a step in flight is to be launched, or its worker runs, or broke and will be found so, or the log has
an event that is not yet read - or it is one of the `Forgotten` of section 3. `Orderly`
says, as long as no loop has launched a worker a second time (`doubtful`), that reports come in the order of the attempts: what runs
is the next to report, a failed resource that is yet to be answered is of the latest attempt and its worker
has ended, and the loop does not ask after a worker's health before it has read what was written of it. So, whenever
something is reported, the step has not ended: `StepsEndOnce`. `DecidedWhenDone` must exclude that a resumed executor, which
decides the plan anew, skips or abandons a step that a worker executes (`Spared`); it cannot, because the log holds
whatever the step was launched for (`Founded`). All this is about steps that are not `crossed`, because a step that was failed beside the end it had reported
has two ends in the log: once it is crossed, nothing is claimed of its order, and what is left is that a step in flight
of which nothing is unread has not reported since its launch (`NothingUnread`). `DelegatingWaits` is the theorem of ActiveExecution again, as
resuming starts from an empty plan.

*RunLifecycle.* What each actor's steps change is listed once (`SubmitterSteps`, `MonitorSteps`, `WorkerSteps`, ...). `PlacesOK` says what an
actor carries at each place of its procedure. `StaysFinished` says of a run that has finished while nobody
is in the middle of anything (`Settled`) that it stays so: a case for each actor, of what it can find when it looks again. `LaunchesBounded`: the
executions launched, and one more while the run is ready for the next, are no more than the times it was enqueued, and no
more than the retries of the dequeue allow; and while the dequeuer deals with a launch nobody has the run enqueued
(`QueuedOnce`). The resumptions, and the one being launched, are no more than `resumes`.
`OneWorkerAtATime` rests on `Named`: only the worker in the container that the row names may execute the run; all others have
not begun or are `Harmless`, and will find it started if they look again; and the row gets another name
only from a launch, the first or one of the monitor's, which has found the named worker dead. A lost container id breaks this, and is what `excused` records.

*AutoRetry.* `OnceInv`: the run whose retry is about to be created has none, unless a user has re-executed it; a
consumer that starts over looks for it first. `RetriesBounded`: wherever the decision to retry has got to - a process, a tag, a record,
the run in work - it is about one of the first `MaxRetries` runs of the group (`Early`), because a decision counts the
runs that there are, and whatever happens to a run, it is there (`Known`). What is counted are the automatic retries: each, but for
those that repeat one, re-executes a run of its own (`Descends`, `Early`). `FailuresAreDealtWith`:
whoever is behind the persisted cursors is retried, or was rightly passed over; whoever is behind those
that will be persisted next is that, or on the list of this iteration, or in work (`Named`, `Behind`); the two cursors
move apart, each to the last event of its type that was read.

*RunQueue.* What the sort and the loop compute for every batch is proved by the least counterexample, from the
well-foundedness of the natural numbers (`LeastNumber`, `AllNumbers`), as rules with an operator as parameter cannot be
used: a list in order exists and there is one (`PrioritySort`), and the recursive function has its values. `Considers` is
the loop's invariant: what has been kept was counted, what was counted fits the limits together with the runs in progress, the order is
that of the list, and what is blocked stays blocked. `QueueKeepsLimits` then needs a set that the state does not hold:
`Chosen(C)`, what the iteration has chosen, launched or not. It fits the limits together with the runs that were seen in progress, only
its members have begun to execute since, and it remains when runs fail, are canceled, or are enqueued again, although the batch
shrinks. For the pools it speaks of the keys that were read: they have limits, and whatever got its limit since is `overlooked`
until the iteration is over. `PrioritiesWithinPages` is kept page by page (`NoOvertaking`): a run dropped on an
earlier page has a lower number than whatever comes later, and truncation cuts from the end.

*Scheduler.* `RunsRequestedOnce` rests on `RunsInv`: a run that was submitted has left NOT_STARTED, and the
request that is about to be submitted has one run that has not. `EndedTicksStand` rests on `EndedInv`:
what is still to do of an iteration has either no tick or the latest one, and that one is unfinished; a new tick is
always later than all others, so the latest one stays the latest until it is done. `StoppedScheduleRests`
needs types only: each step is looked at once. `AllTimesAreDealtWith` follows the times that are owed (`Pending`: due since
the schedule was started, not left out, not ended). An iteration looks from a time noted in a row, in a copy of the row that the loop or
a thread holds, in the process's memory or in the latest tick; and every one of those is at or before all that is owed (`Before`), or the
time is on the list of the iteration in flight (`Listed`). `Past` says that nothing noted lies ahead of the clock, in
the order in which the readings were made, so that a user's start makes times owed only after everything noted; and
`Woken`, that an iteration does not sleep past a tick that has to be done again.

`RunQueue` and `Scheduler` share nothing; `DaemonsProofs` extends both, one after the other.

Only model-checked: liveness under fairness, which is out of the prover's reach (`PlanEnds`,
`AssignedStepsAreServed`, `FinishedRunsReleaseSlots`, `RunEnds`, `QueueDrains`, `RetriesAreSubmitted`).

## 6. Not modelled

The components with status `not_modelled` in `PROJECT.json`, for the reasons given there:
those of the plan because they come later; definitions, configuration, serialization and
code generation because they are sequential functions over user data; gRPC, the web
server and the integrations because they are I/O.
