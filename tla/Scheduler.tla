----------------------------- MODULE Scheduler -----------------------------
(***************************************************************************)
(* The scheduler daemon and one schedule: the row that says whether it     *)
(* runs, its ticks and the runs they request.  The loop reads all rows and *)
(* hands the schedule to a thread with the row it has read; the thread     *)
(* takes the execution times that are due, one tick each, and at the end   *)
(* may write that row back with the time of its iteration.  A tick may be  *)
(* interrupted between any two steps, and is done again by a later         *)
(* iteration, which has to find out from the stored runs what the first    *)
(* attempt did.                                                            *)
(*                                                                         *)
(* Schedules share no state (a thread each), so there is one.  A schedule  *)
(* without a partition set is one whose MaxCatchup is 1.                   *)
(***************************************************************************)
EXTENDS Naturals, FiniteSets

CONSTANTS
  None,
  CronTimes,       \* when the schedule has to run
  Keys,            \* the run keys its function may request
  MaxTime,         \* bound: the clock stops there
  DefaultRunning,  \* its default_status
  MaxCatchup,      \* max_catchup_runs, or 1 without a partition set
  MaxTickRetries,  \* max_tick_retries
  Interval,        \* seconds between two checkpoints of the iteration's time
  MaxJitter,       \* and what may be added to them
  MaxCrashes,      \* bound: deaths of the daemon
  MaxOutages,      \* bound: times the code server is found unreachable
  MaxAsked         \* bound: times a user starts, stops or resets the schedule

ASSUME CronTimesAssumption == CronTimes \subseteq 1 .. MaxTime /\ MaxTime \in Nat \ {0}
ASSUME BoundsAssumption ==
  /\ {MaxTickRetries, Interval, MaxJitter, MaxCrashes, MaxOutages, MaxAsked} \subseteq Nat
  /\ MaxCatchup \in Nat \ {0} /\ DefaultRunning \in BOOLEAN

Times    == 0 .. MaxTime      \* 0 is no time
Row      == [status : {"RUNNING", "STOPPED", "DECLARED_IN_CODE"}, start : Times, last : Times]
Tick     == [status : {"STARTED", "SKIPPED", "SUCCESS", "FAILURE"}, failures : Nat]
Run      == [made : Nat, status : {"NOT_STARTED", "SUBMITTED"}, submits : Nat]
InTick   == {"evaluate", "requests", "submit"}
Thread   == [at : {"start", "tick"} \cup InTick, seen : Row, end : Times, last : Times,
             latest : SUBSET CronTimes, todo : SUBSET CronTimes, time : Times,
             requests : SUBSET Keys, key : Keys \cup {None}]
Reading  == [seen : Row \cup {None}, end : Times \ {0}]

ASSUME NoneAssumption == None \notin Keys \cup Row \cup Tick \cup Reading \cup Thread

VARIABLES
  now,       \* the clock
  row,       \* the stored InstigatorState
  tick,      \* the stored tick of each execution time
  runs,      \* for each time and key: runs created, their status, submissions
  loop,      \* what the loop has read and not acted on yet
  thread,    \* the iteration in flight
  memory,    \* iteration_times of the process
  since,     \* history: since when the schedule has run, by its row
  dropped,   \* history: times that an iteration left out to catch up
  crashes, outages, asked

stored  == <<row, tick, runs>>
process == <<loop, thread, memory>>
history == <<since, dropped>>
bounds  == <<crashes, outages, asked>>
vars    == <<now, stored, process, history, bounds>>

NoRun   == [made |-> 0, status |-> "NOT_STARTED", submits |-> 0]
NoTimes == [next |-> 0, last |-> 0]

Init ==
  /\ now = 1 /\ row = None
  /\ tick = [t \in CronTimes |-> None]
  /\ runs = [t \in CronTimes |-> [k \in Keys |-> NoRun]]
  /\ loop = None /\ thread = None /\ memory = NoTimes
  /\ since = 0 /\ dropped = {}
  /\ crashes = 0 /\ outages = 0 /\ asked = 0

(***************************************************************************)
(* The rows.                                                               *)
(***************************************************************************)

IsRunning(r) == IF r = None THEN DefaultRunning ELSE r.status # "STOPPED"

\* The checkpoint of an iteration at time end that read row seen: it is due, and then replaces
\* the whole row by seen, with the time.
CheckpointDue(seen, end) == seen.last = 0 \/ seen.last + Interval <= end
Checkpoint(seen, end)    ==
  /\ row' = IF CheckpointDue(seen, end) THEN [seen EXCEPT !.last = end] ELSE row
  /\ since' = IF row'.status = row.status THEN since ELSE 0
NextCheckpoint(seen, end) ==
  {(IF CheckpointDue(seen, end) THEN end ELSE seen.last) + Interval + j : j \in 0 .. MaxJitter}

\* start_schedule and stop_schedule.
StartSchedule ==
  /\ ~IsRunning(row) /\ asked < MaxAsked
  /\ row' = [status |-> "RUNNING", start |-> now, last |-> 0]
  /\ since' = now
  /\ asked' = asked + 1
  /\ UNCHANGED <<now, tick, runs, process, dropped, crashes, outages>>

StopSchedule ==
  /\ IsRunning(row) /\ asked < MaxAsked
  /\ row' = [status |-> "STOPPED", start |-> 0, last |-> 0]
  /\ since' = 0
  /\ asked' = asked + 1
  /\ UNCHANGED <<now, tick, runs, process, dropped, crashes, outages>>

\* reset_schedule: back to the default.  The start is kept, a stopped schedule has none.
ResetSchedule ==
  /\ DefaultRunning /\ asked < MaxAsked
  /\ row' = [status |-> "DECLARED_IN_CODE", start |-> IF row = None THEN 0 ELSE row.start,
             last |-> IF row = None THEN 0 ELSE row.last]
  /\ since' = IF row # None /\ IsRunning(row) THEN since ELSE now
  /\ asked' = asked + 1
  /\ UNCHANGED <<now, tick, runs, process, dropped, crashes, outages>>

(***************************************************************************)
(* The loop of the daemon.                                                 *)
(***************************************************************************)

ReadStates ==
  /\ loop = None
  /\ loop' = [seen |-> row, end |-> now]
  /\ UNCHANGED <<now, stored, thread, memory, history, bounds>>

\* A stopped schedule: its checkpoint is written from the row that was read.
PassStopped ==
  /\ loop # None /\ ~IsRunning(loop.seen)
  /\ IF loop.seen = None THEN UNCHANGED <<row, since>> ELSE Checkpoint(loop.seen, loop.end)
  /\ loop' = None
  /\ UNCHANGED <<now, tick, runs, thread, memory, dropped, bounds>>

\* Only one iteration is in flight, and not before there is something to do.
Iterates == thread = None /\ memory.next <= loop.end

Iteration(seen) ==
  [at |-> "start", seen |-> seen, end |-> loop.end, last |-> memory.last,
   latest |-> {}, todo |-> {}, time |-> 0, requests |-> {}, key |-> None]

\* A schedule that runs by default and has no row gets one; adding it raises if there is one now.
Declare ==
  /\ loop # None /\ loop.seen = None /\ DefaultRunning
  /\ loop' = None
  /\ IF row # None THEN UNCHANGED <<row, thread, since>>
     ELSE /\ row' = [status |-> "DECLARED_IN_CODE", start |-> loop.end, last |-> 0]
          /\ since' = loop.end
          /\ thread' = IF Iterates THEN Iteration(row') ELSE thread
  /\ UNCHANGED <<now, tick, runs, memory, dropped, bounds>>

\* Mutant: whatever has a row is iterated.
LaunchMutant ==
  /\ loop # None /\ loop.seen # None
  /\ loop' = None
  /\ thread' = IF Iterates THEN Iteration(loop.seen) ELSE thread
  /\ UNCHANGED <<now, stored, memory, history, bounds>>

Launch ==
  /\ loop # None /\ loop.seen # None /\ IsRunning(loop.seen)
  /\ loop' = None
  /\ thread' = IF Iterates THEN Iteration(loop.seen) ELSE thread
  /\ UNCHANGED <<now, stored, memory, history, bounds>>

(***************************************************************************)
(* One iteration: the execution times that are due.                        *)
(***************************************************************************)

At(label) == thread # None /\ thread.at = label

Ticked == {t \in CronTimes : tick[t] # None}
Latest == {t \in Ticked : \A u \in Ticked : u <= t}

\* A tick that was interrupted, or failed and has retries left.
Unfinished(t) ==
  /\ tick[t] # None
  /\ \/ tick[t].status = "STARTED"
     \/ tick[t].status = "FAILURE" /\ tick[t].failures <= MaxTickRetries

\* Mutant: the latest tick is not left out.
AheadMutant(t, seen, last) ==
  seen.start <= t /\ seen.last <= t /\ last <= t /\ \A u \in Latest : u <= t

\* Whether an iteration looks as far back as t, from the row and the memory it was given and the
\* latest tick.
Ahead(t, seen, last) ==
  /\ seen.start <= t /\ seen.last <= t /\ last <= t
  /\ \A u \in Latest : u < t \/ (u = t /\ Unfinished(u))

\* The latest of a set of times, as many as are caught up with.
CaughtUp(times) == {t \in times : Cardinality({u \in times : u > t}) < MaxCatchup}

FindTimes ==
  /\ At("start")
  /\ LET due == {t \in CronTimes : Ahead(t, thread.seen, thread.last) /\ t <= thread.end}
     IN  /\ thread' = [thread EXCEPT !.at = "tick", !.latest = Latest, !.last = 0,
                                     !.todo = CaughtUp(due)]
         /\ dropped' = dropped \cup (due \ CaughtUp(due))
  /\ UNCHANGED <<now, stored, loop, memory, since, bounds>>

\* The latest tick is taken up again, any other time gets a tick of its own.
StartTick ==
  /\ At("tick")
  /\ \E t \in thread.todo :
       /\ \A u \in thread.todo : t <= u
       /\ tick' = IF t \in thread.latest THEN tick
                  ELSE [tick EXCEPT ![t] = [status |-> "STARTED", failures |-> 0]]
       /\ thread' = [thread EXCEPT !.at = "evaluate", !.time = t, !.todo = @ \ {t}]
  /\ UNCHANGED <<now, row, runs, loop, memory, history, bounds>>

\* The context of the tick is left: what it came to is written, and the next one is taken.
EndTick(status) ==
  /\ tick' = [tick EXCEPT ![thread.time] = [status |-> status, failures |-> 0]]
  /\ thread' = [thread EXCEPT !.at = "tick", !.time = 0]
  /\ UNCHANGED <<now, row, runs, loop, memory, history, bounds>>

\* Mutant: the next one looks from this one's end.
FailTickMutant(failures) ==
  /\ tick' = [tick EXCEPT ![thread.time] = [status |-> "FAILURE", failures |-> failures]]
  /\ thread' = None
  /\ memory' = [next |-> thread.time, last |-> thread.end]
  /\ UNCHANGED <<now, row, runs, loop, history, crashes, asked>>

\* The iteration ends with a failed tick, and the next one looks from this tick's time.
FailTick(failures) ==
  /\ tick' = [tick EXCEPT ![thread.time] = [status |-> "FAILURE", failures |-> failures]]
  /\ thread' = None
  /\ memory' = [next |-> thread.time, last |-> thread.time]
  /\ UNCHANGED <<now, row, runs, loop, history, crashes, asked>>

\* All times are done: the checkpoint, and when to come back.
EndIteration ==
  /\ At("tick") /\ thread.todo = {}
  /\ Checkpoint(thread.seen, thread.end)
  /\ \E c \in NextCheckpoint(thread.seen, thread.end) :
       LET times == {c} \cup {t \in CronTimes : t > thread.end} IN
       \E n \in times :
         /\ \A t \in times : n <= t
         /\ memory' = [next |-> n, last |-> thread.end]
  /\ thread' = None
  /\ UNCHANGED <<now, tick, runs, loop, dropped, bounds>>

(***************************************************************************)
(* One tick: the schedule's function, and the runs it requests.            *)
(***************************************************************************)

Evaluate ==
  /\ At("evaluate")
  /\ \E ks \in SUBSET Keys :
       thread' = [thread EXCEPT !.at = "requests", !.requests = ks]
  /\ UNCHANGED <<now, stored, loop, memory, history, bounds>>

Skip == At("evaluate") /\ EndTick("SKIPPED")

Here(k) == runs[thread.time][k]

\* The function raises, or a run cannot be created for a request.
Raises ==
  \/ At("evaluate")
  \/ At("requests") /\ \E k \in thread.requests : Here(k).made = 0

Fail == Raises /\ FailTick(tick[thread.time].failures + 1) /\ UNCHANGED outages

\* The code server cannot be reached: this is not counted as a failure.
Unreachable ==
  /\ Raises /\ outages < MaxOutages
  /\ FailTick(tick[thread.time].failures)
  /\ outages' = outages + 1

\* Mutant: a run that was created is not looked for.
CreateRunMutant(k) ==
  /\ At("requests") /\ k \in thread.requests
  /\ runs' = [runs EXCEPT ![thread.time][k].made = @ + 1]
  /\ thread' = [thread EXCEPT !.at = "submit", !.key = k]
  /\ UNCHANGED <<now, row, tick, loop, memory, history, bounds>>

\* The run of a request is looked up by its tags, and created if there is none.
Existing(k) ==
  /\ At("requests") /\ k \in thread.requests
  /\ Here(k).made > 0 /\ Here(k).status # "NOT_STARTED"
  /\ thread' = [thread EXCEPT !.requests = @ \ {k}]
  /\ UNCHANGED <<now, stored, loop, memory, history, bounds>>

CreateRun(k) ==
  /\ At("requests") /\ k \in thread.requests
  /\ Here(k).made = 0 \/ Here(k).status = "NOT_STARTED"
  /\ runs' = IF Here(k).made > 0 THEN runs
             ELSE [runs EXCEPT ![thread.time][k].made = @ + 1]
  /\ thread' = [thread EXCEPT !.at = "submit", !.key = k]
  /\ UNCHANGED <<now, row, tick, loop, memory, history, bounds>>

\* submit_run.  It may raise, before or after the run has left NOT_STARTED: the tick goes on.
SubmitRun(run) ==
  /\ At("submit")
  /\ runs' = [runs EXCEPT ![thread.time][thread.key] = run]
  /\ thread' = [thread EXCEPT !.at = "requests", !.requests = @ \ {thread.key}, !.key = None]
  /\ UNCHANGED <<now, row, tick, loop, memory, history, bounds>>

Submitted ==
  LET run == Here(thread.key)
  IN  SubmitRun([made |-> run.made, status |-> "SUBMITTED", submits |-> run.submits + 1])
SubmitRaises == SubmitRun(Here(thread.key))

Succeed == At("requests") /\ thread.requests = {} /\ EndTick("SUCCESS")

(***************************************************************************)

\* The daemon dies, and another is started: what is stored is all it knows.
Crash ==
  /\ crashes < MaxCrashes
  /\ loop' = None /\ thread' = None /\ memory' = NoTimes
  /\ crashes' = crashes + 1
  /\ UNCHANGED <<now, stored, history, outages, asked>>

Clock ==
  /\ now < MaxTime
  /\ now' = now + 1
  /\ UNCHANGED <<stored, process, history, bounds>>

Looping   == ReadStates \/ PassStopped \/ Declare \/ Launch
Iterating == FindTimes \/ StartTick \/ EndIteration
Ticking   == Evaluate \/ Skip \/ Fail \/ Unreachable \/ Succeed \/ Submitted \/ SubmitRaises
             \/ \E k \in Keys : Existing(k) \/ CreateRun(k)

Asking    == StartSchedule \/ StopSchedule \/ ResetSchedule

Next == Looping \/ Iterating \/ Ticking \/ Crash \/ Clock \/ Asking

Spec == Init /\ [][Next]_vars

(***************************************************************************)
(* Properties.                                                             *)
(***************************************************************************)

\* The iteration in flight has its tick, and the run it is about to submit.
ThreadOK ==
  thread # None =>
    /\ thread \in Thread
    /\ thread.at \in InTick => (thread.time \in CronTimes /\ tick[thread.time] # None)
    /\ thread.at = "submit" => thread.key \in Keys
    /\ \A t \in thread.latest : tick[t] # None

\* Every variable has its type.
TypeOK ==
  /\ now \in Times \ {0}
  /\ row \in Row \cup {None}
  /\ tick \in [CronTimes -> Tick \cup {None}]
  /\ runs \in [CronTimes -> [Keys -> Run]]
  /\ loop \in Reading \cup {None}
  /\ ThreadOK
  /\ memory \in [next : Nat, last : Times]
  /\ since \in Times /\ dropped \subseteq CronTimes
  /\ crashes \in Nat /\ outages \in Nat /\ asked \in Nat

\* A request of an execution time gets one run, submitted at most once, however often its tick is
\* interrupted and done again.
RequestedOnce ==
  \A t \in CronTimes, k \in Keys : runs[t][k].made <= 1 /\ runs[t][k].submits <= 1

\* A tick that was skipped, has succeeded or has failed for good is never taken up again: not
\* after a crash, a restart of the schedule or an iteration that starts at its very time.
FinishedTicksStand ==
  [][\A t \in CronTimes :
       (t \in Ticked /\ ~Unfinished(t)) =>
         tick'[t] = tick[t] /\ ~(At("tick") /\ At("evaluate")' /\ thread'.time = t)]_vars

\* While the schedule runs, every execution time that was not left out to catch up is either ended
\* or still ahead: when no iteration is in flight, the next one looks from a point behind which all
\* ticks have ended, and does not wait if one of them has not.
NothingIsLeftBehind ==
  (thread = None /\ since # 0) =>
    \A t \in CronTimes :
      (since <= t /\ t \notin dropped) =>
        /\ ~Ahead(t, row, memory.last) => (t \in Ticked /\ ~Unfinished(t))
        /\ Unfinished(t) => memory.next <= t

\* A schedule that is stopped stays so, and starts no tick, until a user starts or resets it, once
\* no iteration holds an older row.
StaysStopped(r) == r # None /\ r.status = "STOPPED"
Quiet == /\ StaysStopped(row) /\ thread = None
         /\ loop # None => StaysStopped(loop.seen)
StopStands == [][Quiet => \/ Quiet' /\ tick' = tick
                          \/ ~StaysStopped(row') /\ asked' > asked]_vars

\* Of the statuses RUNNING and STOPPED: "User has taken some manual action to change the status".
\* Nobody else takes a schedule from one to the other.
OnlyUsersChangeStatus ==
  [][(row # None /\ row'.status # row.status) => asked' > asked]_vars
=============================================================================
