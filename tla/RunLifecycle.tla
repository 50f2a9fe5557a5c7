---------------------------- MODULE RunLifecycle ----------------------------
(***************************************************************************)
(* One run's row of the run storage, and everybody who writes its status:  *)
(* the submitter, the dequeuing and monitoring threads of the daemon, the  *)
(* users who terminate it, and its workers.  Nobody holds a lock: each     *)
(* reads the row, decides, and writes later, whatever the row has become.  *)
(* A report is two steps, since handle_run_event reads the row's body and  *)
(* then replaces body and status without a condition.                      *)
(*                                                                         *)
(* Runs share nothing here (the limits under which a run is dequeued are   *)
(* in RunQueue), so there is one.                                          *)
(***************************************************************************)
EXTENDS Naturals, FiniteSets

CONSTANTS
  None,
  Clients,           \* who asks for the run to be terminated, one request at a time each
  Containers,        \* containers that can be created for the run
  MaxResumes,        \* run_monitoring_max_resume_run_attempts
  MaxRetries,        \* max_user_code_failure_retries
  MaxCrashes,        \* bound: processes that die
  MaxRequests,       \* bound: requests to terminate
  Monitoring,        \* run_monitoring_enabled
  LateErrors,        \* whether a launch may raise although the worker starts
  Restarts           \* whether the cluster restarts workers that died

ASSUME ActorsAssumption ==
  /\ {"submitter", "dequeuer", "monitor"} \cap (Clients \cup Containers) = {}
  /\ Clients \cap Containers = {} /\ IsFiniteSet(Containers)
ASSUME BoundsAssumption  ==
  /\ {MaxResumes, MaxRetries, MaxCrashes, MaxRequests} \subseteq Nat
  /\ {Monitoring, LateErrors, Restarts} \subseteq BOOLEAN

Finished   == {"SUCCESS", "FAILURE", "CANCELED"}
InProgress == {"STARTING", "STARTED", "CANCELING"}
Statuses   == Finished \cup InProgress \cup {"NOT_STARTED", "QUEUED"}

Daemon     == {"dequeuer", "monitor"}
Actors     == {"submitter"} \cup Daemon \cup Clients \cup Containers

VARIABLES
  status, tag,        \* the row: its status and the container named by its tags
  enqueues, resumes,  \* events of the log that are counted later
  pc,                 \* where each actor is in its procedure
  report,             \* what each has read and is about to write
  target,             \* the container each daemon or client is dealing with
  command,            \* what each container was told: to execute or to resume
  signalled,          \* containers that have been sent a termination signal
  crashes, requests,  \* for the bounds
  excused             \* history, see OneWorker

log      == <<enqueues, resumes>>
boxes    == <<command, signalled>>
bounds   == <<crashes, requests>>
vars     == <<status, tag, log, pc, report, target, boxes, bounds, excused>>

\* A write of the row that leaves the status alone.
Same == "same"
Reports == [to : Statuses \cup {Same}, tag : Containers \cup {None}]

ASSUME NoneAssumption == None \notin Clients \cup Containers \cup Reports

Down      == {"none", "created", "exited", "dead"}
Places == Down \cup
  {"idle", "reload", "picked", "launch", "start", "unreachable", "broken", "starting", "started",
   "canceling", "runtime", "recheck", "resume", "term", "stop", "stopping", "stopped", "force",
   "cancel", "cancel2", "boot", "check", "init", "running", "failed", "restarted"}
Live(c)   == pc[c] \notin Down \/ report[c] # None
Executing == {c \in Containers : pc[c] = "running" /\ report[c] = None}

Init ==
  /\ status = "NOT_STARTED" /\ tag = None
  /\ enqueues = 0 /\ resumes = 0
  /\ pc = [a \in Actors |-> IF a \in Containers THEN "none" ELSE "idle"]
  /\ report = [a \in Actors |-> None]
  /\ target = [a \in Actors |-> None]
  /\ command = [c \in Containers |-> "execute"] /\ signalled = {}
  /\ crashes = 0 /\ requests = 0
  /\ excused = FALSE

(***************************************************************************)
(* Reading and writing the row.                                            *)
(***************************************************************************)

\* The actor is at label and has nothing left to write.
At(a, label) == pc[a] = label /\ report[a] = None

\* To label, dealing with container c from now on.
GotoWith(a, label, c) ==
  pc' = [pc EXCEPT ![a] = label] /\ target' = [target EXCEPT ![a] = c]

Goto(a, label) == GotoWith(a, label, None)

\* report_dagster_event: the event is stored and the body read, the row not yet written.
ReportWith(a, to, label, c) ==
  /\ GotoWith(a, label, c)
  /\ report' = [report EXCEPT ![a] = [to |-> to, tag |-> tag]]
  /\ enqueues' = IF to = "QUEUED" THEN enqueues + 1 ELSE enqueues
  /\ UNCHANGED resumes

Report(a, to, label) == ReportWith(a, to, label, None)

\* The UPDATE of the row: body and status, the body as it was read.
Write(a) ==
  /\ report[a] # None
  /\ status' = IF report[a].to = Same THEN status ELSE report[a].to
  /\ tag' = report[a].tag
  /\ report' = [report EXCEPT ![a] = None]
  /\ excused' = (excused \/ (report[a].to # Same /\ report[a].tag # tag))
  /\ UNCHANGED <<log, pc, target, boxes, bounds>>

Row     == <<status, tag>>
Nothing == <<Row, log, report, boxes, bounds, excused>>

(***************************************************************************)
(* submit_run: the queued coordinator enqueues a run that is not started.  *)
(***************************************************************************)

Submit ==
  /\ At("submitter", "idle") /\ status = "NOT_STARTED"
  /\ Report("submitter", "QUEUED", "reload")
  /\ UNCHANGED <<Row, boxes, bounds, excused>>

Submitted ==
  /\ At("submitter", "reload") /\ Goto("submitter", "idle")
  /\ UNCHANGED Nothing

\* The coordinator raises, before or after it has enqueued the run.
SubmitFails ==
  /\ At("submitter", "reload") \/ (At("submitter", "idle") /\ status = "NOT_STARTED")
  /\ Report("submitter", "FAILURE", "idle")
  /\ UNCHANGED <<Row, boxes, bounds, excused>>

(***************************************************************************)
(* The launcher, called by the dequeuer to execute and by the monitor to   *)
(* resume.  The tag is added between creating and starting the container.  *)
(***************************************************************************)

Unused == {c \in Containers : pc[c] = "none"}

Create(a) ==
  /\ At(a, "launch")
  /\ Unused # {}
  /\ LET c == CHOOSE c \in Unused : TRUE IN
       /\ pc' = [pc EXCEPT ![a] = "start", ![c] = "created"]
       /\ command' = [command EXCEPT ![c] = IF a = "monitor" THEN "resume" ELSE "execute"]
       /\ target' = [target EXCEPT ![a] = c]
       /\ report' = [report EXCEPT ![a] = [to |-> Same, tag |-> c]]
  /\ UNCHANGED <<Row, log, signalled, bounds, excused>>

Start(a) ==
  /\ At(a, "start")
  /\ \E outcome \in {"idle"} \cup (IF LateErrors THEN {"unreachable", "broken"} ELSE {}) :
       /\ pc' = [pc EXCEPT ![a] = outcome, ![target[a]] = "boot"]
       /\ target' = [target EXCEPT ![a] = None]
       /\ excused' = (excused \/ outcome # "idle")
  /\ UNCHANGED <<Row, log, report, boxes, bounds>>

LaunchFails(a) ==
  /\ At(a, "launch") \/ At(a, "start")
  /\ \E outcome \in {"unreachable", "broken"} : Goto(a, outcome)
  /\ UNCHANGED Nothing

(***************************************************************************)
(* The dequeuer (queued_run_coordinator_daemon.py).                        *)
(***************************************************************************)

Pick ==
  /\ At("dequeuer", "idle") /\ status = "QUEUED" /\ Goto("dequeuer", "picked")
  /\ UNCHANGED Nothing

\* "double check that the run is still queued before dequeing"
Dequeue ==
  /\ At("dequeuer", "picked")
  /\ IF status = "QUEUED"
       THEN Report("dequeuer", "STARTING", "launch")
       ELSE Goto("dequeuer", "idle") /\ UNCHANGED <<log, report>>
  /\ UNCHANGED <<Row, boxes, bounds, excused>>

\* Mutant: the retry that reaches the maximum is granted too.
AfterFailedLaunchMutant(cause) ==
  IF status \notin {"QUEUED", "STARTING"} THEN None
  ELSE IF cause = "unreachable" /\ MaxRetries > 0 /\ enqueues - 1 <= MaxRetries THEN "QUEUED"
  ELSE "FAILURE"

\* The launch raised: leave the run alone, enqueue it again or fail it.
AfterFailedLaunch(cause) ==
  IF status \notin {"QUEUED", "STARTING"} THEN None
  ELSE IF cause = "unreachable" /\ MaxRetries > 0 /\ enqueues - 1 < MaxRetries THEN "QUEUED"
  ELSE "FAILURE"

FailedLaunch ==
  /\ \E cause \in {"unreachable", "broken"} :
       /\ At("dequeuer", cause)
       /\ IF AfterFailedLaunch(cause) = None
            THEN Goto("dequeuer", "idle") /\ UNCHANGED <<log, report>>
            ELSE Report("dequeuer", AfterFailedLaunch(cause), "idle")
  /\ UNCHANGED <<Row, boxes, bounds, excused>>

(***************************************************************************)
(* The monitor (run_monitoring.py): an iteration reads the records of the  *)
(* runs in progress and then deals with them one by one.                   *)
(***************************************************************************)

\* Mutant: runs that are being canceled are not examined.
ExaminedMutant ==
  [s \in {"NOT_STARTED", "STARTING", "STARTED"} |-> IF s = "STARTED" THEN "started" ELSE "starting"]

Examined ==
  [s \in {"NOT_STARTED"} \cup InProgress |->
     CASE s = "STARTED" -> "started" [] s = "CANCELING" -> "canceling" [] OTHER -> "starting"]

ReadRecord ==
  /\ Monitoring /\ At("monitor", "idle")
  /\ status \in DOMAIN Examined /\ GotoWith("monitor", Examined[status], tag)
  /\ UNCHANGED Nothing

\* A start, cancel or maximum runtime timeout has not passed yet.
InTime ==
  /\ \E label \in {"starting", "canceling", "runtime"} : At("monitor", label)
  /\ Goto("monitor", "idle") /\ UNCHANGED Nothing

\* The timeout passed since the record's time: the run's end is reported unseen.
TimesOut(label, to, next) ==
  /\ At("monitor", label) /\ Report("monitor", to, next)
  /\ UNCHANGED <<Row, boxes, bounds, excused>>

StartTimeout    == TimesOut("starting", "FAILURE", "idle")
CancelTimeout   == TimesOut("canceling", "CANCELED", "idle")
RuntimeExceeded == TimesOut("runtime", "CANCELING", "term")

Running(c) == c # None /\ Live(c)

CheckHealth ==
  /\ At("monitor", "started")
  /\ Goto("monitor", IF Running(target["monitor"]) THEN "runtime" ELSE "recheck")
  /\ UNCHANGED Nothing

Recheck ==
  /\ At("monitor", "recheck")
  /\ \/ /\ status # "STARTED" /\ Goto("monitor", "idle") /\ UNCHANGED <<log, report>>
     \/ /\ status = "STARTED" /\ resumes < MaxResumes /\ Goto("monitor", "resume")
        /\ UNCHANGED <<log, report>>
     \/ /\ status = "STARTED" /\ resumes >= MaxResumes /\ Report("monitor", "FAILURE", "idle")
  /\ UNCHANGED <<Row, boxes, bounds, excused>>

\* resume_run reads the run again, raises unless it is in progress, and counts an attempt.
Resume ==
  /\ At("monitor", "resume")
  /\ IF status \in InProgress
       THEN Goto("monitor", "launch") /\ resumes' = resumes + 1
       ELSE Goto("monitor", "idle") /\ UNCHANGED resumes
  /\ UNCHANGED <<Row, enqueues, report, boxes, bounds, excused>>

FailedResume ==
  /\ \E cause \in {"unreachable", "broken"} : At("monitor", cause)
  /\ Report("monitor", "FAILURE", "idle")
  /\ UNCHANGED <<Row, boxes, bounds, excused>>

(***************************************************************************)
(* RunLauncher.terminate, called by the monitor and by clients, which then *)
(* mark the run as ended themselves.                                       *)
(***************************************************************************)

\* Where terminate returns to.  It matters only now whether a client asked to wait for the worker
\* or to have the run marked as canceled at once.
AfterTerminate(a, stopped) ==
  IF a \in Clients THEN {"idle", "force"} ELSE IF stopped THEN {"stopped"} ELSE {"force"}

Terminate(a) ==
  /\ At(a, "term")
  /\ \/ /\ status \in Finished /\ \E label \in AfterTerminate(a, FALSE) : Goto(a, label)
        /\ UNCHANGED <<log, report>>
     \/ /\ status \notin Finished /\ ReportWith(a, "CANCELING", "stop", tag)
  /\ UNCHANGED <<Row, boxes, bounds, excused>>

\* container.stop(): a signal, and a kill if that does not help (see Kill).
Stop(a) ==
  /\ At(a, "stop") /\ target[a] # None
  /\ GotoWith(a, "stopping", target[a])
  /\ signalled' = signalled \cup {c \in {target[a]} : Live(c)}
  /\ UNCHANGED <<Row, log, report, command, bounds, excused>>

Stopped(a) ==
  /\ At(a, "stopping") /\ ~ Running(target[a])
  /\ \E label \in AfterTerminate(a, TRUE) : Goto(a, label)
  /\ UNCHANGED Nothing

\* There is no container, or docker raises.
StopFails(a) ==
  /\ At(a, "stop")
  /\ \E label \in AfterTerminate(a, FALSE) : Goto(a, label)
  /\ UNCHANGED Nothing

\* "Exceeded maximum runtime", after the worker has been stopped.
ReportExceeded == TimesOut("stopped", "FAILURE", "force")

\* _force_mark_as_failed and _force_mark_as_canceled.
ForceMark(a) ==
  /\ At(a, "force")
  /\ IF status \in Finished
       THEN Goto(a, "idle") /\ UNCHANGED <<log, report>>
       ELSE Report(a, IF a = "monitor" THEN "FAILURE" ELSE "CANCELED", "idle")
  /\ UNCHANGED <<Row, boxes, bounds, excused>>

(***************************************************************************)
(* A client: terminate_pipeline_execution and cancel_run.                  *)
(***************************************************************************)

Cancelable == {"STARTED", "QUEUED"}

\* What cannot be canceled can only be marked as canceled at once.
Request(a) ==
  /\ At(a, "idle") /\ requests < MaxRequests /\ requests' = requests + 1
  /\ status \notin Finished
  /\ Goto(a, IF status \in Cancelable THEN "cancel" ELSE "force")
  /\ UNCHANGED <<Row, log, report, boxes, crashes, excused>>

\* "possible race condition if the dequeuer acts on this run at the same time"
Cancel(a) ==
  /\ At(a, "cancel")
  /\ IF status = "QUEUED"
       THEN Report(a, "CANCELING", "cancel2")
       ELSE Goto(a, "term") /\ UNCHANGED <<log, report>>
  /\ UNCHANGED <<Row, boxes, bounds, excused>>

Canceled(a) ==
  /\ At(a, "cancel2") /\ \E label \in {"idle", "force"} : Report(a, "CANCELED", label)
  /\ UNCHANGED <<Row, boxes, bounds, excused>>

(***************************************************************************)
(* The worker: _cli/api.py, core_execute_run, execute_run_iterator and     *)
(* job_execution_iterator.  Interrupts are captured until steps execute.   *)
(***************************************************************************)

Boot(c) ==
  /\ At(c, "boot")
  /\ \E outcome \in {"check", "failed"} : Goto(c, outcome)   \* "Could not load job definition."
  /\ UNCHANGED Nothing

\* Mutant: the command does not matter.
ExpectedMutant(c) == status \in {"NOT_STARTED", "STARTING", "STARTED"}

\* Whether the run, as core_execute_run reloads it, may be executed.
Expected(c) == status \in (IF command[c] = "resume" THEN {"STARTING", "STARTED"}
                                                    ELSE {"STARTING", "NOT_STARTED"})

\* What becomes of a worker that must not execute: it leaves the run alone, fails it, or raises.
Refused(c) ==
  IF status = "CANCELED" THEN "exited"
  ELSE IF command[c] = "resume" THEN "failed"
  ELSE IF status \in Finished \/ Monitoring THEN "exited" ELSE "restarted"

Check(c) ==
  /\ At(c, "check") /\ Goto(c, IF Expected(c) THEN "init" ELSE Refused(c))
  /\ UNCHANGED Nothing

\* The context is made; job_start is reported, unless the run is resumed.
Begin(c) ==
  /\ At(c, "init")
  /\ \/ Report(c, "FAILURE", "exited")
     \/ command[c] = "execute" /\ Report(c, "STARTED", "running")
     \/ command[c] = "resume" /\ Goto(c, "running") /\ UNCHANGED <<log, report>>
  /\ UNCHANGED <<Row, boxes, bounds, excused>>

Succeed(c) ==
  /\ At(c, "running") /\ Report(c, "SUCCESS", "exited")
  /\ UNCHANGED <<Row, boxes, bounds, excused>>

\* A step failed or the executor raised.
Fail(c) ==
  /\ At(c, "running")
  /\ Report(c, IF status = "CANCELING" THEN "CANCELED" ELSE "FAILURE", "exited")
  /\ UNCHANGED <<Row, boxes, bounds, excused>>

WillResume == Monitoring /\ resumes < MaxResumes

Interrupted(c) ==
  /\ At(c, "running") /\ c \in signalled
  /\ \/ /\ status = "CANCELING" /\ Report(c, "CANCELED", "exited")
     \/ /\ status # "CANCELING" /\ (status \in {"CANCELED", "FAILURE"} \/ WillResume)
        /\ Goto(c, "exited") /\ UNCHANGED <<log, report>>
     \/ /\ status \notin {"CANCELING", "CANCELED", "FAILURE"} /\ ~ WillResume
        /\ Report(c, "FAILURE", "exited")
  /\ UNCHANGED <<Row, boxes, bounds, excused>>

\* Mutant: the run is failed without looking.
FailIfUnfinishedMutant(c) ==
  /\ At(c, "failed") \/ At(c, "restarted")
  /\ Report(c, "FAILURE", "exited")
  /\ UNCHANGED <<Row, boxes, bounds, excused>>

\* _report_run_failed_if_not_finished, and the failure of a run whose worker was restarted.
FailIfUnfinished(c) ==
  /\ At(c, "failed") \/ At(c, "restarted")
  /\ IF status \in Finished /\ pc[c] = "failed"
       THEN Goto(c, "exited") /\ UNCHANGED <<log, report>>
       ELSE Report(c, "FAILURE", "exited")
  /\ UNCHANGED <<Row, boxes, bounds, excused>>

(***************************************************************************)
(* What dies, and what the cluster does.                                   *)
(***************************************************************************)

\* The daemon's threads die together.
Crash ==
  /\ crashes < MaxCrashes /\ crashes' = crashes + 1
  /\ \E S \in {{a} : a \in Actors \ Daemon} \cup {Daemon} :
       /\ \E a \in S : pc[a] # "idle" /\ (a \in Containers => Live(a))
       /\ pc' = [a \in Actors |-> IF a \notin S THEN pc[a]
                                  ELSE IF a \in Containers THEN "dead" ELSE "idle"]
       /\ report' = [a \in Actors |-> IF a \in S THEN None ELSE report[a]]
       /\ target' = [a \in Actors |-> IF a \in S THEN None ELSE target[a]]
  /\ UNCHANGED <<Row, log, boxes, requests, excused>>

\* A container that was told to stop and did not is killed.
Kill(c) ==
  /\ c \in signalled /\ Live(c)
  /\ Goto(c, "dead") /\ report' = [report EXCEPT ![c] = None]
  /\ UNCHANGED <<Row, log, boxes, bounds, excused>>

\* The cluster interrupts a worker nobody asked it to stop.
Evict(c) ==
  /\ crashes < MaxCrashes /\ crashes' = crashes + 1
  /\ Live(c) /\ c \notin signalled /\ signalled' = signalled \cup {c}
  /\ UNCHANGED <<Row, log, pc, report, target, command, requests, excused>>

Restart(c) ==
  /\ Restarts /\ pc[c] = "dead" /\ Goto(c, "boot")
  /\ excused' = (excused \/ command[c] = "resume")
  /\ signalled' = signalled \ {c}
  /\ UNCHANGED <<Row, log, report, command, bounds>>

(***************************************************************************)

Submitting == Submit \/ Submitted \/ SubmitFails
Dequeuing  == Pick \/ Dequeue \/ FailedLaunch
TimingOut  == StartTimeout \/ CancelTimeout \/ RuntimeExceeded
Watching   == ReadRecord \/ CheckHealth \/ Recheck \/ Resume \/ FailedResume \/ ReportExceeded
Launching(a)   == Create(a) \/ Start(a) \/ LaunchFails(a)
Terminating(a) == Terminate(a) \/ Stop(a) \/ Stopped(a) \/ StopFails(a) \/ ForceMark(a)
Requesting(a)  == Request(a) \/ Cancel(a) \/ Canceled(a)
Working(c)     == Boot(c) \/ Check(c) \/ Begin(c) \/ Interrupted(c) \/ FailIfUnfinished(c)

Next ==
  \/ Submitting \/ Dequeuing \/ Watching \/ TimingOut \/ InTime \/ Crash
  \/ \E a \in Actors : Write(a)
  \/ \E a \in Daemon : Launching(a)
  \/ \E a \in {"monitor"} \cup Clients : Terminating(a)
  \/ \E a \in Clients : Requesting(a)
  \/ \E c \in Containers : Working(c) \/ Succeed(c) \/ Fail(c) \/ Kill(c) \/ Evict(c) \/ Restart(c)

\* Every process takes its next step, every timeout passes in the end, and docker kills what it
\* was told to stop; nothing is assumed of what users do, of user code, or of what dies.
Fairness ==
  /\ \A a \in Actors : WF_vars(Write(a))
  /\ WF_vars(Submitting) /\ WF_vars(Dequeuing)
  /\ WF_vars(Watching) /\ WF_vars(InTime)
  /\ SF_vars(StartTimeout) /\ SF_vars(CancelTimeout)
  /\ SF_vars(RuntimeExceeded)
  /\ \A a \in Daemon : WF_vars(Launching(a))
  /\ \A a \in {"monitor"} \cup Clients : WF_vars(Terminating(a))
  /\ \A a \in Clients : WF_vars(Cancel(a) \/ Canceled(a))
  /\ \A c \in Containers : WF_vars(Working(c)) /\ WF_vars(Kill(c))

Spec     == Init /\ [][Next]_vars
FairSpec == Spec /\ Fairness

(***************************************************************************)
(* Properties.                                                             *)
(***************************************************************************)

\* Every variable has its type.
TypeOK ==
  /\ status \in Statuses /\ tag \in Containers \cup {None}
  /\ enqueues \in Nat /\ resumes \in 0 .. MaxResumes
  /\ pc \in [Actors -> Places] /\ report \in [Actors -> Reports \cup {None}]
  /\ target \in [Actors -> Containers \cup {None}]
  /\ signalled \subseteq Containers
  /\ command \in [Containers -> {"execute", "resume"}]
  /\ crashes \in 0 .. MaxCrashes /\ requests \in 0 .. MaxRequests
  /\ excused \in BOOLEAN

\* The run has finished, nobody has anything left to write, and no worker has got past the point
\* at which it reads the run again.
Settled ==
  /\ status \in Finished
  /\ \A a \in Actors : report[a] = None
  /\ \A a \in Actors \ Containers : pc[a] = "idle"
  /\ \A c \in Containers : pc[c] \in Down \cup {"boot", "check", "failed"}

\* A run that has finished, once nobody is in the middle of anything, keeps its status and is not
\* executed again, whatever is requested, restarted or examined later: each procedure that starts
\* reads the run and stops if it has finished.
FinishedForGood == [][Settled => (Settled' /\ status' = status)]_vars

\* Two workers never execute the run at once, whatever the monitor takes for dead, unless the tag
\* that names a container was overwritten, a launch raised although the worker had started, or the
\* cluster restarted a worker that was resuming the run.
OneWorker == excused \/ Cardinality(Executing) <= 1

\* The run is launched at most once, plus once for each retry of an unreachable code server and
\* each resume that is configured, however its daemon and submitter crash.
LaunchesAreBounded ==
  Cardinality({c \in Containers : pc[c] # "none"}) <= 1 + MaxRetries + MaxResumes

\* With run monitoring and its timeouts, whatever dies, every run finishes and stays finished.
RunEnds == <>[](status \in Finished)

\* resume_run "should be called on runs which have already been launched, but whose run workers
\* have died": no worker executes the run when the monitor resumes it.
ResumesDeadWorkersOnly == [][resumes' > resumes => Executing = {}]_vars

\* "Make sure we don't re-enqueue a run if it has already finished or moved into STARTED": the
\* dequeuer does not replace such a status by QUEUED.
ReenqueuesUnstartedOnly ==
  [][(report["dequeuer"] # None /\ report["dequeuer"].to = "QUEUED"
      /\ status \in Finished \cup {"STARTED"}) => (status' # "QUEUED")]_vars

=============================================================================
