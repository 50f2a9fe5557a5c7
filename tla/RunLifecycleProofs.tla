------------------------- MODULE RunLifecycleProofs -------------------------
(***************************************************************************)
(* RunLifecycle, for any number of clients, containers, resumes, retries,  *)
(* crashes and requests, with monitoring, late errors and restarts or not. *)
(***************************************************************************)
EXTENDS RunLifecycle, FiniteSetTheorems, TLAPS

(***************************************************************************)
(* What the steps of each actor change.                                    *)
(***************************************************************************)

LEMMA ActorsDiffer ==
  /\ {"submitter", "dequeuer", "monitor"} \subseteq Actors
  /\ Clients \subseteq Actors /\ Containers \subseteq Actors /\ Daemon \subseteq Actors
  /\ \A a \in Clients \cup Containers : a \notin {"submitter", "dequeuer", "monitor"}
  /\ \A a \in Clients : a \notin Containers
  /\ None \notin Containers
  /\ \A r \in Reports : r # None
BY ActorsAssumption, NoneAssumption DEF Actors, Daemon

LEMMA PlacesAre ==
  {"idle", "reload", "picked", "launch", "start", "unreachable", "broken", "starting", "started",
   "canceling", "runtime", "recheck", "resume", "term", "stop", "stopping", "stopped", "force",
   "cancel", "cancel2", "boot", "check", "init", "running", "failed", "restarted",
   "none", "created", "exited", "dead"} \subseteq Places
BY DEF Places, Down

\* Nothing but what the actor itself keeps is changed.
Own(a) ==
  /\ pc' \in [Actors -> Places] /\ report' \in [Actors -> Reports \cup {None}]
  /\ target' \in [Actors -> Containers \cup {None}]
  /\ \A b \in Actors \ {a} : pc'[b] = pc[b] /\ report'[b] = report[b] /\ target'[b] = target[b]
  /\ UNCHANGED <<status, tag, command>>

\* The actor goes on, with nothing to write, or with a report of the run.
Moves(a, label) ==
  Own(a) /\ pc'[a] = label /\ report'[a] = None /\ UNCHANGED enqueues

Says(a, to, label) ==
  /\ Own(a) /\ pc'[a] = label
  /\ report'[a] # None /\ report'[a] = [to |-> to, tag |-> tag]
  /\ enqueues' = IF to = "QUEUED" THEN enqueues + 1 ELSE enqueues

LEMMA GotoMoves ==
  ASSUME TypeOK, NEW a \in Actors, report[a] = None, NEW label \in Places,
         NEW c \in Containers \cup {None}, GotoWith(a, label, c),
         status' = status, tag' = tag, report' = report, enqueues' = enqueues, command' = command
  PROVE  Moves(a, label) /\ target'[a] = c
BY DEF TypeOK, GotoWith, Moves, Own

LEMMA ReportSays ==
  ASSUME TypeOK, NEW a \in Actors, NEW label \in Places, NEW to \in Statuses,
         NEW c \in Containers \cup {None}, ReportWith(a, to, label, c),
         status' = status, tag' = tag, command' = command
  PROVE  Says(a, to, label) /\ target'[a] = c /\ resumes' = resumes
<1>1. [to |-> to, tag |-> tag] \in Reports BY DEF TypeOK, Reports
<1>2. [to |-> to, tag |-> tag] # None BY <1>1, NoneAssumption
<1> QED BY <1>1, <1>2 DEF TypeOK, ReportWith, GotoWith, Says, Own

SubmitterSteps ==
  /\ UNCHANGED <<resumes, boxes, bounds, excused>>
  /\ \/ status = "NOT_STARTED" /\ Says("submitter", "QUEUED", "reload")
     \/ Moves("submitter", "idle")
     \/ /\ pc["submitter"] = "reload" \/ status = "NOT_STARTED"
        /\ Says("submitter", "FAILURE", "idle")

LEMMA SubmitterDoes == TypeOK /\ Submitting => SubmitterSteps
<1> SUFFICES ASSUME TypeOK, Submitting PROVE SubmitterSteps OBVIOUS
<1> USE ActorsDiffer, PlacesAre
<1>1. CASE Submit
  <2>1. Says("submitter", "QUEUED", "reload") /\ resumes' = resumes
    BY <1>1, ReportSays DEF Submit, Report, Row, boxes, Statuses, InProgress
  <2> QED BY <1>1, <2>1 DEF Submit, SubmitterSteps
<1>2. CASE Submitted
  <2>1. Moves("submitter", "idle")
    BY <1>2, GotoMoves DEF Submitted, At, Goto, Nothing, Row, log, boxes
  <2> QED BY <1>2, <2>1 DEF Submitted, Nothing, log, SubmitterSteps
<1>3. CASE SubmitFails
  <2>1. Says("submitter", "FAILURE", "idle") /\ resumes' = resumes
    BY <1>3, ReportSays DEF SubmitFails, Report, Row, boxes, Statuses, Finished
  <2> QED BY <1>3, <2>1 DEF SubmitFails, At, SubmitterSteps
<1> QED BY <1>1, <1>2, <1>3 DEF Submitting

DequeuerSteps ==
  /\ UNCHANGED <<resumes, boxes, bounds, excused>>
  /\ report["dequeuer"] = None
  /\ \/ pc["dequeuer"] = "idle" /\ status = "QUEUED" /\ Moves("dequeuer", "picked")
     \/ pc["dequeuer"] = "picked" /\ Moves("dequeuer", "idle")
     \/ pc["dequeuer"] = "picked" /\ status = "QUEUED" /\ Says("dequeuer", "STARTING", "launch")
     \/ /\ pc["dequeuer"] \in {"unreachable", "broken"}
        /\ \/ Moves("dequeuer", "idle")
           \/ Says("dequeuer", "FAILURE", "idle")
           \/ /\ status \in {"QUEUED", "STARTING"} /\ enqueues - 1 < MaxRetries
              /\ Says("dequeuer", "QUEUED", "idle")
     \/ /\ pc["dequeuer"] \in {"launch", "start"}
        /\ Moves("dequeuer", "unreachable") \/ Moves("dequeuer", "broken")

LEMMA DequeuerDoes == TypeOK /\ (Dequeuing \/ LaunchFails("dequeuer")) => DequeuerSteps
<1> SUFFICES ASSUME TypeOK, Dequeuing \/ LaunchFails("dequeuer") PROVE DequeuerSteps OBVIOUS
<1> USE ActorsDiffer, PlacesAre
<1>1. CASE Pick
  <2>1. Moves("dequeuer", "picked")
    BY <1>1, GotoMoves DEF Pick, At, Goto, Nothing, Row, log, boxes
  <2> QED BY <1>1, <2>1 DEF Pick, At, Nothing, log, DequeuerSteps
<1>2. CASE Dequeue
  <2>1. CASE status = "QUEUED"
    <3>1. Says("dequeuer", "STARTING", "launch") /\ resumes' = resumes
      BY <1>2, <2>1, ReportSays DEF Dequeue, Report, Row, boxes, Statuses, InProgress
    <3> QED BY <1>2, <2>1, <3>1 DEF Dequeue, At, DequeuerSteps
  <2>2. CASE status # "QUEUED"
    <3>1. Moves("dequeuer", "idle")
      BY <1>2, <2>2, GotoMoves DEF Dequeue, At, Goto, Row, log, boxes
    <3> QED BY <1>2, <2>2, <3>1 DEF Dequeue, At, log, DequeuerSteps
  <2> QED BY <2>1, <2>2
<1>3. CASE FailedLaunch
  <2>1. PICK cause \in {"unreachable", "broken"} :
          /\ At("dequeuer", cause)
          /\ IF AfterFailedLaunch(cause) = None
               THEN Goto("dequeuer", "idle") /\ UNCHANGED <<log, report>>
               ELSE Report("dequeuer", AfterFailedLaunch(cause), "idle")
          /\ UNCHANGED <<Row, boxes, bounds, excused>>
    BY <1>3 DEF FailedLaunch
  <2> DEFINE to == AfterFailedLaunch(cause)
  <2>2. CASE to = None
    <3>1. Moves("dequeuer", "idle")
      BY <2>1, <2>2, GotoMoves DEF At, Goto, Row, log, boxes
    <3> QED BY <2>1, <2>2, <3>1 DEF At, log, DequeuerSteps
  <2>3. CASE to # None
    <3>1. /\ to \in {"QUEUED", "FAILURE"}
          /\ to = "QUEUED" => status \in {"QUEUED", "STARTING"} /\ enqueues - 1 < MaxRetries
      BY <2>3 DEF AfterFailedLaunch
    <3>2. Report("dequeuer", to, "idle") BY <2>1, <2>3
    <3> HIDE DEF to
    <3>3. to \in Statuses BY <3>1 DEF Statuses, Finished
    <3>4. Says("dequeuer", to, "idle") /\ resumes' = resumes
      BY <2>1, <3>2, <3>3, ReportSays DEF Report, Row, boxes
    <3> QED BY <2>1, <3>1, <3>4 DEF At, DequeuerSteps
  <2> QED BY <2>2, <2>3
<1>4. CASE LaunchFails("dequeuer")
  <2>1. PICK outcome \in {"unreachable", "broken"} : Goto("dequeuer", outcome)
    BY <1>4 DEF LaunchFails
  <2>2. Moves("dequeuer", outcome)
    BY <1>4, <2>1, GotoMoves DEF LaunchFails, At, Goto, Nothing, Row, log, boxes
  <2> QED BY <1>4, <2>1, <2>2 DEF LaunchFails, At, Nothing, log, DequeuerSteps
<1> QED BY <1>1, <1>2, <1>3, <1>4 DEF Dequeuing

LEMMA ExaminedLabels ==
  /\ DOMAIN Examined = {"NOT_STARTED", "STARTING", "STARTED", "CANCELING"}
  /\ Examined["NOT_STARTED"] = "starting" /\ Examined["STARTING"] = "starting"
  /\ Examined["STARTED"] = "started" /\ Examined["CANCELING"] = "canceling"
BY DEF Examined, InProgress

\* What the monitor does beyond its look at the worker and its resumption of the run.
OtherMonitorSteps ==
  /\ pc["monitor"] \in {"starting", "canceling", "runtime", "unreachable", "broken", "stopped",
                        "term", "stop", "stopping", "force"}
  /\ \/ Moves("monitor", "idle")
     \/ Says("monitor", "FAILURE", "idle")
     \/ /\ pc["monitor"] # "starting"
        /\ \/ \E to \in {"stopped", "force", "stopping"} : Moves("monitor", to)
           \/ Says("monitor", "CANCELED", "idle") \/ Says("monitor", "CANCELING", "term")
           \/ Says("monitor", "CANCELING", "stop") \/ Says("monitor", "FAILURE", "force")

MonitorSteps ==
  /\ UNCHANGED <<bounds, excused>>
  /\ report["monitor"] = None
  /\ \/ /\ UNCHANGED resumes
        /\ \/ pc["monitor"] = "idle" /\ status = "STARTED"
              /\ Moves("monitor", "started") /\ target'["monitor"] = tag
           \/ /\ pc["monitor"] = "idle"
              /\ \/ status \in {"NOT_STARTED", "STARTING"} /\ Moves("monitor", "starting")
                 \/ status = "CANCELING" /\ Moves("monitor", "canceling")
           \/ pc["monitor"] = "started" /\ Running(target["monitor"]) /\ Moves("monitor", "runtime")
           \/ pc["monitor"] = "started" /\ ~ Running(target["monitor"]) /\ Moves("monitor", "recheck")
           \/ pc["monitor"] = "recheck" /\ (Moves("monitor", "idle") \/ Says("monitor", "FAILURE", "idle"))
           \/ pc["monitor"] = "recheck" /\ status = "STARTED" /\ resumes < MaxResumes
              /\ Moves("monitor", "resume")
           \/ pc["monitor"] = "resume" /\ Moves("monitor", "idle")
           \/ pc["monitor"] \in {"launch", "start"}
              /\ (Moves("monitor", "unreachable") \/ Moves("monitor", "broken"))
           \/ OtherMonitorSteps
     \/ /\ pc["monitor"] = "resume" /\ status \in InProgress
        /\ resumes' = resumes + 1 /\ Moves("monitor", "launch")
  /\ signalled' \subseteq signalled \cup (Containers \cap {target["monitor"]})

\* What terminate and the marking of a run as ended do for whoever calls them.
Terminates(a) ==
  /\ UNCHANGED <<resumes, bounds, excused>>
  /\ report[a] = None
  /\ \/ /\ pc[a] \in {"term", "stop", "stopping"}
        /\ \/ Says(a, "CANCELING", "stop") \/ Moves(a, "stopping")
           \/ \E to \in {"idle", "force", "stopped"} : Moves(a, to) /\ (to = "stopped" => a = "monitor")
     \/ /\ pc[a] = "force"
        /\ \/ Moves(a, "idle")
           \/ Says(a, IF a = "monitor" THEN "FAILURE" ELSE "CANCELED", "idle")
  /\ signalled' \subseteq signalled \cup (Containers \cap {target[a]})

LEMMA TerminatingDoes ==
  ASSUME TypeOK, NEW a \in {"monitor"} \cup Clients, Terminating(a)
  PROVE  Terminates(a)
<1> USE ActorsDiffer, PlacesAre
<1>a. a \in Actors /\ target[a] \in Containers \cup {None} BY DEF TypeOK
<1>1. CASE Terminate(a)
  <2>0. At(a, "term") /\ UNCHANGED <<Row, boxes, bounds, excused>> BY <1>1 DEF Terminate
  <2>1. CASE ReportWith(a, "CANCELING", "stop", tag)
    <3>1. Says(a, "CANCELING", "stop") /\ resumes' = resumes
      BY <1>a, <2>0, <2>1, ReportSays DEF Row, boxes, Statuses, InProgress, TypeOK
    <3> QED BY <2>0, <3>1 DEF At, boxes, Terminates
  <2>2. ASSUME NEW label \in AfterTerminate(a, FALSE), Goto(a, label), UNCHANGED <<log, report>>
        PROVE  Terminates(a)
    <3>1. label \in {"idle", "force"} BY <2>2 DEF AfterTerminate
    <3>a. label \in Places BY <3>1
    <3>2. Moves(a, label) BY <1>a, <2>0, <2>2, <3>a, GotoMoves DEF At, Goto, Row, log, boxes
    <3> QED BY <2>0, <2>2, <3>1, <3>2 DEF At, log, boxes, Terminates
  <2> QED BY <1>1, <2>1, <2>2 DEF Terminate
<1>2. CASE Stop(a)
  <2>1. Moves(a, "stopping")
    BY <1>2, <1>a, GotoMoves DEF Stop, At, Row, log
  <2> QED BY <1>2, <1>a, <2>1 DEF Stop, At, log, Terminates
<1>3. ASSUME NEW stopped \in BOOLEAN, NEW label \in AfterTerminate(a, stopped), Goto(a, label),
             pc[a] \in {"stop", "stopping"}, report[a] = None, UNCHANGED Nothing
      PROVE  Terminates(a)
  <2>1. label \in {"idle", "force", "stopped"} /\ (label = "stopped" => a = "monitor")
    BY <1>3 DEF AfterTerminate
  <2>a. label \in Places BY <2>1
  <2>2. Moves(a, label) BY <1>a, <1>3, <2>a, GotoMoves DEF Goto, Nothing, Row, log, boxes
  <2> QED BY <1>3, <2>1, <2>2 DEF Nothing, log, boxes, Terminates
<1>4. CASE Stopped(a) BY <1>3, <1>4 DEF Stopped, At
<1>5. CASE StopFails(a) BY <1>3, <1>5 DEF StopFails, At
<1>6. CASE ForceMark(a)
  <2>0. At(a, "force") /\ UNCHANGED <<Row, boxes, bounds, excused>> BY <1>6 DEF ForceMark
  <2>1. CASE Goto(a, "idle") /\ UNCHANGED <<log, report>>
    <3>1. Moves(a, "idle") BY <1>a, <2>0, <2>1, GotoMoves DEF At, Goto, Row, log, boxes
    <3> QED BY <2>0, <2>1, <3>1 DEF At, log, boxes, Terminates
  <2>2. CASE Report(a, IF a = "monitor" THEN "FAILURE" ELSE "CANCELED", "idle")
    <3>1. (IF a = "monitor" THEN "FAILURE" ELSE "CANCELED") \in Statuses BY DEF Statuses, Finished
    <3>2. Says(a, IF a = "monitor" THEN "FAILURE" ELSE "CANCELED", "idle") /\ resumes' = resumes
      BY <1>a, <2>0, <2>2, <3>1, ReportSays DEF Report, Row, boxes
    <3> QED BY <2>0, <3>2 DEF At, boxes, Terminates
  <2> QED BY <1>6, <2>1, <2>2 DEF ForceMark
<1> QED BY <1>1, <1>2, <1>4, <1>5, <1>6 DEF Terminating

LEMMA MonitorDoes ==
  TypeOK /\ (Watching \/ TimingOut \/ InTime \/ Terminating("monitor") \/ LaunchFails("monitor"))
    => MonitorSteps
<1> SUFFICES ASSUME TypeOK, Watching \/ TimingOut \/ InTime \/ Terminating("monitor")
                            \/ LaunchFails("monitor")
             PROVE  MonitorSteps
  OBVIOUS
<1> USE ActorsDiffer, PlacesAre
<1>a. target["monitor"] \in Containers \cup {None} /\ tag \in Containers \cup {None} BY DEF TypeOK
<1>1. CASE ReadRecord
  <2> DEFINE label == Examined[status]
  <2>1. /\ label \in {"starting", "started", "canceling"}
        /\ status \in {"NOT_STARTED", "STARTING", "STARTED", "CANCELING"}
        /\ label = "started" => status = "STARTED"
        /\ status = "STARTED" => label = "started"
        /\ status \in {"NOT_STARTED", "STARTING"} => label = "starting"
        /\ status = "CANCELING" => label = "canceling"
    BY <1>1, ExaminedLabels DEF ReadRecord
  <2>2. GotoWith("monitor", label, tag) /\ At("monitor", "idle") /\ UNCHANGED Nothing
    BY <1>1 DEF ReadRecord
  <2> HIDE DEF label
  <2>3. label \in Places BY <2>1
  <2>4. Moves("monitor", label) /\ target'["monitor"] = tag
    BY <1>a, <2>2, <2>3, GotoMoves DEF At, Nothing, Row, log, boxes
  <2>5. /\ pc["monitor"] = "idle" /\ report["monitor"] = None
        /\ UNCHANGED <<resumes, bounds, excused, signalled>>
    BY <2>2 DEF At, Nothing, log, boxes
  <2>6. \/ Moves("monitor", "started") /\ status = "STARTED"
        \/ Moves("monitor", "canceling") /\ status = "CANCELING"
        \/ Moves("monitor", "starting") /\ status \in {"NOT_STARTED", "STARTING"}
    BY <2>1, <2>4
  <2> QED BY <2>4, <2>5, <2>6 DEF MonitorSteps
<1>2. CASE InTime
  <2>1. Moves("monitor", "idle")
    BY <1>2, GotoMoves DEF InTime, At, Goto, Nothing, Row, log, boxes
  <2> QED BY <1>2, <2>1 DEF InTime, At, Nothing, log, boxes, MonitorSteps, OtherMonitorSteps
<1>3. ASSUME NEW label, NEW to \in Statuses, NEW next \in Places, TimesOut(label, to, next)
      PROVE  /\ Says("monitor", to, next) /\ At("monitor", label)
             /\ UNCHANGED <<resumes, bounds, excused, signalled>>
  <2>1. Says("monitor", to, next) /\ resumes' = resumes
    BY <1>3, ReportSays DEF TimesOut, Report, Row, boxes
  <2> QED BY <1>3, <2>1 DEF TimesOut, boxes
<1>4. CASE TimingOut \/ ReportExceeded
  <2>1. {"FAILURE", "CANCELED", "CANCELING"} \subseteq Statuses BY DEF Statuses, Finished, InProgress
  <2>2. CASE StartTimeout
    BY <1>3, <2>1, <2>2 DEF StartTimeout, At, MonitorSteps, OtherMonitorSteps
  <2>3. CASE CancelTimeout
    BY <1>3, <2>1, <2>3 DEF CancelTimeout, At, MonitorSteps, OtherMonitorSteps
  <2>4. CASE RuntimeExceeded
    BY <1>3, <2>1, <2>4 DEF RuntimeExceeded, At, MonitorSteps, OtherMonitorSteps
  <2>5. CASE ReportExceeded
    BY <1>3, <2>1, <2>5 DEF ReportExceeded, At, MonitorSteps, OtherMonitorSteps
  <2> QED BY <1>4, <2>2, <2>3, <2>4, <2>5 DEF TimingOut
<1>5. CASE CheckHealth
  <2> DEFINE label == IF Running(target["monitor"]) THEN "runtime" ELSE "recheck"
  <2>1. label \in Places OBVIOUS
  <2>2. Moves("monitor", label)
    BY <1>5, <2>1, GotoMoves DEF CheckHealth, At, Goto, Nothing, Row, log, boxes
  <2> QED BY <1>5, <2>2 DEF CheckHealth, At, Nothing, log, boxes, MonitorSteps
<1>6. CASE Recheck
  <2>0. At("monitor", "recheck") /\ UNCHANGED <<Row, boxes, bounds, excused>> BY <1>6 DEF Recheck
  <2>1. ASSUME NEW label \in {"idle", "resume"}, Goto("monitor", label), UNCHANGED <<log, report>>
        PROVE  Moves("monitor", label) /\ resumes' = resumes
    <3>1. label \in Places BY <2>1
    <3> QED BY <2>0, <2>1, <3>1, GotoMoves DEF At, Goto, Row, log, boxes
  <2>2. ASSUME Report("monitor", "FAILURE", "idle")
        PROVE  Says("monitor", "FAILURE", "idle") /\ resumes' = resumes
    BY <2>0, <2>2, ReportSays DEF Report, Row, boxes, Statuses, Finished
  <2> QED BY <1>6, <2>0, <2>1, <2>2 DEF Recheck, At, boxes, MonitorSteps
<1>7. CASE Resume
  <2>0. At("monitor", "resume") /\ UNCHANGED <<Row, enqueues, report, boxes, bounds, excused>>
    BY <1>7 DEF Resume
  <2>1. ASSUME NEW label \in {"idle", "launch"}, Goto("monitor", label)
        PROVE  Moves("monitor", label)
    <3>1. label \in Places BY <2>1
    <3> QED BY <2>0, <2>1, <3>1, GotoMoves DEF At, Goto, Row, boxes
  <2> QED BY <1>7, <2>0, <2>1 DEF Resume, At, boxes, MonitorSteps
<1>8. CASE FailedResume
  <2>1. Says("monitor", "FAILURE", "idle") /\ resumes' = resumes
    BY <1>8, ReportSays DEF FailedResume, Report, Row, boxes, Statuses, Finished
  <2> QED BY <1>8, <2>1 DEF FailedResume, At, boxes, MonitorSteps, OtherMonitorSteps
<1>9. CASE LaunchFails("monitor")
  <2>1. PICK outcome \in {"unreachable", "broken"} : Goto("monitor", outcome)
    BY <1>9 DEF LaunchFails
  <2>2. outcome \in Places BY <2>1
  <2>3. Moves("monitor", outcome)
    BY <1>9, <2>1, <2>2, GotoMoves DEF LaunchFails, At, Goto, Nothing, Row, log, boxes
  <2> QED BY <1>9, <2>1, <2>3 DEF LaunchFails, At, Nothing, log, boxes, MonitorSteps
<1>10. CASE Terminating("monitor")
  <2>1. Terminates("monitor") BY <1>10, TerminatingDoes
  <2> QED BY <2>1 DEF Terminates, MonitorSteps, OtherMonitorSteps
<1> QED BY <1>1, <1>2, <1>4, <1>5, <1>6, <1>7, <1>8, <1>9, <1>10 DEF Watching

ClientSteps(u) ==
  /\ UNCHANGED <<resumes, crashes, excused>> /\ requests' \in {requests, requests + 1}
  /\ requests' # requests => requests < MaxRequests
  /\ report[u] = None
  /\ \/ pc[u] = "idle" /\ status \in Cancelable /\ Moves(u, "cancel")
     \/ pc[u] = "idle" /\ status \notin Finished /\ Moves(u, "force")
     \/ pc[u] = "force" /\ (Moves(u, "idle") \/ Says(u, "CANCELED", "idle"))
     \/ /\ pc[u] \in {"cancel", "cancel2", "term", "stop", "stopping"}
        /\ \/ \E label \in {"term", "stopping", "idle", "force"} : Moves(u, label)
           \/ Says(u, "CANCELING", "cancel2") \/ Says(u, "CANCELING", "stop")
           \/ Says(u, "CANCELED", "idle") \/ Says(u, "CANCELED", "force")
  /\ signalled' \subseteq signalled \cup (Containers \cap {target[u]})

LEMMA ClientDoes ==
  ASSUME TypeOK, NEW u \in Clients, Terminating(u) \/ Requesting(u)
  PROVE  ClientSteps(u)
<1> USE ActorsDiffer, PlacesAre
<1>a. {"CANCELING", "CANCELED"} \subseteq Statuses BY DEF Statuses, Finished, InProgress
<1>1. CASE Terminating(u)
  <2>1. Terminates(u) BY <1>1, TerminatingDoes
  <2> QED BY <2>1 DEF Terminates, ClientSteps, bounds
<1>2. CASE Request(u)
  <2> DEFINE label == IF status \in Cancelable THEN "cancel" ELSE "force"
  <2>1. label \in Places OBVIOUS
  <2>2. Moves(u, label) BY <1>2, <2>1, GotoMoves DEF Request, At, Goto, Row, log, boxes
  <2> QED BY <1>2, <2>2 DEF Request, At, log, boxes, ClientSteps
<1>3. CASE Cancel(u)
  <2>1. CASE status = "QUEUED"
    <3>1. Says(u, "CANCELING", "cancel2") /\ resumes' = resumes
      BY <1>3, <1>a, <2>1, ReportSays DEF Cancel, Report, Row, boxes
    <3> QED BY <1>3, <3>1 DEF Cancel, At, boxes, bounds, ClientSteps
  <2>2. CASE status # "QUEUED"
    <3>1. Moves(u, "term") BY <1>3, <2>2, GotoMoves DEF Cancel, At, Goto, Row, log, boxes
    <3> QED BY <1>3, <2>2, <3>1 DEF Cancel, At, log, boxes, bounds, ClientSteps
  <2> QED BY <2>1, <2>2
<1>4. CASE Canceled(u)
  <2>1. PICK label \in {"idle", "force"} : Report(u, "CANCELED", label) BY <1>4 DEF Canceled
  <2>2. label \in Places BY <2>1
  <2>3. Says(u, "CANCELED", label) /\ resumes' = resumes
    BY <1>4, <1>a, <2>1, <2>2, ReportSays DEF Canceled, Report, Row, boxes
  <2> QED BY <1>4, <2>1, <2>3 DEF Canceled, At, boxes, bounds, ClientSteps
<1> QED BY <1>1, <1>2, <1>3, <1>4 DEF Requesting

WorkerSteps(c) ==
  /\ UNCHANGED <<resumes, bounds>> /\ signalled' \subseteq signalled
  /\ \/ /\ UNCHANGED excused /\ report[c] = None
        /\ \/ pc[c] = "boot" /\ (Moves(c, "check") \/ Moves(c, "failed"))
           \/ pc[c] = "check" /\ Expected(c) /\ Moves(c, "init")
           \/ pc[c] = "check" /\ (Moves(c, "exited") \/ Moves(c, "failed"))
           \/ pc[c] = "check" /\ status \notin Finished /\ Moves(c, "restarted")
           \/ pc[c] = "init" /\ command[c] = "execute" /\ Says(c, "STARTED", "running")
           \/ pc[c] = "init" /\ command[c] = "resume" /\ Moves(c, "running")
           \/ pc[c] \in {"failed", "restarted", "running"} /\ Moves(c, "exited")
           \/ /\ pc[c] \in {"init", "running", "failed", "restarted"}
              /\ pc[c] = "failed" => status \notin Finished
              /\ \E to \in Finished : Says(c, to, "exited")
     \/ /\ UNCHANGED excused /\ Live(c) /\ Moves(c, "dead")
     \/ /\ pc[c] = "dead" /\ pc'[c] = "boot" /\ Own(c) /\ UNCHANGED <<report, enqueues>>
        /\ excused' = (excused \/ command[c] = "resume")

LEMMA WorkerDoes ==
  ASSUME TypeOK, NEW c \in Containers, Working(c) \/ Succeed(c) \/ Fail(c) \/ Kill(c) \/ Restart(c)
  PROVE  WorkerSteps(c)
<1> USE ActorsDiffer, PlacesAre
<1>a. /\ {"SUCCESS", "FAILURE", "CANCELED"} \subseteq Finished /\ Finished \subseteq Statuses
      /\ "STARTED" \in Statuses
  BY DEF Statuses, Finished, InProgress
<1>s. ASSUME NEW to \in Statuses, NEW label \in Places, Report(c, to, label),
             UNCHANGED <<Row, boxes, bounds, excused>>
      PROVE  Says(c, to, label) /\ UNCHANGED <<resumes, bounds, excused, signalled>>
  BY <1>s, ReportSays DEF Report, Row, boxes
<1>g. ASSUME NEW label \in Places, Goto(c, label), report[c] = None, UNCHANGED Nothing
      PROVE  Moves(c, label) /\ UNCHANGED <<resumes, bounds, excused, signalled>>
  BY <1>g, GotoMoves DEF Goto, Nothing, Row, log, boxes
<1>e. ASSUME NEW to \in Finished, Report(c, to, "exited"), UNCHANGED <<Row, boxes, bounds, excused>>,
             report[c] = None, pc[c] \in {"init", "running", "failed", "restarted"},
             pc[c] = "failed" => status \notin Finished
      PROVE  WorkerSteps(c)
  BY <1>a, <1>e, <1>s DEF WorkerSteps
<1>1. CASE Boot(c)
  <2>1. PICK outcome \in {"check", "failed"} : Goto(c, outcome) BY <1>1 DEF Boot
  <2>2. outcome \in Places BY <2>1
  <2> QED BY <1>1, <1>g, <2>1, <2>2 DEF Boot, At, WorkerSteps
<1>2. CASE Check(c)
  <2> DEFINE label == IF Expected(c) THEN "init" ELSE Refused(c)
  <2>1. /\ label \in {"init", "exited", "failed", "restarted"}
        /\ label = "init" => Expected(c)
        /\ label = "restarted" => status \notin Finished
    BY DEF Refused
  <2>2. Goto(c, label) /\ At(c, "check") /\ UNCHANGED Nothing BY <1>2 DEF Check
  <2> HIDE DEF label
  <2>3. label \in Places BY <2>1
  <2> QED BY <1>g, <2>1, <2>2, <2>3 DEF At, WorkerSteps
<1>3. CASE Begin(c)
  <2>0. At(c, "init") /\ UNCHANGED <<Row, boxes, bounds, excused>> BY <1>3 DEF Begin
  <2>1. CASE Report(c, "FAILURE", "exited") BY <1>a, <1>e, <2>0, <2>1 DEF At
  <2>2. CASE command[c] = "execute" /\ Report(c, "STARTED", "running")
    BY <1>a, <1>s, <2>0, <2>2 DEF At, WorkerSteps
  <2>3. CASE command[c] = "resume" /\ Goto(c, "running") /\ UNCHANGED <<log, report>>
    <3>1. UNCHANGED Nothing BY <2>0, <2>3 DEF Nothing
    <3> QED BY <1>g, <2>0, <2>3, <3>1 DEF At, WorkerSteps
  <2> QED BY <1>3, <2>1, <2>2, <2>3 DEF Begin
<1>4. CASE Succeed(c) BY <1>4, <1>a, <1>e DEF Succeed, At
<1>5. CASE Fail(c)
  <2> DEFINE to == IF status = "CANCELING" THEN "CANCELED" ELSE "FAILURE"
  <2>1. to \in Finished BY <1>a
  <2>2. Report(c, to, "exited") /\ At(c, "running") /\ UNCHANGED <<Row, boxes, bounds, excused>>
    BY <1>5 DEF Fail
  <2> QED BY <1>e, <2>1, <2>2 DEF At
<1>6. CASE Interrupted(c)
  <2>0. At(c, "running") /\ UNCHANGED <<Row, boxes, bounds, excused>> BY <1>6 DEF Interrupted
  <2>1. ASSUME NEW to \in {"CANCELED", "FAILURE"}, Report(c, to, "exited") PROVE WorkerSteps(c)
    BY <1>a, <1>e, <2>0, <2>1 DEF At
  <2>2. CASE Goto(c, "exited") /\ UNCHANGED <<log, report>>
    <3>1. UNCHANGED Nothing BY <2>0, <2>2 DEF Nothing
    <3> QED BY <1>g, <2>0, <2>2, <3>1 DEF At, WorkerSteps
  <2> QED BY <1>6, <2>1, <2>2 DEF Interrupted
<1>7. CASE FailIfUnfinished(c)
  <2>0. /\ pc[c] \in {"failed", "restarted"} /\ report[c] = None
        /\ UNCHANGED <<Row, boxes, bounds, excused>>
    BY <1>7 DEF FailIfUnfinished, At
  <2>1. CASE status \in Finished /\ pc[c] = "failed"
    <3>1. Goto(c, "exited") /\ UNCHANGED Nothing BY <1>7, <2>1 DEF FailIfUnfinished, Nothing
    <3> QED BY <1>g, <2>0, <3>1 DEF WorkerSteps
  <2>2. CASE ~ (status \in Finished /\ pc[c] = "failed")
    <3>1. Report(c, "FAILURE", "exited") BY <1>7, <2>2 DEF FailIfUnfinished
    <3> QED BY <1>a, <1>e, <2>0, <2>2, <3>1
  <2> QED BY <2>1, <2>2
<1>8. CASE Kill(c)
  <2>1. Moves(c, "dead")
    BY <1>8 DEF Kill, Goto, GotoWith, Moves, Own, TypeOK, Row, log, boxes
  <2> QED BY <1>8, <2>1 DEF Kill, log, boxes, WorkerSteps
<1>9. CASE Restart(c)
  <2>1. Own(c) /\ pc'[c] = "boot"
    BY <1>9 DEF Restart, Goto, GotoWith, Own, TypeOK, Row
  <2> QED BY <1>9, <2>1 DEF Restart, log, WorkerSteps
<1> QED BY <1>1, <1>2, <1>3, <1>4, <1>5, <1>6, <1>7, <1>8, <1>9 DEF Working

(***************************************************************************)
(* Who reports what, and where the daemon's launches are.                  *)
(***************************************************************************)

WritesOf(a) ==
  IF a = "submitter" THEN {"QUEUED", "FAILURE"}
  ELSE IF a = "dequeuer" THEN {"STARTING", Same, "QUEUED", "FAILURE"}
  ELSE IF a = "monitor" THEN {"FAILURE", "CANCELED", "CANCELING", Same}
  ELSE IF a \in Clients THEN {"CANCELING", "CANCELED"}
  ELSE {"STARTED"} \cup Finished

Commanded(a) == IF a = "monitor" THEN "resume" ELSE "execute"

\* Each actor writes what is its own to report, the daemons in their places; a daemon that is about
\* to start a container has created it, and nobody else deals with it.
PlacesOK ==
  /\ \A a \in Actors : report[a] # None => report[a].to \in WritesOf(a)
  /\ report["dequeuer"] # None =>
       pc["dequeuer"] = IF report["dequeuer"].to = "STARTING" THEN "launch"
                        ELSE IF report["dequeuer"].to = Same THEN "start" ELSE "idle"
  /\ report["monitor"] # None =>
       /\ pc["monitor"] \in {"idle", "force", "term", "stop", "start"}
       /\ report["monitor"].to = Same <=> pc["monitor"] = "start"
  /\ \A a \in Daemon : pc[a] = "start" =>
       /\ target[a] \in Containers /\ pc[target[a]] = "created"
       /\ command[target[a]] = Commanded(a)
       /\ report[a] # None => report[a].tag = target[a]
  /\ \A c \in Containers :
       report[c] # None => pc[c] \in {"running", "exited"} /\ (pc[c] = "running" <=> report[c].to = "STARTED")
  /\ pc["monitor"] = "resume" => resumes < MaxResumes

CrashSteps ==
  /\ UNCHANGED <<status, tag, enqueues, resumes, command, signalled, requests, excused>>
  /\ crashes < MaxCrashes /\ crashes' = crashes + 1
  /\ pc' \in [Actors -> Places] /\ report' \in [Actors -> Reports \cup {None}]
  /\ target' \in [Actors -> Containers \cup {None}]
  /\ \E S \in SUBSET Actors :
       /\ S = Daemon \/ \E a \in Actors \ Daemon : S = {a}
       /\ \A a \in Actors \ S : pc'[a] = pc[a] /\ report'[a] = report[a] /\ target'[a] = target[a]
       /\ \A a \in S : /\ report'[a] = None /\ target'[a] = None
                       /\ a \in Containers => Live(a) /\ pc'[a] = "dead"
                       /\ a \notin Containers => pc'[a] = "idle"

LEMMA CrashDoes == TypeOK /\ Crash => CrashSteps
<1> SUFFICES ASSUME TypeOK, Crash PROVE CrashSteps OBVIOUS
<1> USE ActorsDiffer, PlacesAre
<1>1. PICK S \in {{a} : a \in Actors \ Daemon} \cup {Daemon} :
       /\ \E a \in S : pc[a] # "idle" /\ (a \in Containers => Live(a))
       /\ pc' = [a \in Actors |-> IF a \notin S THEN pc[a]
                                  ELSE IF a \in Containers THEN "dead" ELSE "idle"]
       /\ report' = [a \in Actors |-> IF a \in S THEN None ELSE report[a]]
       /\ target' = [a \in Actors |-> IF a \in S THEN None ELSE target[a]]
  BY DEF Crash
<1>2. S = Daemon \/ \E a \in Actors \ Daemon : S = {a} BY <1>1
<1>3. S \in SUBSET Actors BY <1>2
<1>4. \A a \in S : a \in Containers => Live(a)
  <2>1. \A a \in Containers : a \notin Daemon BY DEF Daemon
  <2> QED BY <1>1, <1>2, <2>1
<1>5. /\ pc' \in [Actors -> Places] /\ report' \in [Actors -> Reports \cup {None}]
      /\ target' \in [Actors -> Containers \cup {None}]
  BY <1>1 DEF TypeOK
<1>6. /\ \A a \in Actors \ S : pc'[a] = pc[a] /\ report'[a] = report[a] /\ target'[a] = target[a]
      /\ \A a \in S : /\ report'[a] = None /\ target'[a] = None
                      /\ a \in Containers => pc'[a] = "dead"
                      /\ a \notin Containers => pc'[a] = "idle"
  BY <1>1, <1>3
<1>7. UNCHANGED <<status, tag, enqueues, resumes, command, signalled, requests, excused>>
  BY DEF Crash, Row, log, boxes
<1> QED BY <1>2, <1>3, <1>4, <1>5, <1>6, <1>7 DEF Crash, CrashSteps

CreateSteps(a) ==
  /\ UNCHANGED <<status, tag, enqueues, resumes, signalled, crashes, requests, excused>>
  /\ pc[a] = "launch" /\ report[a] = None
  /\ pc' \in [Actors -> Places] /\ report' \in [Actors -> Reports \cup {None}]
  /\ target' \in [Actors -> Containers \cup {None}]
  /\ command' \in [Containers -> {"execute", "resume"}]
  /\ \E c \in Containers :
       /\ pc[c] = "none" /\ pc'[c] = "created" /\ command'[c] = Commanded(a)
       /\ report'[c] = report[c] /\ target'[c] = target[c]
       /\ pc'[a] = "start" /\ target'[a] = c /\ report'[a] = [to |-> Same, tag |-> c] /\ report'[a] # None
       /\ \A b \in Actors \ {a, c} : pc'[b] = pc[b] /\ report'[b] = report[b] /\ target'[b] = target[b]
       /\ \A d \in Containers \ {c} : command'[d] = command[d]

LEMMA CreateDoes == ASSUME TypeOK, NEW a \in Daemon, Create(a) PROVE CreateSteps(a)
<1> USE ActorsDiffer, PlacesAre
<1> DEFINE c == CHOOSE c \in Unused : TRUE
<1>1. c \in Unused BY DEF Create
<1>2. /\ pc' = [pc EXCEPT ![a] = "start", ![c] = "created"]
      /\ command' = [command EXCEPT ![c] = Commanded(a)]
      /\ target' = [target EXCEPT ![a] = c]
      /\ report' = [report EXCEPT ![a] = [to |-> Same, tag |-> c]]
      /\ At(a, "launch") /\ UNCHANGED <<Row, log, signalled, bounds, excused>>
  BY DEF Create, Commanded
<1>3. c \in Containers /\ pc[c] = "none" BY <1>1 DEF Unused
<1> HIDE DEF c
<1>4. a \in Actors /\ c \in Actors /\ a # c BY <1>3 DEF Daemon
<1>5. [to |-> Same, tag |-> c] \in Reports BY <1>3 DEF Reports
<1>6. [to |-> Same, tag |-> c] # None BY <1>5
<1>7. UNCHANGED <<status, tag, enqueues, resumes, signalled, crashes, requests, excused>> /\ At(a, "launch")
  BY <1>2 DEF Row, log, bounds
<1>8. Commanded(a) \in {"execute", "resume"} BY DEF Commanded
<1>9. /\ pc' \in [Actors -> Places] /\ report' \in [Actors -> Reports \cup {None}]
      /\ target' \in [Actors -> Containers \cup {None}]
      /\ command' \in [Containers -> {"execute", "resume"}]
  BY <1>2, <1>3, <1>4, <1>5, <1>8 DEF TypeOK
<1>10. /\ pc'[c] = "created" /\ command'[c] = Commanded(a) /\ report'[c] = report[c]
       /\ target'[c] = target[c] /\ pc'[a] = "start" /\ target'[a] = c
       /\ report'[a] = [to |-> Same, tag |-> c]
       /\ \A b \in Actors \ {a, c} : pc'[b] = pc[b] /\ report'[b] = report[b] /\ target'[b] = target[b]
       /\ \A d \in Containers \ {c} : command'[d] = command[d]
  BY <1>2, <1>3, <1>4 DEF TypeOK
<1> QED BY <1>3, <1>6, <1>7, <1>9, <1>10 DEF At, CreateSteps

StartSteps(a) ==
  /\ UNCHANGED <<status, tag, enqueues, resumes, report, command, signalled, crashes, requests>>
  /\ pc[a] = "start" /\ report[a] = None
  /\ pc' \in [Actors -> Places] /\ target' \in [Actors -> Containers \cup {None}]
  /\ pc[target[a]] = "created" /\ pc'[target[a]] = "boot" /\ target'[target[a]] = target[target[a]]
  /\ pc'[a] \in {"idle", "unreachable", "broken"} /\ target'[a] = None
  /\ \A b \in Actors \ {a, target[a]} : pc'[b] = pc[b] /\ target'[b] = target[b]
  /\ excused' = (excused \/ pc'[a] # "idle")

LEMMA StartDoes == ASSUME TypeOK, PlacesOK, NEW a \in Daemon, Start(a) PROVE StartSteps(a)
<1> USE ActorsDiffer, PlacesAre
<1>1. PICK outcome \in {"idle"} \cup (IF LateErrors THEN {"unreachable", "broken"} ELSE {}) :
       /\ pc' = [pc EXCEPT ![a] = outcome, ![target[a]] = "boot"]
       /\ target' = [target EXCEPT ![a] = None]
       /\ excused' = (excused \/ outcome # "idle")
  BY DEF Start
<1>2. outcome \in {"idle", "unreachable", "broken"} OBVIOUS
<1>3. UNCHANGED <<status, tag, enqueues, resumes, report, command, signalled, crashes, requests>>
      /\ pc[a] = "start" /\ report[a] = None
  BY DEF Start, At, Row, log, boxes, bounds
<1>4. target[a] \in Containers /\ pc[target[a]] = "created" BY <1>3 DEF PlacesOK
<1>5. a \in Actors /\ target[a] \in Actors /\ a # target[a] BY <1>4 DEF Daemon
<1>6. outcome \in Places BY <1>2
<1>7. /\ pc' \in [Actors -> Places] /\ target' \in [Actors -> Containers \cup {None}]
      /\ pc'[target[a]] = "boot" /\ target'[target[a]] = target[target[a]]
      /\ pc'[a] = outcome /\ target'[a] = None
      /\ \A b \in Actors \ {a, target[a]} : pc'[b] = pc[b] /\ target'[b] = target[b]
  BY <1>1, <1>4, <1>5, <1>6 DEF TypeOK
<1> QED BY <1>1, <1>2, <1>3, <1>4, <1>7 DEF StartSteps

WriteSteps(a) ==
  /\ UNCHANGED <<enqueues, resumes, pc, target, command, signalled, crashes, requests>>
  /\ report[a] \in Reports /\ report[a] # None /\ report'[a] = None
  /\ report' \in [Actors -> Reports \cup {None}]
  /\ \A b \in Actors \ {a} : report'[b] = report[b]
  /\ status' = (IF report[a].to = Same THEN status ELSE report[a].to) /\ tag' = report[a].tag
  /\ status' \in Statuses /\ tag' \in Containers \cup {None}
  /\ excused' = (excused \/ (report[a].to # Same /\ report[a].tag # tag))

LEMMA WriteDoes == ASSUME TypeOK, NEW a \in Actors, Write(a) PROVE WriteSteps(a)
<1>1. report[a] \in Reports BY DEF TypeOK, Write
<1>2. (IF report[a].to = Same THEN status ELSE report[a].to) \in Statuses
  BY <1>1 DEF TypeOK, Reports
<1>3. report[a].tag \in Containers \cup {None} BY <1>1 DEF Reports
<1>4. /\ report' \in [Actors -> Reports \cup {None}] /\ report'[a] = None
      /\ \A b \in Actors \ {a} : report'[b] = report[b]
  BY DEF Write, TypeOK
<1> QED BY <1>1, <1>2, <1>3, <1>4 DEF Write, WriteSteps, log, boxes, bounds

EvictSteps ==
  /\ UNCHANGED <<status, tag, enqueues, resumes, pc, report, target, command, requests, excused>>
  /\ crashes < MaxCrashes /\ crashes' = crashes + 1 /\ signalled' \subseteq Containers

LEMMA NextDoes ==
  ASSUME TypeOK, PlacesOK, Next
  PROVE  \/ SubmitterSteps \/ DequeuerSteps \/ MonitorSteps
         \/ \E u \in Clients : ClientSteps(u)
         \/ \E c \in Containers : WorkerSteps(c)
         \/ \E a \in Daemon : CreateSteps(a) \/ StartSteps(a)
         \/ \E a \in Actors : WriteSteps(a)
         \/ CrashSteps \/ EvictSteps
<1>1. ASSUME NEW a \in Daemon, Launching(a)
      PROVE  DequeuerSteps \/ MonitorSteps \/ CreateSteps(a) \/ StartSteps(a)
  <2>1. CASE Create(a) BY <2>1, CreateDoes
  <2>2. CASE Start(a) BY <2>2, StartDoes
  <2>3. CASE LaunchFails(a) BY <2>3, DequeuerDoes, MonitorDoes DEF Daemon
  <2> QED BY <1>1, <2>1, <2>2, <2>3 DEF Launching
<1>2. ASSUME NEW c \in Containers, Evict(c) PROVE EvictSteps
  BY <1>2 DEF Evict, EvictSteps, TypeOK, Row, log
<1>3. CASE Submitting BY <1>3, SubmitterDoes
<1>4. CASE Dequeuing BY <1>4, DequeuerDoes
<1>5. CASE Watching \/ TimingOut \/ InTime BY <1>5, MonitorDoes
<1>6. CASE Crash BY <1>6, CrashDoes
<1>7. CASE \E a \in Actors : Write(a) BY <1>7, WriteDoes
<1>8. CASE \E a \in Daemon : Launching(a) BY <1>1, <1>8
<1>9. CASE \E a \in {"monitor"} \cup Clients : Terminating(a) BY <1>9, MonitorDoes, ClientDoes
<1>10. CASE \E a \in Clients : Requesting(a) BY <1>10, ClientDoes
<1>11. CASE \E c \in Containers : Working(c) \/ Succeed(c) \/ Fail(c) \/ Kill(c) \/ Evict(c) \/ Restart(c)
  BY <1>2, <1>11, WorkerDoes
<1> QED BY <1>3, <1>4, <1>5, <1>6, <1>7, <1>8, <1>9, <1>10, <1>11 DEF Next

LEMMA BoundsStep ==
  ASSUME TypeOK
  PROVE  /\ resumes < MaxResumes => resumes + 1 \in 0 .. MaxResumes
         /\ crashes < MaxCrashes => crashes + 1 \in 0 .. MaxCrashes
         /\ requests < MaxRequests => requests + 1 \in 0 .. MaxRequests
         /\ enqueues + 1 \in Nat
<1>1. MaxResumes \in Nat /\ MaxCrashes \in Nat /\ MaxRequests \in Nat BY BoundsAssumption
<1>2. /\ resumes \in 0 .. MaxResumes /\ crashes \in 0 .. MaxCrashes /\ requests \in 0 .. MaxRequests
      /\ enqueues \in Nat
  BY DEF TypeOK
<1> QED BY <1>1, <1>2

\* A move and a report leave the types of what they touch, and a report is recorded as it was made.
LEMMA MovedTypes ==
  ASSUME TypeOK, NEW a \in Actors, Own(a), enqueues' \in {enqueues, enqueues + 1},
         resumes' = resumes \/ (resumes < MaxResumes /\ resumes' = resumes + 1),
         signalled' \subseteq Containers, crashes' = crashes,
         requests' = requests \/ (requests < MaxRequests /\ requests' = requests + 1),
         excused' \in BOOLEAN
  PROVE  TypeOK'
<1>1. enqueues' \in Nat /\ resumes' \in 0 .. MaxResumes /\ requests' \in 0 .. MaxRequests
  BY BoundsStep DEF TypeOK
<1> QED BY <1>1 DEF TypeOK, Own

LEMMA SaysRecorded ==
  ASSUME NEW a, NEW to, NEW label, Says(a, to, label)
  PROVE  report'[a].to = to /\ report'[a].tag = tag /\ pc'[a] = label /\ report'[a] # None
BY DEF Says

LEMMA MonitorBrief ==
  ASSUME MonitorSteps
  PROVE  /\ Own("monitor") /\ enqueues' = enqueues
         /\ \/ /\ pc'["monitor"] \notin {"start", "resume", "launch"} /\ report'["monitor"] = None
            \/ /\ pc'["monitor"] = "launch" /\ report'["monitor"] = None /\ pc["monitor"] = "resume"
               /\ resumes' = resumes + 1
            \/ /\ pc'["monitor"] = "resume" /\ report'["monitor"] = None /\ resumes < MaxResumes
               /\ pc["monitor"] = "recheck" /\ status = "STARTED" /\ resumes' = resumes
            \/ /\ pc'["monitor"] \in {"idle", "force", "term", "stop"} /\ report'["monitor"] # None
               /\ report'["monitor"].to \in {"FAILURE", "CANCELED", "CANCELING"}
               /\ report'["monitor"].tag = tag
         /\ resumes' # resumes => pc["monitor"] = "resume"
<1> DEFINE brief == /\ Own("monitor") /\ enqueues' = enqueues
         /\ \/ /\ pc'["monitor"] \notin {"start", "resume", "launch"} /\ report'["monitor"] = None
            \/ /\ pc'["monitor"] = "launch" /\ report'["monitor"] = None /\ pc["monitor"] = "resume"
               /\ resumes' = resumes + 1
            \/ /\ pc'["monitor"] = "resume" /\ report'["monitor"] = None /\ resumes < MaxResumes
               /\ pc["monitor"] = "recheck" /\ status = "STARTED" /\ resumes' = resumes
            \/ /\ pc'["monitor"] \in {"idle", "force", "term", "stop"} /\ report'["monitor"] # None
               /\ report'["monitor"].to \in {"FAILURE", "CANCELED", "CANCELING"}
               /\ report'["monitor"].tag = tag
<1>1. ASSUME NEW label, label # "start", label # "resume", label # "launch", Moves("monitor", label)
      PROVE  brief
  BY <1>1 DEF Moves
<1>2. ASSUME NEW to, to = "FAILURE" \/ to = "CANCELED" \/ to = "CANCELING",
             NEW label, label = "idle" \/ label = "force" \/ label = "term" \/ label = "stop",
             Says("monitor", to, label)
      PROVE  brief
  BY <1>2 DEF Says
<1>3. ASSUME pc["monitor"] = "recheck", status = "STARTED", resumes < MaxResumes, Moves("monitor", "resume"),
             resumes' = resumes
      PROVE  brief
  BY <1>3 DEF Moves
<1>4. ASSUME pc["monitor"] = "resume", Moves("monitor", "launch"), resumes' = resumes + 1
      PROVE  brief
  BY <1>4 DEF Moves
<1> HIDE DEF brief
<1>5. OtherMonitorSteps => brief BY <1>1, <1>2 DEF OtherMonitorSteps
<1>6. brief BY <1>1, <1>2, <1>3, <1>4, <1>5 DEF MonitorSteps
<1>7. resumes' # resumes => pc["monitor"] = "resume" BY DEF MonitorSteps
<1> QED BY <1>6, <1>7 DEF brief

LEMMA TypesStep ==
  ASSUME TypeOK, PlacesOK, Next
  PROVE  TypeOK'
<1> USE ActorsDiffer
<1>0. signalled \subseteq Containers /\ excused \in BOOLEAN /\ enqueues' = enqueues => enqueues' \in {enqueues, enqueues + 1}
  BY DEF TypeOK
<1>1. CASE SubmitterSteps
  BY <1>1, MovedTypes DEF SubmitterSteps, Moves, Says, boxes, bounds, TypeOK
<1>2. CASE DequeuerSteps
  <2>1. Own("dequeuer") /\ enqueues' \in {enqueues, enqueues + 1} BY <1>2 DEF DequeuerSteps, Moves, Says
  <2> QED BY <1>2, <2>1, MovedTypes DEF DequeuerSteps, boxes, bounds, TypeOK
<1>3. CASE MonitorSteps
  <2>1. Own("monitor") /\ enqueues' \in {enqueues, enqueues + 1}
    BY <1>3, MonitorBrief
  <2>2. resumes' = resumes \/ (resumes < MaxResumes /\ resumes' = resumes + 1)
    BY <1>3 DEF MonitorSteps, PlacesOK
  <2>3. signalled' \subseteq Containers BY <1>3 DEF MonitorSteps, TypeOK
  <2> QED BY <1>3, <2>1, <2>2, <2>3, MovedTypes DEF MonitorSteps, bounds, TypeOK
<1>4. ASSUME NEW u \in Clients, ClientSteps(u) PROVE TypeOK'
  <2>1. Own(u) /\ enqueues' \in {enqueues, enqueues + 1}
    BY <1>4 DEF ClientSteps, Moves, Says
  <2>2. signalled' \subseteq Containers BY <1>4 DEF ClientSteps, TypeOK
  <2>3. requests' = requests \/ (requests < MaxRequests /\ requests' = requests + 1)
    BY <1>4 DEF ClientSteps
  <2> QED BY <1>4, <2>1, <2>2, <2>3, MovedTypes DEF ClientSteps, TypeOK
<1>5. ASSUME NEW c \in Containers, WorkerSteps(c) PROVE TypeOK'
  <2>1. Own(c) /\ enqueues' \in {enqueues, enqueues + 1}
    BY <1>5 DEF WorkerSteps, Moves, Says
  <2>2. signalled' \subseteq Containers /\ excused' \in BOOLEAN BY <1>5 DEF WorkerSteps, TypeOK
  <2> QED BY <1>5, <2>1, <2>2, MovedTypes DEF WorkerSteps, bounds
<1>6. ASSUME NEW a \in Daemon, CreateSteps(a) PROVE TypeOK' BY <1>6 DEF CreateSteps, TypeOK
<1>7. ASSUME NEW a \in Daemon, StartSteps(a) PROVE TypeOK' BY <1>7 DEF StartSteps, TypeOK
<1>8. ASSUME NEW a \in Actors, WriteSteps(a) PROVE TypeOK' BY <1>8 DEF WriteSteps, TypeOK
<1>9. CASE CrashSteps BY <1>9, BoundsStep DEF CrashSteps, TypeOK
<1>10. CASE EvictSteps BY <1>10, BoundsStep DEF EvictSteps, TypeOK
<1> QED BY <1>1, <1>2, <1>3, <1>4, <1>5, <1>6, <1>7, <1>8, <1>9, <1>10, NextDoes

LEMMA PlacesStep ==
  ASSUME TypeOK, PlacesOK, Next
  PROVE  PlacesOK'
<1> USE ActorsDiffer
<1>1. CASE SubmitterSteps
  <2>1. Own("submitter") /\ UNCHANGED resumes BY <1>1 DEF SubmitterSteps, Moves, Says
  <2>2. report'["submitter"] # None => report'["submitter"].to \in {"QUEUED", "FAILURE"}
    BY <1>1, SaysRecorded DEF SubmitterSteps, Moves
  <2> QED BY <2>1, <2>2 DEF PlacesOK, Own, WritesOf, Commanded, Daemon
<1>2. CASE DequeuerSteps
  <2>1. Own("dequeuer") /\ UNCHANGED resumes BY <1>2 DEF DequeuerSteps, Moves, Says
  <2>2. /\ pc'["dequeuer"] # "start"
        /\ report'["dequeuer"] # None =>
             \/ report'["dequeuer"].to = "STARTING" /\ pc'["dequeuer"] = "launch"
             \/ report'["dequeuer"].to \in {"QUEUED", "FAILURE"} /\ pc'["dequeuer"] = "idle"
    BY <1>2, SaysRecorded DEF DequeuerSteps, Moves
  <2> QED BY <2>1, <2>2 DEF PlacesOK, Own, WritesOf, Commanded, Daemon, Same
<1>3. CASE MonitorSteps
  <2>1. Own("monitor") BY <1>3, MonitorBrief
  <2>2. /\ pc'["monitor"] # "start"
        /\ report'["monitor"] # None =>
             /\ report'["monitor"].to \in {"FAILURE", "CANCELED", "CANCELING"}
             /\ pc'["monitor"] \in {"idle", "force", "term", "stop"}
    BY <1>3, MonitorBrief
  <2>3. pc'["monitor"] = "resume" => resumes' < MaxResumes
    BY <1>3, MonitorBrief
  <2> QED BY <2>1, <2>2, <2>3 DEF PlacesOK, Own, WritesOf, Commanded, Daemon, Same
<1>4. ASSUME NEW u \in Clients, ClientSteps(u) PROVE PlacesOK'
  <2>1. Own(u) /\ UNCHANGED resumes BY <1>4 DEF ClientSteps, Moves, Says
  <2>2. report'[u] # None => report'[u].to \in {"CANCELING", "CANCELED"}
    BY <1>4, SaysRecorded DEF ClientSteps, Moves
  <2> QED BY <2>1, <2>2 DEF PlacesOK, Own, WritesOf, Commanded, Daemon
<1>5. ASSUME NEW c \in Containers, WorkerSteps(c) PROVE PlacesOK'
  <2>1. Own(c) /\ UNCHANGED resumes BY <1>5 DEF WorkerSteps, Moves, Says
  <2>2. report'[c] # None =>
          \/ report'[c].to = "STARTED" /\ pc'[c] = "running"
          \/ report'[c].to \in Finished /\ pc'[c] = "exited"
    BY <1>5, SaysRecorded DEF WorkerSteps, Moves, PlacesOK
  <2>3. pc[c] # "created" BY <1>5 DEF WorkerSteps, Live, Down, PlacesOK
  <2>4. report'[c] # None => report'[c].to \in WritesOf(c) BY <2>2 DEF WritesOf
  <2> QED BY <2>1, <2>2, <2>3, <2>4 DEF PlacesOK, Own, Commanded, Daemon, Finished
<1>6. ASSUME NEW a \in Daemon, CreateSteps(a) PROVE PlacesOK'
  <2>1. PICK c \in Containers :
       /\ pc[c] = "none" /\ pc'[c] = "created" /\ command'[c] = Commanded(a)
       /\ report'[c] = report[c] /\ target'[c] = target[c]
       /\ pc'[a] = "start" /\ target'[a] = c /\ report'[a] = [to |-> Same, tag |-> c] /\ report'[a] # None
       /\ \A b \in Actors \ {a, c} : pc'[b] = pc[b] /\ report'[b] = report[b] /\ target'[b] = target[b]
       /\ \A d \in Containers \ {c} : command'[d] = command[d]
    BY <1>6 DEF CreateSteps
  <2>2. report'[a].to = Same /\ report'[a].tag = c BY <2>1
  <2>3. a # c /\ report[c] = None BY <2>1 DEF Daemon, PlacesOK
  <2>4. UNCHANGED resumes BY <1>6 DEF CreateSteps
  <2>5. \A b \in Actors : report'[b] # None => report'[b].to \in WritesOf(b)
    BY <2>1, <2>2, <2>3 DEF PlacesOK, WritesOf, Daemon
  <2>6. \A b \in Daemon : pc'[b] = "start" =>
          /\ target'[b] \in Containers /\ pc'[target'[b]] = "created"
          /\ command'[target'[b]] = Commanded(b)
          /\ report'[b] # None => report'[b].tag = target'[b]
    <3> SUFFICES ASSUME NEW b \in Daemon, pc'[b] = "start"
                 PROVE  /\ target'[b] \in Containers /\ pc'[target'[b]] = "created"
                        /\ command'[target'[b]] = Commanded(b)
                        /\ report'[b] # None => report'[b].tag = target'[b]
      OBVIOUS
    <3>1. CASE b = a BY <3>1, <2>1, <2>2
    <3>2. CASE b # a
      <4>1. b \notin Containers BY DEF Daemon
      <4>2. pc[b] = "start" /\ report'[b] = report[b] /\ target'[b] = target[b] BY <2>1, <3>2, <4>1
      <4>3. target[b] \in Containers /\ pc[target[b]] = "created" /\ command[target[b]] = Commanded(b)
            /\ (report[b] # None => report[b].tag = target[b])
        BY <4>2 DEF PlacesOK
      <4>4. target[b] # c /\ target[b] # a BY <2>1, <4>3 DEF Daemon
      <4> QED BY <2>1, <4>2, <4>3, <4>4
    <3> QED BY <3>1, <3>2
  <2>7. (report["dequeuer"] # None =>
       pc["dequeuer"] = IF report["dequeuer"].to = "STARTING" THEN "launch"
                        ELSE IF report["dequeuer"].to = Same THEN "start" ELSE "idle")'
    BY <2>1, <2>2, <2>3 DEF PlacesOK, Daemon, Same
  <2>8. (report["monitor"] # None =>
       /\ pc["monitor"] \in {"idle", "force", "term", "stop", "start"}
       /\ report["monitor"].to = Same <=> pc["monitor"] = "start")'
    BY <2>1, <2>2, <2>3 DEF PlacesOK, Daemon
  <2>9. pc'["monitor"] = "resume" => resumes' < MaxResumes
    BY <2>1, <2>3, <2>4 DEF PlacesOK, Daemon
  <2>10. \A d \in Containers : report'[d] # None =>
           pc'[d] \in {"running", "exited"} /\ (pc'[d] = "running" <=> report'[d].to = "STARTED")
    BY <2>1, <2>3 DEF PlacesOK, Daemon
  <2> QED BY <2>5, <2>6, <2>7, <2>8, <2>9, <2>10 DEF PlacesOK
<1>7. ASSUME NEW a \in Daemon, StartSteps(a) PROVE PlacesOK'
  <2>1. target[a] \in Containers /\ pc[target[a]] = "created" /\ command[target[a]] = Commanded(a)
    BY <1>7 DEF StartSteps, PlacesOK
  <2>2. \A b \in Daemon : pc'[b] = "start" => target[b] # target[a] /\ b # a /\ pc[b] = "start"
    BY <1>7, <2>1 DEF StartSteps, PlacesOK, Commanded, Daemon
  <2> QED BY <1>7, <2>1, <2>2 DEF StartSteps, PlacesOK, Commanded, Daemon
<1>8. ASSUME NEW a \in Actors, WriteSteps(a) PROVE PlacesOK'
  BY <1>8 DEF WriteSteps, PlacesOK, Commanded, Daemon
<1>9. CASE CrashSteps
  <2>1. \A c \in Containers : pc'[c] # pc[c] => pc[c] # "created"
    BY <1>9 DEF CrashSteps, Live, Down, PlacesOK
  <2>2. \A b \in Daemon : pc'[b] = "start" => pc[b] = "start" /\ target'[b] = target[b] /\ report'[b] = report[b]
    BY <1>9 DEF CrashSteps, Daemon
  <2> QED BY <1>9, <2>1, <2>2 DEF CrashSteps, PlacesOK, Commanded, Daemon
<1>10. CASE EvictSteps BY <1>10 DEF EvictSteps, PlacesOK, Commanded, Daemon
<1> QED BY <1>1, <1>2, <1>3, <1>4, <1>5, <1>6, <1>7, <1>8, <1>9, <1>10, NextDoes

LEMMA InitTypes == Init => TypeOK /\ PlacesOK
<1> SUFFICES ASSUME Init PROVE TypeOK /\ PlacesOK OBVIOUS
<1> USE ActorsDiffer, PlacesAre
<1>1. 0 \in 0 .. MaxResumes /\ 0 \in 0 .. MaxCrashes /\ 0 \in 0 .. MaxRequests BY BoundsAssumption
<1>2. TypeOK BY <1>1 DEF Init, TypeOK, Statuses
<1>3. PlacesOK BY DEF Init, PlacesOK, Daemon
<1> QED BY <1>2, <1>3

LEMMA Unchanged ==
  ASSUME UNCHANGED vars
  PROVE  UNCHANGED <<status, tag, enqueues, resumes, pc, report, target, command, signalled, crashes,
                     requests, excused>>
BY DEF vars, log, boxes, bounds

\* Every variable has its type, whatever happens, and each process writes only what is its own to
\* report: only a worker writes STARTED, only the submitter and the dequeuer QUEUED, only the
\* dequeuer STARTING; the daemon starts only containers it has just created, each once.
THEOREM TypeCorrect == Spec => [](TypeOK /\ PlacesOK)
<1>1. TypeOK /\ PlacesOK /\ [Next]_vars => TypeOK' /\ PlacesOK'
  <2> SUFFICES ASSUME TypeOK, PlacesOK, [Next]_vars PROVE TypeOK' /\ PlacesOK' OBVIOUS
  <2>1. CASE Next BY <2>1, TypesStep, PlacesStep
  <2>2. CASE UNCHANGED vars
    <3>1. TypeOK' BY <2>2, Unchanged DEF TypeOK
    <3>2. PlacesOK' BY <2>2, Unchanged DEF PlacesOK, Commanded
    <3> QED BY <3>1, <3>2
  <2> QED BY <2>1, <2>2
<1> QED BY <1>1, InitTypes, PTL DEF Spec

(***************************************************************************)
(* What has finished stays finished.                                       *)
(***************************************************************************)

LEMMA SettledStays ==
  ASSUME TypeOK, PlacesOK, Settled, Next
  PROVE  Settled' /\ status' = status
<1> USE ActorsDiffer
<1>1. /\ status \in Finished /\ \A a \in Actors : report[a] = None
      /\ \A a \in Actors \ Containers : pc[a] = "idle"
      /\ \A c \in Containers : pc[c] \in Down \cup {"boot", "check", "failed"}
  BY DEF Settled
<1>2. status \notin {"NOT_STARTED", "QUEUED", "STARTING", "STARTED", "CANCELING"} BY <1>1 DEF Finished
<1>3. pc["submitter"] = "idle" /\ pc["dequeuer"] = "idle" /\ pc["monitor"] = "idle" BY <1>1
<1>m. ASSUME NEW a \in Actors, NEW label, Moves(a, label),
             a \notin Containers => label = "idle",
             a \in Containers => label \in Down \cup {"boot", "check", "failed"}
      PROVE  Settled' /\ status' = status
  BY <1>1, <1>m DEF Moves, Own, Settled
<1>4. CASE SubmitterSteps BY <1>2, <1>3, <1>4, <1>m DEF SubmitterSteps
<1>5. ~ DequeuerSteps BY <1>2, <1>3 DEF DequeuerSteps
<1>6. ~ MonitorSteps BY <1>2, <1>3 DEF MonitorSteps, OtherMonitorSteps
<1>7. ASSUME NEW u \in Clients PROVE ~ ClientSteps(u)
  <2>1. pc[u] = "idle" BY <1>1
  <2> QED BY <1>1, <1>2, <2>1 DEF ClientSteps, Cancelable
<1>8. ASSUME NEW c \in Containers, WorkerSteps(c) PROVE Settled' /\ status' = status
  <2>1. c \in Actors /\ pc[c] \in Down \cup {"boot", "check", "failed"} BY <1>1
  <2>2. ~ Expected(c) BY <1>2 DEF Expected
  <2>3. CASE pc'[c] = "boot" /\ Own(c) /\ UNCHANGED report
    BY <1>1, <2>1, <2>3 DEF Own, Settled
  <2>4. CASE \E label \in {"check", "failed", "exited", "dead"} : Moves(c, label)
    BY <1>m, <2>1, <2>4 DEF Down
  <2> QED BY <1>1, <1>8, <2>1, <2>2, <2>3, <2>4 DEF WorkerSteps, Down
<1>9. ASSUME NEW a \in Daemon PROVE ~ CreateSteps(a) /\ ~ StartSteps(a)
  BY <1>3 DEF CreateSteps, StartSteps, Daemon
<1>10. ASSUME NEW a \in Actors PROVE ~ WriteSteps(a) BY <1>1 DEF WriteSteps
<1>11. CASE CrashSteps BY <1>1, <1>11 DEF CrashSteps, Settled, Down
<1>12. CASE EvictSteps BY <1>1, <1>12 DEF EvictSteps, Settled
<1> QED BY <1>4, <1>5, <1>6, <1>7, <1>8, <1>9, <1>10, <1>11, <1>12, NextDoes

\* A run that has finished, once nobody is in the middle of anything, keeps its status and is not
\* executed again, for any number of clients that ask, daemons and workers that die and are
\* restarted, and runs that are examined later.
THEOREM StaysFinished == Spec => FinishedForGood
<1>1. TypeOK /\ PlacesOK /\ [Next]_vars => (Settled => Settled' /\ status' = status)
  <2> SUFFICES ASSUME TypeOK, PlacesOK, [Next]_vars, Settled PROVE Settled' /\ status' = status OBVIOUS
  <2>1. CASE Next BY <2>1, SettledStays
  <2>2. CASE UNCHANGED vars BY <2>2, Unchanged DEF Settled
  <2> QED BY <2>1, <2>2
<1> QED BY <1>1, TypeCorrect, PTL DEF Spec, FinishedForGood

(***************************************************************************)
(* How often the run is launched.                                          *)
(***************************************************************************)

Created     == {c \in Containers : pc[c] # "none"}
Of(cmd)     == {c \in Created : command[c] = cmd}
Executions  == Cardinality(Of("execute"))
Resumptions == Cardinality(Of("resume"))

\* Whether the dequeuer may launch the run once more before it is enqueued again, and whether the
\* monitor has counted an attempt to resume it and not yet made the container.
Queuing(a) == report[a] # None /\ report[a].to = "QUEUED"
Ready      == IF status = "QUEUED" \/ pc["dequeuer"] = "launch" \/ Queuing("dequeuer") THEN 1 ELSE 0
Counted    == IF pc["monitor"] = "launch" THEN 1 ELSE 0

\* The dequeuer has taken the run off the queue and deals with its launch.
Dequeued ==
  \/ pc["dequeuer"] \in {"start", "unreachable", "broken"}
  \/ pc["dequeuer"] = "launch" /\ report["dequeuer"] = None

\* The submitter's report that enqueues the run is not written yet.
NotQueuedYet ==
  /\ status \in {"NOT_STARTED", "FAILURE", "CANCELED"} /\ Created = {}
  /\ pc["dequeuer"] = "idle" /\ report["dequeuer"] = None
  /\ pc["monitor"] \in {"idle", "starting"}
  /\ report["monitor"] # None => report["monitor"].to = "FAILURE"
  /\ \A u \in Clients : pc[u] \in {"idle", "force"} /\ (report[u] # None => report[u].to = "CANCELED")
  /\ Queuing("submitter") => enqueues >= 1

\* It is.  What has been launched, and what may be, is what has been enqueued; and while the
\* dequeuer deals with a launch, nobody has the run enqueued.
QueuedOnce ==
  /\ status # "NOT_STARTED" /\ ~ Queuing("submitter")
  /\ Executions + Ready <= enqueues
  /\ Executions + Ready <= 1 + MaxRetries
  /\ Dequeued => status # "QUEUED"

LaunchInv ==
  /\ NotQueuedYet \/ QueuedOnce
  /\ Resumptions + Counted <= resumes

LEMMA CreatedFinite ==
  /\ Executions \in Nat /\ Resumptions \in Nat
  /\ \A cmd : IsFiniteSet(Of(cmd)) /\ Cardinality(Of(cmd)) \in Nat
  /\ Ready \in {0, 1} /\ Counted \in {0, 1}
<1>1. \A cmd : IsFiniteSet(Of(cmd)) BY ActorsAssumption, FS_Subset DEF Of, Created
<1> QED BY <1>1, FS_CardinalityType DEF Executions, Resumptions, Ready, Counted

LEMMA CountsStay ==
  ASSUME command' = command, \A c \in Containers : pc'[c] = "none" <=> pc[c] = "none"
  PROVE  Created' = Created /\ Executions' = Executions /\ Resumptions' = Resumptions
<1>1. Created' = Created BY DEF Created
<1>2. \A cmd : Of(cmd)' = Of(cmd) BY <1>1 DEF Of
<1> QED BY <1>1, <1>2 DEF Executions, Resumptions

LEMMA OthersCreateNothing ==
  ASSUME TypeOK, PlacesOK,
         \/ SubmitterSteps \/ DequeuerSteps \/ MonitorSteps \/ \E u \in Clients : ClientSteps(u)
         \/ \E c \in Containers : WorkerSteps(c)
         \/ \E a \in Daemon : StartSteps(a)
         \/ \E a \in Actors : WriteSteps(a)
         \/ CrashSteps \/ EvictSteps
  PROVE  Created' = Created /\ Executions' = Executions /\ Resumptions' = Resumptions
<1> USE ActorsDiffer
<1>a. ASSUME NEW a \in Actors \ Containers, Own(a)
      PROVE  command' = command /\ \A c \in Containers : pc'[c] = "none" <=> pc[c] = "none"
  BY <1>a DEF Own
<1>1. CASE SubmitterSteps
  <2>1. Own("submitter") BY <1>1 DEF SubmitterSteps, Moves, Says
  <2> QED BY <1>a, <2>1, CountsStay
<1>2. CASE DequeuerSteps
  <2>1. Own("dequeuer") BY <1>2 DEF DequeuerSteps, Moves, Says
  <2> QED BY <1>a, <2>1, CountsStay
<1>3. CASE MonitorSteps BY <1>3, <1>a, MonitorBrief, CountsStay
<1>4. ASSUME NEW u \in Clients, ClientSteps(u)
      PROVE  Created' = Created /\ Executions' = Executions /\ Resumptions' = Resumptions
  <2>1. Own(u) BY <1>4 DEF ClientSteps, Moves, Says
  <2> QED BY <1>a, <2>1, CountsStay
<1>5. ASSUME NEW c \in Containers, WorkerSteps(c)
      PROVE  Created' = Created /\ Executions' = Executions /\ Resumptions' = Resumptions
  <2>1. Own(c) BY <1>5 DEF WorkerSteps, Moves, Says
  <2>2. pc[c] # "none" BY <1>5 DEF WorkerSteps, Live, Down, PlacesOK
  <2>3. pc'[c] # "none" BY <1>5 DEF WorkerSteps, Moves, Says
  <2>4. command' = command /\ \A d \in Containers : pc'[d] = "none" <=> pc[d] = "none"
    BY <2>1, <2>2, <2>3 DEF Own
  <2> QED BY <2>4, CountsStay
<1>6. ASSUME NEW a \in Daemon, StartSteps(a)
      PROVE  Created' = Created /\ Executions' = Executions /\ Resumptions' = Resumptions
  <2>1. command' = command /\ \A d \in Containers : pc'[d] = "none" <=> pc[d] = "none"
    BY <1>6 DEF StartSteps, PlacesOK, Daemon
  <2> QED BY <2>1, CountsStay
<1>7. CASE \E a \in Actors : WriteSteps(a) BY <1>7, CountsStay DEF WriteSteps
<1>8. CASE CrashSteps
  <2>1. command' = command /\ \A d \in Containers : pc'[d] = "none" <=> pc[d] = "none"
    BY <1>8 DEF CrashSteps, Live, Down, PlacesOK
  <2> QED BY <2>1, CountsStay
<1>9. CASE EvictSteps BY <1>9, CountsStay DEF EvictSteps
<1> QED BY <1>1, <1>2, <1>3, <1>4, <1>5, <1>6, <1>7, <1>8, <1>9

LEMMA CreateCounts ==
  ASSUME TypeOK, NEW a \in Daemon, CreateSteps(a)
  PROVE  /\ a = "dequeuer" => Executions' = Executions + 1 /\ Resumptions' = Resumptions
         /\ a = "monitor" => Resumptions' = Resumptions + 1 /\ Executions' = Executions
<1> USE ActorsDiffer
<1>1. PICK c \in Containers :
       /\ pc[c] = "none" /\ pc'[c] = "created" /\ command'[c] = Commanded(a)
       /\ \A b \in Actors \ {a, c} : pc'[b] = pc[b]
       /\ \A d \in Containers \ {c} : command'[d] = command[d]
  BY DEF CreateSteps
<1>2. \A d \in Containers \ {c} : pc'[d] = pc[d] BY <1>1 DEF Daemon
<1>3. Created' = Created \cup {c} BY <1>1, <1>2 DEF Created
<1>4. c \notin Created BY <1>1 DEF Created
<1>5. \A cmd : Of(cmd)' = IF cmd = Commanded(a) THEN Of(cmd) \cup {c} ELSE Of(cmd)
  BY <1>1, <1>3, <1>4 DEF Of, Created
<1>6. \A cmd : c \notin Of(cmd) /\ IsFiniteSet(Of(cmd)) BY <1>4, CreatedFinite DEF Of
<1>7. \A cmd : Cardinality(Of(cmd) \cup {c}) = Cardinality(Of(cmd)) + 1 BY <1>6, FS_AddElement
<1>8. CASE a = "dequeuer"
  <2>1. Of("execute")' = Of("execute") \cup {c} /\ Of("resume")' = Of("resume")
    BY <1>5, <1>8 DEF Commanded
  <2> QED BY <1>7, <1>8, <2>1 DEF Executions, Resumptions
<1>9. CASE a = "monitor"
  <2>1. Of("resume")' = Of("resume") \cup {c} /\ Of("execute")' = Of("execute")
    BY <1>5, <1>9 DEF Commanded
  <2> QED BY <1>7, <1>9, <2>1 DEF Executions, Resumptions
<1> QED BY <1>8, <1>9 DEF Daemon

LEMMA SumBounds ==
  /\ \A e, r, rr, q, qq, m \in Nat :
       e + r <= q /\ e + r <= 1 + m /\ q <= qq /\ rr <= r => e + rr <= qq /\ e + rr <= 1 + m
  /\ \A e, q, m \in Nat, r \in {0, 1} :
       e + 0 <= q /\ q - 1 < m => e + r <= q + 1 /\ e + r <= 1 + m
  /\ \A e, q, m \in Nat : e + 1 <= q /\ e + 1 <= 1 + m => (e + 1) + 0 <= q /\ (e + 1) + 0 <= 1 + m
OBVIOUS

LEMMA QueuedStep ==
  ASSUME TypeOK, PlacesOK, QueuedOnce, Next
  PROVE  QueuedOnce'
<1> USE ActorsDiffer
<1>0. /\ enqueues \in Nat /\ enqueues' \in Nat /\ MaxRetries \in Nat
      /\ Executions \in Nat /\ Ready \in {0, 1}
      /\ status # "NOT_STARTED" /\ ~ Queuing("submitter") /\ (Dequeued => status # "QUEUED")
      /\ Executions + Ready <= enqueues /\ Executions + Ready <= 1 + MaxRetries
  BY TypesStep, CreatedFinite, BoundsAssumption DEF TypeOK, QueuedOnce
<1>q. ASSUME Executions' = Executions, status' # "NOT_STARTED", ~ Queuing("submitter")',
             Dequeued' => status' # "QUEUED", enqueues <= enqueues',
             Ready' = 1 => Ready = 1
      PROVE  QueuedOnce'
  <2>1. Ready' \in {0, 1} BY DEF Ready
  <2>2. Ready' <= Ready BY <1>0, <1>q, <2>1
  <2>3. Executions + Ready' <= enqueues' /\ Executions + Ready' <= 1 + MaxRetries
    <3>1. Ready \in Nat /\ Ready' \in Nat BY <1>0, <2>1
    <3>2. enqueues <= enqueues' BY <1>q
    <3> QED BY <1>0, <2>2, <3>1, <3>2, SumBounds
  <2> QED BY <1>0, <1>q, <2>3 DEF QueuedOnce
<1>o. ASSUME NEW a \in Actors \ {"dequeuer", "submitter"}, Own(a), enqueues' = enqueues, Executions' = Executions
      PROVE  QueuedOnce'
  <2>1. /\ pc'["dequeuer"] = pc["dequeuer"] /\ report'["dequeuer"] = report["dequeuer"]
        /\ report'["submitter"] = report["submitter"] /\ status' = status
    BY <1>o DEF Own
  <2>2. /\ Queuing("submitter")' = Queuing("submitter") /\ Queuing("dequeuer")' = Queuing("dequeuer")
        /\ Dequeued' = Dequeued
    BY <2>1 DEF Queuing, Dequeued
  <2>3. Ready' = Ready BY <2>1, <2>2 DEF Ready
  <2> QED BY <1>0, <1>o, <1>q, <2>1, <2>2, <2>3
<1>1. CASE SubmitterSteps
  <2>1. Own("submitter") /\ enqueues' = enqueues /\ ~ Queuing("submitter")'
    BY <1>0, <1>1 DEF SubmitterSteps, Moves, Says, Queuing
  <2>2. /\ pc'["dequeuer"] = pc["dequeuer"] /\ report'["dequeuer"] = report["dequeuer"] /\ status' = status
    BY <2>1 DEF Own
  <2>3. Ready' = Ready /\ Dequeued' = Dequeued BY <2>2 DEF Ready, Queuing, Dequeued
  <2> QED BY <1>0, <1>1, <1>q, <2>1, <2>2, <2>3, OthersCreateNothing
<1>2. CASE DequeuerSteps
  <2>0. /\ Own("dequeuer") /\ Executions' = Executions /\ report["dequeuer"] = None
        /\ status' = status /\ report'["submitter"] = report["submitter"]
    BY <1>2, OthersCreateNothing DEF DequeuerSteps, Moves, Says, Own
  <2>a. ~ Queuing("submitter")' BY <1>0, <2>0 DEF Queuing
  <2>1. CASE /\ pc["dequeuer"] \in {"unreachable", "broken"} /\ enqueues - 1 < MaxRetries
             /\ Says("dequeuer", "QUEUED", "idle")
    <3>1. Ready = 0 BY <1>0, <2>0, <2>1 DEF Ready, Queuing, Dequeued
    <3>2. enqueues' = enqueues + 1 /\ pc'["dequeuer"] = "idle" BY <2>1 DEF Says
    <3>3. ~ Dequeued' BY <3>2 DEF Dequeued
    <3>4. Ready' \in {0, 1} BY DEF Ready
    <3>5. Executions + Ready' <= enqueues' /\ Executions + Ready' <= 1 + MaxRetries
      BY <1>0, <2>1, <3>1, <3>2, <3>4, SumBounds
    <3> QED BY <1>0, <2>0, <2>a, <3>3, <3>5 DEF QueuedOnce
  <2>2. CASE ~ (/\ pc["dequeuer"] \in {"unreachable", "broken"} /\ enqueues - 1 < MaxRetries
                /\ Says("dequeuer", "QUEUED", "idle"))
    <3>1. \/ pc'["dequeuer"] \in {"picked", "idle"} /\ ~ Queuing("dequeuer")'
          \/ /\ status = "QUEUED" /\ pc'["dequeuer"] = "launch" /\ report'["dequeuer"] # None
             /\ ~ Queuing("dequeuer")'
          \/ /\ pc["dequeuer"] \in {"launch", "start"} /\ pc'["dequeuer"] \in {"unreachable", "broken"}
             /\ ~ Queuing("dequeuer")'
      BY <1>2, <2>2, SaysRecorded DEF DequeuerSteps, Moves, Queuing
    <3>a. \A to, label : Says("dequeuer", to, label) /\ to # "QUEUED" => enqueues' = enqueues BY DEF Says
    <3>b. \A label : Moves("dequeuer", label) => enqueues' = enqueues BY DEF Moves
    <3>2. enqueues' = enqueues BY <1>2, <2>2, <3>a, <3>b DEF DequeuerSteps
    <3>3. Dequeued' => status' # "QUEUED" BY <1>0, <2>0, <3>1 DEF Dequeued
    <3>4. Ready' = 1 => Ready = 1 BY <2>0, <3>1 DEF Ready
    <3> QED BY <1>0, <1>q, <2>0, <2>a, <3>2, <3>3, <3>4
  <2> QED BY <2>1, <2>2
<1>3. CASE MonitorSteps BY <1>3, <1>o, MonitorBrief, OthersCreateNothing
<1>4. ASSUME NEW u \in Clients, ClientSteps(u) PROVE QueuedOnce'
  <2>1. Own(u) /\ enqueues' = enqueues BY <1>4 DEF ClientSteps, Moves, Says
  <2> QED BY <1>4, <1>o, <2>1, OthersCreateNothing
<1>5. ASSUME NEW c \in Containers, WorkerSteps(c) PROVE QueuedOnce'
  <2>1. Own(c) /\ enqueues' = enqueues BY <1>5 DEF WorkerSteps, Moves, Says, Finished
  <2> QED BY <1>5, <1>o, <2>1, OthersCreateNothing
<1>6. CASE CreateSteps("dequeuer")
  <2>1. Ready = 1 BY <1>6 DEF CreateSteps, Ready
  <2>2. /\ pc["dequeuer"] = "launch" /\ report["dequeuer"] = None /\ pc'["dequeuer"] = "start"
        /\ status' = status /\ enqueues' = enqueues
        /\ report'["dequeuer"] # None /\ report'["dequeuer"].to = Same
        /\ report'["submitter"] = report["submitter"]
    BY <1>6 DEF CreateSteps
  <2>3. status' # "QUEUED" BY <1>0, <2>2 DEF Dequeued
  <2>4. Ready' = 0 BY <2>2, <2>3 DEF Ready, Queuing, Same
  <2>5. Executions' = Executions + 1 BY <1>6, CreateCounts DEF Daemon
  <2>6. ~ Queuing("submitter")' BY <1>0, <2>2 DEF Queuing
  <2>7. Executions' + Ready' <= enqueues' /\ Executions' + Ready' <= 1 + MaxRetries
    BY <1>0, <2>1, <2>2, <2>4, <2>5, SumBounds
  <2> QED BY <1>0, <2>2, <2>3, <2>6, <2>7 DEF QueuedOnce
<1>7. CASE CreateSteps("monitor")
  <2>1. Executions' = Executions BY <1>7, CreateCounts DEF Daemon
  <2>2. /\ pc'["dequeuer"] = pc["dequeuer"] /\ report'["dequeuer"] = report["dequeuer"]
        /\ report'["submitter"] = report["submitter"] /\ status' = status /\ enqueues' = enqueues
    BY <1>7 DEF CreateSteps
  <2>3. /\ Queuing("submitter")' = Queuing("submitter") /\ Ready' = Ready /\ Dequeued' = Dequeued
    BY <2>2 DEF Queuing, Ready, Dequeued
  <2> QED BY <1>0, <1>q, <2>1, <2>2, <2>3
<1>8. CASE StartSteps("dequeuer")
  <2>1. /\ pc["dequeuer"] = "start" /\ pc'["dequeuer"] \in {"idle", "unreachable", "broken"}
        /\ status' = status /\ enqueues' = enqueues /\ report' = report
    BY <1>8 DEF StartSteps
  <2>2. /\ Queuing("submitter")' = Queuing("submitter") /\ Queuing("dequeuer")' = Queuing("dequeuer")
    BY <2>1 DEF Queuing
  <2>3. status' # "QUEUED" /\ (Ready' = 1 => Ready = 1) BY <1>0, <2>1, <2>2 DEF Dequeued, Ready
  <2>4. Executions' = Executions BY <1>8, OthersCreateNothing DEF Daemon
  <2> QED BY <1>0, <1>q, <2>1, <2>2, <2>3, <2>4
<1>9. CASE StartSteps("monitor")
  <2>1. /\ pc'["dequeuer"] = pc["dequeuer"] /\ status' = status /\ enqueues' = enqueues /\ report' = report
    BY <1>9 DEF StartSteps, PlacesOK, Daemon
  <2>2. /\ Queuing("submitter")' = Queuing("submitter") /\ Queuing("dequeuer")' = Queuing("dequeuer")
    BY <2>1 DEF Queuing
  <2>3. Dequeued' = Dequeued /\ Ready' = Ready BY <2>1, <2>2 DEF Dequeued, Ready
  <2>4. Executions' = Executions BY <1>9, OthersCreateNothing DEF Daemon
  <2> QED BY <1>0, <1>q, <2>1, <2>2, <2>3, <2>4
<1>10. ASSUME NEW a \in Actors, WriteSteps(a) PROVE QueuedOnce'
  <2>1. /\ pc' = pc /\ enqueues' = enqueues /\ report[a] # None /\ report'[a] = None
        /\ \A b \in Actors \ {a} : report'[b] = report[b]
        /\ status' = (IF report[a].to = Same THEN status ELSE report[a].to)
    BY <1>10 DEF WriteSteps
  <2>2. Executions' = Executions BY <1>10, OthersCreateNothing
  <2>3. ~ Queuing("submitter")' BY <1>0, <2>1 DEF Queuing
  <2>4. CASE a = "dequeuer"
    <3>1. report[a].to \in {"STARTING", Same, "QUEUED", "FAILURE"}
      BY <2>1, <2>4 DEF PlacesOK, WritesOf
    <3>2. /\ report[a].to = "STARTING" => pc["dequeuer"] = "launch"
          /\ report[a].to = Same => pc["dequeuer"] = "start"
          /\ report[a].to \in {"QUEUED", "FAILURE"} => pc["dequeuer"] = "idle"
      BY <2>1, <2>4 DEF PlacesOK, Same
    <3>3. Dequeued' => status' # "QUEUED"
      BY <1>0, <2>1, <2>4, <3>1, <3>2 DEF Dequeued, Same
    <3>4. Ready' = 1 => Ready = 1 BY <2>1, <2>4, <3>1, <3>2 DEF Ready, Queuing, Same
    <3>5. status' # "NOT_STARTED" BY <1>0, <2>1, <3>1
    <3> QED BY <1>0, <1>q, <2>1, <2>2, <2>3, <3>3, <3>4, <3>5
  <2>5. CASE a # "dequeuer"
    <3>1. report[a].to \notin {"QUEUED", "NOT_STARTED"}
      BY <1>0, <2>1, <2>5 DEF PlacesOK, WritesOf, Queuing, Same, Finished
    <3>2. Queuing("dequeuer")' = Queuing("dequeuer") /\ report'["dequeuer"] = report["dequeuer"]
      BY <2>1, <2>5 DEF Queuing
    <3>3. status' # "NOT_STARTED" /\ (status' = "QUEUED" => status = "QUEUED") BY <1>0, <2>1, <3>1
    <3>4. Dequeued' => status' # "QUEUED" BY <1>0, <2>1, <3>2, <3>3 DEF Dequeued
    <3>5. Ready' = 1 => Ready = 1 BY <2>1, <3>2, <3>3 DEF Ready
    <3> QED BY <1>0, <1>q, <2>1, <2>2, <2>3, <3>3, <3>4, <3>5
  <2> QED BY <2>4, <2>5
<1>11. CASE CrashSteps
  <2>1. /\ status' = status /\ enqueues' = enqueues
        /\ report'["submitter"] \in {None, report["submitter"]}
        /\ \/ pc'["dequeuer"] = pc["dequeuer"] /\ report'["dequeuer"] = report["dequeuer"]
           \/ pc'["dequeuer"] = "idle" /\ report'["dequeuer"] = None
    BY <1>11 DEF CrashSteps, Daemon
  <2>2. ~ Queuing("submitter")' /\ (Queuing("dequeuer")' => Queuing("dequeuer"))
    BY <1>0, <2>1 DEF Queuing
  <2>3. (Dequeued' => Dequeued) /\ (Ready' = 1 => Ready = 1) BY <2>1, <2>2 DEF Dequeued, Ready
  <2> QED BY <1>0, <1>11, <1>q, <2>1, <2>2, <2>3, OthersCreateNothing
<1>12. CASE EvictSteps
  <2>1. /\ status' = status /\ enqueues' = enqueues /\ report' = report /\ pc' = pc
    BY <1>12 DEF EvictSteps
  <2>2. /\ Queuing("submitter")' = Queuing("submitter") /\ Ready' = Ready /\ Dequeued' = Dequeued
    BY <2>1 DEF Queuing, Ready, Dequeued
  <2> QED BY <1>0, <1>12, <1>q, <2>1, <2>2, OthersCreateNothing
<1> QED BY <1>1, <1>2, <1>3, <1>4, <1>5, <1>6, <1>7, <1>8, <1>9, <1>10, <1>11, <1>12, NextDoes DEF Daemon

LEMMA NotQueuedYetStep ==
  ASSUME TypeOK, PlacesOK, NotQueuedYet, Next
  PROVE  NotQueuedYet' \/ QueuedOnce'
<1> USE ActorsDiffer
<1>0. /\ status \in {"NOT_STARTED", "FAILURE", "CANCELED"} /\ \A c \in Containers : pc[c] = "none"
      /\ pc["dequeuer"] = "idle" /\ report["dequeuer"] = None
      /\ pc["monitor"] \in {"idle", "starting"}
      /\ report["monitor"] # None => report["monitor"].to = "FAILURE"
      /\ \A u \in Clients : pc[u] \in {"idle", "force"} /\ (report[u] # None => report[u].to = "CANCELED")
      /\ Queuing("submitter") => enqueues >= 1
      /\ \A c \in Containers : report[c] = None
      /\ Created = {} /\ enqueues \in Nat
  BY DEF NotQueuedYet, Created, PlacesOK, TypeOK
<1>1. CASE SubmitterSteps
  <2>1. Own("submitter") /\ (Queuing("submitter")' => enqueues' = enqueues + 1)
    BY <1>1 DEF SubmitterSteps, Moves, Says, Queuing
  <2>2. Queuing("submitter")' => enqueues' >= 1 BY <1>0, <2>1
  <2> QED BY <1>0, <1>1, <2>1, <2>2, OthersCreateNothing DEF NotQueuedYet, Own
<1>2. ~ DequeuerSteps BY <1>0 DEF DequeuerSteps
<1>3. CASE MonitorSteps
  <2>1. /\ pc'["monitor"] \in {"idle", "starting"}
        /\ report'["monitor"] # None => report'["monitor"].to = "FAILURE"
    <3>1. \/ Moves("monitor", "starting") \/ Moves("monitor", "idle")
          \/ Says("monitor", "FAILURE", "idle")
      BY <1>0, <1>3 DEF MonitorSteps, OtherMonitorSteps
    <3> QED BY <3>1, SaysRecorded DEF Moves
  <2>2. Own("monitor") /\ enqueues' = enqueues BY <1>3, MonitorBrief
  <2>3. Queuing("submitter")' = Queuing("submitter") BY <2>2 DEF Own, Queuing
  <2> QED BY <1>0, <1>3, <2>1, <2>2, <2>3, OthersCreateNothing DEF NotQueuedYet, Own
<1>4. ASSUME NEW u \in Clients, ClientSteps(u) PROVE NotQueuedYet'
  <2>1. \/ Moves(u, "force") \/ Moves(u, "idle") \/ Says(u, "CANCELED", "idle")
    BY <1>0, <1>4 DEF ClientSteps, Cancelable
  <2>2. /\ pc'[u] \in {"idle", "force"} /\ (report'[u] # None => report'[u].to = "CANCELED")
        /\ Own(u) /\ enqueues' = enqueues
    BY <2>1 DEF Moves, Says
  <2>3. Queuing("submitter")' = Queuing("submitter") BY <2>2 DEF Own, Queuing
  <2> QED BY <1>0, <1>4, <2>2, <2>3, OthersCreateNothing DEF NotQueuedYet, Own
<1>5. ASSUME NEW c \in Containers PROVE ~ WorkerSteps(c) BY <1>0 DEF WorkerSteps, Live, Down
<1>6. ASSUME NEW a \in Daemon PROVE ~ CreateSteps(a) /\ ~ StartSteps(a)
  BY <1>0 DEF CreateSteps, StartSteps, Daemon
<1>7. ASSUME NEW a \in Actors, WriteSteps(a) PROVE NotQueuedYet' \/ QueuedOnce'
  <2>1. /\ pc' = pc /\ enqueues' = enqueues /\ report[a] # None /\ report'[a] = None
        /\ \A b \in Actors \ {a} : report'[b] = report[b]
        /\ status' = (IF report[a].to = Same THEN status ELSE report[a].to)
    BY <1>7 DEF WriteSteps
  <2>2. Created' = {} /\ Executions' = Executions BY <1>0, <1>7, OthersCreateNothing
  <2>3. a \notin Containers /\ a # "dequeuer" BY <1>0, <2>1
  <2>4. CASE Queuing("submitter") /\ a = "submitter"
    <3>1. status' = "QUEUED" /\ ~ Queuing("submitter")' /\ enqueues' >= 1
      BY <1>0, <2>1, <2>4 DEF Queuing, Same
    <3>2. ~ Dequeued' BY <1>0, <2>1 DEF Dequeued
    <3>3. Executions = 0
      <4>1. Of("execute") = {} BY <1>0 DEF Of
      <4> QED BY <4>1, FS_EmptySet DEF Executions
    <3>4. Ready' = 1 BY <3>1 DEF Ready
    <3>5. Executions' + Ready' <= enqueues' /\ Executions' + Ready' <= 1 + MaxRetries
      BY <1>0, <2>1, <2>2, <3>1, <3>3, <3>4, BoundsAssumption
    <3> QED BY <3>1, <3>2, <3>5 DEF QueuedOnce
  <2>5. CASE ~ (Queuing("submitter") /\ a = "submitter")
    <3>1. report[a].to \in {"FAILURE", "CANCELED"}
      BY <1>0, <2>1, <2>3, <2>5 DEF PlacesOK, WritesOf, Queuing, Actors, Daemon
    <3>2. Queuing("submitter")' => Queuing("submitter") BY <2>1 DEF Queuing
    <3>3. status' \in {"FAILURE", "CANCELED"} BY <2>1, <3>1 DEF Same
    <3> QED BY <1>0, <2>1, <2>2, <2>3, <3>2, <3>3 DEF NotQueuedYet
  <2> QED BY <2>4, <2>5
<1>8. CASE CrashSteps
  <2>1. \A a \in Actors : \/ pc'[a] = pc[a] /\ report'[a] = report[a]
                          \/ report'[a] = None /\ (a \notin Containers => pc'[a] = "idle")
    BY <1>8 DEF CrashSteps
  <2>2. Queuing("submitter")' => Queuing("submitter") BY <2>1 DEF Queuing
  <2>3. status' = status /\ enqueues' = enqueues BY <1>8 DEF CrashSteps
  <2>4. Created' = {} BY <1>0, <1>8, OthersCreateNothing
  <2> QED BY <1>0, <2>1, <2>2, <2>3, <2>4 DEF NotQueuedYet
<1>9. CASE EvictSteps
  <2>1. status' = status /\ enqueues' = enqueues /\ pc' = pc /\ report' = report BY <1>9 DEF EvictSteps
  <2>2. Queuing("submitter")' = Queuing("submitter") BY <2>1 DEF Queuing
  <2>3. Created' = {} BY <1>0, <1>9, OthersCreateNothing
  <2> QED BY <1>0, <2>1, <2>2, <2>3 DEF NotQueuedYet
<1> QED BY <1>1, <1>2, <1>3, <1>4, <1>5, <1>6, <1>7, <1>8, <1>9, NextDoes

LEMMA ResumptionsStep ==
  ASSUME TypeOK, PlacesOK, Resumptions + Counted <= resumes, Next
  PROVE  (Resumptions + Counted <= resumes)'
<1> USE ActorsDiffer
<1>0. Resumptions \in Nat /\ Counted \in {0, 1} /\ Counted' \in {0, 1} /\ resumes \in Nat
  BY CreatedFinite, BoundsAssumption DEF TypeOK, Counted
<1>1. ASSUME Resumptions' = Resumptions, resumes' = resumes,
             pc'["monitor"] = "launch" => pc["monitor"] = "launch"
      PROVE  Resumptions' + Counted' <= resumes'
  <2>1. Counted' <= Counted BY <1>0, <1>1 DEF Counted
  <2>2. \A r, c, cc, n \in Nat : r + c <= n /\ cc <= c => r + cc <= n OBVIOUS
  <2>3. Counted \in Nat /\ Counted' \in Nat BY <1>0
  <2>4. Resumptions + Counted' <= resumes BY <1>0, <2>1, <2>2, <2>3
  <2> QED BY <1>1, <2>4
<1>2. CASE SubmitterSteps
  BY <1>1, <1>2, OthersCreateNothing DEF SubmitterSteps, Moves, Says, Own
<1>3. CASE DequeuerSteps
  <2>1. Own("dequeuer") BY <1>3 DEF DequeuerSteps, Moves, Says
  <2> QED BY <1>1, <1>3, <2>1, OthersCreateNothing DEF DequeuerSteps, Own
<1>4. CASE MonitorSteps
  <2>1. CASE pc["monitor"] = "resume" /\ pc'["monitor"] = "launch" /\ resumes' = resumes + 1
    <3>1. Counted = 0 /\ Counted' = 1 BY <2>1 DEF Counted
    <3> QED BY <1>0, <1>4, <2>1, <3>1, OthersCreateNothing
  <2>2. CASE pc'["monitor"] # "launch" /\ resumes' = resumes
    BY <1>1, <1>4, <2>2, OthersCreateNothing
  <2> QED BY <1>4, <2>1, <2>2, MonitorBrief DEF MonitorSteps, Moves
<1>5. ASSUME NEW u \in Clients, ClientSteps(u) PROVE Resumptions' + Counted' <= resumes'
  <2>1. Own(u) BY <1>5 DEF ClientSteps, Moves, Says
  <2> QED BY <1>1, <1>5, <2>1, OthersCreateNothing DEF ClientSteps, Own
<1>6. ASSUME NEW c \in Containers, WorkerSteps(c) PROVE Resumptions' + Counted' <= resumes'
  <2>1. Own(c) BY <1>6 DEF WorkerSteps, Moves, Says
  <2> QED BY <1>1, <1>6, <2>1, OthersCreateNothing DEF WorkerSteps, Own
<1>7. CASE CreateSteps("monitor")
  <2>1. Resumptions' = Resumptions + 1 BY <1>7, CreateCounts DEF Daemon
  <2>2. pc["monitor"] = "launch" /\ pc'["monitor"] = "start" /\ resumes' = resumes
    BY <1>7 DEF CreateSteps
  <2>3. Counted = 1 /\ Counted' = 0 BY <2>2 DEF Counted
  <2> QED BY <1>0, <2>1, <2>2, <2>3
<1>8. CASE CreateSteps("dequeuer")
  <2>1. Resumptions' = Resumptions BY <1>8, CreateCounts DEF Daemon
  <2> QED BY <1>1, <1>8, <2>1 DEF CreateSteps
<1>9. ASSUME NEW a \in Daemon, StartSteps(a) PROVE Resumptions' + Counted' <= resumes'
  BY <1>1, <1>9, OthersCreateNothing DEF StartSteps, PlacesOK, Daemon
<1>10. ASSUME NEW a \in Actors, WriteSteps(a) PROVE Resumptions' + Counted' <= resumes'
  BY <1>1, <1>10, OthersCreateNothing DEF WriteSteps
<1>11. CASE CrashSteps
  <2>1. pc'["monitor"] \in {"idle", pc["monitor"]} BY <1>11 DEF CrashSteps
  <2> QED BY <1>1, <1>11, <2>1, OthersCreateNothing DEF CrashSteps
<1>12. CASE EvictSteps BY <1>1, <1>12, OthersCreateNothing DEF EvictSteps
<1> QED BY <1>2, <1>3, <1>4, <1>5, <1>6, <1>7, <1>8, <1>9, <1>10, <1>11, <1>12, NextDoes DEF Daemon

LEMMA InitLaunch == Init => LaunchInv
<1> SUFFICES ASSUME Init PROVE LaunchInv OBVIOUS
<1> USE ActorsDiffer
<1>1. Created = {} BY DEF Init, Created
<1>2. NotQueuedYet BY <1>1 DEF Init, NotQueuedYet, Queuing
<1>3. Of("resume") = {} BY <1>1 DEF Of
<1>4. Resumptions = 0 BY <1>3, FS_EmptySet DEF Resumptions
<1>5. Counted = 0 /\ resumes = 0 BY DEF Init, Counted
<1> QED BY <1>2, <1>4, <1>5 DEF LaunchInv

LEMMA LaunchInvHolds == Spec => [](TypeOK /\ PlacesOK /\ LaunchInv)
<1>1. TypeOK /\ PlacesOK /\ LaunchInv /\ [Next]_vars => LaunchInv'
  <2> SUFFICES ASSUME TypeOK, PlacesOK, LaunchInv, [Next]_vars PROVE LaunchInv' OBVIOUS
  <2>1. CASE Next BY <2>1, QueuedStep, NotQueuedYetStep, ResumptionsStep DEF LaunchInv
  <2>2. CASE UNCHANGED vars
    <3>1. Created' = Created /\ Executions' = Executions /\ Resumptions' = Resumptions
      BY <2>2, Unchanged, CountsStay
    <3>2. /\ Queuing("submitter")' = Queuing("submitter") /\ Ready' = Ready /\ Dequeued' = Dequeued
          /\ Counted' = Counted
      BY <2>2, Unchanged DEF Queuing, Ready, Dequeued, Counted
    <3> QED BY <2>2, <3>1, <3>2, Unchanged DEF LaunchInv, NotQueuedYet, QueuedOnce
  <2> QED BY <2>1, <2>2
<1> QED BY <1>1, InitLaunch, TypeCorrect, PTL DEF Spec

\* The run is launched at most once, plus once for each retry and each resume that is configured,
\* for any number of crashes: what the dequeuer launches has been enqueued for it, what the
\* monitor launches has been counted, and both counters are read before they are exceeded.
THEOREM LaunchesBounded == Spec => []LaunchesAreBounded
<1>1. TypeOK /\ LaunchInv => LaunchesAreBounded
  <2> SUFFICES ASSUME TypeOK, LaunchInv PROVE LaunchesAreBounded OBVIOUS
  <2>1. /\ Executions \in Nat /\ Resumptions \in Nat /\ Ready \in Nat /\ Counted \in Nat
        /\ resumes \in Nat /\ MaxResumes \in Nat /\ MaxRetries \in Nat /\ resumes <= MaxResumes
    BY CreatedFinite, BoundsAssumption DEF TypeOK
  <2>2. Resumptions <= MaxResumes
    <3>1. Resumptions + Counted <= resumes BY DEF LaunchInv
    <3> QED BY <2>1, <3>1
  <2>3. Executions <= 1 + MaxRetries
    <3>1. CASE QueuedOnce
      <4>1. Executions + Ready <= 1 + MaxRetries BY <3>1 DEF QueuedOnce
      <4> QED BY <2>1, <4>1
    <3>2. CASE NotQueuedYet
      <4>1. Of("execute") = {} BY <3>2 DEF NotQueuedYet, Of
      <4>2. Executions = 0 BY <4>1, FS_EmptySet DEF Executions
      <4> QED BY <2>1, <4>2
    <3> QED BY <3>1, <3>2 DEF LaunchInv
  <2>4. Created = Of("execute") \cup Of("resume") BY DEF Created, Of, TypeOK
  <2>5. Cardinality(Created) <= Executions + Resumptions
    <3>1. /\ IsFiniteSet(Of("execute") \cap Of("resume"))
          /\ Cardinality(Of("execute") \cap Of("resume")) \in Nat
      BY CreatedFinite, FS_Subset, FS_CardinalityType
    <3>2. Cardinality(Of("execute") \cup Of("resume"))
            = Executions + Resumptions - Cardinality(Of("execute") \cap Of("resume"))
      BY CreatedFinite, FS_Union DEF Executions, Resumptions
    <3> QED BY <2>1, <2>4, <3>1, <3>2
  <2>6. Cardinality(Created) \in Nat
    BY <2>4, CreatedFinite, FS_Union, FS_CardinalityType
  <2>7. Cardinality(Created) <= 1 + MaxRetries + MaxResumes BY <2>1, <2>2, <2>3, <2>5, <2>6
  <2> QED BY <2>7 DEF LaunchesAreBounded, Created
<1> QED BY <1>1, LaunchInvHolds, PTL

(***************************************************************************)
(* Two workers never execute the run at once.                              *)
(***************************************************************************)

Begun(c)  == pc[c] \notin {"none", "created"}
Executed  == \E c \in Containers : Begun(c) /\ command[c] = "execute"
Past      == status \notin {"NOT_STARTED", "QUEUED", "STARTING"}

\* The dequeuer is done with the run once one of its containers has been started.
DequeuerDone ==
  /\ pc["dequeuer"] \in {"idle", "picked"} /\ report["dequeuer"] = None
  /\ status \notin {"QUEUED", "NOT_STARTED"}

\* A worker has begun to execute the run, and the monitor has seen that or acted upon it.
Starting == status = "STARTED" \/ \E a \in Actors : report[a] # None /\ report[a].to = "STARTED"
Watched  == \/ pc["monitor"] \in {"started", "recheck", "resume", "launch", "start"}
            \/ \E c \in Containers : pc[c] # "none" /\ command[c] = "resume"

\* The worker in this container will not execute the run: it does not, and if it reads the run
\* again it finds that it has been started already.
Harmless(c) ==
  /\ pc[c] \notin {"init", "running"}
  /\ command[c] = "execute" => Past
  /\ command[c] = "resume" => pc[c] \notin {"boot", "check"}

\* The monitor replaces the worker that it has found dead.
Replacing == \/ pc["monitor"] \in {"recheck", "resume", "launch"}
             \/ pc["monitor"] = "start" /\ report["monitor"] # None
Replaced  == \A c \in Containers : c = tag => ~ Begun(c) \/ Harmless(c)

\* Only the worker in the container that the row names may execute the run, and the row is given
\* another name only by a launch: the dequeuer's, before any worker has begun, or the monitor's,
\* after the named worker has ended.
Named ==
  /\ Executed => DequeuerDone
  /\ Starting \/ Watched => Executed
  /\ Watched => Past
  /\ \A a \in Daemon : At(a, "start") => tag = target[a]
  /\ pc["monitor"] = "started" => target["monitor"] = tag
  /\ \A c \in Containers : Begun(c) /\ c # tag => Harmless(c)
  /\ Replacing => Replaced

WorkerInv == excused \/ Named

LEMMA MonitorLooks ==
  ASSUME MonitorSteps
  PROVE  /\ pc'["monitor"] = "started" => status = "STARTED" /\ target'["monitor"] = tag
         /\ pc'["monitor"] = "recheck" => pc["monitor"] = "started" /\ ~ Running(target["monitor"])
         /\ pc'["monitor"] = "resume" => pc["monitor"] = "recheck"
         /\ pc'["monitor"] = "launch" => pc["monitor"] = "resume"
         /\ pc'["monitor"] # "start"
<1>1. \A label : Moves("monitor", label) => pc'["monitor"] = label BY DEF Moves
<1>2. \A to, label : Says("monitor", to, label) => pc'["monitor"] = label BY DEF Says
<1>3. CASE OtherMonitorSteps BY <1>1, <1>2, <1>3 DEF OtherMonitorSteps
<1> QED BY <1>1, <1>2, <1>3 DEF MonitorSteps

\* Whatever happens, who has begun has begun, and only the daemon's Start makes others begin.
LEMMA BegunStep ==
  ASSUME TypeOK, PlacesOK, Next, NEW c \in Containers
  PROVE  /\ Begun(c) => Begun(c)' /\ command'[c] = command[c]
         /\ Begun(c)' => Begun(c) \/ \E a \in Daemon : StartSteps(a) /\ c = target[a]
         /\ command'[c] = command[c] \/ \E a \in Daemon : CreateSteps(a) /\ command'[c] = Commanded(a)
         /\ pc'[c] # "none" => pc[c] # "none" \/ \E a \in Daemon : CreateSteps(a) /\ command'[c] = Commanded(a)
<1> USE ActorsDiffer
<1>a. ASSUME command'[c] = command[c], pc'[c] = pc[c] \/ (Begun(c) /\ Begun(c)')
      PROVE  /\ Begun(c) <=> Begun(c)' 
             /\ pc'[c] # "none" => pc[c] # "none"
  BY <1>a DEF Begun
<1>o. ASSUME NEW a \in Actors, a # c, Own(a)
      PROVE  command'[c] = command[c] /\ pc'[c] = pc[c]
  BY <1>o DEF Own
<1>1. CASE SubmitterSteps
  <2>1. Own("submitter") BY <1>1 DEF SubmitterSteps, Moves, Says
  <2> QED BY <1>a, <1>o, <2>1
<1>2. CASE DequeuerSteps
  <2>1. Own("dequeuer") BY <1>2 DEF DequeuerSteps, Moves, Says
  <2> QED BY <1>a, <1>o, <2>1
<1>3. CASE MonitorSteps BY <1>a, <1>3, <1>o, MonitorBrief
<1>4. CASE \E u \in Clients : ClientSteps(u)
  <2>1. PICK u \in Clients : ClientSteps(u) BY <1>4
  <2>2. Own(u) BY <2>1 DEF ClientSteps, Moves, Says
  <2> QED BY <1>a, <1>o, <2>2
<1>5. CASE \E d \in Containers : WorkerSteps(d)
  <2>1. PICK d \in Containers : WorkerSteps(d) BY <1>5
  <2>2. Own(d) BY <2>1 DEF WorkerSteps, Moves, Says
  <2>3. pc[d] \notin {"none", "created"} BY <2>1 DEF WorkerSteps, Live, Down, PlacesOK
  <2>4. pc'[d] \notin {"none", "created"} BY <2>1 DEF WorkerSteps, Moves, Says
  <2>5. command'[d] = command[d] BY <2>2 DEF Own
  <2> QED BY <1>a, <1>o, <2>2, <2>3, <2>4, <2>5 DEF Begun
<1>6. CASE \E a \in Daemon : CreateSteps(a)
  BY <1>6 DEF CreateSteps, Begun, Daemon
<1>7. CASE \E a \in Daemon : StartSteps(a)
  BY <1>7 DEF StartSteps, PlacesOK, Begun, Daemon
<1>8. CASE \E a \in Actors : WriteSteps(a) BY <1>8, <1>a DEF WriteSteps
<1>9. CASE CrashSteps
  <2>1. pc'[c] = pc[c] \/ (Begun(c) /\ pc'[c] = "dead")
    BY <1>9 DEF CrashSteps, Live, Down, PlacesOK, Begun
  <2> QED BY <1>9, <1>a, <2>1 DEF CrashSteps, Begun
<1>10. CASE EvictSteps BY <1>10, <1>a DEF EvictSteps
<1> QED BY <1>1, <1>2, <1>3, <1>4, <1>5, <1>6, <1>7, <1>8, <1>9, <1>10, NextDoes

LEMMA ExecutedStep ==
  ASSUME TypeOK, PlacesOK, QueuedOnce, Executed, DequeuerDone, Next
  PROVE  DequeuerDone' /\ (Past => Past')
<1> USE ActorsDiffer
<1>0. /\ pc["dequeuer"] \in {"idle", "picked"} /\ report["dequeuer"] = None
      /\ status \notin {"QUEUED", "NOT_STARTED"}
  BY DEF DequeuerDone
<1>o. ASSUME NEW a \in Actors \ {"dequeuer"}, Own(a) PROVE DequeuerDone' /\ (Past => Past')
  BY <1>o DEF Own, DequeuerDone, Past
<1>1. CASE SubmitterSteps
  <2>1. Own("submitter") BY <1>1 DEF SubmitterSteps, Moves, Says
  <2> QED BY <1>o, <2>1
<1>2. CASE DequeuerSteps
  <2>1. Moves("dequeuer", "idle") BY <1>0, <1>2 DEF DequeuerSteps
  <2> QED BY <1>0, <2>1 DEF Moves, Own, DequeuerDone, Past
<1>3. CASE MonitorSteps BY <1>3, <1>o, MonitorBrief
<1>4. CASE \E u \in Clients : ClientSteps(u)
  <2>1. PICK u \in Clients : ClientSteps(u) BY <1>4
  <2>2. Own(u) BY <2>1 DEF ClientSteps, Moves, Says
  <2> QED BY <1>o, <2>2
<1>5. CASE \E d \in Containers : WorkerSteps(d)
  <2>1. PICK d \in Containers : WorkerSteps(d) BY <1>5
  <2>2. Own(d) BY <2>1 DEF WorkerSteps, Moves, Says
  <2> QED BY <1>o, <2>2
<1>6. ASSUME NEW a \in Daemon, CreateSteps(a) PROVE DequeuerDone' /\ (Past => Past')
  BY <1>0, <1>6 DEF CreateSteps, DequeuerDone, Past, Daemon
<1>7. ASSUME NEW a \in Daemon, StartSteps(a) PROVE DequeuerDone' /\ (Past => Past')
  BY <1>0, <1>7 DEF StartSteps, PlacesOK, DequeuerDone, Past, Daemon
<1>8. ASSUME NEW a \in Actors, WriteSteps(a) PROVE DequeuerDone' /\ (Past => Past')
  <2>1. a # "dequeuer" /\ report[a].to \in WritesOf(a) BY <1>0, <1>8 DEF WriteSteps, PlacesOK
  <2>2. ~ (a = "submitter" /\ report[a].to = "QUEUED")
    BY <1>8 DEF WriteSteps, QueuedOnce, Queuing
  <2>3. report[a].to \notin {"QUEUED", "NOT_STARTED", "STARTING"}
    BY <2>1, <2>2 DEF WritesOf, Same, Finished
  <2>4. status' = status \/ status' \notin {"QUEUED", "NOT_STARTED", "STARTING"}
    BY <1>8, <2>3 DEF WriteSteps
  <2>5. report'["dequeuer"] = None /\ pc' = pc BY <1>0, <1>8, <2>1 DEF WriteSteps
  <2> QED BY <1>0, <2>4, <2>5 DEF DequeuerDone, Past
<1>9. CASE CrashSteps
  <2>1. pc'["dequeuer"] \in {"idle", "picked"} /\ report'["dequeuer"] = None
    BY <1>0, <1>9 DEF CrashSteps
  <2> QED BY <1>0, <1>9, <2>1 DEF CrashSteps, DequeuerDone, Past
<1>10. CASE EvictSteps BY <1>0, <1>10 DEF EvictSteps, DequeuerDone, Past
<1> QED BY <1>1, <1>2, <1>3, <1>4, <1>5, <1>6, <1>7, <1>8, <1>9, <1>10, NextDoes

\* Who takes a daemon's thread, or a worker, somewhere else.
LEMMA DaemonMoves ==
  ASSUME TypeOK, PlacesOK, Next, NEW a \in Daemon
  PROVE  \/ /\ pc'[a] = pc[a] /\ target'[a] = target[a]
            /\ report'[a] = report[a] \/ (report'[a] = None /\ WriteSteps(a))
         \/ a = "monitor" /\ MonitorSteps
         \/ a = "dequeuer" /\ DequeuerSteps
         \/ CreateSteps(a) \/ StartSteps(a)
         \/ pc'[a] = "idle" /\ report'[a] = None
<1> USE ActorsDiffer
<1>d. a \in Actors /\ a \notin Containers /\ a \notin Clients /\ a # "submitter" /\ a \in {"dequeuer", "monitor"}
  BY DEF Daemon
<1>o. ASSUME NEW b \in Actors, a # b, Own(b)
      PROVE  pc'[a] = pc[a] /\ target'[a] = target[a] /\ report'[a] = report[a]
  BY <1>o, <1>d DEF Own
<1>1. CASE SubmitterSteps
  <2>1. Own("submitter") BY <1>1 DEF SubmitterSteps, Moves, Says
  <2> QED BY <1>d, <1>o, <2>1
<1>2. CASE DequeuerSteps
  <2>1. Own("dequeuer") BY <1>2 DEF DequeuerSteps, Moves, Says
  <2> QED BY <1>2, <1>o, <2>1
<1>3. CASE MonitorSteps BY <1>3, <1>o, MonitorBrief
<1>4. CASE \E u \in Clients : ClientSteps(u)
  <2>1. PICK u \in Clients : ClientSteps(u) BY <1>4
  <2>2. Own(u) BY <2>1 DEF ClientSteps, Moves, Says
  <2> QED BY <1>d, <1>o, <2>2
<1>5. CASE \E d \in Containers : WorkerSteps(d)
  <2>1. PICK d \in Containers : WorkerSteps(d) BY <1>5
  <2>2. Own(d) BY <2>1 DEF WorkerSteps, Moves, Says
  <2> QED BY <1>d, <1>o, <2>2
<1>6. ASSUME NEW b \in Daemon, b # a, CreateSteps(b)
      PROVE  pc'[a] = pc[a] /\ target'[a] = target[a] /\ report'[a] = report[a]
  BY <1>6, <1>d DEF CreateSteps
<1>7. ASSUME NEW b \in Daemon, b # a, StartSteps(b)
      PROVE  pc'[a] = pc[a] /\ target'[a] = target[a] /\ report'[a] = report[a]
  BY <1>7, <1>d DEF StartSteps, PlacesOK
<1>8. ASSUME NEW b \in Actors, WriteSteps(b)
      PROVE  /\ pc'[a] = pc[a] /\ target'[a] = target[a]
             /\ report'[a] = report[a] \/ (report'[a] = None /\ WriteSteps(a))
  <2>1. pc' = pc /\ target' = target BY <1>8 DEF WriteSteps
  <2>2. CASE b = a BY <1>8, <2>1, <2>2 DEF WriteSteps
  <2>3. CASE b # a BY <1>8, <1>d, <2>1, <2>3 DEF WriteSteps
  <2> QED BY <2>2, <2>3
<1>9. CASE CrashSteps BY <1>9, <1>d DEF CrashSteps
<1>10. CASE EvictSteps BY <1>10 DEF EvictSteps
<1> QED BY <1>1, <1>2, <1>3, <1>4, <1>5, <1>6, <1>7, <1>8, <1>9, <1>10, NextDoes

LEMMA ContainerMoves ==
  ASSUME TypeOK, PlacesOK, Next, NEW c \in Containers, Begun(c)
  PROVE  pc'[c] = pc[c] \/ WorkerSteps(c) \/ pc'[c] = "dead"
<1> USE ActorsDiffer
<1>o. ASSUME NEW b \in Actors, c # b, Own(b) PROVE pc'[c] = pc[c]
  BY <1>o DEF Own
<1>1. CASE SubmitterSteps
  <2>1. Own("submitter") BY <1>1 DEF SubmitterSteps, Moves, Says
  <2> QED BY <1>o, <2>1
<1>2. CASE DequeuerSteps
  <2>1. Own("dequeuer") BY <1>2 DEF DequeuerSteps, Moves, Says
  <2> QED BY <1>o, <2>1
<1>3. CASE MonitorSteps BY <1>3, <1>o, MonitorBrief
<1>4. CASE \E u \in Clients : ClientSteps(u)
  <2>1. PICK u \in Clients : ClientSteps(u) BY <1>4
  <2>2. Own(u) BY <2>1 DEF ClientSteps, Moves, Says
  <2> QED BY <1>o, <2>2
<1>5. CASE \E d \in Containers : WorkerSteps(d)
  <2>1. PICK d \in Containers : WorkerSteps(d) BY <1>5
  <2>2. Own(d) BY <2>1 DEF WorkerSteps, Moves, Says
  <2> QED BY <1>o, <2>1, <2>2
<1>6. CASE \E b \in Daemon : CreateSteps(b) BY <1>6 DEF CreateSteps, Begun, Daemon
<1>7. CASE \E b \in Daemon : StartSteps(b) BY <1>7 DEF StartSteps, Begun, Daemon
<1>8. CASE \E a \in Actors : WriteSteps(a) BY <1>8 DEF WriteSteps
<1>9. CASE CrashSteps BY <1>9 DEF CrashSteps
<1>10. CASE EvictSteps BY <1>10 DEF EvictSteps
<1> QED BY <1>1, <1>2, <1>3, <1>4, <1>5, <1>6, <1>7, <1>8, <1>9, <1>10, NextDoes

LEMMA HarmlessStep ==
  ASSUME TypeOK, PlacesOK, Next, NEW c \in Containers, Begun(c), Harmless(c), ~ excused', Past => Past'
  PROVE  Harmless(c)'
<1>1. command'[c] = command[c] /\ command[c] \in {"execute", "resume"} BY BegunStep DEF TypeOK
<1>2. pc[c] \notin {"init", "running"} /\ (command[c] = "execute" => Past)
      /\ (command[c] = "resume" => pc[c] \notin {"boot", "check"})
  BY DEF Harmless
<1>3. CASE WorkerSteps(c)
  <2>1. command[c] = "execute" => ~ Expected(c) BY <1>2 DEF Expected, Past
  <2>2. \A label : Moves(c, label) => pc'[c] = label BY DEF Moves
  <2>3. \A to, label : Says(c, to, label) => pc'[c] = label BY DEF Says
  <2>4. /\ pc'[c] \notin {"init", "running"}
        /\ command[c] = "resume" => pc'[c] \notin {"boot", "check"}
    BY <1>1, <1>2, <1>3, <2>1, <2>2, <2>3 DEF WorkerSteps
  <2> QED BY <1>1, <1>2, <2>4 DEF Harmless
<1>4. CASE pc'[c] \in {pc[c], "dead"} BY <1>1, <1>2, <1>4 DEF Harmless
<1> QED BY <1>3, <1>4, ContainerMoves

LEMMA StartingStep ==
  ASSUME TypeOK, PlacesOK, Next, Starting'
  PROVE  Starting \/ Executed
<1> USE ActorsDiffer
<1>0. CASE \E a \in Actors : report'[a] # None /\ report'[a].to = "STARTED" /\ report'[a] # report[a]
  <2>1. PICK a \in Actors : report'[a] # None /\ report'[a].to = "STARTED" /\ report'[a] # report[a]
    BY <1>0
  <2>2. a \in Containers
    <3>1. report'[a].to \in WritesOf(a) BY <2>1, PlacesStep DEF PlacesOK
    <3> QED BY <2>1, <3>1 DEF WritesOf, Same, Actors, Daemon
  <2>3. WorkerSteps(a)
    <3>o. ASSUME NEW b \in Actors, a # b, Own(b) PROVE FALSE BY <2>1, <3>o DEF Own
    <3>1. ~ SubmitterSteps
      <4>1. SubmitterSteps => Own("submitter") BY DEF SubmitterSteps, Moves, Says
      <4> QED BY <2>2, <3>o, <4>1
    <3>2. ~ DequeuerSteps
      <4>1. DequeuerSteps => Own("dequeuer") BY DEF DequeuerSteps, Moves, Says
      <4> QED BY <2>2, <3>o, <4>1
    <3>3. ~ MonitorSteps BY <2>2, <3>o, MonitorBrief
    <3>4. \A u \in Clients : ~ ClientSteps(u)
      <4>1. \A u \in Clients : ClientSteps(u) => Own(u) BY DEF ClientSteps, Moves, Says
      <4> QED BY <2>2, <3>o, <4>1
    <3>5. \A c \in Containers : WorkerSteps(c) => Own(c) BY DEF WorkerSteps, Moves, Says
    <3>6. \A b \in Daemon : ~ CreateSteps(b) /\ ~ StartSteps(b)
      <4>1. \A b \in Daemon : b # a BY <2>2 DEF Daemon
      <4>2. \A b \in Daemon : ~ CreateSteps(b) BY <2>1, <2>2, <4>1 DEF CreateSteps
      <4>3. \A b \in Daemon : ~ StartSteps(b) BY <2>1 DEF StartSteps
      <4> QED BY <4>2, <4>3
    <3>7. \A b \in Actors : ~ WriteSteps(b) BY <2>1 DEF WriteSteps
    <3>8. ~ CrashSteps /\ ~ EvictSteps BY <2>1 DEF CrashSteps, EvictSteps
    <3> QED BY <3>1, <3>2, <3>3, <3>4, <3>5, <3>6, <3>7, <3>8, <3>o, NextDoes
  <2>4. pc[a] = "init" /\ command[a] = "execute"
    <3>1. \A label : ~ Moves(a, label) BY <2>1 DEF Moves
    <3>2. \A to, label : Says(a, to, label) => to = "STARTED" BY <2>1 DEF Says
    <3> QED BY <2>1, <2>3, <3>1, <3>2 DEF WorkerSteps, Finished
  <2> QED BY <2>2, <2>4 DEF Executed, Begun
<1>1. CASE status' = "STARTED" /\ status # "STARTED"
  <2>1. PICK a \in Actors : WriteSteps(a)
    <3>1. SubmitterSteps => Own("submitter") BY DEF SubmitterSteps, Moves, Says
    <3>2. DequeuerSteps => Own("dequeuer") BY DEF DequeuerSteps, Moves, Says
    <3>3. \A u \in Clients : ClientSteps(u) => Own(u) BY DEF ClientSteps, Moves, Says
    <3>4. \A c \in Containers : WorkerSteps(c) => Own(c) BY DEF WorkerSteps, Moves, Says
    <3>5. \A a : ~ Own(a) /\ ~ CreateSteps(a) /\ ~ StartSteps(a)
      BY <1>1 DEF Own, CreateSteps, StartSteps
    <3>6. ~ CrashSteps /\ ~ EvictSteps BY <1>1 DEF CrashSteps, EvictSteps
    <3> QED BY <3>1, <3>2, <3>3, <3>4, <3>5, <3>6, MonitorBrief, NextDoes
  <2>2. report[a] # None /\ report[a].to = "STARTED" BY <1>1, <2>1 DEF WriteSteps
  <2> QED BY <2>2 DEF Starting
<1> QED BY <1>0, <1>1 DEF Starting

\* The monitor gets to where it deals with a worker only from where it has seen the run started.
LEMMA WatchedStep ==
  ASSUME TypeOK, PlacesOK, Next
  PROVE  /\ Watched' => Watched \/ status = "STARTED"
         /\ Replacing' => Replacing \/ (pc["monitor"] = "started" /\ ~ Running(target["monitor"]))
         /\ pc'["monitor"] = "started" =>
              (pc["monitor"] = "started" /\ target'["monitor"] = target["monitor"]) \/ MonitorSteps
<1> USE ActorsDiffer
<1>d. "monitor" \in Daemon BY DEF Daemon
<1>1. ASSUME NEW c \in Containers, pc'[c] # "none", command'[c] = "resume" PROVE Watched
  <2>1. CASE pc[c] # "none" /\ command[c] = "resume" BY <2>1 DEF Watched
  <2>2. CASE \E a \in Daemon : CreateSteps(a) /\ command'[c] = Commanded(a)
    BY <1>1, <2>2 DEF Watched, CreateSteps, Commanded, Daemon
  <2> QED BY <1>1, <2>1, <2>2, BegunStep
<1>2. CASE MonitorSteps BY <1>1, <1>2, MonitorLooks DEF Watched, Replacing
<1>3. CASE CreateSteps("monitor") BY <1>3 DEF CreateSteps, Watched, Replacing
<1>4. CASE StartSteps("monitor") BY <1>1, <1>4 DEF StartSteps, Watched, Replacing
<1>5. CASE /\ pc'["monitor"] = pc["monitor"] /\ target'["monitor"] = target["monitor"]
           /\ report'["monitor"] = report["monitor"] \/ report'["monitor"] = None
  BY <1>1, <1>5 DEF Watched, Replacing
<1>6. CASE pc'["monitor"] = "idle" BY <1>1, <1>6 DEF Watched, Replacing
<1> QED BY <1>d, <1>2, <1>3, <1>4, <1>5, <1>6, DaemonMoves

\* The row is given another name by a report of its status, which is excused, or by a launch.
LEMMA TagStep ==
  ASSUME TypeOK, PlacesOK, Next, ~ excused'
  PROVE  /\ ~ excused
         /\ \/ tag' = tag
            \/ \E a \in Daemon : /\ pc[a] = "start" /\ report[a] # None /\ WriteSteps(a)
                                 /\ tag' = target[a]
<1> USE ActorsDiffer
<1>1. ASSUME NEW a \in Actors, WriteSteps(a)
      PROVE  ~ excused /\ (tag' = tag \/ \E b \in Daemon : /\ pc[b] = "start" /\ report[b] # None /\ WriteSteps(b)
                                                           /\ tag' = target[b])
  <2>1. ~ excused /\ report[a] # None /\ tag' = report[a].tag /\ (tag' = tag \/ report[a].to = Same)
    BY <1>1 DEF WriteSteps
  <2>2. CASE report[a].to = Same
    <3>1. a \in Daemon BY <2>1, <2>2 DEF PlacesOK, WritesOf, Same, Finished, Daemon
    <3>2. pc[a] = "start"
      <4>1. CASE a = "dequeuer" BY <2>1, <2>2, <4>1 DEF PlacesOK, Same
      <4>2. CASE a = "monitor" BY <2>1, <2>2, <4>2 DEF PlacesOK
      <4> QED BY <3>1, <4>1, <4>2 DEF Daemon
    <3>3. report[a].tag = target[a] BY <2>1, <3>1, <3>2 DEF PlacesOK
    <3> QED BY <1>1, <2>1, <3>1, <3>2, <3>3
  <2> QED BY <2>1, <2>2
<1>2. ASSUME NEW a \in Actors, Own(a), UNCHANGED excused PROVE ~ excused /\ tag' = tag BY <1>2 DEF Own
<1>3. CASE SubmitterSteps BY <1>3 DEF SubmitterSteps, Moves, Says, Own
<1>4. CASE DequeuerSteps
  <2>1. Own("dequeuer") BY <1>4 DEF DequeuerSteps, Moves, Says
  <2> QED BY <1>4, <1>2, <2>1 DEF DequeuerSteps
<1>5. CASE MonitorSteps BY <1>5, <1>2, MonitorBrief DEF MonitorSteps
<1>6. CASE \E u \in Clients : ClientSteps(u)
  <2>1. PICK u \in Clients : ClientSteps(u) BY <1>6
  <2>2. Own(u) BY <2>1 DEF ClientSteps, Moves, Says
  <2> QED BY <1>2, <2>1, <2>2 DEF ClientSteps
<1>7. CASE \E d \in Containers : WorkerSteps(d)
  <2>1. PICK d \in Containers : WorkerSteps(d) BY <1>7
  <2>2. Own(d) BY <2>1 DEF WorkerSteps, Moves, Says
  <2>3. excused' = excused \/ excused' = (excused \/ command[d] = "resume") BY <2>1 DEF WorkerSteps
  <2>4. ~ excused BY <2>3, Zenon
  <2>5. tag' = tag BY <2>2 DEF Own
  <2> QED BY <2>4, <2>5
<1>8. CASE \E a \in Daemon : CreateSteps(a) BY <1>8 DEF CreateSteps
<1>9. CASE \E a \in Daemon : StartSteps(a) BY <1>9 DEF StartSteps
<1>10. CASE CrashSteps \/ EvictSteps BY <1>10 DEF CrashSteps, EvictSteps
<1> QED BY <1>1, <1>3, <1>4, <1>5, <1>6, <1>7, <1>8, <1>9, <1>10, NextDoes

LEMMA NamedStep ==
  ASSUME TypeOK, PlacesOK, LaunchInv, Named, Next, ~ excused'
  PROVE  Named'
<1> USE ActorsDiffer
<1>0. /\ Executed => DequeuerDone
      /\ Starting \/ Watched => Executed
      /\ Watched => Past
      /\ \A a \in Daemon : At(a, "start") => tag = target[a]
      /\ pc["monitor"] = "started" => target["monitor"] = tag
      /\ \A c \in Containers : Begun(c) /\ c # tag => Harmless(c)
      /\ Replacing => Replaced
  BY DEF Named
<1>a. \A c \in Containers : command[c] \in {"execute", "resume"} BY DEF TypeOK
<1>b. \A c \in Containers : Begun(c) => Executed
  <2> SUFFICES ASSUME NEW c \in Containers, Begun(c) PROVE Executed OBVIOUS
  <2>1. CASE command[c] = "execute" BY <2>1 DEF Executed
  <2>2. CASE command[c] = "resume" BY <1>0, <2>2 DEF Watched, Begun
  <2> QED BY <1>a, <2>1, <2>2
<1>c. ASSUME NEW c \in Containers, pc[c] # "none" PROVE QueuedOnce
  BY <1>c DEF LaunchInv, NotQueuedYet, Created
<1>d. Executed => QueuedOnce BY <1>c DEF Executed, Begun
<1>e. Executed => DequeuerDone' /\ (Past => Past') BY <1>0, <1>d, ExecutedStep
<1>f. Executed => Executed' BY BegunStep DEF Executed
<1>g. Executed => ~ (pc["dequeuer"] = "start") /\ report["dequeuer"] = None BY <1>0 DEF DequeuerDone
<1>h. \A a \in Daemon : StartSteps(a) => pc'[a] = "idle" BY DEF StartSteps
\* What begins is what the row names.
<1>i. ASSUME NEW a \in Daemon, StartSteps(a)
      PROVE  /\ tag = target[a] /\ tag' = tag /\ target[a] \in Containers
             /\ command[target[a]] = Commanded(a) /\ pc[target[a]] = "created"
  BY <1>0, <1>i DEF StartSteps, At, PlacesOK
<1>1. Executed' => DequeuerDone'
  <2>1. CASE Executed BY <2>1, <1>e
  <2>2. CASE ~ Executed /\ Executed'
    <3>1. PICK c \in Containers : Begun(c)' /\ command'[c] = "execute" BY <2>2 DEF Executed
    <3>2. ~ Begun(c) BY <1>b, <2>2
    <3>3. PICK a \in Daemon : StartSteps(a) /\ c = target[a] BY <3>1, <3>2, BegunStep
    <3>4. command'[c] = command[c] BY <3>3 DEF StartSteps
    <3>5. a = "dequeuer" BY <1>i, <3>1, <3>3, <3>4 DEF Commanded, Daemon
    <3>6. QueuedOnce BY <1>c, <1>i, <3>3
    <3>7. pc["dequeuer"] = "start" /\ report'["dequeuer"] = None /\ status' = status /\ pc'["dequeuer"] = "idle"
      BY <1>h, <3>3, <3>5 DEF StartSteps
    <3>8. status \notin {"QUEUED", "NOT_STARTED"} BY <3>6, <3>7 DEF QueuedOnce, Dequeued
    <3> QED BY <3>7, <3>8 DEF DequeuerDone
  <2> QED BY <2>1, <2>2
<1>2. Starting' \/ Watched' => Executed
  <2>1. status = "STARTED" => Starting BY DEF Starting
  <2> QED BY <1>0, <2>1, StartingStep, WatchedStep
<1>3. Watched' => Past'
  <2>1. status = "STARTED" => Past BY DEF Past
  <2> QED BY <1>0, <1>2, <1>e, <2>1, WatchedStep
\* A launch names another container only while no worker has begun, or when the monitor replaces one.
<1>t. \/ tag' = tag
      \/ /\ pc["monitor"] = "start" /\ report["monitor"] # None /\ WriteSteps("monitor") /\ tag' = target["monitor"]
      \/ /\ pc["dequeuer"] = "start" /\ report["dequeuer"] # None /\ WriteSteps("dequeuer")
         /\ tag' = target["dequeuer"]
  BY TagStep DEF Daemon
<1>4. ASSUME NEW a \in Daemon, At(a, "start")' PROVE tag' = target'[a]
  <2>0. pc'[a] = "start" /\ report'[a] = None BY <1>4 DEF At
  <2>1. CASE pc[a] = "start" /\ report[a] = None /\ target'[a] = target[a]
    <3>1. tag = target[a] BY <1>0, <2>1 DEF At
    <3>2. tag' = tag
      <4>1. pc["monitor"] = "start" => Executed BY <1>0 DEF Watched
      <4> QED BY <1>g, <1>t, <2>1, <4>1 DEF Daemon
    <3> QED BY <2>1, <3>1, <3>2
  <2>2. CASE pc[a] = "start" /\ target'[a] = target[a] /\ report[a] # None /\ WriteSteps(a)
    BY <2>2 DEF WriteSteps, PlacesOK
  <2>3. ~ CreateSteps(a) BY <2>0 DEF CreateSteps
  <2>4. ~ StartSteps(a) BY <2>0 DEF StartSteps
  <2>5. DequeuerSteps => pc'["dequeuer"] # "start" BY DEF DequeuerSteps, Moves, Says
  <2>6. MonitorSteps => pc'["monitor"] # "start" BY MonitorLooks
  <2> QED BY <2>0, <2>1, <2>2, <2>3, <2>4, <2>5, <2>6, DaemonMoves
<1>5. ASSUME pc'["monitor"] = "started" PROVE target'["monitor"] = tag'
  <2>1. CASE MonitorSteps
    <3>1. tag' = tag BY <2>1, MonitorBrief DEF Own
    <3> QED BY <1>5, <2>1, <3>1, MonitorLooks
  <2>2. CASE pc["monitor"] = "started" /\ target'["monitor"] = target["monitor"]
    <3>1. Executed BY <1>0, <2>2 DEF Watched
    <3> QED BY <1>0, <1>g, <1>t, <2>2, <3>1
  <2> QED BY <1>5, <2>1, <2>2, WatchedStep
\* A harmless worker stays harmless.
<1>s. ASSUME NEW c \in Containers, Begun(c), Harmless(c) PROVE Harmless(c)'
  BY <1>b, <1>e, <1>s, HarmlessStep
<1>6. ASSUME NEW c \in Containers, Begun(c)', c # tag' PROVE Harmless(c)'
  <2>1. CASE ~ Begun(c)
    <3>1. PICK a \in Daemon : StartSteps(a) /\ c = target[a] BY <1>6, <2>1, BegunStep
    <3> QED BY <1>6, <1>i, <3>1
  <2>2. CASE Begun(c) /\ c # tag BY <1>0, <1>s, <2>2
  <2>3. CASE Begun(c) /\ c = tag
    <3>1. pc["monitor"] = "start" /\ report["monitor"] # None BY <1>6, <1>b, <1>g, <1>t, <2>3
    <3>2. Replaced BY <1>0, <3>1 DEF Replacing
    <3> QED BY <1>s, <2>3, <3>2 DEF Replaced
  <2> QED BY <2>1, <2>2, <2>3
<1>7. ASSUME Replacing' PROVE Replaced'
  <2>0. Executed /\ tag' = tag
    <3>1. Watched' BY <1>7 DEF Replacing, Watched
    <3>2. ~ (WriteSteps("monitor") /\ pc["monitor"] = "start")
      BY <1>7 DEF WriteSteps, Replacing
    <3> QED BY <1>2, <1>g, <1>t, <3>1, <3>2
  <2>1. ASSUME NEW c \in Containers, c = tag, Begun(c)', Replacing PROVE Harmless(c)'
    <3>1. CASE Begun(c) BY <1>0, <1>s, <2>1, <3>1 DEF Replaced
    <3>2. CASE ~ Begun(c)
      <4>1. PICK a \in Daemon : StartSteps(a) /\ c = target[a] BY <2>1, <3>2, BegunStep
      <4>2. a = "monitor" BY <1>g, <2>0, <4>1 DEF StartSteps, Daemon
      <4>3. pc'["monitor"] = "idle" BY <1>h, <4>1, <4>2
      <4> QED BY <1>7, <4>3 DEF Replacing
    <3> QED BY <3>1, <3>2
  <2>2. ASSUME NEW c \in Containers, c = tag, Begun(c)', pc["monitor"] = "started",
               ~ Running(target["monitor"])
        PROVE  Harmless(c)'
    <3>1. target["monitor"] = c /\ ~ Live(c) BY <1>0, <2>2 DEF Running
    <3>2. Past BY <1>0, <2>2 DEF Watched
    <3>3. CASE Begun(c)
      <4>1. Harmless(c) BY <3>1, <3>2, <3>3 DEF Live, Down, Begun, Harmless
      <4> QED BY <1>s, <3>3, <4>1
    <3>4. CASE ~ Begun(c)
      <4>1. PICK a \in Daemon : StartSteps(a) /\ c = target[a] BY <2>2, <3>4, BegunStep
      <4> QED BY <1>g, <2>0, <2>2, <4>1 DEF StartSteps, Daemon
    <3> QED BY <3>3, <3>4
  <2> QED BY <1>7, <2>0, <2>1, <2>2, WatchedStep DEF Replaced
<1> QED BY <1>1, <1>2, <1>3, <1>4, <1>5, <1>6, <1>7, <1>f DEF Named

LEMMA NamedInit == Init => Named
<1> USE ActorsDiffer
<1>1. Init => /\ \A c \in Containers : ~ Begun(c) /\ pc[c] = "none"
              /\ \A a \in Daemon : pc[a] = "idle"
              /\ \A a \in Actors : report[a] = None
              /\ status = "NOT_STARTED"
  BY DEF Init, Begun, Daemon
<1> QED BY <1>1 DEF Named, Executed, Starting, Watched, At, Replacing, Daemon

LEMMA NamedUnchanged == Named /\ UNCHANGED vars => Named'
<1> SUFFICES ASSUME Named, UNCHANGED vars PROVE Named' OBVIOUS
<1>1. /\ Executed' = Executed /\ DequeuerDone' = DequeuerDone /\ Starting' = Starting /\ Watched' = Watched
      /\ Past' = Past /\ Replacing' = Replacing
  BY Unchanged DEF Executed, Begun, DequeuerDone, Starting, Watched, Past, Replacing
<1>2. \A c \in Containers : Begun(c)' = Begun(c) /\ Harmless(c)' = Harmless(c)
  BY Unchanged, <1>1 DEF Begun, Harmless
<1>3. Replaced' = Replaced BY <1>2, Unchanged DEF Replaced
<1> QED BY <1>1, <1>2, <1>3, Unchanged DEF Named, At

LEMMA WorkerInvHolds == Spec => [](TypeOK /\ PlacesOK /\ LaunchInv /\ WorkerInv)
<1>1. Init => WorkerInv BY NamedInit DEF WorkerInv
<1>2. TypeOK /\ PlacesOK /\ LaunchInv /\ WorkerInv /\ [Next]_vars => WorkerInv'
  <2> SUFFICES ASSUME TypeOK, PlacesOK, LaunchInv, WorkerInv, [Next]_vars, ~ excused' PROVE Named'
    BY DEF WorkerInv
  <2>1. CASE Next
    <3>1. ~ excused BY <2>1, TagStep
    <3>2. Named BY <3>1 DEF WorkerInv
    <3> QED BY <2>1, <3>2, NamedStep
  <2>2. CASE UNCHANGED vars
    <3>1. excused' = excused BY <2>2, Unchanged
    <3>2. Named BY <3>1 DEF WorkerInv
    <3> QED BY <2>2, <3>2, NamedUnchanged
  <2> QED BY <2>1, <2>2
<1> QED BY <1>1, <1>2, LaunchInvHolds, PTL DEF Spec

\* Two workers never execute the run at once, for any number of containers, crashes and resumes,
\* unless one of the three things happens that excuse it: only the worker that the row names can
\* execute the run, and every other has ended, or finds when it reads the run that it must not.
THEOREM OneWorkerAtATime == Spec => []OneWorker
<1>1. WorkerInv => OneWorker
  <2> SUFFICES ASSUME Named PROVE Cardinality(Executing) <= 1 BY DEF WorkerInv, OneWorker
  <2>1. Executing \subseteq {tag}
    <3>1. \A c \in Executing : c \in Containers /\ Begun(c) /\ ~ Harmless(c)
      BY DEF Executing, Begun, Harmless
    <3> QED BY <3>1 DEF Named
  <2>2. IsFiniteSet({tag}) /\ Cardinality({tag}) = 1 BY FS_Singleton
  <2> HIDE DEF Executing
  <2>3. Cardinality(Executing) <= Cardinality({tag}) BY <2>1, <2>2, FS_Subset
  <2> QED BY <2>2, <2>3
<1> QED BY <1>1, WorkerInvHolds, PTL
=============================================================================
