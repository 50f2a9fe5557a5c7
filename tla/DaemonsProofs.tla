---------------------------- MODULE DaemonsProofs ----------------------------
(***************************************************************************)
(* Two of the daemons, which share nothing: the scheduler, for any         *)
(* execution times, run keys and bounds, and then the run queue, for any   *)
(* runs, priorities, limits and pages.                                     *)
(***************************************************************************)
EXTENDS Scheduler, RunQueue, TLAPS, FiniteSetTheorems, SequenceTheorems

(***************************************************************************)
(* The scheduler: types.                                                   *)
(***************************************************************************)

\* Every time is a number, and a row that is checkpointed stays a row.
LEMMA TimesAreNaturals == Times \subseteq Nat /\ 0 \in Times /\ CronTimes \subseteq Times \ {0}
BY CronTimesAssumption DEF Times

LEMMA CheckpointTypes ==
  ASSUME TypeOK, NEW given \in Row, NEW end \in Times, Checkpoint(given, end)
  PROVE  row' \in Row \cup {None} /\ since' \in Times
<1>1. [given EXCEPT !.last = end] \in Row BY DEF Row
<1> QED BY <1>1, TimesAreNaturals DEF Checkpoint, TypeOK

\* The tick of a run in progress exists.
LEMMA TickInProgress ==
  ASSUME TypeOK, thread # None, thread.at \in InTick
  PROVE  thread.time \in CronTimes /\ tick[thread.time] \in Tick
BY NoneAssumption DEF TypeOK, ThreadOK

\* One run, and a change of it.
LEMMA OneRun ==
  ASSUME TypeOK, NEW t \in CronTimes, NEW k \in Keys
  PROVE  runs[t][k] \in Run
<1>1. runs \in [CronTimes -> [Keys -> Run]] BY DEF TypeOK
<1>2. runs[t] \in [Keys -> Run] BY <1>1
<1> QED BY <1>2

LEMMA RunTypes ==
  ASSUME TypeOK, NEW t \in CronTimes, NEW k \in Keys, NEW r \in Run,
         runs' = [runs EXCEPT ![t][k] = r]
  PROVE  runs' \in [CronTimes -> [Keys -> Run]]
<1>1. [runs[t] EXCEPT ![k] = r] \in [Keys -> Run] BY DEF TypeOK
<1> QED BY <1>1 DEF TypeOK

\* The initial state has the types.
LEMMA InitTypes == Init => TypeOK
<1> SUFFICES ASSUME Init PROVE TypeOK OBVIOUS
<1> USE TimesAreNaturals, CronTimesAssumption DEF Reading
<1>1. NoRun \in Run BY DEF NoRun, Run
<1>2. NoTimes \in [next : Nat, last : Times] BY DEF NoTimes
<1>3. now \in Times \ {0} BY DEF Init, Times
<1> QED BY <1>1, <1>2, <1>3 DEF Init, TypeOK, ThreadOK

\* So has every state that a step leads to.
LEMMA StepTypes == TypeOK /\ [Next]_vars => TypeOK'
<1> SUFFICES ASSUME TypeOK, [Next]_vars PROVE TypeOK' OBVIOUS
<1> USE TimesAreNaturals, NoneAssumption DEF Reading
<1>1. CASE UNCHANGED vars
  BY <1>1 DEF TypeOK, ThreadOK, vars, stored, process, history, bounds
<1>2. CASE ReadStates
  BY <1>2 DEF ReadStates, TypeOK, ThreadOK, stored, history, bounds
<1>3. CASE PassStopped
  <2>1. loop.seen # None => loop.seen \in Row BY <1>3 DEF PassStopped, TypeOK
  <2>2. loop.end \in Times BY <1>3 DEF PassStopped, TypeOK
  <2>3. row' \in Row \cup {None} /\ since' \in Times
    BY <1>3, <2>1, <2>2, CheckpointTypes DEF PassStopped, TypeOK
  <2> QED BY <1>3, <2>3 DEF PassStopped, TypeOK, ThreadOK, bounds
<1>4. ASSUME NEW given \in Row, loop # None PROVE
    /\ Iteration(given) \in Thread
    /\ Iteration(given).at = "start" /\ Iteration(given).latest = {}
  BY <1>4 DEF Iteration, Thread, TypeOK, Times
<1>5. CASE Declare
  <2>1. CASE row # None
    BY <1>5, <2>1 DEF Declare, TypeOK, ThreadOK, bounds
  <2>2. CASE row = None
    <3>1. row' = [status |-> "DECLARED_IN_CODE", start |-> loop.end, last |-> 0]
      BY <1>5, <2>2 DEF Declare
    <3>2. row' \in Row /\ loop.end \in Times BY <1>5, <3>1 DEF Declare, TypeOK, Row, Times
    <3>3. since' = loop.end /\ thread' = IF Iterates THEN Iteration(row') ELSE thread
      BY <1>5, <2>2 DEF Declare
    <3>4. Iteration(row') \in Thread /\ Iteration(row').at = "start" /\ Iteration(row').latest = {}
      BY <1>4, <1>5, <3>2 DEF Declare
    <3>5. ThreadOK' BY <1>5, <3>3, <3>4 DEF Declare, TypeOK, ThreadOK, InTick
    <3> QED BY <1>5, <3>2, <3>3, <3>5 DEF Declare, TypeOK, bounds
  <2> QED BY <2>1, <2>2
<1>6. CASE Launch
  <2>1. loop.seen \in Row /\ loop # None BY <1>6 DEF Launch, TypeOK
  <2>2. Iteration(loop.seen) \in Thread /\ Iteration(loop.seen).at = "start"
          /\ Iteration(loop.seen).latest = {}
    BY <1>4, <2>1
  <2>3. ThreadOK' BY <1>6, <2>2 DEF Launch, TypeOK, ThreadOK, InTick, stored
  <2> QED BY <1>6, <2>3 DEF Launch, TypeOK, stored, history, bounds
<1>7. CASE FindTimes
  <2>1. thread \in Thread BY <1>7 DEF FindTimes, At, TypeOK, ThreadOK
  <2>2. Latest \subseteq CronTimes BY DEF Latest, Ticked
  <2>3. PICK due \in SUBSET CronTimes :
          /\ thread' = [thread EXCEPT !.at = "tick", !.latest = Latest, !.last = 0,
                                      !.todo = CaughtUp(due)]
          /\ dropped' = dropped \cup (due \ CaughtUp(due))
    BY <1>7 DEF FindTimes
  <2>4. CaughtUp(due) \subseteq CronTimes BY DEF CaughtUp
  <2>5. thread' \in Thread /\ thread'.at = "tick" /\ thread'.latest = Latest
    <3> DEFINE T == CaughtUp(due)  L == Latest
    <3>1. T \in SUBSET CronTimes /\ L \in SUBSET CronTimes BY <2>2, <2>4
    <3>2. thread' = [thread EXCEPT !.at = "tick", !.latest = L, !.last = 0, !.todo = T] BY <2>3
    <3> HIDE DEF T, L
    <3>3. PICK th \in Thread : th = [thread EXCEPT !.at = "tick", !.latest = L]
      BY <2>1, <3>1 DEF Thread
    <3>4. PICK u \in Thread : u = [th EXCEPT !.last = 0] BY DEF Thread
    <3>5. thread' = [u EXCEPT !.todo = T] BY <3>2, <3>3, <3>4 DEF Thread
    <3>6. thread' \in Thread BY <3>1, <3>5 DEF Thread
    <3>7. thread'.at = "tick" /\ thread'.latest = L BY <3>3, <3>4, <3>5 DEF Thread
    <3> QED BY <3>6, <3>7 DEF L
  <2>6. ThreadOK' BY <1>7, <2>5 DEF FindTimes, ThreadOK, InTick, Latest, Ticked, stored
  <2> QED BY <1>7, <2>3, <2>6 DEF FindTimes, TypeOK, stored, bounds
<1>8. CASE StartTick
  <2>1. thread \in Thread /\ \A u \in thread.latest : tick[u] # None
    BY <1>8 DEF StartTick, At, TypeOK, ThreadOK
  <2>2. PICK t \in thread.todo :
          /\ tick' = IF t \in thread.latest THEN tick
                     ELSE [tick EXCEPT ![t] = [status |-> "STARTED", failures |-> 0]]
          /\ thread' = [thread EXCEPT !.at = "evaluate", !.time = t, !.todo = @ \ {t}]
    BY <1>8 DEF StartTick
  <2>3. t \in CronTimes BY <2>1 DEF Thread
  <2>4. /\ thread' \in Thread /\ thread'.at = "evaluate" /\ thread'.time = t
        /\ thread'.latest = thread.latest
    BY <2>1, <2>2, <2>3 DEF Thread, InTick
  <2>5. tick' \in [CronTimes -> Tick \cup {None}] BY <2>2, <2>3 DEF TypeOK, Tick
  <2>6. tick'[t] # None BY <2>1, <2>2, <2>3 DEF TypeOK, Tick
  <2>7. \A u \in thread.latest : tick'[u] # None
    BY <2>1, <2>2, <2>3, NoneAssumption DEF TypeOK, Tick
  <2>8. ThreadOK' BY <2>3, <2>4, <2>6, <2>7 DEF ThreadOK
  <2> QED BY <1>8, <2>5, <2>8 DEF StartTick, TypeOK, history, bounds
<1>9. CASE EndIteration
  <2>1. thread \in Thread /\ thread # None BY <1>9 DEF EndIteration, At, TypeOK, ThreadOK
  <2>2. thread.seen \in Row /\ thread.end \in Times BY <2>1 DEF Thread
  <2>3. row' \in Row \cup {None} /\ since' \in Times
    BY <1>9, <2>2, CheckpointTypes DEF EndIteration
  <2>4. \A c \in NextCheckpoint(thread.seen, thread.end) : c \in Nat
    <3>1. Interval \in Nat /\ MaxJitter \in Nat BY BoundsAssumption
    <3>2. thread.end \in Nat /\ thread.seen.last \in Nat BY <2>2 DEF Row
    <3> QED BY <3>1, <3>2 DEF NextCheckpoint
  <2>5. PICK n : memory' = [next |-> n, last |-> thread.end] /\ n \in Nat
    <3>1. PICK c \in NextCheckpoint(thread.seen, thread.end) :
            \E m \in {c} \cup {t \in CronTimes : t > thread.end} :
              memory' = [next |-> m, last |-> thread.end]
      BY <1>9 DEF EndIteration
    <3> QED BY <2>4, <3>1
  <2>6. ThreadOK' BY <1>9 DEF EndIteration, ThreadOK
  <2> QED BY <1>9, <2>2, <2>3, <2>5, <2>6 DEF EndIteration, TypeOK, bounds
<1>10. ASSUME NEW ending \in {"SKIPPED", "SUCCESS"}, thread # None, thread.time \in CronTimes, EndTick(ending)
       PROVE  TypeOK'
  <2>1. thread \in Thread /\ \A u \in thread.latest : tick[u] # None
    BY <1>10 DEF TypeOK, ThreadOK
  <2>2. thread' \in Thread /\ thread'.at = "tick" /\ thread'.latest = thread.latest
    BY <1>10, <2>1 DEF EndTick, Thread
  <2>3. tick' \in [CronTimes -> Tick \cup {None}] BY <1>10 DEF EndTick, TypeOK, Tick
  <2>4. \A u \in thread.latest : tick'[u] # None
    BY <1>10, <2>1, NoneAssumption DEF EndTick, TypeOK, Thread, Tick
  <2>5. ThreadOK' BY <2>2, <2>4 DEF ThreadOK, InTick
  <2> QED BY <1>10, <2>3, <2>5 DEF EndTick, TypeOK, history, bounds
<1>11. ASSUME NEW failures \in Nat, thread # None, thread.time \in CronTimes, FailTick(failures),
              outages' \in Nat
       PROVE  TypeOK'
  <2>1. tick' \in [CronTimes -> Tick \cup {None}] BY <1>11 DEF FailTick, TypeOK, Tick
  <2>2. memory' \in [next : Nat, last : Times] BY <1>11 DEF FailTick
  <2>3. ThreadOK' BY <1>11 DEF FailTick, ThreadOK
  <2> QED BY <1>11, <2>1, <2>2, <2>3 DEF FailTick, TypeOK, history
<1>12. ASSUME Raises PROVE thread # None /\ thread.at \in InTick /\ thread.time \in CronTimes
  BY <1>12 DEF Raises, At, TypeOK, ThreadOK, InTick
<1>13. CASE Evaluate
  <2>1. /\ thread \in Thread /\ thread.time \in CronTimes /\ tick[thread.time] # None
        /\ \A t \in thread.latest : tick[t] # None
    BY <1>13 DEF Evaluate, At, TypeOK, ThreadOK, InTick
  <2>2. thread' \in Thread /\ thread'.at = "requests" /\ thread'.time = thread.time
      /\ thread'.latest = thread.latest
    BY <1>13, <2>1 DEF Evaluate, Thread, InTick
  <2>3. ThreadOK' BY <1>13, <2>1, <2>2 DEF Evaluate, ThreadOK, stored
  <2> QED BY <1>13, <2>3 DEF Evaluate, TypeOK, stored, history, bounds
<1>14. CASE Skip \/ Succeed
  BY <1>10, <1>14 DEF Skip, Succeed, At, TypeOK, ThreadOK, InTick
<1>15. CASE Fail \/ Unreachable
  <2>1. thread # None /\ thread.time \in CronTimes BY <1>12, <1>15 DEF Fail, Unreachable
  <2>2. tick[thread.time].failures \in Nat
    BY <1>12, <1>15, TickInProgress DEF Fail, Unreachable, Tick
  <2>3. CASE Fail BY <1>11, <2>1, <2>2, <2>3 DEF Fail, TypeOK
  <2>4. CASE Unreachable BY <1>11, <2>1, <2>2, <2>4 DEF Unreachable, TypeOK
  <2> QED BY <1>15, <2>3, <2>4
<1>16. ASSUME NEW k \in Keys, Existing(k) PROVE TypeOK'
  <2>1. /\ thread \in Thread /\ thread.at = "requests" /\ thread.time \in CronTimes /\ tick[thread.time] # None
        /\ \A t \in thread.latest : tick[t] # None
    BY <1>16 DEF Existing, At, TypeOK, ThreadOK, InTick
  <2>2. thread' \in Thread /\ thread'.at = "requests" /\ thread'.time = thread.time
      /\ thread'.latest = thread.latest
    BY <1>16, <2>1 DEF Existing, Thread
  <2>3. ThreadOK' BY <1>16, <2>1, <2>2 DEF Existing, ThreadOK, stored
  <2> QED BY <1>16, <2>3 DEF Existing, TypeOK, stored, history, bounds
<1>17. ASSUME NEW k \in Keys, CreateRun(k) PROVE TypeOK'
  <2>1. /\ thread \in Thread /\ thread.at = "requests" /\ thread.time \in CronTimes /\ tick[thread.time] # None
        /\ \A t \in thread.latest : tick[t] # None
    BY <1>17 DEF CreateRun, At, TypeOK, ThreadOK, InTick
  <2>2. thread' \in Thread /\ thread'.at = "submit" /\ thread'.time = thread.time /\ thread'.key = k
      /\ thread'.latest = thread.latest
    BY <1>17, <2>1 DEF CreateRun, Thread, InTick
  <2>3. runs' \in [CronTimes -> [Keys -> Run]]
    <3>1. runs[thread.time][k] \in Run BY <2>1, OneRun
    <3>2. [runs[thread.time][k] EXCEPT !.made = @ + 1] \in Run BY <3>1 DEF Run
    <3>3. CASE runs' = runs BY <3>3 DEF TypeOK
    <3>4. CASE runs' = [runs EXCEPT ![thread.time][k].made = @ + 1]
      BY <2>1, <3>2, <3>4, RunTypes
    <3> QED BY <1>17, <3>3, <3>4 DEF CreateRun
  <2>4. ThreadOK' BY <1>17, <2>1, <2>2 DEF CreateRun, ThreadOK
  <2> QED BY <1>17, <2>3, <2>4 DEF CreateRun, TypeOK, history, bounds
<1>18. ASSUME NEW run \in Run, SubmitRun(run) PROVE TypeOK'
  <2>1. /\ thread \in Thread /\ thread.at = "submit"
        /\ thread.time \in CronTimes /\ tick[thread.time] # None /\ thread.key \in Keys
        /\ \A t \in thread.latest : tick[t] # None
    BY <1>18 DEF SubmitRun, At, TypeOK, ThreadOK, InTick
  <2>2. thread' \in Thread /\ thread'.at = "requests" /\ thread'.time = thread.time
      /\ thread'.latest = thread.latest
    BY <1>18, <2>1 DEF SubmitRun, Thread, InTick
  <2>3. runs' \in [CronTimes -> [Keys -> Run]] BY <1>18, <2>1, RunTypes DEF SubmitRun
  <2>4. ThreadOK' BY <1>18, <2>1, <2>2 DEF SubmitRun, ThreadOK
  <2> QED BY <1>18, <2>3, <2>4 DEF SubmitRun, TypeOK, history, bounds
<1>19. CASE Submitted \/ SubmitRaises
  <2>1. At("submit") BY <1>19 DEF Submitted, SubmitRaises, SubmitRun
  <2>2. Here(thread.key) \in Run BY <2>1, OneRun DEF Here, At, TypeOK, ThreadOK, InTick
  <2>3. CASE Submitted BY <1>18, <2>2, <2>3 DEF Submitted, Run
  <2>4. CASE SubmitRaises BY <1>18, <2>2, <2>4 DEF SubmitRaises
  <2> QED BY <1>19, <2>3, <2>4
<1>20. CASE Crash \/ Clock \/ Asking
  <2>1. CASE Crash
    BY <2>1 DEF Crash, TypeOK, ThreadOK, stored, history, NoTimes
  <2>2. CASE Clock
    BY <2>2, CronTimesAssumption DEF Clock, TypeOK, ThreadOK, stored, process, history, bounds, Times
  <2>3. CASE StartSchedule
    <3>1. row' \in Row /\ since' \in Times BY <2>3 DEF StartSchedule, TypeOK, Row
    <3> QED BY <2>3, <3>1 DEF StartSchedule, TypeOK, ThreadOK, process
  <2>4. CASE StopSchedule
    <3>1. row' \in Row /\ since' \in Times BY <2>4 DEF StopSchedule, TypeOK, Row
    <3> QED BY <2>4, <3>1 DEF StopSchedule, TypeOK, ThreadOK, process
  <2>5. CASE ResetSchedule
    <3>1. row' \in Row /\ since' \in Times BY <2>5 DEF ResetSchedule, TypeOK, Row
    <3> QED BY <2>5, <3>1 DEF ResetSchedule, TypeOK, ThreadOK, process
  <2> QED BY <1>20, <2>1, <2>2, <2>3, <2>4, <2>5 DEF Asking
<1>21. CASE Looping BY <1>2, <1>3, <1>5, <1>6, <1>21 DEF Looping
<1>22. CASE Iterating BY <1>7, <1>8, <1>9, <1>22 DEF Iterating
<1>23. CASE Ticking BY <1>13, <1>14, <1>15, <1>16, <1>17, <1>19, <1>23 DEF Ticking
<1> QED BY <1>1, <1>20, <1>21, <1>22, <1>23 DEF Next

\* Every variable of the scheduler keeps its type.
THEOREM TypeCorrect == Spec => []TypeOK
BY InitTypes, StepTypes, PTL DEF Spec

(***************************************************************************)
(* A request gets one run.  What one run looks like, and that a run about  *)
(* to be submitted has been created and not submitted, is inductive.       *)
(***************************************************************************)

RunOnce(run) ==
  /\ run.made <= 1 /\ run.submits <= 1
  /\ run.made = 0 => run.status = "NOT_STARTED"
  /\ run.status = "NOT_STARTED" => run.submits = 0

RunsInv ==
  /\ \A t \in CronTimes, k \in Keys : RunOnce(runs[t][k])
  /\ At("submit") => /\ runs[thread.time][thread.key].made = 1
                     /\ runs[thread.time][thread.key].status = "NOT_STARTED"

\* A step that leaves the runs alone and has no run to submit after it.
LEMMA RunsLeft ==
  ASSUME RunsInv, runs' = runs,
         At("submit")' => (At("submit") /\ thread' = thread)
  PROVE  RunsInv'
BY DEF RunsInv, At

\* A step of one run.
LEMMA RunsChanged ==
  ASSUME TypeOK, RunsInv, NEW t \in CronTimes, NEW k \in Keys, NEW run \in Run, RunOnce(run),
         runs' = [runs EXCEPT ![t][k] = run],
         At("submit")' => (/\ thread'.time = t /\ thread'.key = k
                           /\ run.made = 1 /\ run.status = "NOT_STARTED")
  PROVE  RunsInv'
<1>1. \A u \in CronTimes, l \in Keys : runs'[u][l] = IF u = t /\ l = k THEN run ELSE runs[u][l]
  BY DEF TypeOK
<1> QED BY <1>1 DEF RunsInv

\* A run is created where there is none, and submitted when it has not been.
LEMMA RunsStep == TypeOK /\ RunsInv /\ [Next]_vars => RunsInv'
<1> SUFFICES ASSUME TypeOK, RunsInv, [Next]_vars PROVE RunsInv' OBVIOUS
<1>1. CASE UNCHANGED vars
  BY <1>1, RunsLeft DEF vars, stored, process, At
<1>2. CASE Looping
  <2>1. runs' = runs
    BY <1>2 DEF Looping, ReadStates, PassStopped, Declare, Launch, stored
  <2>2. thread' = thread \/ thread' = Iteration(row') \/ thread' = Iteration(loop.seen)
    BY <1>2 DEF Looping, ReadStates, PassStopped, Declare, Launch
  <2> QED BY <2>1, <2>2, RunsLeft DEF At, Iteration
<1>3. CASE Iterating
  <2>1. runs' = runs BY <1>3 DEF Iterating, FindTimes, StartTick, EndIteration, stored
  <2>2. thread' = None \/ thread'.at # "submit"
    <3>1. CASE FindTimes BY <3>1 DEF FindTimes, At, TypeOK, ThreadOK, Thread
    <3>2. CASE StartTick BY <3>2 DEF StartTick, At, TypeOK, ThreadOK, Thread
    <3>3. CASE EndIteration BY <3>3 DEF EndIteration
    <3> QED BY <1>3, <3>1, <3>2, <3>3 DEF Iterating
  <2> QED BY <2>1, <2>2, RunsLeft DEF At
<1>4. ASSUME Evaluate \/ Skip \/ Fail \/ Unreachable \/ Succeed PROVE RunsInv'
  <2>1. runs' = runs
    BY <1>4 DEF Evaluate, Skip, Fail, Unreachable, Succeed, EndTick, FailTick, stored
  <2>2. thread' = None \/ thread'.at # "submit"
    <3>1. CASE Evaluate BY <3>1 DEF Evaluate, At, TypeOK, ThreadOK, Thread
    <3>2. CASE Skip \/ Succeed BY <3>2 DEF Skip, Succeed, EndTick, At, TypeOK, ThreadOK, Thread
    <3>3. CASE Fail \/ Unreachable BY <3>3 DEF Fail, Unreachable, FailTick
    <3> QED BY <1>4, <3>1, <3>2, <3>3
  <2> QED BY <2>1, <2>2, RunsLeft DEF At
<1>5. ASSUME NEW k \in Keys, Existing(k) PROVE RunsInv'
  <2>1. thread'.at # "submit" BY <1>5 DEF Existing, At, TypeOK, ThreadOK, Thread
  <2> QED BY <1>5, <2>1, RunsLeft DEF Existing, At, stored
<1>6. ASSUME NEW k \in Keys, CreateRun(k) PROVE RunsInv'
  <2>1. thread \in Thread /\ thread.time \in CronTimes
    BY <1>6 DEF CreateRun, At, TypeOK, ThreadOK, InTick
  <2>2. thread'.time = thread.time /\ thread'.key = k BY <1>6, <2>1 DEF CreateRun, Thread
  <2> DEFINE run == runs[thread.time][k]
  <2>3. run \in Run /\ RunOnce(run) BY <2>1, OneRun DEF RunsInv
  <2>4. CASE run.made > 0
    <3>1. runs' = runs /\ run.status = "NOT_STARTED" /\ run.made = 1
      BY <1>6, <2>3, <2>4 DEF CreateRun, Here, RunOnce, Run
    <3> QED BY <2>2, <3>1 DEF RunsInv
  <2>5. CASE run.made = 0
    <3>1. runs' = [runs EXCEPT ![thread.time][k] = [run EXCEPT !.made = @ + 1]]
      BY <1>6, <2>5 DEF CreateRun, Here
    <3> DEFINE new == [run EXCEPT !.made = @ + 1]
    <3>2. new \in Run /\ new.made = 1 /\ new.status = "NOT_STARTED" /\ RunOnce(new)
      BY <2>3, <2>5 DEF RunOnce, Run
    <3>3. runs' = [runs EXCEPT ![thread.time][k] = new] BY <3>1
    <3> HIDE DEF new
    <3> QED BY <2>1, <2>2, <3>2, <3>3, RunsChanged
  <2> QED BY <2>3, <2>4, <2>5 DEF Run
<1>7. ASSUME NEW run, SubmitRun(run), run \in Run /\ RunOnce(run) PROVE RunsInv'
  <2>1. thread \in Thread /\ thread.time \in CronTimes /\ thread.key \in Keys
    BY <1>7 DEF SubmitRun, At, TypeOK, ThreadOK, InTick
  <2>2. thread'.at # "submit" BY <1>7, <2>1 DEF SubmitRun, Thread
  <2> QED BY <1>7, <2>1, <2>2, RunsChanged DEF SubmitRun, At
<1>8. CASE Submitted \/ SubmitRaises
  <2>1. At("submit") BY <1>8 DEF Submitted, SubmitRaises, SubmitRun
  <2> DEFINE run == Here(thread.key)
  <2>2. run \in Run /\ RunOnce(run) /\ run.made = 1 /\ run.status = "NOT_STARTED"
    BY <2>1, OneRun DEF Here, At, TypeOK, ThreadOK, InTick, RunsInv
  <2> DEFINE new == [made |-> run.made, status |-> "SUBMITTED", submits |-> run.submits + 1]
  <2>3. new \in Run /\ RunOnce(new) BY <2>2 DEF RunOnce, Run
  <2>4. CASE Submitted BY <1>7, <2>3, <2>4 DEF Submitted
  <2>5. CASE SubmitRaises BY <1>7, <2>2, <2>5 DEF SubmitRaises
  <2> QED BY <1>8, <2>4, <2>5
<1>9. CASE Crash \/ Clock \/ Asking
  <2>1. runs' = runs /\ (thread' = thread \/ thread' = None)
    BY <1>9 DEF Crash, Clock, Asking, StartSchedule, StopSchedule, ResetSchedule, stored, process
  <2> QED BY <2>1, RunsLeft DEF At
<1>10. CASE Ticking BY <1>4, <1>5, <1>6, <1>8, <1>10 DEF Ticking
<1> QED BY <1>1, <1>2, <1>3, <1>9, <1>10 DEF Next

\* However often a tick is interrupted and done again, each of its requests gets one run, which is
\* submitted at most once.
THEOREM RunsRequestedOnce == Spec => []RequestedOnce
<1>1. Init => RunsInv BY NoneAssumption DEF Init, RunsInv, RunOnce, NoRun, At
<1>2. TypeOK /\ RunsInv => RequestedOnce BY DEF RunsInv, RunOnce, RequestedOnce
<1> QED BY <1>1, <1>2, RunsStep, TypeCorrect, PTL DEF Spec

(***************************************************************************)
(* A stopped schedule.                                                     *)
(***************************************************************************)

\* A schedule that is stopped stays so, and starts no tick, until a user starts or resets it, once
\* no iteration holds an older row.
THEOREM StoppedScheduleRests == Spec => StopStands
<1> DEFINE Rests == Quiet => \/ Quiet' /\ tick' = tick
                             \/ ~StaysStopped(row') /\ asked' > asked
<1>1. TypeOK /\ [Next]_vars => Rests
  <2> SUFFICES ASSUME TypeOK, [Next]_vars, Quiet
               PROVE  \/ Quiet' /\ tick' = tick
                      \/ ~StaysStopped(row') /\ asked' > asked
    OBVIOUS
  <2>1. row \in Row /\ row.status = "STOPPED" /\ thread = None
    BY DEF Quiet, StaysStopped, TypeOK
  <2>2. ~At("start") /\ ~At("tick") /\ ~At("evaluate") /\ ~At("requests") /\ ~At("submit")
    BY <2>1 DEF At
  <2>3. ~Iterating BY <2>2 DEF Iterating, FindTimes, StartTick, EndIteration
  <2>4. ~Ticking
    BY <2>2 DEF Ticking, Evaluate, Skip, Fail, Unreachable, Raises, Succeed, Submitted, SubmitRaises,
                SubmitRun, Existing, CreateRun
  <2>5. CASE UNCHANGED vars BY <2>5 DEF vars, stored, process, Quiet, StaysStopped
  <2>6. CASE ReadStates BY <2>6, <2>1 DEF ReadStates, stored, Quiet, StaysStopped
  <2>7. CASE PassStopped
    <3>1. loop.seen \in Row /\ loop.seen.status = "STOPPED"
      BY <2>7 DEF PassStopped, Quiet, StaysStopped, TypeOK, Reading
    <3>2. row' = row \/ row' = [loop.seen EXCEPT !.last = loop.end]
      BY <2>7, <3>1, NoneAssumption DEF PassStopped, Checkpoint
    <3>3. loop.end \in Times BY <2>7 DEF PassStopped, TypeOK, Reading
    <3>4. row' \in Row /\ row'.status = "STOPPED" BY <2>1, <3>1, <3>2, <3>3 DEF Row
    <3> QED BY <2>1, <2>7, <3>4, NoneAssumption DEF PassStopped, Quiet, StaysStopped
  <2>8. ~Declare BY DEF Declare, Quiet, StaysStopped
  <2>9. ~Launch BY DEF Launch, Quiet, StaysStopped, IsRunning
  <2>10. CASE Crash BY <2>1, <2>10 DEF Crash, stored, Quiet, StaysStopped
  <2>11. CASE Clock BY <2>11 DEF Clock, stored, process, Quiet, StaysStopped
  <2>12. CASE StartSchedule \/ ResetSchedule
    BY <2>12 DEF StartSchedule, ResetSchedule, StaysStopped, TypeOK
  <2>13. ~StopSchedule BY <2>1, NoneAssumption DEF StopSchedule, IsRunning
  <2> QED BY <2>3, <2>4, <2>5, <2>6, <2>7, <2>8, <2>9, <2>10, <2>11, <2>12, <2>13
          DEF Next, Looping, Asking
<1>2. Spec => [][Rests]_vars BY <1>1, TypeCorrect, PTL DEF Spec
<1> QED BY <1>2 DEF StopStands

(***************************************************************************)
(* Ticks that have ended.  An iteration looks from behind the latest tick, *)
(* unless that one has not ended: what it has found is inductive.          *)
(***************************************************************************)

\* A set of execution times has a latest one.
LEMMA LatestTime ==
  ASSUME NEW T, T \subseteq CronTimes, T # {}
  PROVE  \E m \in T : \A u \in T : u <= m
<1> DEFINE D == {d \in Nat : \E t \in T : d = MaxTime - t}
<1>1. \A t \in T : MaxTime - t \in D BY CronTimesAssumption
<1>2. D \subseteq Nat /\ D # {} BY <1>1
<1>3. PICK d \in D : \A e \in D : ~ (<<e, d>> \in OpToRel(<, Nat))
  BY <1>2, WFMin, NatLessThanWellFounded
<1>4. PICK m \in T : d = MaxTime - m OBVIOUS
<1>5. ASSUME NEW u \in T PROVE u <= m
  <2>1. ~ (MaxTime - u < d) BY <1>1, <1>3 DEF OpToRel
  <2> QED BY <1>4, <2>1, CronTimesAssumption
<1> QED BY <1>5

EndedInv ==
  thread # None =>
    /\ \A t \in thread.todo : t \in Ticked => t \in thread.latest /\ Unfinished(t)
    /\ thread.at \in InTick => Unfinished(thread.time) /\ thread.time \notin thread.todo

\* What an iteration finds is not ended: it has no tick yet, or the latest one.
LEMMA FoundUnfinished ==
  ASSUME TypeOK, NEW t \in CronTimes, NEW given, NEW last, Ahead(t, given, last), t \in Ticked
  PROVE  t \in Latest /\ Unfinished(t)
<1>1. Ticked \subseteq CronTimes BY DEF Ticked
<1>2. PICK m \in Ticked : \A u \in Ticked : u <= m BY <1>1, LatestTime
<1>3. m \in Latest /\ t <= m BY <1>2 DEF Latest
<1>4. m < t \/ (m = t /\ Unfinished(m)) BY <1>3 DEF Ahead
<1>5. m \in Nat /\ t \in Nat BY <1>1, TimesAreNaturals
<1> QED BY <1>3, <1>4, <1>5

LEMMA EndedStep ==
  ASSUME TypeOK, EndedInv, [Next]_vars
  PROVE  /\ EndedInv'
         /\ \A t \in CronTimes : (t \in Ticked /\ ~Unfinished(t)) =>
              tick'[t] = tick[t] /\ ~(At("tick") /\ At("evaluate")' /\ thread'.time = t)
<1> DEFINE Stand == \A t \in CronTimes : (t \in Ticked /\ ~Unfinished(t)) =>
                      tick'[t] = tick[t] /\ ~(At("tick") /\ At("evaluate")' /\ thread'.time = t)
<1>1. ASSUME tick' = tick, thread' = thread \/ thread' = None PROVE EndedInv' /\ Stand
  BY <1>1 DEF EndedInv, Ticked, Unfinished, At
<1>2. ASSUME thread # None PROVE thread \in Thread BY <1>2 DEF TypeOK, ThreadOK
<1>3. CASE UNCHANGED vars BY <1>1, <1>3 DEF vars, stored, process
<1>4. CASE Looping
  <2>1. tick' = tick BY <1>4 DEF Looping, ReadStates, PassStopped, Declare, Launch, stored
  <2>2. CASE thread' = thread BY <1>1, <2>1, <2>2
  <2>3. CASE thread' = Iteration(row') \/ thread' = Iteration(loop.seen)
    BY <2>1, <2>3 DEF Iteration, EndedInv, InTick, At
  <2> QED BY <1>4, <2>2, <2>3 DEF Looping, ReadStates, PassStopped, Declare, Launch
<1>5. CASE FindTimes
  <2>1. thread \in Thread /\ tick' = tick BY <1>2, <1>5 DEF FindTimes, At, stored
  <2>2. thread'.at = "tick" /\ thread'.latest = Latest
    <3>1. PICK T : thread' = [thread EXCEPT !.at = "tick", !.latest = Latest, !.last = 0, !.todo = T]
      BY <1>5 DEF FindTimes
    <3> QED BY <2>1, <3>1 DEF Thread
  <2>3. \A t \in thread'.todo : t \in CronTimes /\ Ahead(t, thread.seen, thread.last)
    BY <1>5, <2>1 DEF FindTimes, Thread, CaughtUp
  <2>4. \A t \in thread'.todo : t \in Ticked => t \in Latest /\ Unfinished(t)
    BY <2>3, FoundUnfinished
  <2> QED BY <2>1, <2>2, <2>4 DEF EndedInv, InTick, Ticked, Unfinished, At
<1>6. CASE StartTick
  <2>1. thread \in Thread /\ thread # None BY <1>2, <1>6 DEF StartTick, At
  <2>2. PICK t \in thread.todo :
          /\ tick' = IF t \in thread.latest THEN tick
                     ELSE [tick EXCEPT ![t] = [status |-> "STARTED", failures |-> 0]]
          /\ thread' = [thread EXCEPT !.at = "evaluate", !.time = t, !.todo = @ \ {t}]
    BY <1>6 DEF StartTick
  <2>3. t \in CronTimes BY <2>1 DEF Thread
  <2>4. /\ thread'.todo = thread.todo \ {t} /\ thread'.time = t
        /\ thread'.latest = thread.latest
    BY <2>1, <2>2 DEF Thread
  <2>5. t \in Ticked => t \in thread.latest /\ Unfinished(t) BY <2>1 DEF EndedInv
  <2>6. \A u \in CronTimes : u # t => tick'[u] = tick[u] BY <2>2 DEF TypeOK
  <2>7. Unfinished(t)'
    <3>1. CASE t \in thread.latest
      <4>1. t \in Ticked BY <2>1, <2>3, <3>1 DEF TypeOK, ThreadOK, Ticked
      <4> QED BY <2>2, <2>5, <3>1, <4>1 DEF Unfinished
    <3>2. CASE t \notin thread.latest
      <4>1. tick'[t] = [status |-> "STARTED", failures |-> 0] BY <2>2, <2>3, <3>2 DEF TypeOK
      <4>2. tick'[t] \in Tick BY <4>1 DEF Tick
      <4> QED BY <4>1, <4>2, NoneAssumption DEF Unfinished
    <3> QED BY <3>1, <3>2
  <2>8. \A u \in thread'.todo : u \in Ticked' => u \in thread'.latest /\ Unfinished(u)'
    <3>1. SUFFICES ASSUME NEW u \in thread.todo, u # t, u \in Ticked'
                   PROVE  u \in thread.latest /\ Unfinished(u)'
      BY <2>4
    <3>2. u \in CronTimes /\ tick'[u] = tick[u] BY <2>1, <2>6, <3>1 DEF Thread
    <3> QED BY <2>1, <3>1, <3>2 DEF EndedInv, Ticked, Unfinished
  <2>9. EndedInv' BY <2>4, <2>7, <2>8 DEF EndedInv
  <2>10. Stand
    <3>1. SUFFICES ASSUME NEW u \in CronTimes, u \in Ticked, ~Unfinished(u)
                   PROVE  tick'[u] = tick[u] /\ thread'.time # u
      OBVIOUS
    <3>2. u # t BY <2>5, <3>1
    <3> QED BY <2>4, <2>6, <3>2
  <2> QED BY <2>9, <2>10
<1>7. CASE EndIteration BY <1>1, <1>7 DEF EndIteration
<1>8. ASSUME thread # None, thread.at \in InTick, NEW x \in Tick,
             tick' = [tick EXCEPT ![thread.time] = x],
             \/ thread' = None
             \/ thread' = [thread EXCEPT !.at = "tick", !.time = 0]
      PROVE  EndedInv' /\ Stand
  <2>1. thread \in Thread /\ Unfinished(thread.time) /\ thread.time \notin thread.todo
    BY <1>2, <1>8 DEF EndedInv
  <2>2. \A u \in CronTimes : u # thread.time => tick'[u] = tick[u] BY <1>8 DEF TypeOK
  <2>3. Stand BY <1>8, <2>1, <2>2 DEF At, InTick
  <2>4. thread' # None => /\ thread'.at = "tick" /\ thread'.todo = thread.todo
                          /\ thread'.latest = thread.latest
    BY <1>8, <2>1 DEF Thread
  <2>5. \A u \in thread.todo : u \in CronTimes /\ tick'[u] = tick[u] BY <2>1, <2>2 DEF Thread
  <2>6. \A u \in thread.todo : u \in Ticked' => u \in thread.latest /\ Unfinished(u)'
    BY <1>8, <2>5 DEF EndedInv, Ticked, Unfinished
  <2> QED BY <2>3, <2>4, <2>6 DEF EndedInv, InTick
<1>9. ASSUME thread # None, thread.at \in InTick, tick' = tick, thread' \in Thread,
             thread'.at \in InTick, thread'.time = thread.time, thread'.todo = thread.todo,
             thread'.latest = thread.latest
      PROVE  EndedInv' /\ Stand
  BY <1>9 DEF EndedInv, Ticked, Unfinished, At, InTick
<1>10. CASE Evaluate
  BY <1>2, <1>9, <1>10 DEF Evaluate, At, InTick, Thread, stored
<1>11. CASE Skip \/ Succeed
  <2>1. PICK ending \in {"SKIPPED", "SUCCESS"} : EndTick(ending) BY <1>11 DEF Skip, Succeed
  <2>2. [status |-> ending, failures |-> 0] \in Tick BY DEF Tick
  <2>3. thread # None /\ thread.at \in InTick BY <1>11 DEF Skip, Succeed, At, InTick
  <2> QED BY <1>8, <2>1, <2>2, <2>3 DEF EndTick
<1>12. CASE Fail \/ Unreachable
  <2>1. thread # None /\ thread.at \in InTick
    BY <1>12 DEF Fail, Unreachable, Raises, At, InTick
  <2>2. tick[thread.time].failures \in Nat BY <2>1, TickInProgress DEF Tick
  <2>3. PICK failures \in Nat : FailTick(failures) BY <1>12, <2>2 DEF Fail, Unreachable
  <2>4. [status |-> "FAILURE", failures |-> failures] \in Tick BY DEF Tick
  <2> QED BY <1>8, <2>1, <2>3, <2>4 DEF FailTick
<1>13. ASSUME NEW k \in Keys, Existing(k) \/ CreateRun(k) PROVE EndedInv' /\ Stand
  <2>1. thread # None /\ thread.at \in InTick /\ tick' = tick
    BY <1>13 DEF Existing, CreateRun, At, InTick, stored
  <2>2. thread \in Thread BY <1>2, <2>1
  <2>3. /\ thread' \in Thread /\ thread'.at \in InTick /\ thread'.time = thread.time
        /\ thread'.todo = thread.todo /\ thread'.latest = thread.latest
    BY <1>13, <2>1, <2>2 DEF Existing, CreateRun, Thread, InTick
  <2> QED BY <1>9, <2>1, <2>3
<1>14. ASSUME NEW run, SubmitRun(run) PROVE EndedInv' /\ Stand
  <2>1. thread \in Thread /\ thread # None /\ thread.at \in InTick /\ tick' = tick
    BY <1>2, <1>14 DEF SubmitRun, At, InTick
  <2>2. /\ thread' \in Thread /\ thread'.at \in InTick /\ thread'.time = thread.time
        /\ thread'.todo = thread.todo /\ thread'.latest = thread.latest
    BY <1>14, <2>1 DEF SubmitRun, Thread, InTick
  <2> QED BY <1>9, <2>1, <2>2
<1>15. CASE Crash \/ Clock \/ Asking
  BY <1>1, <1>15
  DEF Crash, Clock, Asking, StartSchedule, StopSchedule, ResetSchedule, stored, process
<1>16. CASE Ticking
  BY <1>10, <1>11, <1>12, <1>13, <1>14, <1>16 DEF Ticking, Submitted, SubmitRaises
<1> QED BY <1>3, <1>4, <1>5, <1>6, <1>7, <1>15, <1>16 DEF Next, Iterating

\* A tick that has ended, and not failed with retries left, is never written nor started again.
THEOREM EndedTicksStand == Spec => FinishedTicksStand
<1> DEFINE Stand == \A t \in CronTimes : (t \in Ticked /\ ~Unfinished(t)) =>
                      tick'[t] = tick[t] /\ ~(At("tick") /\ At("evaluate")' /\ thread'.time = t)
<1>1. Init => EndedInv BY DEF Init, EndedInv
<1>2. TypeOK /\ EndedInv /\ [Next]_vars => EndedInv' /\ Stand BY EndedStep
<1>3. Spec => [][Stand]_vars BY <1>1, <1>2, TypeCorrect, PTL DEF Spec
<1> QED BY <1>3 DEF FinishedTicksStand

(***************************************************************************)
(* Nothing is left behind.  The times that are owed: still open, and not   *)
(* before the schedule has run.  Every point from which some iteration may *)
(* look, in the row, in the memory or in a copy of the row, lies at or     *)
(* before all of them, and the iteration in flight has those up to its end *)
(* on its list.                                                            *)
(***************************************************************************)

Ended(t)     == t \in Ticked /\ ~Unfinished(t)
Open         == {t \in CronTimes : t \notin dropped /\ ~Ended(t)}
Pending      == {t \in Open : since # 0 /\ since <= t}
LooksFrom(r) == {r.start, r.last}

\* Before the schedule has a row, nothing has happened.
Fresh == row = None => /\ since = 0 /\ Ticked = {} /\ thread = None /\ memory = NoTimes
                       /\ loop # None => loop.seen = None

Resting == row # None /\ row.status = "STOPPED" => since = 0

\* All that is noted down lies in the past, in the order in which it was read.
Past ==
  /\ row # None => \A p \in LooksFrom(row) : p <= now
  /\ memory.last <= now
  /\ \A u \in Ticked : u <= now
  /\ loop # None => /\ loop.end <= now /\ memory.last <= loop.end
                    /\ loop.seen # None => \A p \in LooksFrom(loop.seen) : p <= loop.end
                    /\ \A u \in Ticked : u <= loop.end
  /\ thread # None => /\ thread.end <= now /\ thread.last <= thread.end
                      /\ \A p \in LooksFrom(thread.seen) : p <= thread.end
                      /\ \A u \in Ticked : u <= thread.end
                      /\ \A u \in thread.todo : u <= thread.end
                      /\ loop # None => thread.end <= loop.end

\* Whoever looks for what is due looks from before all of it.
Before ==
  \A t \in Pending :
    /\ memory.last <= t
    /\ \A u \in Ticked : u <= t
    /\ row # None => \A p \in LooksFrom(row) : p <= t
    /\ loop # None /\ loop.seen # None => \A p \in LooksFrom(loop.seen) : p <= t
    /\ thread # None => thread.last <= t /\ \A p \in LooksFrom(thread.seen) : p <= t

\* The iteration in flight has it on its list.
Listed ==
  (thread # None /\ thread.at # "start") =>
    /\ \A t \in Open :
         (t \in Pending \/ t = thread.end) /\ t <= thread.end =>
           t \in thread.todo \/ (thread.at \in InTick /\ t = thread.time)
    /\ thread.at \in InTick => \A u \in thread.todo : thread.time < u

\* And no iteration waits past a tick it has to do again.
Woken ==
  thread = None => \A t \in Open : (t \in Pending \/ t = now) /\ Unfinished(t) => memory.next <= t

BehindInv == Fresh /\ Resting /\ Past /\ Before /\ Listed /\ Woken

\* The numbers in the state.
LEMMA SchedulerNumbers ==
  ASSUME TypeOK
  PROVE  /\ now \in Nat /\ since \in Nat /\ memory.last \in Nat /\ memory.next \in Nat
         /\ CronTimes \subseteq Nat /\ Ticked \subseteq CronTimes
         /\ Open \subseteq CronTimes /\ Pending \subseteq Open
         /\ row # None => row \in Row /\ row.start \in Nat /\ row.last \in Nat
         /\ loop # None => /\ loop.end \in Nat /\ loop.seen \in Row \cup {None}
                           /\ loop.seen # None => loop.seen \in Row /\ loop.seen.start \in Nat /\ loop.seen.last \in Nat
         /\ thread # None => /\ thread \in Thread /\ thread.end \in Nat /\ thread.last \in Nat
                             /\ thread.seen \in Row /\ thread.seen.start \in Nat /\ thread.seen.last \in Nat
                             /\ thread.todo \subseteq CronTimes /\ thread.time \in Nat
<1> USE TimesAreNaturals, NoneAssumption
<1>1. CronTimes \subseteq Nat /\ Ticked \subseteq CronTimes /\ Open \subseteq CronTimes /\ Pending \subseteq Open
  BY DEF Ticked, Open, Pending
<1>2. \A r \in Row : r.start \in Nat /\ r.last \in Nat BY DEF Row
<1>3. now \in Nat /\ since \in Nat /\ memory.last \in Nat /\ memory.next \in Nat BY DEF TypeOK
<1>4. row # None => row \in Row BY DEF TypeOK
<1>5. loop # None => loop.end \in Nat /\ loop.seen \in Row \cup {None} BY DEF TypeOK, Reading
<1>6. thread # None => /\ thread \in Thread /\ thread.end \in Nat /\ thread.last \in Nat
                       /\ thread.seen \in Row /\ thread.todo \subseteq CronTimes /\ thread.time \in Nat
  BY DEF TypeOK, ThreadOK, Thread
<1> QED BY <1>1, <1>2, <1>3, <1>4, <1>5, <1>6

\* What is left out stays so, and what has ended too: nothing is opened.
LEMMA NothingReopens ==
  ASSUME TypeOK, EndedInv, [Next]_vars
  PROVE  /\ \A t \in CronTimes : Ended(t) => Ended(t)'
         /\ Open' \subseteq Open
         /\ (since' = since \/ since' = 0) => Pending' \subseteq Pending
<1>1. \A t \in CronTimes : Ended(t) => tick'[t] = tick[t] BY EndedStep DEF Ended
<1>2. dropped \subseteq dropped'
  BY DEF Next, Looping, Iterating, Ticking, vars, stored, process, history, bounds, ReadStates, PassStopped,
         Declare, Launch, FindTimes, StartTick, EndIteration, Evaluate, Skip, Fail, Unreachable, Succeed,
         Submitted, SubmitRaises, SubmitRun, Existing, CreateRun, EndTick, FailTick, Crash, Clock, Asking,
         StartSchedule, StopSchedule, ResetSchedule
<1>3. \A t \in CronTimes : Ended(t) => Ended(t)' BY <1>1 DEF Ended, Ticked, Unfinished
<1>4. Open' \subseteq Open BY <1>2, <1>3 DEF Open
<1> QED BY <1>3, <1>4 DEF Pending

\* A step that changes nothing of all this, or forgets what the daemon knew.
LEMMA BehindUntouched ==
  ASSUME TypeOK, BehindInv, now' = now, row' = row, tick' = tick, since' = since, dropped' = dropped,
         \/ /\ loop' = loop /\ memory' = memory
            /\ \/ thread' = thread
               \/ /\ thread # None /\ thread' # None /\ thread.at \in InTick /\ thread'.at \in InTick
                  /\ thread'.end = thread.end /\ thread'.last = thread.last /\ thread'.seen = thread.seen
                  /\ thread'.todo = thread.todo /\ thread'.time = thread.time
         \/ loop' = None /\ thread' = None /\ memory' = NoTimes
  PROVE  BehindInv'
<1>1. Ticked' = Ticked BY DEF Ticked
<1>2. \A t : Unfinished(t)' <=> Unfinished(t) BY DEF Unfinished
<1>3. Open' = Open BY <1>1, <1>2 DEF Open, Ended
<1>4. Pending' = Pending BY <1>3 DEF Pending
<1> USE <1>1, <1>2, <1>3, <1>4
<1>5. ASSUME loop' = loop, memory' = memory,
             \/ thread' = thread
             \/ /\ thread # None /\ thread' # None /\ thread.at \in InTick /\ thread'.at \in InTick
                /\ thread'.end = thread.end /\ thread'.last = thread.last /\ thread'.seen = thread.seen
                /\ thread'.todo = thread.todo /\ thread'.time = thread.time
      PROVE  BehindInv'
  <2>1. Fresh' /\ Resting' BY <1>5 DEF BehindInv, Fresh, Resting
  <2>2. Past' BY <1>5 DEF BehindInv, Past, LooksFrom
  <2>3. Before' BY <1>5 DEF BehindInv, Before, LooksFrom
  <2>4. Listed' BY <1>5 DEF BehindInv, Listed, InTick
  <2>5. Woken' BY <1>5 DEF BehindInv, Woken, Unfinished
  <2> QED BY <2>1, <2>2, <2>3, <2>4, <2>5 DEF BehindInv
<1>6. CASE loop' = None /\ thread' = None /\ memory' = NoTimes
  <2>1. memory'.last = 0 /\ memory'.next = 0 BY <1>6 DEF NoTimes
  <2>2. Fresh' /\ Resting' BY <1>6 DEF BehindInv, Fresh, Resting
  <2>3. Past' BY <1>6, <2>1, SchedulerNumbers DEF BehindInv, Past, LooksFrom
  <2>4. Before' BY <1>6, <2>1, SchedulerNumbers DEF BehindInv, Before, LooksFrom
  <2>5. Listed' BY <1>6 DEF BehindInv, Listed
  <2>6. Woken' BY <1>6, <2>1, SchedulerNumbers DEF BehindInv, Woken
  <2> QED BY <2>2, <2>3, <2>4, <2>5, <2>6 DEF BehindInv
<1> QED BY <1>5, <1>6

\* What the steps of the loop do to it.
LEMMA BehindLooping ==
  ASSUME TypeOK, EndedInv, BehindInv, Looping
  PROVE  BehindInv'
<1> USE SchedulerNumbers DEF BehindInv
<1>0. [Next]_vars BY DEF Next
<1>1. tick' = tick /\ dropped' = dropped /\ memory' = memory /\ now' = now
  BY DEF Looping, ReadStates, PassStopped, Declare, Launch, stored, history
<1>2. Ticked' = Ticked /\ \A t : Unfinished(t)' <=> Unfinished(t) BY <1>1 DEF Ticked, Unfinished
<1>3. Open' = Open BY <1>1, <1>2 DEF Open, Ended
<1>4. ASSUME thread' = thread \/ (thread' # None /\ thread'.at = "start") PROVE Listed'
  <2>1. CASE thread' = thread /\ Pending' \subseteq Pending
    BY <1>3, <2>1 DEF Listed, InTick
  <2>2. CASE thread' # None /\ thread'.at = "start" BY <2>2 DEF Listed
  <2>3. CASE thread = None /\ thread' = None BY <2>3 DEF Listed
  <2>4. (since' = since \/ since' = 0) \/ (Declare /\ row = None)
    BY DEF Looping, ReadStates, PassStopped, Declare, Launch, Checkpoint, history
  <2>5. row = None => thread = None BY DEF Fresh
  <2> QED BY <1>0, <1>4, <2>1, <2>2, <2>3, <2>4, <2>5, NothingReopens
<1>5. ASSUME since' = since \/ since' = 0, thread' = thread \/ thread' # None PROVE Woken'
  <2>1. Pending' \subseteq Pending BY <1>0, <1>5, NothingReopens
  <2> QED BY <1>1, <1>3, <1>5, <2>1 DEF Woken, Unfinished
<1>6. CASE ReadStates
  <2>1. /\ row' = row /\ since' = since /\ thread' = thread /\ loop' # None
        /\ loop'.seen = row /\ loop'.end = now
    BY <1>6, NoneAssumption DEF ReadStates, stored, history, TypeOK, Reading, Times
  <2>2. Pending' = Pending BY <1>3, <2>1 DEF Pending
  <2>3. Fresh' /\ Resting' BY <1>1, <1>2, <2>1 DEF Fresh, Resting
  <2>4. Past' BY <1>1, <1>2, <2>1 DEF Past, LooksFrom
  <2>5. Before' BY <1>1, <1>2, <2>1, <2>2 DEF Before, LooksFrom
  <2> QED BY <1>4, <1>5, <2>1, <2>3, <2>4, <2>5
<1>7. CASE PassStopped
  <2>1. /\ thread' = thread /\ loop' = None BY <1>7 DEF PassStopped
  <2>2. CASE loop.seen = None
    <3>1. row' = row /\ since' = since BY <1>7, <2>2 DEF PassStopped
    <3>2. Pending' = Pending BY <1>3, <3>1 DEF Pending
    <3>3. Fresh' /\ Resting' BY <1>1, <1>2, <2>1, <3>1 DEF Fresh, Resting
    <3>4. Past' BY <1>1, <1>2, <2>1, <3>1 DEF Past, LooksFrom
    <3>5. Before' BY <1>1, <1>2, <2>1, <3>1, <3>2 DEF Before, LooksFrom
    <3> QED BY <1>4, <1>5, <2>1, <3>1, <3>3, <3>4, <3>5
  <2>3. CASE loop.seen # None
    <3>1. loop # None /\ loop.seen \in Row /\ loop.seen.status = "STOPPED"
      BY <1>7, <2>3 DEF PassStopped, IsRunning
    <3>2. row # None /\ row \in Row BY <2>3, <3>1 DEF Fresh
    <3>3. \/ row' = row /\ since' = since
          \/ /\ row' # None /\ row'.status = "STOPPED" /\ row'.start = loop.seen.start
             /\ row'.last = loop.end /\ since' = 0
      <4>1. CASE CheckpointDue(loop.seen, loop.end)
        <5>1. row' = [loop.seen EXCEPT !.last = loop.end] /\ since' = IF row'.status = row.status THEN since ELSE 0
          BY <1>7, <2>3, <4>1 DEF PassStopped, Checkpoint
        <5>2. row' \in Row BY <3>1, <5>1 DEF Row, TypeOK, Reading
        <5>3. row'.status = "STOPPED" /\ row'.start = loop.seen.start /\ row'.last = loop.end
          BY <3>1, <5>1 DEF Row
        <5>4. since' = 0 BY <3>2, <5>1, <5>3 DEF Resting
        <5> QED BY <5>2, <5>3, <5>4, NoneAssumption
      <4>2. CASE ~CheckpointDue(loop.seen, loop.end)
        BY <1>7, <2>3, <4>2 DEF PassStopped, Checkpoint
      <4> QED BY <4>1, <4>2
    <3>4. row' # None BY <3>2, <3>3
    <3>5. Pending' \subseteq Pending BY <1>0, <3>3, NothingReopens
    <3>6. Fresh' BY <3>4 DEF Fresh
    <3>7. Resting' BY <3>3 DEF Resting
    <3>8. Past'
      <4>1. row'.start <= now /\ row'.last <= now
        <5>1. \A p \in LooksFrom(row) : p <= now BY <3>2 DEF Past
        <5>2. loop.end <= now /\ \A p \in LooksFrom(loop.seen) : p <= loop.end BY <2>3, <3>1 DEF Past
        <5>3. loop.seen.start \in Nat /\ loop.end \in Nat BY <2>3, <3>1
        <5> QED BY <3>3, <5>1, <5>2, <5>3 DEF LooksFrom
      <4> QED BY <1>1, <1>2, <2>1, <4>1 DEF Past, LooksFrom
    <3>9. Before'
      <4>1. CASE row' = row BY <1>1, <1>2, <2>1, <3>5, <4>1 DEF Before, LooksFrom
      <4>2. CASE since' = 0 BY <4>2 DEF Before, Pending
      <4> QED BY <3>3, <4>1, <4>2
    <3> QED BY <1>4, <1>5, <2>1, <3>3, <3>6, <3>7, <3>8, <3>9
  <2> QED BY <2>2, <2>3
<1>8. ASSUME NEW given \in Row PROVE
        /\ loop # None => Iteration(given) # None
        /\ Iteration(given).at = "start" /\ Iteration(given).seen = given
        /\ Iteration(given).end = loop.end /\ Iteration(given).last = memory.last
        /\ Iteration(given).todo = {}
  <2>1. loop # None => Iteration(given) \in Thread BY TimesAreNaturals DEF Iteration, Thread, TypeOK, Reading, Times
  <2> QED BY <2>1, NoneAssumption DEF Iteration
<1>9. CASE Launch
  <2>1. loop # None /\ loop.seen \in Row /\ loop.seen # None /\ row' = row /\ since' = since /\ loop' = None
    BY <1>9 DEF Launch, stored, history
  <2>2. Pending' = Pending BY <1>3, <2>1 DEF Pending
  <2>3. \/ thread' = thread
        \/ /\ thread' # None /\ thread'.at = "start" /\ thread'.seen = loop.seen
           /\ thread'.end = loop.end /\ thread'.last = memory.last /\ thread'.todo = {}
    BY <1>8, <1>9, <2>1 DEF Launch
  <2>4. Fresh' /\ Resting' BY <1>1, <1>2, <2>1 DEF Fresh, Resting
  <2>5. Past' BY <1>1, <1>2, <2>1, <2>3 DEF Past, LooksFrom
  <2>6. Before' BY <1>1, <1>2, <2>1, <2>2, <2>3 DEF Before, LooksFrom
  <2> QED BY <1>4, <1>5, <2>1, <2>3, <2>4, <2>5, <2>6
<1>10. CASE Declare
  <2>1. loop # None /\ loop' = None BY <1>10 DEF Declare
  <2>2. CASE row # None
    <3>1. row' = row /\ since' = since /\ thread' = thread BY <1>10, <2>2 DEF Declare
    <3>2. Pending' = Pending BY <1>3, <3>1 DEF Pending
    <3>3. Fresh' /\ Resting' BY <1>1, <1>2, <2>1, <3>1 DEF Fresh, Resting
    <3>4. Past' BY <1>1, <1>2, <2>1, <3>1 DEF Past, LooksFrom
    <3>5. Before' BY <1>1, <1>2, <2>1, <3>1, <3>2 DEF Before, LooksFrom
    <3> QED BY <1>4, <1>5, <2>1, <3>1, <3>3, <3>4, <3>5
  <2>3. CASE row = None
    <3>1. thread = None /\ Ticked = {} /\ memory.last = 0 BY <2>3 DEF Fresh, NoTimes
    <3>2. row' = [status |-> "DECLARED_IN_CODE", start |-> loop.end, last |-> 0] /\ since' = loop.end
      BY <1>10, <2>3 DEF Declare
    <3>3. row' \in Row /\ row' # None BY <2>1, <3>2, NoneAssumption, TimesAreNaturals DEF Row, TypeOK, Reading
    <3>4. row'.start = loop.end /\ row'.last = 0 /\ row'.status = "DECLARED_IN_CODE" BY <3>2
    <3>5. \/ thread' = None
          \/ /\ thread' # None /\ thread'.at = "start" /\ thread'.seen = row'
             /\ thread'.end = loop.end /\ thread'.last = 0 /\ thread'.todo = {}
      BY <1>8, <1>10, <2>3, <3>1, <3>3 DEF Declare
    <3>6. \A t \in Pending' : loop.end <= t BY <3>2 DEF Pending
    <3>7. Fresh' /\ Resting' BY <3>3, <3>4 DEF Fresh, Resting
    <3>8. Past' BY <1>1, <1>2, <2>1, <3>1, <3>4, <3>5 DEF Past, LooksFrom
    <3>9. Before'
      <4>1. Pending' \subseteq Open BY <1>3 DEF Pending
      <4> QED BY <1>1, <1>2, <2>1, <3>1, <3>3, <3>4, <3>5, <3>6, <4>1 DEF Before, LooksFrom
    <3>10. Woken'
      <4>1. \A t : ~Unfinished(t)' \/ t \notin Open BY <1>2, <3>1 DEF Unfinished, Ticked, Open
      <4> QED BY <1>3, <4>1 DEF Woken
    <3> QED BY <1>4, <3>1, <3>5, <3>7, <3>8, <3>9, <3>10
  <2> QED BY <2>2, <2>3
<1> QED BY <1>6, <1>7, <1>9, <1>10 DEF Looping

\* What the steps of an iteration do to it.
LEMMA BehindIterating ==
  ASSUME TypeOK, EndedInv, BehindInv, EndedInv', Iterating
  PROVE  BehindInv'
<1> USE SchedulerNumbers DEF BehindInv
<1>0. [Next]_vars BY DEF Next
<1>1. thread # None /\ thread \in Thread
  BY DEF Iterating, FindTimes, StartTick, EndIteration, At
<1>2. row # None BY <1>1 DEF Fresh
<1>3. CASE FindTimes
  <2>1. /\ tick' = tick /\ row' = row /\ memory' = memory /\ now' = now /\ loop' = loop /\ since' = since
        /\ thread.at = "start"
    BY <1>3 DEF FindTimes, At, stored
  <2> DEFINE due == {t \in CronTimes : Ahead(t, thread.seen, thread.last) /\ t <= thread.end}
             found == CaughtUp(due)
  <2>2. dropped' = dropped \cup (due \ found) BY <1>3 DEF FindTimes
  <2>3. /\ thread'.at = "tick" /\ thread'.todo = found /\ thread'.last = 0
        /\ thread'.seen = thread.seen /\ thread'.end = thread.end
    <3>1. thread' = [thread EXCEPT !.at = "tick", !.latest = Latest, !.last = 0, !.todo = found]
      BY <1>3 DEF FindTimes
    <3> HIDE DEF found
    <3> QED BY <1>1, <3>1 DEF Thread
  <2>4. found \subseteq due BY DEF CaughtUp
  <2>5. \A t \in due : t <= thread.end OBVIOUS
  <2>6. \A t \in CronTimes :
          /\ \A p \in LooksFrom(thread.seen) : p <= t
          /\ thread.last <= t /\ t <= thread.end
          /\ \A u \in Ticked : u <= t
          /\ ~Ended(t)
          => t \in due
    <3> SUFFICES ASSUME NEW t \in CronTimes, \A p \in LooksFrom(thread.seen) : p <= t,
                        thread.last <= t, t <= thread.end, \A u \in Ticked : u <= t, ~Ended(t)
                 PROVE  Ahead(t, thread.seen, thread.last)
      OBVIOUS
    <3>1. \A u \in Latest : u \in Ticked /\ u <= t /\ u \in Nat /\ t \in Nat BY DEF Latest
    <3>2. \A u \in Latest : u < t \/ (u = t /\ Unfinished(u)) BY <3>1 DEF Ended
    <3> QED BY <3>2 DEF Ahead, LooksFrom
  <2> HIDE DEF due, found
  <2>7. Ticked' = Ticked /\ Open' \subseteq Open /\ Pending' \subseteq Pending
    BY <1>0, <2>1, NothingReopens DEF Ticked
  <2>8. \A t \in Open' : t \in Open /\ t \notin due \ found BY <2>2, <2>7 DEF Open
  <2>9. Fresh' /\ Resting' BY <1>2, <2>1 DEF Fresh, Resting
  <2>10. Past' BY <1>1, <2>1, <2>3, <2>4, <2>5, <2>7 DEF Past, LooksFrom
  <2>11. Before' BY <1>1, <2>1, <2>3, <2>7 DEF Before, LooksFrom
  <2>12. Listed'
    <3> SUFFICES ASSUME NEW t \in Open', t \in Pending' \/ t = thread.end, t <= thread.end
                 PROVE  t \in found
      BY <2>3 DEF Listed, InTick
    <3>1. t \in CronTimes /\ ~Ended(t) BY <2>7 DEF Open
    <3>2. CASE t \in Pending'
      <4>1. /\ \A p \in LooksFrom(thread.seen) : p <= t
            /\ thread.last <= t /\ \A u \in Ticked : u <= t
        BY <1>1, <2>7, <3>2 DEF Before
      <4> QED BY <2>6, <2>8, <3>1, <4>1
    <3>3. CASE t = thread.end
      <4>1. /\ \A p \in LooksFrom(thread.seen) : p <= t
            /\ thread.last <= t /\ \A u \in Ticked : u <= t
        BY <1>1, <3>3 DEF Past
      <4> QED BY <2>6, <2>8, <3>1, <4>1
    <3> QED BY <3>2, <3>3
  <2>13. Woken'
    <3>1. thread' # None
      <4> DEFINE latest == Latest
      <4>1. thread' = [thread EXCEPT !.at = "tick", !.latest = latest, !.last = 0, !.todo = found]
        BY <1>3 DEF FindTimes, due, found
      <4>2. latest \subseteq CronTimes BY DEF Latest
      <4>3. found \subseteq CronTimes BY <2>4 DEF due
      <4> HIDE DEF latest
      <4>4. PICK th \in Thread : th = [thread EXCEPT !.at = "tick", !.latest = latest]
        BY <1>1, <4>2 DEF Thread
      <4>5. PICK u \in Thread : u = [th EXCEPT !.last = 0] BY TimesAreNaturals DEF Thread
      <4>6. thread' = [u EXCEPT !.todo = found] BY <4>1, <4>4, <4>5 DEF Thread
      <4>7. thread' \in Thread BY <4>3, <4>6 DEF Thread
      <4> QED BY <4>7, NoneAssumption
    <3> QED BY <3>1 DEF Woken
  <2> QED BY <2>9, <2>10, <2>11, <2>12, <2>13
<1>4. CASE StartTick
  <2>1. /\ row' = row /\ memory' = memory /\ now' = now /\ loop' = loop /\ since' = since
        /\ dropped' = dropped /\ thread.at = "tick"
    BY <1>4 DEF StartTick, At, history
  <2>2. PICK t \in thread.todo :
          /\ \A u \in thread.todo : t <= u
          /\ tick' = IF t \in thread.latest THEN tick
                     ELSE [tick EXCEPT ![t] = [status |-> "STARTED", failures |-> 0]]
          /\ thread' = [thread EXCEPT !.at = "evaluate", !.time = t, !.todo = @ \ {t}]
    BY <1>4 DEF StartTick
  <2>3. /\ thread'.at = "evaluate" /\ thread'.time = t /\ thread'.todo = thread.todo \ {t}
        /\ thread'.seen = thread.seen /\ thread'.end = thread.end /\ thread'.last = thread.last
    BY <1>1, <2>2 DEF Thread
  <2>4. Ticked' \subseteq Ticked \cup {t}
    <3>1. \A u \in CronTimes : u # t => tick'[u] = tick[u] BY <2>2 DEF TypeOK
    <3> QED BY <3>1 DEF Ticked
  <2>5. Open' \subseteq Open /\ Pending' \subseteq Pending BY <1>0, <2>1, NothingReopens
  <2>6. t \in Nat /\ t <= thread.end BY <1>1, <2>2 DEF Past
  <2>7. \A u \in Pending : t <= u
    <3> SUFFICES ASSUME NEW u \in Pending PROVE t <= u OBVIOUS
    <3>1. u \in Nat /\ u \in Open OBVIOUS
    <3>2. CASE u <= thread.end
      <4>1. u \in thread.todo BY <1>1, <2>1, <3>1, <3>2 DEF Listed, InTick
      <4> QED BY <2>2, <4>1
    <3> QED BY <1>1, <2>6, <3>1, <3>2
  <2>8. Fresh' /\ Resting' BY <1>2, <2>1 DEF Fresh, Resting
  <2>9. Past' BY <1>1, <2>1, <2>3, <2>4, <2>6 DEF Past, LooksFrom
  <2>10. Before' BY <1>1, <2>1, <2>3, <2>4, <2>5, <2>7 DEF Before, LooksFrom
  <2>11. Listed'
    <3>1. \A u \in Open' : (u \in Pending' \/ u = thread.end) /\ u <= thread.end => u \in thread.todo
      BY <1>1, <2>1, <2>5 DEF Listed, InTick
    <3>2. \A u \in thread.todo \ {t} : t < u
      <4>1. \A u \in thread.todo : u \in Nat BY <1>1
      <4> QED BY <2>2, <2>6, <4>1
    <3> QED BY <2>3, <3>1, <3>2 DEF Listed, InTick
  <2>12. Woken'
    <3>1. thread' # None
      <4> DEFINE rest == thread.todo \ {t}
      <4>0. rest \subseteq CronTimes /\ t \in Times BY <1>1, <2>2, TimesAreNaturals
      <4>2. thread' = [thread EXCEPT !.at = "evaluate", !.time = t, !.todo = rest]
        BY <1>1, <2>2 DEF Thread
      <4> HIDE DEF rest
      <4>1. thread' \in Thread BY <1>1, <4>0, <4>2 DEF Thread, InTick
      <4> QED BY <4>1, NoneAssumption
    <3> QED BY <3>1 DEF Woken
  <2> QED BY <2>8, <2>9, <2>10, <2>11, <2>12
<1>5. CASE EndIteration
  <2>1. /\ tick' = tick /\ now' = now /\ loop' = loop /\ dropped' = dropped
        /\ thread.at = "tick" /\ thread.todo = {} /\ thread' = None /\ memory'.last = thread.end
    BY <1>5 DEF EndIteration, At
  <2>2. \/ row' = row /\ since' = since
        \/ /\ row' \in Row /\ row'.status = thread.seen.status /\ row'.start = thread.seen.start
           /\ row'.last = thread.end /\ since' = IF row'.status = row.status THEN since ELSE 0
    <3>1. CASE CheckpointDue(thread.seen, thread.end)
      <4>1. row' = [thread.seen EXCEPT !.last = thread.end] /\ since' = IF row'.status = row.status THEN since ELSE 0
        BY <1>5, <3>1 DEF EndIteration, Checkpoint
      <4>2. thread.seen \in Row /\ thread.end \in Times BY <1>1 DEF Thread
      <4> QED BY <4>1, <4>2 DEF Row
    <3>2. CASE ~CheckpointDue(thread.seen, thread.end)
      BY <1>5, <3>2 DEF EndIteration, Checkpoint
    <3> QED BY <3>1, <3>2
  <2>3. row' # None BY <1>2, <2>2, NoneAssumption
  <2>4. Ticked' = Ticked /\ Open' \subseteq Open /\ Pending' \subseteq Pending
    BY <1>0, <2>1, <2>2, NothingReopens DEF Ticked
  <2>5. \A t \in Open : (t \in Pending \/ t = thread.end) => thread.end < t
    BY <1>1, <2>1 DEF Listed, InTick
  <2>6. Fresh' BY <2>3 DEF Fresh
  <2>7. Resting' BY <1>2, <2>2 DEF Resting
  <2>8. Past' BY <1>1, <1>2, <2>1, <2>2, <2>4 DEF Past, LooksFrom
  <2>9. Before'
    <3> SUFFICES ASSUME NEW t \in Pending' PROVE
          /\ thread.end <= t /\ \A u \in Ticked : u <= t
          /\ \A p \in LooksFrom(row') : p <= t
          /\ loop # None /\ loop.seen # None => \A p \in LooksFrom(loop.seen) : p <= t
      BY <2>1, <2>4 DEF Before, LooksFrom
    <3>1. t \in Pending /\ thread.end < t /\ t \in Nat BY <2>4, <2>5
    <3>2. \A p \in LooksFrom(row') : p <= t BY <1>1, <1>2, <2>2, <3>1 DEF Before, LooksFrom
    <3> QED BY <1>1, <3>1, <3>2 DEF Before
  <2>10. Listed' BY <2>1 DEF Listed
  <2>11. Woken'
    <3> SUFFICES ASSUME NEW t \in Open', t \in Pending' \/ t = now, Unfinished(t)' PROVE FALSE
      BY <2>1 DEF Woken
    <3>1. t \in Open /\ t \in Nat BY <2>4
    <3>2. t \in Ticked BY <2>1, <3>1 DEF Unfinished, Ticked, Open
    <3>3. t <= thread.end /\ thread.end <= now BY <1>1, <3>2 DEF Past
    <3>4. t \in Pending \/ t = thread.end BY <1>1, <2>4, <3>1, <3>3
    <3> QED BY <1>1, <2>5, <3>1, <3>3, <3>4
  <2> QED BY <2>6, <2>7, <2>8, <2>9, <2>10, <2>11
<1> QED BY <1>3, <1>4, <1>5 DEF Iterating

\* What the end of a tick does to it.
LEMMA BehindEnds ==
  ASSUME TypeOK, EndedInv, BehindInv, [Next]_vars, thread # None, thread.at \in InTick, NEW x \in Tick,
         tick' = [tick EXCEPT ![thread.time] = x],
         now' = now, row' = row, loop' = loop, since' = since, dropped' = dropped,
         \/ /\ x.status \in {"SKIPPED", "SUCCESS"} /\ memory' = memory
            /\ thread' = [thread EXCEPT !.at = "tick", !.time = 0]
         \/ thread' = None /\ memory' = [next |-> thread.time, last |-> thread.time]
  PROVE  BehindInv'
<1> USE SchedulerNumbers DEF BehindInv
<1>1. thread \in Thread /\ row # None BY DEF Fresh
<1>2. thread.time \in CronTimes /\ thread.time \in Ticked BY TickInProgress, NoneAssumption DEF Ticked
<1>3. \A u \in CronTimes : u # thread.time => tick'[u] = tick[u] BY DEF TypeOK
<1>4. tick'[thread.time] = x BY <1>2 DEF TypeOK
<1>5. Ticked' = Ticked BY <1>2, <1>3, <1>4, NoneAssumption DEF Ticked
<1>6. Open' \subseteq Open /\ Pending' \subseteq Pending BY NothingReopens
<1>7. Fresh' /\ Resting' BY <1>1 DEF Fresh, Resting
<1>8. CASE x.status \in {"SKIPPED", "SUCCESS"} /\ memory' = memory
           /\ thread' = [thread EXCEPT !.at = "tick", !.time = 0]
  <2>1. /\ thread' \in Thread /\ thread' # None /\ thread'.at = "tick" /\ thread'.todo = thread.todo
        /\ thread'.end = thread.end /\ thread'.seen = thread.seen /\ thread'.last = thread.last
    <3>1. thread' \in Thread BY <1>1, <1>8, TimesAreNaturals DEF Thread
    <3> QED BY <1>1, <1>8, <3>1, NoneAssumption DEF Thread
  <2>2. Past' BY <1>5, <1>8, <2>1 DEF Past, LooksFrom
  <2>3. Before' BY <1>5, <1>6, <1>8, <2>1 DEF Before, LooksFrom
  <2>4. thread.time \notin Open' BY <1>2, <1>4, <1>5, <1>8 DEF Open, Ended, Unfinished
  <2>5. Listed' BY <1>6, <2>1, <2>4 DEF Listed, InTick
  <2>6. Woken' BY <2>1 DEF Woken
  <2> QED BY <1>7, <2>2, <2>3, <2>5, <2>6
<1>9. CASE thread' = None /\ memory' = [next |-> thread.time, last |-> thread.time]
  <2>1. thread' = None /\ memory'.next = thread.time /\ memory'.last = thread.time BY <1>9
  <2>2. Past' BY <1>2, <1>5, <2>1 DEF Past, LooksFrom
  <2>3. Before' BY <1>2, <1>5, <1>6, <2>1 DEF Before, LooksFrom
  <2>4. Listed' BY <2>1 DEF Listed
  <2>5. Woken'
    <3> SUFFICES ASSUME NEW t \in Open', t \in Pending' \/ t = now, Unfinished(t)'
                 PROVE  thread.time <= t
      BY <2>1 DEF Woken
    <3>1. t \in Open /\ t \in Nat BY <1>6
    <3>2. t \in Ticked' BY <3>1 DEF Unfinished, Ticked, Open
    <3>3. t <= thread.end /\ thread.end <= now BY <1>5, <3>2 DEF Past
    <3>4. t \in Pending \/ t = thread.end BY <1>1, <1>6, <3>1, <3>3
    <3>5. t \in thread.todo \/ t = thread.time BY <1>1, <3>1, <3>3, <3>4 DEF Listed, InTick
    <3> QED BY <1>2, <3>1, <3>5 DEF Listed, InTick
  <2> QED BY <1>7, <2>2, <2>3, <2>4, <2>5
<1> QED BY <1>8, <1>9

\* What a user does to it: the schedule runs from now on, or not at all.
LEMMA BehindAsking ==
  ASSUME TypeOK, EndedInv, BehindInv, Asking
  PROVE  BehindInv'
<1> USE SchedulerNumbers DEF BehindInv
<1>0. [Next]_vars BY DEF Next
<1>1. /\ now' = now /\ tick' = tick /\ loop' = loop /\ thread' = thread /\ memory' = memory
      /\ dropped' = dropped
  BY DEF Asking, StartSchedule, StopSchedule, ResetSchedule, process
<1>2. Ticked' = Ticked /\ \A t : Unfinished(t)' <=> Unfinished(t) BY <1>1 DEF Ticked, Unfinished
<1>3. Open' = Open BY <1>1, <1>2 DEF Open, Ended
<1>4. /\ row' # None
      /\ \/ row'.start = now /\ row'.last = 0 /\ since' = now
         \/ row'.start = 0 /\ row'.last = 0
         \/ row # None /\ row'.start = row.start /\ row'.last = row.last
      /\ since' = since \/ since' = 0 \/ since' = now
      /\ row'.status = "STOPPED" => since' = 0
  <2>1. row' \in Row
    <3>1. CASE StartSchedule BY <3>1, TimesAreNaturals DEF StartSchedule, TypeOK, Row
    <3>2. CASE StopSchedule BY <3>2, TimesAreNaturals DEF StopSchedule, TypeOK, Row
    <3>3. CASE ResetSchedule
      BY <3>3, TimesAreNaturals DEF ResetSchedule, TypeOK, Row
    <3> QED BY <3>1, <3>2, <3>3 DEF Asking
  <2> QED BY <2>1, NoneAssumption DEF Asking, StartSchedule, StopSchedule, ResetSchedule
<1>5. \/ Pending' \subseteq Pending
      \/ since' = now /\ \A t \in Pending' : now <= t
  BY <1>0, <1>4, NothingReopens DEF Pending
<1>6. Pending' \subseteq Open BY <1>3 DEF Pending
<1>7. Fresh' /\ Resting' BY <1>4 DEF Fresh, Resting
<1>8. Past' BY <1>1, <1>2, <1>4 DEF Past, LooksFrom
<1>9. Before'
  <2>1. CASE Pending' \subseteq Pending
    <3>1. ASSUME NEW t \in Pending' PROVE row'.start <= t /\ row'.last <= t
      <4>1. t \in Pending /\ t \in Nat BY <2>1, <3>1
      <4>2. since' <= t BY <3>1 DEF Pending
      <4> QED BY <1>4, <4>1, <4>2 DEF Before, LooksFrom
    <3> QED BY <1>1, <1>2, <2>1, <3>1 DEF Before, LooksFrom
  <2>2. CASE \A t \in Pending' : now <= t
    <3> SUFFICES ASSUME NEW t \in Pending', now <= t, t \in Nat PROVE
          /\ memory.last <= t /\ \A u \in Ticked : u <= t
          /\ \A p \in LooksFrom(row') : p <= t
          /\ loop # None /\ loop.seen # None => \A p \in LooksFrom(loop.seen) : p <= t
          /\ thread # None => thread.last <= t /\ \A p \in LooksFrom(thread.seen) : p <= t
      BY <1>1, <1>2, <1>6, <2>2 DEF Before, LooksFrom
    <3>1. \A p \in LooksFrom(row') : p <= t BY <1>4 DEF Past, LooksFrom
    <3>2. memory.last <= t /\ \A u \in Ticked : u <= t BY DEF Past
    <3>3. loop # None /\ loop.seen # None => \A p \in LooksFrom(loop.seen) : p <= t
      BY DEF Past, LooksFrom
    <3>4. thread # None => thread.last <= t /\ \A p \in LooksFrom(thread.seen) : p <= t
      BY DEF Past, LooksFrom
    <3> QED BY <3>1, <3>2, <3>3, <3>4
  <2> QED BY <1>5, <2>1, <2>2
<1>10. Listed'
  <2> SUFFICES ASSUME thread # None, thread.at # "start", NEW t \in Open,
                      t \in Pending' \/ t = thread.end, t <= thread.end
               PROVE  t \in Pending \/ t = thread.end
    BY <1>1, <1>3 DEF Listed, InTick
  <2>1. t \in Nat /\ thread.end <= now BY DEF Past
  <2> QED BY <1>5, <2>1
<1>11. Woken'
  <2> SUFFICES ASSUME thread = None, NEW t \in Open, t \in Pending' \/ t = now, Unfinished(t)
               PROVE  t \in Pending \/ t = now
    BY <1>1, <1>2, <1>3 DEF Woken, Unfinished
  <2>1. t \in Ticked /\ t \in Nat BY DEF Unfinished, Ticked, Open
  <2>2. t <= now BY <2>1 DEF Past
  <2> QED BY <1>5, <2>1, <2>2
<1> QED BY <1>7, <1>8, <1>9, <1>10, <1>11

\* The clock.
LEMMA BehindClock ==
  ASSUME TypeOK, BehindInv, Clock
  PROVE  BehindInv'
<1> USE SchedulerNumbers DEF BehindInv
<1>1. /\ now' = now + 1 /\ row' = row /\ tick' = tick /\ loop' = loop /\ thread' = thread
      /\ memory' = memory /\ since' = since /\ dropped' = dropped
  BY DEF Clock, stored, process, history
<1>2. Ticked' = Ticked /\ \A t : Unfinished(t)' <=> Unfinished(t) BY <1>1 DEF Ticked, Unfinished
<1>3. Open' = Open BY <1>1, <1>2 DEF Open, Ended
<1>4. Pending' = Pending BY <1>1, <1>3 DEF Pending
<1>5. Fresh' /\ Resting' BY <1>1, <1>2 DEF Fresh, Resting
<1>6. Past' BY <1>1, <1>2 DEF Past, LooksFrom
<1>7. Before' BY <1>1, <1>2, <1>4 DEF Before, LooksFrom
<1>8. Listed' BY <1>1, <1>3, <1>4 DEF Listed, InTick
<1>9. Woken'
  <2>1. \A t \in Open : Unfinished(t) => t \in Ticked BY DEF Unfinished, Ticked, Open
  <2>2. \A t \in Open : Unfinished(t) => t # now + 1 BY <2>1 DEF Past
  <2> QED BY <1>1, <1>2, <1>3, <1>4, <2>2 DEF Woken, Unfinished
<1> QED BY <1>5, <1>6, <1>7, <1>8, <1>9

LEMMA BehindStep == TypeOK /\ EndedInv /\ EndedInv' /\ BehindInv /\ [Next]_vars => BehindInv'
<1> SUFFICES ASSUME TypeOK, EndedInv, EndedInv', BehindInv, [Next]_vars PROVE BehindInv' OBVIOUS
<1>1. CASE UNCHANGED vars
  BY <1>1, BehindUntouched DEF vars, stored, process, history
<1>2. ASSUME thread # None PROVE thread \in Thread BY <1>2 DEF TypeOK, ThreadOK
<1>3. ASSUME thread # None, thread.at \in InTick, thread' \in Thread, thread'.at \in InTick,
             thread'.end = thread.end, thread'.last = thread.last, thread'.seen = thread.seen,
             thread'.todo = thread.todo, thread'.time = thread.time,
             UNCHANGED <<now, row, tick, loop, memory, since, dropped>>
      PROVE  BehindInv'
  <2>1. thread' # None BY <1>3, NoneAssumption
  <2>2. /\ now' = now /\ row' = row /\ tick' = tick /\ loop' = loop /\ memory' = memory
        /\ since' = since /\ dropped' = dropped
    BY <1>3
  <2> QED BY <1>3, <2>1, <2>2, BehindUntouched
<1>4. CASE Evaluate
  <2>1. thread # None /\ thread.at \in InTick /\ thread \in Thread
    BY <1>2, <1>4 DEF Evaluate, At, InTick
  <2> QED BY <1>3, <1>4, <2>1 DEF Evaluate, Thread, InTick, stored, history
<1>5. ASSUME NEW k \in Keys, Existing(k) \/ CreateRun(k) PROVE BehindInv'
  <2>1. thread # None /\ thread.at \in InTick /\ thread \in Thread
    BY <1>2, <1>5 DEF Existing, CreateRun, At, InTick
  <2> QED BY <1>3, <1>5, <2>1 DEF Existing, CreateRun, Thread, InTick, stored, history
<1>6. ASSUME NEW run, SubmitRun(run) PROVE BehindInv'
  <2>1. thread # None /\ thread.at \in InTick /\ thread \in Thread
    BY <1>2, <1>6 DEF SubmitRun, At, InTick
  <2> QED BY <1>3, <1>6, <2>1 DEF SubmitRun, Thread, InTick, history
<1>7. CASE Skip \/ Succeed
  <2>1. PICK ending \in {"SKIPPED", "SUCCESS"} : EndTick(ending) BY <1>7 DEF Skip, Succeed
  <2> DEFINE x == [status |-> ending, failures |-> 0]
  <2>2. x \in Tick /\ x.status = ending BY DEF Tick
  <2>3. thread # None /\ thread.at \in InTick BY <1>7 DEF Skip, Succeed, At, InTick
  <2>4. /\ tick' = [tick EXCEPT ![thread.time] = x] /\ thread' = [thread EXCEPT !.at = "tick", !.time = 0]
        /\ now' = now /\ row' = row /\ loop' = loop /\ memory' = memory /\ since' = since
        /\ dropped' = dropped
    BY <2>1 DEF EndTick, history
  <2> HIDE DEF x
  <2> QED BY <2>2, <2>3, <2>4, BehindEnds
<1>8. CASE Fail \/ Unreachable
  <2>1. thread # None /\ thread.at \in InTick
    BY <1>8 DEF Fail, Unreachable, Raises, At, InTick
  <2>2. tick[thread.time].failures \in Nat BY <2>1, TickInProgress DEF Tick
  <2>3. PICK failures \in Nat : FailTick(failures) BY <1>8, <2>2 DEF Fail, Unreachable
  <2> DEFINE x == [status |-> "FAILURE", failures |-> failures]
  <2>4. x \in Tick BY DEF Tick
  <2>5. /\ tick' = [tick EXCEPT ![thread.time] = x] /\ thread' = None
        /\ memory' = [next |-> thread.time, last |-> thread.time]
        /\ now' = now /\ row' = row /\ loop' = loop /\ since' = since /\ dropped' = dropped
    BY <2>3 DEF FailTick, history
  <2> HIDE DEF x
  <2> QED BY <2>1, <2>4, <2>5, BehindEnds
<1>9. CASE Crash
  BY <1>9, BehindUntouched DEF Crash, stored, history
<1>10. CASE Ticking
  BY <1>4, <1>5, <1>6, <1>7, <1>8, <1>10 DEF Ticking, Submitted, SubmitRaises
<1> QED BY <1>1, <1>9, <1>10, BehindLooping, BehindIterating, BehindAsking, BehindClock DEF Next

\* While the schedule runs, every execution time that was not left out to catch up has ended or is
\* still ahead of the next iteration, and no iteration sleeps past a tick that has to be done again.
THEOREM AllTimesAreDealtWith == Spec => []NothingIsLeftBehind
<1>1. Init => BehindInv
  <2> SUFFICES ASSUME Init PROVE BehindInv OBVIOUS
  <2>1. TypeOK BY InitTypes
  <2>2. /\ now = 1 /\ row = None /\ loop = None /\ thread = None /\ memory = NoTimes /\ since = 0
        /\ \A t \in CronTimes : tick[t] = None
    BY DEF Init
  <2>3. Ticked = {} /\ Pending = {} /\ memory.last = 0 BY <2>2 DEF Ticked, Pending, NoTimes
  <2>4. \A t \in CronTimes : ~Unfinished(t) BY <2>2 DEF Unfinished
  <2> QED BY <2>1, <2>2, <2>3, <2>4 DEF BehindInv, Fresh, Resting, Past, Before, Listed, Woken, Open
<1>2. Init => EndedInv BY DEF Init, EndedInv
<1>3. TypeOK /\ BehindInv => NothingIsLeftBehind
  <2> SUFFICES ASSUME TypeOK, BehindInv, thread = None, since # 0,
                      NEW t \in CronTimes, since <= t, t \notin dropped
               PROVE  /\ ~Ahead(t, row, memory.last) => (t \in Ticked /\ ~Unfinished(t))
                      /\ Unfinished(t) => memory.next <= t
    BY DEF NothingIsLeftBehind
  <2>1. row # None BY DEF BehindInv, Fresh
  <2>2. ASSUME ~(t \in Ticked /\ ~Unfinished(t)) PROVE t \in Open /\ t \in Pending
    BY <2>2 DEF Open, Pending, Ended
  <2>3. ASSUME ~(t \in Ticked /\ ~Unfinished(t)) PROVE Ahead(t, row, memory.last)
    <3>1. memory.last <= t /\ row.start <= t /\ row.last <= t /\ \A u \in Ticked : u <= t
      BY <2>1, <2>2, <2>3 DEF BehindInv, Before, LooksFrom
    <3>2. \A u \in Latest : u \in Ticked /\ u \in Nat /\ t \in Nat BY SchedulerNumbers DEF Latest
    <3>3. \A u \in Latest : u < t \/ (u = t /\ Unfinished(u)) BY <2>3, <3>1, <3>2
    <3> QED BY <3>1, <3>3 DEF Ahead
  <2>4. Unfinished(t) => memory.next <= t BY <2>2 DEF BehindInv, Woken
  <2> QED BY <2>3, <2>4
<1>4. TypeOK /\ EndedInv /\ [Next]_vars => EndedInv' BY EndedStep
<1> QED BY <1>1, <1>2, <1>3, <1>4, BehindStep, TypeCorrect, PTL DEF Spec

(***************************************************************************)
(* The run queue.  First, induction over the natural numbers, with the set *)
(* of those that a fact holds of.                                          *)
(***************************************************************************)

LEMMA LeastNumber ==
  ASSUME NEW T, T \subseteq Nat, T # {}
  PROVE  \E m \in T : \A n \in T : m <= n
<1>1. PICK m \in T : \A n \in T : ~ (<<n, m>> \in OpToRel(<, Nat))
  BY WFMin, NatLessThanWellFounded
<1>2. ASSUME NEW n \in T PROVE m <= n
  <2>1. ~ (n < m) BY <1>1 DEF OpToRel
  <2> QED BY <2>1
<1> QED BY <1>2

LEMMA AllNumbers ==
  ASSUME NEW S, 0 \in S, \A n \in Nat : n \in S => n + 1 \in S
  PROVE  \A n \in Nat : n \in S
<1> DEFINE T == {n \in Nat : n \notin S}
<1> SUFFICES ASSUME T # {} PROVE FALSE
  OBVIOUS
<1>1. PICK m \in T : \A n \in T : m <= n
  <2>1. T \subseteq Nat OBVIOUS
  <2> HIDE DEF T
  <2> QED BY <2>1, LeastNumber
<1>2. m - 1 \in Nat /\ m - 1 \notin T /\ m = (m - 1) + 1
  BY <1>1
<1> QED BY <1>2

LEMMA GreatestNumber ==
  ASSUME NEW S, S \subseteq Nat, S # {}, IsFiniteSet(S)
  PROVE  \E z \in S : \A m \in S : m <= z
<1> DEFINE Above(z) == {m \in S : m > z}
           T == {n \in Nat : \E z \in S : n = Cardinality(Above(z))}
<1>1. \A z \in S : IsFiniteSet(Above(z)) /\ Cardinality(Above(z)) \in Nat
  BY FS_Subset, FS_CardinalityType
<1>2. PICK n \in T : \A k \in T : n <= k
  <2>1. T \subseteq Nat /\ T # {} BY <1>1
  <2> HIDE DEF T
  <2> QED BY <2>1, LeastNumber
<1>3. PICK z \in S : n = Cardinality(Above(z)) OBVIOUS
<1>4. ASSUME NEW x \in S, ~ (x <= z) PROVE FALSE
  <2>1. Above(x) \in SUBSET Above(z) /\ x \in Above(z) /\ x \notin Above(x)
    <3>1. \A m \in S : m \in Nat OBVIOUS
    <3>2. x > z /\ ~ (x > x) BY <1>4, <3>1
    <3>3. \A m \in S : m > x => m > z BY <3>1, <3>2
    <3> QED BY <3>2, <3>3
  <2>2. Cardinality(Above(x)) \in T BY <1>1
  <2>3. n <= Cardinality(Above(x)) BY <1>2, <2>2
  <2> HIDE DEF Above
  <2>4. /\ Cardinality(Above(x)) <= Cardinality(Above(z))
        /\ Cardinality(Above(z)) = Cardinality(Above(x)) => Above(z) = Above(x)
    BY <1>1, <2>1, FS_Subset
  <2> QED BY <1>1, <1>3, <2>1, <2>3, <2>4
<1> QED BY <1>4

(* The runs as numbers and as sets. *)

LEMMA SomeRuns ==
  ASSUME NEW S \in SUBSET Runs
  PROVE  IsFiniteSet(S) /\ Cardinality(S) \in Nat
  BY RunsAssumption, FS_Subset, FS_CardinalityType

LEMMA FewerRuns ==
  ASSUME NEW S \in SUBSET Runs, NEW T \in SUBSET S
  PROVE  Cardinality(T) <= Cardinality(S)
  BY SomeRuns, FS_Subset

LEMMA OneMoreRun ==
  ASSUME NEW S \in SUBSET Runs, NEW r \in Runs
  PROVE  Cardinality(S \cup {r}) <= Cardinality(S) + 1
  BY SomeRuns, FS_AddElement

LEMMA RunsOfBoth ==
  ASSUME NEW S \in SUBSET Runs, NEW T \in SUBSET Runs
  PROVE  Cardinality(S \cup T) <= Cardinality(S) + Cardinality(T)
<1>1. S \cap T \in SUBSET Runs OBVIOUS
<1>2. /\ Cardinality(S) \in Nat /\ Cardinality(T) \in Nat /\ Cardinality(S \cap T) \in Nat
      /\ IsFiniteSet(S) /\ IsFiniteSet(T)
  BY <1>1, SomeRuns
<1>3. Cardinality(S \cup T) = Cardinality(S) + Cardinality(T) - Cardinality(S \cap T)
  BY <1>2, FS_Union
<1> QED BY <1>2, <1>3

LEMMA PrecedesIsOrder ==
  /\ \A q, r \in Runs : Precedes(q, r) => q # r /\ ~ Precedes(r, q)
  /\ \A q, r \in Runs : q # r => Precedes(q, r) \/ Precedes(r, q)
  /\ \A q, r, s \in Runs : Precedes(q, r) /\ Precedes(r, s) => Precedes(q, s)
  BY RunsAssumption DEF Precedes

\* One of a set of runs comes after all the others.
LEMMA LastOne ==
  ASSUME NEW S \in SUBSET Runs, S # {}
  PROVE  \E r \in S : \A q \in S : q # r => Precedes(q, r)
<1> DEFINE After(r) == {q \in S : Precedes(r, q)}
           T == {n \in Nat : \E r \in S : n = Cardinality(After(r))}
<1>1. \A r \in S : Cardinality(After(r)) \in T
  BY SomeRuns
<1>2. PICK n \in T : \A m \in T : n <= m
  <2>1. T \subseteq Nat /\ T # {} BY <1>1
  <2> HIDE DEF T
  <2> QED BY <2>1, LeastNumber
<1>3. PICK r \in S : n = Cardinality(After(r))
  OBVIOUS
<1>4. ASSUME NEW q \in S, q # r, ~ Precedes(q, r) PROVE FALSE
  <2>1. Precedes(r, q) BY <1>4, PrecedesIsOrder
  <2>2. After(q) \subseteq After(r) /\ q \in After(r) /\ q \notin After(q)
    BY <2>1, PrecedesIsOrder
  <2>3. After(r) \in SUBSET Runs OBVIOUS
  <2>4. n <= Cardinality(After(q)) BY <1>1, <1>2
  <2> HIDE DEF After
  <2>5. IsFiniteSet(After(r)) /\ Cardinality(After(r)) \in Nat BY <2>3, SomeRuns
  <2>6. Cardinality(After(q)) <= Cardinality(After(r)) /\ (Cardinality(After(r)) = Cardinality(After(q)) => After(r) = After(q))
    BY <2>2, <2>5, FS_Subset
  <2>7. Cardinality(After(q)) \in Nat BY <2>2, <2>3, SomeRuns
  <2> QED BY <1>3, <2>2, <2>4, <2>5, <2>6, <2>7
<1> QED BY <1>4

SortedRuns(s, S) ==
  /\ s \in [1 .. Cardinality(S) -> S]
  /\ \A i, j \in DOMAIN s : i < j => Precedes(s[i], s[j])

LEMMA CanBeSorted ==
  ASSUME NEW S \in SUBSET Runs
  PROVE  \E s : SortedRuns(s, S)
<1> DEFINE N == {n \in Nat : \A T \in SUBSET Runs : Cardinality(T) = n => \E s : SortedRuns(s, T)}
<1>1. 0 \in N
  <2> SUFFICES ASSUME NEW T \in SUBSET Runs, Cardinality(T) = 0 PROVE \E s : SortedRuns(s, T)
    OBVIOUS
  <2>1. T = {} BY SomeRuns, FS_EmptySet
  <2>2. SortedRuns([i \in 1 .. 0 |-> 0], T) BY <2>1, FS_EmptySet DEF SortedRuns
  <2> QED BY <2>2
<1>2. ASSUME NEW n \in Nat, n \in N PROVE n + 1 \in N
  <2> SUFFICES ASSUME NEW T \in SUBSET Runs, Cardinality(T) = n + 1 PROVE \E s : SortedRuns(s, T)
    OBVIOUS
  <2>1. T # {} BY FS_EmptySet
  <2>2. PICK r \in T : \A q \in T : q # r => Precedes(q, r) BY <2>1, LastOne
  <2>3. Cardinality(T \ {r}) = n BY SomeRuns, FS_RemoveElement
  <2>4. PICK s : SortedRuns(s, T \ {r})
    <3>1. T \ {r} \in SUBSET Runs OBVIOUS
    <3> QED BY <1>2, <2>3, <3>1
  <2> DEFINE t == [i \in 1 .. n + 1 |-> IF i = n + 1 THEN r ELSE s[i]]
  <2>5. s \in [1 .. n -> T \ {r}] /\ \A i, j \in 1 .. n : i < j => Precedes(s[i], s[j])
    BY <2>3, <2>4 DEF SortedRuns
  <2>6. t \in [1 .. n + 1 -> T] BY <2>5
  <2>7. ASSUME NEW i \in 1 .. n + 1, NEW j \in 1 .. n + 1, i < j PROVE Precedes(t[i], t[j])
    <3>1. i \in 1 .. n /\ s[i] \in T /\ s[i] # r BY <2>5, <2>7
    <3>2. CASE j = n + 1 BY <2>2, <3>1, <3>2
    <3>3. CASE j # n + 1 BY <2>5, <2>7, <3>1, <3>3
    <3> QED BY <3>2, <3>3
  <2>8. DOMAIN t = 1 .. n + 1 OBVIOUS
  <2> HIDE DEF t
  <2>9. SortedRuns(t, T) BY <2>6, <2>7, <2>8 DEF SortedRuns
  <2> QED BY <2>9
<1>3. \A n \in Nat : n \in N
  <2> HIDE DEF N
  <2> QED BY <1>1, <1>2, AllNumbers
<1>4. Cardinality(S) \in N BY <1>3, SomeRuns
<1> QED BY <1>4

\* _priority_sort lists the runs it is given, each once.
LEMMA SortingRuns ==
  ASSUME NEW S \in SUBSET Runs
  PROVE  /\ PrioritySort(S) \in Seq(Runs) /\ Range(PrioritySort(S)) = S
         /\ \A i, j \in 1 .. Len(PrioritySort(S)) :
              i < j <=> Precedes(PrioritySort(S)[i], PrioritySort(S)[j])
<1> DEFINE s == PrioritySort(S)
           n == Cardinality(S)
<1>1. n \in Nat /\ IsFiniteSet(S) BY SomeRuns
<1>2. SortedRuns(s, S)
  <2>1. \E x \in [1 .. n -> S] : \A i, j \in DOMAIN x : i < j => Precedes(x[i], x[j])
    BY CanBeSorted DEF SortedRuns
  <2> QED BY <2>1 DEF PrioritySort, SortedRuns
<1> HIDE DEF s
<1>3. s \in [1 .. n -> S] /\ \A i, j \in 1 .. n : i < j => Precedes(s[i], s[j])
  BY <1>2 DEF SortedRuns
<1>4. s \in Seq(Runs) /\ Len(s) = n BY <1>1, <1>3
<1>5. \A i, j \in 1 .. n : Precedes(s[i], s[j]) => i < j
  BY <1>3, <1>1, PrecedesIsOrder
<1>6. Range(s) = S
  <2>1. \A i, j \in 1 .. n : s[i] = s[j] => i = j
    BY <1>3, <1>1, PrecedesIsOrder
  <2>2. s \in Injection(1 .. n, S) BY <1>3, <2>1 DEF Injection, IsInjective
  <2>3. IsFiniteSet(1 .. n) /\ Cardinality(1 .. n) = n BY <1>1, FS_Interval
  <2>4. s \in Surjection(1 .. n, S) BY <1>1, <2>2, <2>3, FS_Injection
  <2> QED BY <1>3, <2>4 DEF Surjection, Range
<1> QED BY <1>3, <1>4, <1>5, <1>6 DEF s

(* What the loop over the sorted batch has come to. *)

FollowsRuns(f, list, blocks, m) ==
  f = [n \in 0 .. m |-> IF n = 0 THEN NoneConsidered(blocks) ELSE Consider(f[n - 1], list[n])]

LEMMA CanBeConsidered ==
  ASSUME NEW list, NEW blocks, NEW m \in Nat
  PROVE  \E f : FollowsRuns(f, list, blocks, m)
<1> DEFINE S == {k \in Nat : \E f : FollowsRuns(f, list, blocks, k)}
<1>1. 0 \in S
  <2>1. FollowsRuns([n \in 0 .. 0 |-> NoneConsidered(blocks)], list, blocks, 0)
    BY DEF FollowsRuns
  <2> QED BY <2>1
<1>2. ASSUME NEW k \in Nat, k \in S PROVE k + 1 \in S
  <2>1. PICK f : FollowsRuns(f, list, blocks, k) BY <1>2
  <2> DEFINE g == [n \in 0 .. k + 1 |-> IF n = k + 1 THEN Consider(f[k], list[n]) ELSE f[n]]
             h == [n \in 0 .. k + 1 |-> IF n = 0 THEN NoneConsidered(blocks) ELSE Consider(g[n - 1], list[n])]
  <2>2. ASSUME NEW n \in 0 .. k + 1 PROVE g[n] = h[n]
    <3>1. CASE n = 0 BY <2>1, <3>1 DEF FollowsRuns
    <3>2. CASE n = k + 1
      <4>1. n - 1 = k /\ n # 0 /\ k \in 0 .. k + 1 /\ k # k + 1 BY <3>2
      <4>2. g[n - 1] = f[k] BY <4>1
      <4> QED BY <3>2, <4>1, <4>2
    <3>3. CASE n # 0 /\ n # k + 1
      <4>1. n \in 0 .. k /\ n - 1 \in 0 .. k + 1 /\ n - 1 # k + 1 BY <3>3
      <4>2. f[n] = Consider(f[n - 1], list[n]) BY <2>1, <3>3, <4>1 DEF FollowsRuns
      <4>3. g[n] = f[n] /\ g[n - 1] = f[n - 1] BY <3>3, <4>1
      <4> QED BY <3>3, <4>2, <4>3
    <3> QED BY <3>1, <3>2, <3>3
  <2>3. g = h
    <3>1. DOMAIN g = 0 .. k + 1 /\ DOMAIN h = 0 .. k + 1 OBVIOUS
    <3> QED BY <2>2
  <2> HIDE DEF g
  <2>4. FollowsRuns(g, list, blocks, k + 1) BY <2>3 DEF FollowsRuns
  <2> QED BY <2>4
<1>3. \A k \in Nat : k \in S
  <2> HIDE DEF S
  <2> QED BY <1>1, <1>2, AllNumbers
<1> QED BY <1>3

LEMMA ConsideringRuns ==
  ASSUME NEW list \in Seq(Runs), NEW blocks
  PROVE  /\ Considered(list, blocks)[0] = NoneConsidered(blocks)
         /\ \A n \in 1 .. Len(list) :
              Considered(list, blocks)[n] = Consider(Considered(list, blocks)[n - 1], list[n])
<1> DEFINE f == Considered(list, blocks)
<1>1. Len(list) \in Nat OBVIOUS
<1>2. \E g : FollowsRuns(g, list, blocks, Len(list)) BY <1>1, CanBeConsidered
<1>3. f = CHOOSE g : FollowsRuns(g, list, blocks, Len(list)) BY DEF Considered, FollowsRuns
<1>4. FollowsRuns(f, list, blocks, Len(list)) BY <1>2, <1>3
<1> HIDE DEF f
<1>5. f[0] = NoneConsidered(blocks) BY <1>1, <1>4 DEF FollowsRuns
<1>6. ASSUME NEW n \in 1 .. Len(list) PROVE f[n] = Consider(f[n - 1], list[n])
  BY <1>1, <1>4 DEF FollowsRuns
<1> QED BY <1>5, <1>6 DEF f

Tagged(S, t) == {q \in S : t \in TagsOf[q]}
Pooled(S, p) == {q \in S : p \in PoolsOf[q]}

\* With those in progress, the runs of C that have a tag or a pool fit its limit.
TagsFit(C)  == \A t \in DOMAIN TagLimit :
  Tagged(C, t) # {} => Cardinality(Tagged(seen, t)) + Cardinality(Tagged(C, t)) <= TagLimit[t]
PoolsFit(C) == \A p \in keys :
  Pooled(C, p) # {} => Cardinality(Pooled(seen, p)) + Cardinality(Pooled(C, p)) <= LimitOf(p)

LEMMA LimitsAreNumbers ==
  ASSUME NEW p \in Limitable
  PROVE  LimitOf(p) \in Nat
  BY LimitsAssumption DEF Limitable, LimitOf

LEMMA CountingOneMore ==
  ASSUME seen \in SUBSET Runs, keys \subseteq Limitable, NEW C \in SUBSET Runs, NEW r \in Runs
  PROVE  /\ TagsFit(C) /\ ~ TagBlocked(r, C) => TagsFit(C \cup {r})
         /\ PoolsFit(C) /\ ~ PoolBlocked(r, C) => PoolsFit(C \cup {r})
<1>1. ASSUME TagsFit(C), ~ TagBlocked(r, C), NEW t \in DOMAIN TagLimit, Tagged(C \cup {r}, t) # {}
      PROVE  Cardinality(Tagged(seen, t)) + Cardinality(Tagged(C \cup {r}, t)) <= TagLimit[t]
  <2>1. /\ Cardinality(Tagged(seen, t)) \in Nat /\ Cardinality(Tagged(C, t)) \in Nat
        /\ Tagged(C, t) \in SUBSET Runs /\ Tagged(seen, t) \in SUBSET Runs /\ TagLimit[t] \in Nat
        /\ Cardinality(Tagged(C \cup {r}, t)) \in Nat
    <3>1. /\ Tagged(C, t) \in SUBSET Runs /\ Tagged(seen, t) \in SUBSET Runs
          /\ Tagged(C \cup {r}, t) \in SUBSET Runs
      BY DEF Tagged
    <3> QED BY <3>1, SomeRuns, LimitsAssumption
  <2>2. CASE t \in TagsOf[r]
    <3>1. Tagged(C \cup {r}, t) = Tagged(C, t) \cup {r} BY <2>2 DEF Tagged
    <3>2. Cardinality(Tagged(C, t) \cup {r}) <= Cardinality(Tagged(C, t)) + 1 BY <2>1, OneMoreRun
    <3>3. ~ (Cardinality(Tagged(seen, t)) + Cardinality(Tagged(C, t)) >= TagLimit[t])
      BY <1>1, <2>2 DEF TagBlocked, Tagged
    <3>4. Cardinality(Tagged(C \cup {r}, t)) <= Cardinality(Tagged(C, t)) + 1 BY <3>1, <3>2
    <3> QED BY <2>1, <3>3, <3>4
  <2>3. CASE t \notin TagsOf[r]
    <3>1. Tagged(C \cup {r}, t) = Tagged(C, t) BY <2>3 DEF Tagged
    <3> QED BY <1>1, <3>1 DEF TagsFit
  <2> QED BY <2>2, <2>3
<1>2. ASSUME PoolsFit(C), ~ PoolBlocked(r, C), NEW p \in keys, Pooled(C \cup {r}, p) # {}
      PROVE  Cardinality(Pooled(seen, p)) + Cardinality(Pooled(C \cup {r}, p)) <= LimitOf(p)
  <2>1. /\ Cardinality(Pooled(seen, p)) \in Nat /\ Cardinality(Pooled(C, p)) \in Nat
        /\ Pooled(C, p) \in SUBSET Runs /\ Pooled(seen, p) \in SUBSET Runs /\ LimitOf(p) \in Nat
        /\ Cardinality(Pooled(C \cup {r}, p)) \in Nat
    <3>1. /\ Pooled(C, p) \in SUBSET Runs /\ Pooled(seen, p) \in SUBSET Runs
          /\ Pooled(C \cup {r}, p) \in SUBSET Runs
      BY DEF Pooled
    <3> QED BY <3>1, SomeRuns, LimitsAreNumbers
  <2>2. CASE p \in PoolsOf[r]
    <3>1. Pooled(C \cup {r}, p) = Pooled(C, p) \cup {r} BY <2>2 DEF Pooled
    <3>2. Cardinality(Pooled(C, p) \cup {r}) <= Cardinality(Pooled(C, p)) + 1 BY <2>1, OneMoreRun
    <3>3. ~ (Cardinality(Pooled(seen, p)) + Cardinality(Pooled(C, p)) >= LimitOf(p))
      BY <1>2, <2>2 DEF PoolBlocked, Pooled
    <3>4. Cardinality(Pooled(C \cup {r}, p)) <= Cardinality(Pooled(C, p)) + 1 BY <3>1, <3>2
    <3> QED BY <2>1, <3>3, <3>4
  <2>3. CASE p \notin PoolsOf[r]
    <3>1. Pooled(C \cup {r}, p) = Pooled(C, p) BY <2>3 DEF Pooled
    <3> QED BY <1>2, <3>1 DEF PoolsFit
  <2> QED BY <2>2, <2>3
<1> QED BY <1>1, <1>2 DEF TagsFit, PoolsFit

LEMMA FewerFit ==
  ASSUME seen \in SUBSET Runs, keys \subseteq Limitable, NEW C \in SUBSET Runs, NEW D \in SUBSET C
  PROVE  (TagsFit(C) => TagsFit(D)) /\ (PoolsFit(C) => PoolsFit(D))
<1>1. ASSUME TagsFit(C), NEW t \in DOMAIN TagLimit, Tagged(D, t) # {}
      PROVE  Cardinality(Tagged(seen, t)) + Cardinality(Tagged(D, t)) <= TagLimit[t]
  <2>1. /\ Tagged(D, t) \in SUBSET Tagged(C, t) /\ Tagged(C, t) \in SUBSET Runs
        /\ Tagged(seen, t) \in SUBSET Runs /\ Tagged(D, t) \in SUBSET Runs /\ Tagged(C, t) # {}
    BY <1>1 DEF Tagged
  <2>2. Cardinality(Tagged(D, t)) <= Cardinality(Tagged(C, t)) BY <2>1, FewerRuns
  <2>3. Cardinality(Tagged(seen, t)) + Cardinality(Tagged(C, t)) <= TagLimit[t]
    BY <1>1, <2>1 DEF TagsFit
  <2>4. /\ Cardinality(Tagged(seen, t)) \in Nat /\ Cardinality(Tagged(C, t)) \in Nat
        /\ Cardinality(Tagged(D, t)) \in Nat /\ TagLimit[t] \in Nat
    BY <2>1, SomeRuns, LimitsAssumption
  <2> QED BY <2>2, <2>3, <2>4
<1>2. ASSUME PoolsFit(C), NEW p \in keys, Pooled(D, p) # {}
      PROVE  Cardinality(Pooled(seen, p)) + Cardinality(Pooled(D, p)) <= LimitOf(p)
  <2>1. /\ Pooled(D, p) \in SUBSET Pooled(C, p) /\ Pooled(C, p) \in SUBSET Runs
        /\ Pooled(seen, p) \in SUBSET Runs /\ Pooled(D, p) \in SUBSET Runs /\ Pooled(C, p) # {}
    BY <1>2 DEF Pooled
  <2>2. Cardinality(Pooled(D, p)) <= Cardinality(Pooled(C, p)) BY <2>1, FewerRuns
  <2>3. Cardinality(Pooled(seen, p)) + Cardinality(Pooled(C, p)) <= LimitOf(p)
    BY <1>2, <2>1 DEF PoolsFit
  <2>4. /\ Cardinality(Pooled(seen, p)) \in Nat /\ Cardinality(Pooled(C, p)) \in Nat
        /\ Cardinality(Pooled(D, p)) \in Nat /\ LimitOf(p) \in Nat
    BY <2>1, SomeRuns, LimitsAreNumbers
  <2> QED BY <2>2, <2>3, <2>4
<1> QED BY <1>1, <1>2 DEF TagsFit, PoolsFit

\* Who blocks a run blocks all that ask for as much, and goes on doing so.
LEMMA StaysBlocked ==
  ASSUME seen \in SUBSET Runs, keys \subseteq Limitable, NEW C \in SUBSET Runs, NEW D \in SUBSET C, NEW q \in Runs, NEW r \in Runs
  PROVE  /\ TagsOf[q] \subseteq TagsOf[r] /\ TagBlocked(q, D) => TagBlocked(r, C)
         /\ PoolsOf[q] \subseteq PoolsOf[r] /\ PoolBlocked(q, D) => PoolBlocked(r, C)
<1>1. ASSUME TagsOf[q] \subseteq TagsOf[r], TagBlocked(q, D) PROVE TagBlocked(r, C)
  <2>1. PICK t \in TagsOf[q] : Cardinality(Tagged(seen, t)) + Cardinality(Tagged(D, t)) >= TagLimit[t]
    BY <1>1 DEF TagBlocked, Tagged
  <2>2. t \in TagsOf[r] /\ TagLimit[t] \in Nat BY <1>1, RunsAssumption, LimitsAssumption
  <2>3. /\ Tagged(D, t) \in SUBSET Tagged(C, t) /\ Tagged(C, t) \in SUBSET Runs
        /\ Tagged(seen, t) \in SUBSET Runs /\ Tagged(D, t) \in SUBSET Runs
    BY DEF Tagged
  <2>4. /\ Cardinality(Tagged(D, t)) <= Cardinality(Tagged(C, t)) /\ Cardinality(Tagged(seen, t)) \in Nat
        /\ Cardinality(Tagged(C, t)) \in Nat /\ Cardinality(Tagged(D, t)) \in Nat
    BY <2>3, FewerRuns, SomeRuns
  <2>5. Cardinality(Tagged(seen, t)) + Cardinality(Tagged(C, t)) >= TagLimit[t]
    BY <2>1, <2>2, <2>4
  <2> QED BY <2>2, <2>5 DEF TagBlocked, Tagged
<1>2. ASSUME PoolsOf[q] \subseteq PoolsOf[r], PoolBlocked(q, D) PROVE PoolBlocked(r, C)
  <2>1. PICK p \in PoolsOf[q] \cap keys : Cardinality(Pooled(seen, p)) + Cardinality(Pooled(D, p)) >= LimitOf(p)
    BY <1>2 DEF PoolBlocked, Pooled
  <2>2. p \in PoolsOf[r] \cap keys /\ LimitOf(p) \in Nat BY <1>2, LimitsAreNumbers
  <2>3. /\ Pooled(D, p) \in SUBSET Pooled(C, p) /\ Pooled(C, p) \in SUBSET Runs
        /\ Pooled(seen, p) \in SUBSET Runs /\ Pooled(D, p) \in SUBSET Runs
    BY DEF Pooled
  <2>4. /\ Cardinality(Pooled(D, p)) <= Cardinality(Pooled(C, p)) /\ Cardinality(Pooled(seen, p)) \in Nat
        /\ Cardinality(Pooled(C, p)) \in Nat /\ Cardinality(Pooled(D, p)) \in Nat
    BY <2>3, FewerRuns, SomeRuns
  <2>5. Cardinality(Pooled(seen, p)) + Cardinality(Pooled(C, p)) >= LimitOf(p)
    BY <2>1, <2>2, <2>4
  <2> QED BY <2>2, <2>5 DEF PoolBlocked, Pooled
<1> QED BY <1>1, <1>2

Sorted(list) ==
  \A i, j \in 1 .. Len(list) : i < j <=> Precedes(list[i], list[j])

Counting == [blocks : BOOLEAN, tagged : SUBSET Runs, pooled : SUBSET Runs, kept : Seq(Runs)]

Blocked(r, acc) == TagBlocked(r, acc.tagged) \/ (acc.blocks /\ PoolBlocked(r, acc.pooled))

LEMMA ConsideringOne ==
  ASSUME NEW acc \in Counting, NEW r \in Runs
  PROVE  /\ Consider(acc, r) \in Counting /\ Consider(acc, r).blocks = acc.blocks
         /\ \/ Blocked(r, acc) /\ Consider(acc, r).kept = acc.kept
            \/ /\ ~ Blocked(r, acc) /\ LocationOf[r] \in skipped /\ Consider(acc, r).kept = acc.kept
            \/ /\ ~ Blocked(r, acc) /\ LocationOf[r] \notin skipped
               /\ Consider(acc, r).kept = Append(acc.kept, r)
         /\ \/ TagBlocked(r, acc.tagged) /\ Consider(acc, r).tagged = acc.tagged
            \/ ~ TagBlocked(r, acc.tagged) /\ Consider(acc, r).tagged = acc.tagged \cup {r}
         /\ \/ Blocked(r, acc) /\ Consider(acc, r).pooled = acc.pooled
            \/ ~ Blocked(r, acc) /\ Consider(acc, r).pooled = acc.pooled \cup {r}
<1>1. CASE TagBlocked(r, acc.tagged)
  BY <1>1 DEF Consider, Blocked
<1>2. CASE ~ TagBlocked(r, acc.tagged) /\ acc.blocks /\ PoolBlocked(r, acc.pooled)
  <2>1. Consider(acc, r) = [acc EXCEPT !.tagged = @ \cup {r}] BY <1>2 DEF Consider
  <2> QED BY <1>2, <2>1 DEF Blocked, Counting
<1>3. CASE ~ Blocked(r, acc)
  <2>1. Consider(acc, r) = [blocks |-> acc.blocks, tagged |-> acc.tagged \cup {r}, pooled |-> acc.pooled \cup {r},
          kept |-> IF LocationOf[r] \in skipped THEN acc.kept ELSE Append(acc.kept, r)]
    BY <1>3 DEF Consider, Blocked
  <2> QED BY <1>3, <2>1 DEF Blocked, Counting
<1> QED BY <1>1, <1>2, <1>3 DEF Blocked

\* After n runs: what is kept is in the order of the runs, was counted, and with the rest of what
\* was counted fits the limits; and no run is kept that was blocked when it came.
Considers(f, list, blocks, n) ==
  /\ f[n] \in Counting /\ f[n].blocks = blocks
  /\ TagsFit(f[n].tagged) /\ (blocks => PoolsFit(f[n].pooled))
  /\ Range(f[n].kept) \subseteq f[n].tagged \cap f[n].pooled
  /\ \A r \in Range(f[n].kept) : \E i \in 1 .. n : list[i] = r
  /\ \A i, j \in 1 .. Len(f[n].kept) : i < j => Precedes(f[n].kept[i], f[n].kept[j])
  /\ \A m \in 0 .. n : f[m].tagged \subseteq f[n].tagged /\ f[m].pooled \subseteq f[n].pooled
  /\ \A i \in 1 .. n :
       /\ list[i] \in Range(f[n].kept) => ~ Blocked(list[i], f[i - 1])
       /\ ~ Blocked(list[i], f[i - 1]) /\ LocationOf[list[i]] \notin skipped => list[i] \in Range(f[n].kept)

LEMMA ConsideringNext ==
  ASSUME seen \in SUBSET Runs, keys \subseteq Limitable, NEW list \in Seq(Runs), Sorted(list), NEW blocks \in BOOLEAN, NEW f,
         NEW n \in 1 .. Len(list), Considers(f, list, blocks, n - 1), f[n] = Consider(f[n - 1], list[n])
  PROVE  Considers(f, list, blocks, n)
<1> DEFINE r == list[n]
           acc == f[n - 1]
           res == f[n]
<1>1. r \in Runs /\ n \in Nat /\ n - 1 \in Nat /\ Len(list) \in Nat OBVIOUS
<1>2. acc \in Counting /\ acc.blocks = blocks /\ res = Consider(acc, r) BY DEF Considers
<1>3. /\ res \in Counting /\ res.blocks = acc.blocks
      /\ \/ Blocked(r, acc) /\ res.kept = acc.kept
         \/ ~ Blocked(r, acc) /\ LocationOf[r] \in skipped /\ res.kept = acc.kept
         \/ ~ Blocked(r, acc) /\ LocationOf[r] \notin skipped /\ res.kept = Append(acc.kept, r)
      /\ \/ TagBlocked(r, acc.tagged) /\ res.tagged = acc.tagged
         \/ ~ TagBlocked(r, acc.tagged) /\ res.tagged = acc.tagged \cup {r}
      /\ \/ Blocked(r, acc) /\ res.pooled = acc.pooled
         \/ ~ Blocked(r, acc) /\ res.pooled = acc.pooled \cup {r}
  <2> HIDE DEF r, acc, res
  <2> QED BY <1>1, <1>2, ConsideringOne
<1>4. acc.tagged \in SUBSET Runs /\ acc.pooled \in SUBSET Runs /\ acc.kept \in Seq(Runs)
  BY <1>2 DEF Counting
<1>5. TagsFit(res.tagged)
  BY <1>1, <1>3, <1>4, CountingOneMore DEF Considers
<1>6. blocks => PoolsFit(res.pooled)
  <2> SUFFICES ASSUME blocks PROVE PoolsFit(res.pooled)
    OBVIOUS
  <2>1. PoolsFit(acc.pooled) BY DEF Considers
  <2>2. ~ Blocked(r, acc) => ~ PoolBlocked(r, acc.pooled) BY <1>2 DEF Blocked
  <2> HIDE DEF r, acc, res
  <2> QED BY <1>1, <1>3, <1>4, <2>1, <2>2, CountingOneMore
<1>7. Range(Append(acc.kept, r)) = Range(acc.kept) \cup {r}
  <2>1. /\ DOMAIN Append(acc.kept, r) = 1 .. Len(acc.kept) + 1 /\ DOMAIN acc.kept = 1 .. Len(acc.kept)
        /\ \A i \in 1 .. Len(acc.kept) : Append(acc.kept, r)[i] = acc.kept[i]
        /\ Append(acc.kept, r)[Len(acc.kept) + 1] = r /\ Len(acc.kept) \in Nat
    BY <1>1, <1>4
  <2> HIDE DEF r, acc, res
  <2> QED BY <2>1 DEF Range
<1>8. Range(res.kept) \subseteq res.tagged \cap res.pooled
  BY <1>3, <1>7 DEF Considers, Blocked
<1>9. \A x \in Range(acc.kept) : \E i \in 1 .. n - 1 : list[i] = x
  BY DEF Considers
<1>10. \A x \in Range(res.kept) : \E i \in 1 .. n : list[i] = x
  <2>1. \A i \in 1 .. n - 1 : i \in 1 .. n BY <1>1
  <2>2. n \in 1 .. n /\ list[n] = r BY <1>1
  <2> HIDE DEF r, acc, res
  <2> QED BY <1>3, <1>7, <1>9, <2>1, <2>2
<1>11. \A i \in 1 .. n - 1 : Precedes(list[i], r) /\ list[i] # r
  <2> TAKE i \in 1 .. n - 1
  <2>1. i \in 1 .. Len(list) /\ i < n BY <1>1
  <2>2. Precedes(list[i], list[n]) /\ list[i] \in Runs BY <2>1 DEF Sorted
  <2> QED BY <1>1, <2>2, PrecedesIsOrder
<1>12. r \notin Range(acc.kept) /\ \A x \in Range(acc.kept) : Precedes(x, r)
  BY <1>9, <1>11
<1>13. \A i, j \in 1 .. Len(res.kept) : i < j => Precedes(res.kept[i], res.kept[j])
  <2>1. CASE res.kept = acc.kept
    BY <2>1 DEF Considers
  <2>2. CASE res.kept = Append(acc.kept, r)
    <3> SUFFICES ASSUME NEW i \in 1 .. Len(res.kept), NEW j \in 1 .. Len(res.kept), i < j
                 PROVE  Precedes(res.kept[i], res.kept[j])
      OBVIOUS
    <3>1. /\ Len(res.kept) = Len(acc.kept) + 1 /\ Len(acc.kept) \in Nat
          /\ \A k \in 1 .. Len(acc.kept) : res.kept[k] = acc.kept[k]
          /\ res.kept[Len(acc.kept) + 1] = r
      BY <1>1, <1>4, <2>2
    <3>2. i \in 1 .. Len(acc.kept) BY <3>1
    <3>3. acc.kept[i] \in Range(acc.kept) BY <1>4, <3>2 DEF Range
    <3>4. CASE j = Len(acc.kept) + 1 BY <1>12, <3>1, <3>2, <3>3, <3>4
    <3>5. CASE j # Len(acc.kept) + 1
      <4>1. j \in 1 .. Len(acc.kept) BY <3>1, <3>5
      <4>2. Precedes(acc.kept[i], acc.kept[j]) BY <3>2, <4>1 DEF Considers
      <4> QED BY <3>1, <3>2, <4>1, <4>2
    <3> QED BY <3>4, <3>5
  <2> QED BY <1>3, <2>1, <2>2
<1>14. \A m \in 0 .. n : f[m].tagged \subseteq res.tagged /\ f[m].pooled \subseteq res.pooled
  <2> TAKE m \in 0 .. n
  <2>1. CASE m = n BY <2>1
  <2>2. CASE m # n
    <3>1. m \in 0 .. n - 1 BY <1>1, <2>2
    <3>2. f[m].tagged \subseteq acc.tagged /\ f[m].pooled \subseteq acc.pooled BY <3>1 DEF Considers
    <3> QED BY <1>3, <3>2
  <2> QED BY <2>1, <2>2
<1>15. ASSUME NEW i \in 1 .. n
       PROVE  /\ list[i] \in Range(res.kept) => ~ Blocked(list[i], f[i - 1])
              /\ ~ Blocked(list[i], f[i - 1]) /\ LocationOf[list[i]] \notin skipped => list[i] \in Range(res.kept)
  <2>1. CASE i = n BY <1>3, <1>7, <1>12, <2>1
  <2>2. CASE i # n
    <3>1. i \in 1 .. n - 1 BY <1>1, <2>2
    <3>2. /\ list[i] \in Range(acc.kept) => ~ Blocked(list[i], f[i - 1])
          /\ ~ Blocked(list[i], f[i - 1]) /\ LocationOf[list[i]] \notin skipped => list[i] \in Range(acc.kept)
      BY <3>1 DEF Considers
    <3>3. list[i] # r BY <1>11, <3>1
    <3>4. Range(res.kept) = Range(acc.kept) \/ Range(res.kept) = Range(acc.kept) \cup {r}
      BY <1>3, <1>7
    <3> HIDE DEF r, acc, res
    <3> QED BY <3>2, <3>3, <3>4
  <2> QED BY <2>1, <2>2
<1> HIDE DEF r, acc, res
<1> QED BY <1>2, <1>3, <1>5, <1>6, <1>8, <1>10, <1>13, <1>14, <1>15 DEF Considers, acc, res

LEMMA ConsideringAll ==
  ASSUME seen \in SUBSET Runs, keys \subseteq Limitable, NEW list \in Seq(Runs), Sorted(list), NEW blocks \in BOOLEAN
  PROVE  \A n \in 0 .. Len(list) : Considers(Considered(list, blocks), list, blocks, n)
<1> DEFINE f == Considered(list, blocks)
           S == {n \in Nat : n <= Len(list) => Considers(f, list, blocks, n)}
<1>1. f[0] = NoneConsidered(blocks) /\ \A n \in 1 .. Len(list) : f[n] = Consider(f[n - 1], list[n])
  BY ConsideringRuns
<1> HIDE DEF f
<1>2. 0 \in S
  <2>1. /\ f[0] \in Counting /\ f[0].blocks = blocks /\ f[0].tagged = {} /\ f[0].pooled = {} /\ f[0].kept = <<>>
    BY <1>1 DEF NoneConsidered, Counting
  <2>2. TagsFit({}) /\ PoolsFit({}) BY DEF TagsFit, PoolsFit, Tagged, Pooled
  <2>3. Range(f[0].kept) = {} /\ Len(f[0].kept) = 0 BY <2>1 DEF Range
  <2>4. Considers(f, list, blocks, 0) BY <2>1, <2>2, <2>3 DEF Considers
  <2> QED BY <2>4
<1>3. ASSUME NEW n \in Nat, n \in S PROVE n + 1 \in S
  <2> SUFFICES ASSUME n + 1 <= Len(list) PROVE Considers(f, list, blocks, n + 1)
    OBVIOUS
  <2>1. n + 1 \in 1 .. Len(list) /\ (n + 1) - 1 = n /\ n <= Len(list) OBVIOUS
  <2>2. Considers(f, list, blocks, (n + 1) - 1) BY <1>3, <2>1
  <2> QED BY <1>1, <2>1, <2>2, ConsideringNext
<1>4. \A n \in Nat : n \in S
  <2> HIDE DEF S
  <2> QED BY <1>2, <1>3, AllNumbers
<1>5. Len(list) \in Nat OBVIOUS
<1> QED BY <1>4, <1>5 DEF f

Ordered(list) == \A i, j \in 1 .. Len(list) : i < j => Precedes(list[i], list[j])

LEMMA RangeOfRuns ==
  ASSUME NEW list \in Seq(Runs)
  PROVE  /\ Range(list) \in SUBSET Runs /\ Range(list) = {list[i] : i \in 1 .. Len(list)}
         /\ Len(list) \in Nat /\ Cardinality(Range(list)) <= Len(list)
<1>1. Len(list) \in Nat /\ list \in [1 .. Len(list) -> Runs] BY LenProperties
<1>2. Range(list) = {list[i] : i \in 1 .. Len(list)} /\ Range(list) \in SUBSET Runs
  BY <1>1 DEF Range
<1>3. list \in Surjection(1 .. Len(list), Range(list)) BY <1>1, <1>2 DEF Surjection
<1>4. Cardinality(Range(list)) <= Len(list)
  BY <1>1, <1>3, FS_SurjCardinalityBound DEF ExistsSurjection
<1> QED BY <1>1, <1>2, <1>4

\* What the limits leave of the sorted batch fits them, and a run that comes before one that is
\* kept and asks for no more is kept or of a paused location.
LEMMA FilteringRuns ==
  ASSUME seen \in SUBSET Runs, keys \subseteq Limitable, NEW S \in SUBSET Runs, NEW blocks \in BOOLEAN,
         NEW kept, kept = Filter(PrioritySort(S), blocks)
  PROVE  /\ kept \in Seq(Runs) /\ Range(kept) \subseteq S /\ Ordered(kept)
         /\ TagsFit(Range(kept)) /\ (blocks => PoolsFit(Range(kept)))
         /\ \A q \in S, r \in Range(kept) :
              Precedes(q, r) /\ TagsOf[q] \subseteq TagsOf[r] /\ PoolsOf[q] \subseteq PoolsOf[r]
                => q \in Range(kept) \/ LocationOf[q] \in skipped
<1> DEFINE list == PrioritySort(S)
           f == Considered(list, blocks)
<1>1. list \in Seq(Runs) /\ Range(list) = S /\ Sorted(list)
  BY SortingRuns DEF Sorted
<1>2. kept = f[Len(list)].kept BY DEF Filter
<1> HIDE DEF list
<1>3. \A m \in 0 .. Len(list) : Considers(f, list, blocks, m) BY <1>1, ConsideringAll
<1> HIDE DEF f
<1>4. /\ Len(list) \in Nat /\ Range(list) = {list[i] : i \in 1 .. Len(list)}
      /\ Considers(f, list, blocks, Len(list))
  BY <1>1, <1>3, RangeOfRuns
<1> DEFINE n == Len(list)
<1>5. /\ f[n] \in Counting /\ f[n].tagged \in SUBSET Runs /\ f[n].pooled \in SUBSET Runs /\ kept \in Seq(Runs)
  BY <1>2, <1>4 DEF Considers, Counting
<1>6. Range(kept) \subseteq f[n].tagged \cap f[n].pooled
  BY <1>2, <1>4 DEF Considers
<1>7. TagsFit(Range(kept)) /\ (blocks => PoolsFit(Range(kept)))
  BY <1>4, <1>5, <1>6, FewerFit DEF Considers
<1>8. Range(kept) \subseteq S /\ Ordered(kept)
  BY <1>1, <1>2, <1>4 DEF Considers, Ordered
<1>9. ASSUME NEW q \in S, NEW r \in Range(kept), Precedes(q, r), TagsOf[q] \subseteq TagsOf[r],
             PoolsOf[q] \subseteq PoolsOf[r], q \notin Range(kept), LocationOf[q] \notin skipped
      PROVE  FALSE
  <2>1. PICK i \in 1 .. n : list[i] = q BY <1>1, <1>4
  <2>2. PICK j \in 1 .. n : list[j] = r BY <1>1, <1>4, <1>8
  <2>3. i < j BY <1>1, <1>9, <2>1, <2>2 DEF Sorted
  <2>4. Blocked(q, f[i - 1]) BY <1>2, <1>4, <1>9, <2>1 DEF Considers
  <2>6. ~ Blocked(r, f[j - 1]) BY <1>2, <1>4, <1>9, <2>2 DEF Considers
  <2>7. Considers(f, list, blocks, j - 1) /\ f[i - 1].blocks = blocks
    <3>1. i - 1 \in 0 .. n /\ j - 1 \in 0 .. n BY <1>4
    <3> QED BY <1>3, <3>1 DEF Considers
  <2>8. /\ f[i - 1].tagged \subseteq f[j - 1].tagged /\ f[i - 1].pooled \subseteq f[j - 1].pooled
        /\ f[j - 1].tagged \in SUBSET Runs /\ f[j - 1].pooled \in SUBSET Runs /\ f[j - 1].blocks = blocks
    <3>1. i - 1 \in 0 .. j - 1 BY <1>4, <2>3
    <3> QED BY <2>7, <3>1 DEF Considers, Counting
  <2>9. q \in Runs /\ r \in Runs BY <1>8
  <2>10. TagBlocked(q, f[i - 1].tagged) => TagBlocked(r, f[j - 1].tagged)
    BY <1>9, <2>8, <2>9, StaysBlocked
  <2>11. PoolBlocked(q, f[i - 1].pooled) => PoolBlocked(r, f[j - 1].pooled)
    BY <1>9, <2>8, <2>9, StaysBlocked
  <2> QED BY <2>4, <2>6, <2>7, <2>8, <2>10, <2>11 DEF Blocked
<1> QED BY <1>5, <1>7, <1>8, <1>9

\* What is left when the batch is cut leaves room for the runs in progress, and is the first part.
LEMMA TruncatingRuns ==
  ASSUME seen \in SUBSET Runs, MaxConcurrentRuns # NoLimit => Cardinality(seen) < MaxConcurrentRuns,
         NEW kept \in Seq(Runs), Ordered(kept)
  PROVE  /\ Truncate(kept) \in Seq(Runs) /\ Range(Truncate(kept)) \subseteq Range(kept)
         /\ MaxConcurrentRuns # NoLimit =>
              Cardinality(seen) + Cardinality(Range(Truncate(kept))) <= MaxConcurrentRuns
         /\ \A q \in Range(kept), r \in Range(Truncate(kept)) : Precedes(q, r) => q \in Range(Truncate(kept))
<1> DEFINE room == MaxConcurrentRuns - Cardinality(seen)
<1>1. Len(kept) \in Nat /\ Cardinality(seen) \in Nat /\ Range(kept) = {kept[i] : i \in 1 .. Len(kept)}
      /\ Cardinality(Range(kept)) <= Len(kept) /\ Range(kept) \in SUBSET Runs
  BY RangeOfRuns, SomeRuns
<1>2. Cardinality(Range(kept)) \in Nat BY <1>1, SomeRuns
<1>3. CASE MaxConcurrentRuns = NoLimit \/ Len(kept) <= room
  <2>1. Truncate(kept) = kept BY <1>3 DEF Truncate
  <2>2. MaxConcurrentRuns # NoLimit => Cardinality(seen) + Cardinality(Range(kept)) <= MaxConcurrentRuns
    BY <1>1, <1>2, <1>3, LimitsAssumption
  <2> QED BY <2>1, <2>2
<1>4. CASE MaxConcurrentRuns # NoLimit /\ ~ (Len(kept) <= room)
  <2>1. room \in 1 .. Len(kept) - 1 /\ room \in Nat BY <1>1, <1>4, LimitsAssumption
  <2> DEFINE cut == SubSeq(kept, 1, room)
  <2>2. Truncate(kept) = cut BY <1>4 DEF Truncate
  <2> HIDE DEF room
  <2>3. cut \in Seq(Runs) /\ Len(cut) = room /\ \A i \in 1 .. room : cut[i] = kept[i]
    BY <1>1, <2>1
  <2> HIDE DEF cut
  <2>4. Range(cut) = {kept[i] : i \in 1 .. room} /\ Cardinality(Range(cut)) <= room
        /\ Range(cut) \in SUBSET Runs
    BY <2>3, RangeOfRuns
  <2>5. Range(cut) \subseteq Range(kept) BY <1>1, <2>1, <2>4
  <2>6. Cardinality(seen) + Cardinality(Range(cut)) <= MaxConcurrentRuns
    <3>1. Cardinality(Range(cut)) \in Nat BY <2>4, SomeRuns
    <3> QED BY <1>1, <1>4, <2>4, <3>1, LimitsAssumption DEF room
  <2>7. ASSUME NEW q \in Range(kept), NEW r \in Range(cut), Precedes(q, r) PROVE q \in Range(cut)
    <3>1. PICK i \in 1 .. Len(kept) : kept[i] = q BY <1>1
    <3>2. PICK j \in 1 .. room : kept[j] = r BY <2>4
    <3>3. j \in 1 .. Len(kept) BY <1>1, <2>1, <3>2
    <3>4. q \in Runs /\ r \in Runs BY <1>1, <2>4
    <3>5. ~ (j < i) /\ i # j
      <4>1. j < i => Precedes(r, q) BY <3>1, <3>2, <3>3 DEF Ordered
      <4> QED BY <2>7, <3>1, <3>2, <3>4, <4>1, PrecedesIsOrder
    <3>6. i \in 1 .. room BY <2>1, <3>3, <3>5
    <3> QED BY <2>4, <3>1, <3>6
  <2> QED BY <2>2, <2>3, <2>5, <2>6, <2>7
<1> QED BY <1>3, <1>4

-----------------------------------------------------------------------------
(* Types *)

LEMMA LastOfPage ==
  ASSUME NEW S \in SUBSET Runs, S # {}
  PROVE  (CHOOSE r \in S : \A q \in S : q <= r) \in Runs
<1>1. S \subseteq Nat /\ IsFiniteSet(S) BY SomeRuns, RunsAssumption
<1>2. \E z \in S : \A m \in S : m <= z BY <1>1, GreatestNumber
<1> QED BY <1>2

LEMMA PageNumbers ==
  ASSUME page \in [Runs -> Nat], Runs # {}
  PROVE  LastPage \in Nat /\ \A r \in Runs : page[r] <= LastPage
<1> DEFINE N == {page[r] : r \in Runs}
<1>1. N \subseteq Nat /\ N # {} /\ Range(page) = N BY DEF Range
<1>2. IsFiniteSet(N)
  <2>1. page \in Surjection(Runs, N) BY DEF Surjection
  <2> QED BY <2>1, RunsAssumption, FS_Surjection
<1>3. \A r \in Runs : page[r] \in N OBVIOUS
<1> HIDE DEF N
<1>4. \E z \in N : \A m \in N : m <= z BY <1>1, <1>2, GreatestNumber
<1>5. LastPage \in N /\ \A m \in N : m <= LastPage BY <1>1, <1>4 DEF LastPage
<1> QED BY <1>1, <1>3, <1>5

LEMMA RemovingRun ==
  ASSUME NEW list \in Seq(Runs), NEW i \in 1 .. Len(list)
  PROVE  /\ RemoveAt(list, i) \in Seq(Runs) /\ Range(RemoveAt(list, i)) \subseteq Range(list)
<1> DEFINE front == SubSeq(list, 1, i - 1)
           back  == SubSeq(list, i + 1, Len(list))
<1>1. Len(list) \in Nat OBVIOUS
<1>2. /\ front \in Seq(Range(list)) /\ back \in Seq(Range(list))
  <2>1. list \in Seq(Range(list))
    BY <1>1, LenProperties DEF Range
  <2> QED BY <1>1, <2>1
<1>3. front \o back \in Seq(Range(list)) BY <1>2
<1>4. RemoveAt(list, i) = front \o back BY DEF RemoveAt
<1>5. Range(list) \in SUBSET Runs BY RangeOfRuns
<1> HIDE DEF front, back
<1>6. Range(front \o back) \subseteq Range(list)
  BY <1>3, LenProperties DEF Range
<1>7. front \o back \in Seq(Runs) BY <1>3, <1>5, SeqMonotonic
<1> QED BY <1>4, <1>6, <1>7

\* What an iteration has chosen, with the runs that were in progress when it began, fits the limits.
Chosen(C) ==
  /\ Range(batch) \subseteq C /\ launching \subseteq C /\ Executing \subseteq seen \cup C
  /\ MaxConcurrentRuns # NoLimit => Cardinality(seen) + Cardinality(C) <= MaxConcurrentRuns
  /\ TagsFit(C) /\ (FALSE \notin BlocksOnPools => PoolsFit(C))

IterationOK ==
  /\ pc = "idle" => batch = <<>>
  /\ pc # "dequeue" => launching = {}
  /\ pc = "page" => Executing \subseteq seen
  /\ pc # "idle" /\ MaxConcurrentRuns # NoLimit => Cardinality(seen) < MaxConcurrentRuns
  /\ pc # "idle" => limited \ keys \subseteq overlooked

SomeChosen == pc # "idle" => \E C \in SUBSET Runs : Chosen(C)

QueueInv == QueueTypeOK /\ IterationOK /\ SomeChosen /\ LimitsHold

LEMMA PagesAreRuns == PageRuns \subseteq Queued /\ Queued \subseteq Runs
  BY DEF PageRuns, Queued

LEMMA NewLimits ==
  ASSUME QueueTypeOK, NEW S \in SUBSET Runs, NEW new \in SUBSET Initialized(S)
  PROVE  new \subseteq Limitable
<1>1. PoolsOfAll(S) \subseteq PoolsOfAll(Runs) BY DEF PoolsOfAll
<1> QED BY <1>1 DEF Initialized, Limitable

\* What a turn of the loop over the pages does to the batch and the limits.
LEMMA ReadingPage ==
  ASSUME QueueTypeOK, IterationOK, ReadPage
  PROVE  /\ pc = "page" /\ pc' \in {"page", "dequeue"} /\ cursor' \in Runs \cup {0}
         /\ UNCHANGED <<rows, paused, seen, skipped, keys, launching, errors, deaths>>
         /\ batch' \in Seq(Runs)
         /\ page' = [r \in Runs |-> IF r \in PageRuns THEN LastPage + 1 ELSE page[r]]
         /\ limited \subseteq limited' /\ limited' \subseteq Limitable
         /\ overlooked' = overlooked \cup (limited' \ keys)
         /\ \/ PageRuns = {} /\ batch' = batch
            \/ \E blocks \in BlocksOnPools :
                 LET S    == Range(batch) \cup PageRuns
                     kept == Filter(PrioritySort(S), blocks)
                 IN  S \in SUBSET Runs /\ batch' = Truncate(kept) /\ kept \in Seq(Runs)
<1>1. /\ pc = "page" /\ pc' \in {"page", "dequeue"}
      /\ UNCHANGED <<rows, paused, seen, skipped, keys, launching, errors, deaths>>
      /\ page' = [r \in Runs |-> IF r \in PageRuns THEN LastPage + 1 ELSE page[r]]
      /\ overlooked' = overlooked \cup (limited' \ keys)
  BY DEF ReadPage
<1> DEFINE S == Range(batch) \cup PageRuns
<1>2. S \in SUBSET Runs BY PagesAreRuns, RangeOfRuns DEF QueueTypeOK
<1>3. CASE PageRuns = {}
  <2>1. UNCHANGED <<cursor, batch, limited>> BY <1>3 DEF ReadPage
  <2> QED BY <1>1, <1>3, <2>1 DEF QueueTypeOK
<1>4. CASE PageRuns # {}
  <2>1. PICK blocks \in BlocksOnPools, new \in SUBSET Initialized(S) :
          /\ cursor' = CHOOSE r \in PageRuns : \A q \in PageRuns : q <= r
          /\ limited' = limited \cup new
          /\ batch' = Truncate(Filter(PrioritySort(S), blocks))
    BY <1>4 DEF ReadPage
  <2> DEFINE kept == Filter(PrioritySort(S), blocks)
  <2> HIDE DEF S
  <2>2. limited' \subseteq Limitable BY <1>2, <2>1, NewLimits DEF QueueTypeOK
  <2>3. cursor' \in Runs \cup {0} BY <1>4, <2>1, PagesAreRuns, LastOfPage
  <2>4. seen \in SUBSET Runs /\ keys \subseteq Limitable /\ blocks \in BOOLEAN
    BY LimitsAssumption DEF QueueTypeOK
  <2>5. kept \in Seq(Runs) /\ Ordered(kept) BY <1>2, <2>4, FilteringRuns
  <2>6. batch' = Truncate(kept) BY <2>1
  <2> HIDE DEF kept
  <2>7. Truncate(kept) \in Seq(Runs) BY <1>1, <2>4, <2>5, TruncatingRuns DEF IterationOK
  <2> QED BY <1>1, <1>2, <2>1, <2>2, <2>3, <2>5, <2>6, <2>7 DEF kept, S
<1> QED BY <1>3, <1>4

LEMMA QueueTypesInit == QueueInit => QueueTypeOK
  BY RunsAssumption, LimitsAssumption DEF QueueInit, QueueTypeOK, Limitable, Statuses, InProgress, Locations

LEMMA QueueTypesNext ==
  ASSUME QueueTypeOK, IterationOK, [QueueNext]_queueVars
  PROVE  QueueTypeOK'
<1> USE LimitsAssumption DEF QueueTypeOK, rows, pools, paging, Statuses, InProgress
<1>1. CASE Begin BY <1>1 DEF Begin, Running
<1>2. CASE ReadPage
  <2>1. page' \in [Runs -> Nat]
    <3>1. Runs # {} => LastPage \in Nat BY PageNumbers
    <3>2. page' = [r \in Runs |-> IF r \in PageRuns THEN LastPage + 1 ELSE page[r]] BY <1>2, ReadingPage
    <3> QED BY <3>1, <3>2
  <2> QED BY <1>2, <2>1, ReadingPage
<1>3. ASSUME NEW r \in Runs, Dequeue(r) PROVE QueueTypeOK'
  <2>1. batch' \in Seq(Runs)
    <3>1. PICK i \in DOMAIN batch : batch' = RemoveAt(batch, i) BY <1>3 DEF Dequeue, Drop
    <3> QED BY <3>1, RemovingRun, LenProperties
  <2>2. status' \in [Runs -> Statuses] /\ launching' \subseteq Runs
    BY <1>3 DEF Dequeue
  <2> QED BY <1>3, <2>1, <2>2 DEF Dequeue
<1>4. ASSUME NEW r \in Runs, Launched(r) PROVE QueueTypeOK' BY <1>4 DEF Launched
<1>5. ASSUME NEW r \in Runs, LaunchFails(r) PROVE QueueTypeOK'
  <2>1. enqueues' \in [Runs -> 0 .. MaxRetries + 1]
    <3>1. enqueues' = enqueues \/ (enqueues[r] - 1 < MaxRetries /\ enqueues' = [enqueues EXCEPT ![r] = @ + 1])
      BY <1>5 DEF LaunchFails
    <3>2. enqueues[r] \in 0 .. MaxRetries + 1 /\ MaxRetries \in Nat OBVIOUS
    <3>3. enqueues[r] - 1 < MaxRetries => enqueues[r] + 1 \in 0 .. MaxRetries + 1 BY <3>2
    <3> QED BY <3>1, <3>3
  <2>2. status' \in [Runs -> Statuses] /\ paused' \subseteq Locations /\ launching' \subseteq Runs
    BY <1>5 DEF LaunchFails, Locations
  <2>3. errors' \in 0 .. MaxErrors BY <1>5 DEF LaunchFails
  <2> QED BY <1>5, <2>1, <2>2, <2>3 DEF LaunchFails
<1>6. CASE Iterated BY <1>6 DEF Iterated, Return
<1>7. CASE DaemonDies BY <1>7 DEF DaemonDies, Return
<1>8. ASSUME NEW r \in Runs, Submit(r) \/ Start(r) \/ Cancel(r) \/ End(r) PROVE QueueTypeOK'
  <2>1. enqueues' = enqueues \/ enqueues' = [enqueues EXCEPT ![r] = 1]
    BY <1>8 DEF Submit, Start, Cancel, End
  <2>2. enqueues' \in [Runs -> 0 .. MaxRetries + 1]
    <3>1. 1 \in 0 .. MaxRetries + 1 /\ enqueues \in [Runs -> 0 .. MaxRetries + 1] OBVIOUS
    <3> QED BY <2>1, <3>1
  <2>3. \E to \in Statuses : status' = [status EXCEPT ![r] = to]
    BY <1>8 DEF Submit, Start, Cancel, End, Become
  <2>4. UNCHANGED <<paused, pc, paging, batch, launching, pools, errors, deaths>>
    BY <1>8 DEF Submit, Start, Cancel, End, Become
  <2> QED BY <2>2, <2>3, <2>4
<1>9. ASSUME NEW l \in Locations, Unpause(l) PROVE QueueTypeOK' BY <1>9 DEF Unpause
<1>10. CASE UNCHANGED queueVars BY <1>10 DEF queueVars
<1> QED BY <1>1, <1>2, <1>3, <1>4, <1>5, <1>6, <1>7, <1>8, <1>9, <1>10 DEF QueueNext, Daemon

-----------------------------------------------------------------------------
(* Limits *)

LEMMA ExecutingRuns == Executing \in SUBSET Runs /\ Executing \subseteq Running /\ Running \in SUBSET Runs
  BY DEF Executing, Running, InProgress

\* The limits hold of fewer runs, too.
LEMMA FewerExecute ==
  ASSUME LimitsHold, Executing' \subseteq Executing,
         limited \subseteq Limitable, limited' \ overlooked' \subseteq limited \ overlooked
  PROVE  LimitsHold'
<1>1. Executing \in SUBSET Runs BY ExecutingRuns
<1>2. Cardinality(Executing') <= Cardinality(Executing) /\ Cardinality(Executing) \in Nat
      /\ Cardinality(Executing') \in Nat
  BY <1>1, FewerRuns, SomeRuns
<1>3. MaxConcurrentRuns # NoLimit => Cardinality(Executing') <= MaxConcurrentRuns
  BY <1>2, LimitsAssumption DEF LimitsHold
<1>4. ASSUME NEW t \in DOMAIN TagLimit PROVE Cardinality(Tagged(Executing', t)) <= TagLimit[t]
  <2>1. Tagged(Executing', t) \in SUBSET Tagged(Executing, t) /\ Tagged(Executing, t) \in SUBSET Runs
    BY <1>1 DEF Tagged
  <2>2. /\ Cardinality(Tagged(Executing', t)) <= Cardinality(Tagged(Executing, t))
        /\ Cardinality(Tagged(Executing, t)) \in Nat /\ Cardinality(Tagged(Executing', t)) \in Nat
    BY <2>1, FewerRuns, SomeRuns
  <2>3. Cardinality(Tagged(Executing, t)) <= TagLimit[t] BY DEF LimitsHold, Tagged
  <2> QED BY <2>2, <2>3, LimitsAssumption
<1>5. ASSUME FALSE \notin BlocksOnPools, NEW p \in limited' \ overlooked'
      PROVE  Cardinality(Pooled(Executing', p)) <= LimitOf(p)
  <2>1. Pooled(Executing', p) \in SUBSET Pooled(Executing, p) /\ Pooled(Executing, p) \in SUBSET Runs
    BY <1>1 DEF Pooled
  <2>2. /\ Cardinality(Pooled(Executing', p)) <= Cardinality(Pooled(Executing, p))
        /\ Cardinality(Pooled(Executing, p)) \in Nat /\ Cardinality(Pooled(Executing', p)) \in Nat
    BY <2>1, FewerRuns, SomeRuns
  <2>3. Cardinality(Pooled(Executing, p)) <= LimitOf(p) BY <1>5 DEF LimitsHold, Pooled
  <2>4. LimitOf(p) \in Nat BY <1>5, LimitsAreNumbers
  <2> QED BY <2>2, <2>3, <2>4
<1> QED BY <1>3, <1>4, <1>5 DEF LimitsHold, Tagged, Pooled, LimitOf

\* An iteration whose runs end or are launched goes on as before.
LEMMA ChosenStay ==
  ASSUME QueueInv, Executing' \subseteq Executing, launching' \subseteq launching,
         UNCHANGED <<pc, seen, batch, keys, pools>>
  PROVE  (IterationOK /\ SomeChosen /\ LimitsHold)'
<1>1. LimitsHold' BY FewerExecute DEF QueueInv, QueueTypeOK, pools
<1>2. IterationOK' BY DEF QueueInv, IterationOK, pools
<1>3. ASSUME NEW C \in SUBSET Runs, Chosen(C) PROVE Chosen(C)'
  BY <1>3 DEF Chosen, TagsFit, PoolsFit, Tagged, Pooled, LimitOf
<1> QED BY <1>1, <1>2, <1>3 DEF SomeChosen, QueueInv

LEMMA BeginLimits ==
  ASSUME QueueInv, Begin
  PROVE  (IterationOK /\ SomeChosen /\ LimitsHold)'
<1>1. /\ pc = "idle" /\ pc' = "page" /\ seen' = Running /\ batch' = <<>> /\ launching' = {}
      /\ Executing' = Executing
      /\ MaxConcurrentRuns # NoLimit => Cardinality(Running) < MaxConcurrentRuns
  BY DEF Begin, QueueInv, IterationOK, rows, Executing
<1>2. limited' = limited /\ keys' = limited /\ limited \subseteq Limitable
  BY DEF Begin, QueueInv, QueueTypeOK
<1>3. LimitsHold'
  <2>1. ASSUME FALSE \notin BlocksOnPools, NEW p \in limited' \ overlooked'
        PROVE  Cardinality(Pooled(Executing', p)) <= LimitOf(p)
    <3>1. CASE p \notin overlooked
      BY <1>1, <1>2, <2>1, <3>1 DEF QueueInv, LimitsHold, Pooled
    <3>2. CASE p \in overlooked
      <4>1. ~ (Cardinality(Pooled(Running, p)) > LimitOf(p)) BY <2>1, <3>2 DEF Begin, Pooled
      <4>2. /\ Pooled(Executing, p) \in SUBSET Pooled(Running, p) /\ Pooled(Running, p) \in SUBSET Runs
            /\ Pooled(Executing, p) \in SUBSET Runs
        BY ExecutingRuns DEF Pooled
      <4>3. /\ Cardinality(Pooled(Executing, p)) <= Cardinality(Pooled(Running, p))
            /\ Cardinality(Pooled(Executing, p)) \in Nat /\ Cardinality(Pooled(Running, p)) \in Nat
        BY <4>2, FewerRuns, SomeRuns
      <4>4. LimitOf(p) \in Nat BY <1>2, <2>1, LimitsAreNumbers
      <4> QED BY <1>1, <4>1, <4>3, <4>4
    <3> QED BY <3>1, <3>2
  <2> QED BY <1>1, <2>1 DEF QueueInv, LimitsHold, Pooled, LimitOf
<1>4. IterationOK' BY <1>1, <1>2, ExecutingRuns DEF IterationOK
<1>5. Chosen({})'
  <2>1. Range(batch') = {} BY <1>1 DEF Range
  <2>2. MaxConcurrentRuns # NoLimit => Cardinality(Running) + Cardinality({}) <= MaxConcurrentRuns
    BY <1>1, FS_EmptySet, SomeRuns, ExecutingRuns, LimitsAssumption
  <2> QED BY <1>1, <2>1, <2>2, ExecutingRuns DEF Chosen, TagsFit, PoolsFit, Tagged, Pooled
<1> QED BY <1>3, <1>4, <1>5 DEF SomeChosen

LEMMA ReadPageLimits ==
  ASSUME QueueInv, ReadPage
  PROVE  (IterationOK /\ SomeChosen /\ LimitsHold)'
<1>1. /\ pc = "page" /\ pc' \in {"page", "dequeue"} /\ seen' = seen /\ launching' = {}
      /\ Executing' = Executing /\ Executing \subseteq seen /\ launching = {}
      /\ MaxConcurrentRuns # NoLimit => Cardinality(seen) < MaxConcurrentRuns
  BY ReadingPage DEF QueueInv, IterationOK, rows, Executing
<1>2. /\ keys' = keys /\ limited \subseteq Limitable /\ keys \subseteq limited
      /\ overlooked' = overlooked \cup (limited' \ keys)
  BY ReadingPage DEF QueueInv, QueueTypeOK
<1>3. LimitsHold'
  <2>1. limited' \ overlooked' \subseteq limited \ overlooked BY <1>2
  <2> QED BY <1>1, <1>2, <2>1, FewerExecute DEF QueueInv
<1>4. IterationOK' BY <1>1, <1>2 DEF IterationOK
<1>5. \E C \in SUBSET Runs : Chosen(C)'
  <2>1. CASE batch' = batch
    <3>1. PICK C \in SUBSET Runs : Chosen(C) BY <1>1 DEF QueueInv, SomeChosen
    <3>2. Chosen(C)' BY <1>1, <1>2, <2>1, <3>1 DEF Chosen, TagsFit, PoolsFit, Tagged, Pooled, LimitOf
    <3> QED BY <3>2
  <2>2. ASSUME NEW blocks \in BlocksOnPools, NEW S \in SUBSET Runs, NEW kept,
               kept = Filter(PrioritySort(S), blocks), kept \in Seq(Runs), batch' = Truncate(kept)
        PROVE  \E C \in SUBSET Runs : Chosen(C)'
    <3>1. seen \in SUBSET Runs /\ keys \subseteq Limitable /\ blocks \in BOOLEAN
      BY LimitsAssumption DEF QueueInv, QueueTypeOK
    <3>2. /\ Ordered(kept) /\ TagsFit(Range(kept)) /\ (blocks => PoolsFit(Range(kept)))
          /\ Range(kept) \in SUBSET Runs
      BY <2>2, <3>1, FilteringRuns, RangeOfRuns
    <3>3. /\ Range(batch') \subseteq Range(kept)
          /\ MaxConcurrentRuns # NoLimit => Cardinality(seen) + Cardinality(Range(batch')) <= MaxConcurrentRuns
      BY <1>1, <2>2, <3>1, <3>2, TruncatingRuns
    <3>4. PICK C \in SUBSET Runs : C = Range(batch') BY <3>2, <3>3
    <3>5. TagsFit(C) /\ (FALSE \notin BlocksOnPools => PoolsFit(C))
      BY <3>1, <3>2, <3>3, <3>4, FewerFit
    <3>6. TagsFit(C)' /\ (FALSE \notin BlocksOnPools => PoolsFit(C)')
      BY <1>1, <1>2, <3>5 DEF TagsFit, PoolsFit, Tagged, Pooled, LimitOf
    <3>7. Chosen(C)' BY <1>1, <3>3, <3>4, <3>6 DEF Chosen
    <3> QED BY <3>7
  <2> QED BY <2>1, <2>2, ReadingPage DEF QueueInv
<1> QED BY <1>3, <1>4, <1>5 DEF SomeChosen

LEMMA DequeueLimits ==
  ASSUME QueueInv, NEW r \in Runs, Dequeue(r)
  PROVE  (IterationOK /\ SomeChosen /\ LimitsHold)'
<1>1. /\ pc = "dequeue" /\ pc' = "dequeue" /\ seen' = seen /\ r \in Range(batch)
      /\ launching' \subseteq launching \cup {r} /\ Executing' \subseteq Executing \cup {r}
  BY DEF Dequeue, paging, Executing, QueueInv, QueueTypeOK
<1>2. /\ keys' = keys /\ limited' = limited /\ overlooked' = overlooked
       /\ limited \subseteq Limitable /\ limited \ keys \subseteq overlooked
  BY <1>1 DEF Dequeue, paging, pools, QueueInv, QueueTypeOK, IterationOK
<1>3. Range(batch') \subseteq Range(batch)
  <2>1. PICK i \in DOMAIN batch : batch' = RemoveAt(batch, i) BY DEF Dequeue, Drop
  <2>2. batch \in Seq(Runs) /\ i \in 1 .. Len(batch)
    BY <2>1, LenProperties DEF QueueInv, QueueTypeOK
  <2> QED BY <2>1, <2>2, RemovingRun
<1>4. PICK C \in SUBSET Runs : Chosen(C) BY <1>1 DEF QueueInv, SomeChosen
<1>5. IterationOK' BY <1>1, <1>2 DEF QueueInv, IterationOK
<1>6. Executing' \subseteq seen \cup C /\ r \in C /\ seen \in SUBSET Runs /\ Executing \in SUBSET Runs
  BY <1>1, <1>4, ExecutingRuns DEF Chosen, QueueInv, QueueTypeOK
<1>7. Chosen(C)'
  BY <1>1, <1>3, <1>4, <1>6, <1>2 DEF Chosen, TagsFit, PoolsFit, Tagged, Pooled, LimitOf
<1>8. MaxConcurrentRuns # NoLimit => Cardinality(Executing') <= MaxConcurrentRuns
  <2>1. Cardinality(seen \cup C) <= Cardinality(seen) + Cardinality(C) BY <1>6, RunsOfBoth
  <2>2. Cardinality(Executing') <= Cardinality(seen \cup C) BY <1>6, FewerRuns
  <2>3. /\ Cardinality(seen) \in Nat /\ Cardinality(C) \in Nat /\ Cardinality(seen \cup C) \in Nat
        /\ Cardinality(Executing') \in Nat
    <3>1. seen \cup C \in SUBSET Runs /\ Executing' \in SUBSET Runs BY <1>6
    <3> QED BY <1>6, <3>1, SomeRuns
  <2> QED BY <1>4, <2>1, <2>2, <2>3, LimitsAssumption DEF Chosen
<1>9. ASSUME NEW t \in DOMAIN TagLimit PROVE Cardinality(Tagged(Executing', t)) <= TagLimit[t]
  <2>1. CASE t \in TagsOf[r]
    <3>1. /\ Tagged(Executing', t) \in SUBSET (Tagged(seen, t) \cup Tagged(C, t))
          /\ Tagged(seen, t) \in SUBSET Runs /\ Tagged(C, t) \in SUBSET Runs /\ Tagged(C, t) # {}
      BY <1>6, <2>1 DEF Tagged
    <3>2. /\ Cardinality(Tagged(seen, t) \cup Tagged(C, t)) <= Cardinality(Tagged(seen, t)) + Cardinality(Tagged(C, t))
          /\ Cardinality(Tagged(Executing', t)) <= Cardinality(Tagged(seen, t) \cup Tagged(C, t))
      BY <3>1, RunsOfBoth, FewerRuns
    <3>3. /\ Cardinality(Tagged(seen, t)) \in Nat /\ Cardinality(Tagged(C, t)) \in Nat
          /\ Cardinality(Tagged(Executing', t)) \in Nat
          /\ Cardinality(Tagged(seen, t) \cup Tagged(C, t)) \in Nat
      <4>1. Tagged(seen, t) \cup Tagged(C, t) \in SUBSET Runs /\ Tagged(Executing', t) \in SUBSET Runs
        BY <3>1
      <4> QED BY <3>1, <4>1, SomeRuns
    <3>4. Cardinality(Tagged(seen, t)) + Cardinality(Tagged(C, t)) <= TagLimit[t]
      BY <1>4, <3>1 DEF Chosen, TagsFit
    <3> QED BY <3>2, <3>3, <3>4, LimitsAssumption
  <2>2. CASE t \notin TagsOf[r]
    <3>1. Tagged(Executing', t) \in SUBSET Tagged(Executing, t) /\ Tagged(Executing, t) \in SUBSET Runs
      BY <1>1, <1>6, <2>2 DEF Tagged
    <3>2. /\ Cardinality(Tagged(Executing', t)) <= Cardinality(Tagged(Executing, t))
          /\ Cardinality(Tagged(Executing, t)) \in Nat /\ Cardinality(Tagged(Executing', t)) \in Nat
      BY <3>1, FewerRuns, SomeRuns
    <3>3. Cardinality(Tagged(Executing, t)) <= TagLimit[t] BY DEF QueueInv, LimitsHold, Tagged
    <3> QED BY <3>2, <3>3, LimitsAssumption
  <2> QED BY <2>1, <2>2
<1>10. ASSUME FALSE \notin BlocksOnPools, NEW p \in limited \ overlooked
      PROVE  Cardinality(Pooled(Executing', p)) <= LimitOf(p)
  <2>0. LimitOf(p) \in Nat BY <1>10, <1>2, LimitsAreNumbers
  <2>1. CASE p \in PoolsOf[r]
    <3>1. /\ Pooled(Executing', p) \in SUBSET (Pooled(seen, p) \cup Pooled(C, p))
          /\ Pooled(seen, p) \in SUBSET Runs /\ Pooled(C, p) \in SUBSET Runs /\ Pooled(C, p) # {}
      BY <1>6, <2>1 DEF Pooled
    <3>2. /\ Cardinality(Pooled(seen, p) \cup Pooled(C, p)) <= Cardinality(Pooled(seen, p)) + Cardinality(Pooled(C, p))
          /\ Cardinality(Pooled(Executing', p)) <= Cardinality(Pooled(seen, p) \cup Pooled(C, p))
      BY <3>1, RunsOfBoth, FewerRuns
    <3>3. /\ Cardinality(Pooled(seen, p)) \in Nat /\ Cardinality(Pooled(C, p)) \in Nat
          /\ Cardinality(Pooled(Executing', p)) \in Nat
          /\ Cardinality(Pooled(seen, p) \cup Pooled(C, p)) \in Nat
      <4>1. Pooled(seen, p) \cup Pooled(C, p) \in SUBSET Runs /\ Pooled(Executing', p) \in SUBSET Runs
        BY <3>1
      <4> QED BY <3>1, <4>1, SomeRuns
    <3>4. Cardinality(Pooled(seen, p)) + Cardinality(Pooled(C, p)) <= LimitOf(p)
      BY <1>4, <1>10, <1>2, <3>1 DEF Chosen, PoolsFit
    <3> QED BY <2>0, <3>2, <3>3, <3>4
  <2>2. CASE p \notin PoolsOf[r]
    <3>1. Pooled(Executing', p) \in SUBSET Pooled(Executing, p) /\ Pooled(Executing, p) \in SUBSET Runs
      BY <1>1, <1>6, <2>2 DEF Pooled
    <3>2. /\ Cardinality(Pooled(Executing', p)) <= Cardinality(Pooled(Executing, p))
          /\ Cardinality(Pooled(Executing, p)) \in Nat /\ Cardinality(Pooled(Executing', p)) \in Nat
      BY <3>1, FewerRuns, SomeRuns
    <3>3. Cardinality(Pooled(Executing, p)) <= LimitOf(p) BY <1>10 DEF QueueInv, LimitsHold, Pooled
    <3> QED BY <2>0, <3>2, <3>3
  <2> QED BY <2>1, <2>2
<1>11. LimitsHold' BY <1>8, <1>9, <1>10, <1>2 DEF LimitsHold, Tagged, Pooled, LimitOf
<1> QED BY <1>5, <1>7, <1>11 DEF SomeChosen

LEMMA QueueInvInit == QueueInit => QueueInv
<1> SUFFICES ASSUME QueueInit PROVE QueueInv
  OBVIOUS
<1>1. pc = "idle" /\ batch = <<>> /\ launching = {} /\ Executing = {} /\ limited \subseteq Limitable
  BY QueueTypesInit DEF QueueInit, Executing, QueueTypeOK
<1>3. LimitsHold
  <2>1. /\ \A t : {r \in Executing : t \in TagsOf[r]} = {}
        /\ \A p : {r \in Executing : p \in PoolsOf[r]} = {}
    BY <1>1
  <2>2. Cardinality({}) = 0 BY FS_EmptySet
  <2>3. /\ MaxConcurrentRuns # NoLimit => 0 <= MaxConcurrentRuns
        /\ \A t \in DOMAIN TagLimit : 0 <= TagLimit[t]
        /\ \A p \in limited : 0 <= LimitOf(p)
    BY <1>1, LimitsAssumption, LimitsAreNumbers
  <2> QED BY <1>1, <2>1, <2>2, <2>3 DEF LimitsHold
<1> QED BY <1>1, <1>3, QueueTypesInit DEF QueueInv, IterationOK, SomeChosen

LEMMA QueueInvNext ==
  ASSUME QueueInv, [QueueNext]_queueVars
  PROVE  QueueInv'
<1>1. QueueTypeOK' BY QueueTypesNext DEF QueueInv
<1> DEFINE Goal == (IterationOK /\ SomeChosen /\ LimitsHold)'
<1>2. ASSUME NEW r \in Runs,
             Launched(r) \/ LaunchFails(r) \/ Submit(r) \/ Start(r) \/ Cancel(r) \/ End(r)
      PROVE  Goal
  <2>1. UNCHANGED <<pc, seen, batch, keys, pools>> /\ launching' \subseteq launching
    BY <1>2 DEF Launched, LaunchFails, Submit, Start, Cancel, End, Become, paging
  <2>2. Executing' \subseteq Executing
    BY <1>2 DEF Launched, LaunchFails, Submit, Start, Cancel, End, Become, rows, Executing, QueueInv,
      QueueTypeOK, InProgress
  <2> QED BY <2>1, <2>2, ChosenStay
<1>3. ASSUME (\E l \in Locations : Unpause(l)) \/ UNCHANGED queueVars PROVE Goal
  <2>1. UNCHANGED <<pc, seen, batch, keys, pools, launching, status>>
    BY <1>3 DEF Unpause, queueVars, rows, paging
  <2> QED BY <2>1, ChosenStay DEF Executing
<1>4. ASSUME Iterated \/ DaemonDies PROVE Goal
  <2>1. pc' = "idle" /\ batch' = <<>> /\ launching' = {} /\ status' = status /\ pools' = pools
    BY <1>4 DEF Iterated, DaemonDies, Return, rows
  <2>2. LimitsHold' BY <2>1, FewerExecute DEF QueueInv, QueueTypeOK, Executing, pools
  <2> QED BY <2>1, <2>2 DEF IterationOK, SomeChosen
<1> QED BY <1>1, <1>2, <1>3, <1>4, BeginLimits, ReadPageLimits, DequeueLimits
      DEF QueueInv, QueueNext, Daemon

LEMMA AlwaysQueue == QueueSpec => []QueueInv
  BY QueueInvInit, QueueInvNext, PTL DEF QueueSpec

\* Every variable of the queue keeps its type.
THEOREM QueueTypes == QueueSpec => []QueueTypeOK
<1>1. QueueInv => QueueTypeOK BY DEF QueueInv
<1> QED BY <1>1, AlwaysQueue, PTL

\* No limit on runs, tags or pools is ever exceeded, whatever happens to the runs between the
\* reading of those in progress and the launches; but for a default limit in the iteration that
\* applies it, and until the runs of the pool have come down to it.
THEOREM QueueKeepsLimits == QueueSpec => []LimitsHold
<1>1. QueueInv => LimitsHold BY DEF QueueInv
<1> QED BY <1>1, AlwaysQueue, PTL

-----------------------------------------------------------------------------
(* Order *)

\* While pages are read, no run of the batch has overtaken one that was read with it or later.
NoOvertaking ==
  pc = "page" => \A q \in Runs, r \in Runs : page[q] >= page[r] => ~ Overtakes(r, q)

LEMMA ReadPageOrder ==
  ASSUME QueueInv, NoOvertaking, ReadPage
  PROVE  \A q \in Runs, r \in Runs : page'[q] >= page'[r] => ~ Overtakes(r, q)'
<1> SUFFICES ASSUME NEW q \in Runs, NEW r \in Runs, page'[q] >= page'[r], Overtakes(r, q)'
             PROVE  FALSE
  OBVIOUS
<1>1. QueueTypeOK /\ IterationOK /\ pc = "page" /\ skipped' = skipped /\ page \in [Runs -> Nat]
  BY ReadingPage DEF QueueInv, QueueTypeOK
<1>2. /\ r \in Range(batch') /\ q \notin Range(batch') /\ page'[q] > 0 /\ Precedes(q, r)
      /\ TagsOf[q] \subseteq TagsOf[r] /\ PoolsOf[q] \subseteq PoolsOf[r] /\ LocationOf[q] \notin skipped
  BY <1>1 DEF Overtakes, Precedes
<1>3. page' = [x \in Runs |-> IF x \in PageRuns THEN LastPage + 1 ELSE page[x]]
  BY <1>1, ReadingPage
<1>4. LastPage \in Nat /\ \A x \in Runs : page[x] <= LastPage BY <1>1, PageNumbers
<1>5. CASE q \notin PageRuns /\ q \notin Range(batch) /\ r \in Range(batch)
  <2>1. page[q] > 0 /\ page'[q] = page[q] BY <1>2, <1>3, <1>5
  <2>2. r \notin PageRuns
    <3>1. r \in PageRuns => page'[r] = LastPage + 1 BY <1>3
    <3> QED BY <1>1, <1>4, <2>1, <3>1
  <2>3. page[q] >= page[r] BY <1>3, <2>1, <2>2
  <2>4. Overtakes(r, q) BY <1>2, <1>5, <2>1 DEF Overtakes
  <2> QED BY <1>1, <2>3, <2>4 DEF NoOvertaking
<1>6. CASE PageRuns = {} /\ batch' = batch
  BY <1>2, <1>5, <1>6
<1>7. ASSUME NEW blocks \in BlocksOnPools, NEW S, NEW kept, S = Range(batch) \cup PageRuns,
             kept = Filter(PrioritySort(S), blocks), S \in SUBSET Runs, kept \in Seq(Runs),
             batch' = Truncate(kept)
      PROVE  FALSE
  <2>1. seen \in SUBSET Runs /\ keys \subseteq Limitable /\ blocks \in BOOLEAN
    BY <1>1, LimitsAssumption DEF QueueTypeOK
  <2>2. /\ Ordered(kept) /\ Range(kept) \subseteq S
        /\ \A x \in S, y \in Range(kept) :
             Precedes(x, y) /\ TagsOf[x] \subseteq TagsOf[y] /\ PoolsOf[x] \subseteq PoolsOf[y]
               => x \in Range(kept) \/ LocationOf[x] \in skipped
    BY <1>7, <2>1, FilteringRuns
  <2>3. /\ Range(batch') \subseteq Range(kept)
        /\ \A x \in Range(kept), y \in Range(batch') : Precedes(x, y) => x \in Range(batch')
    BY <1>1, <1>7, <2>1, <2>2, TruncatingRuns DEF IterationOK
  <2>4. q \notin S BY <1>2, <2>2, <2>3
  <2>5. r \in S BY <1>2, <2>2, <2>3
  <2>6. r \in Range(batch)
    <3>1. r \in PageRuns => page'[r] = LastPage + 1 BY <1>3
    <3>2. page'[q] = page[q] BY <1>3, <1>7, <2>4
    <3> QED BY <1>1, <1>4, <1>7, <2>5, <3>1, <3>2
  <2> QED BY <1>5, <1>7, <2>4, <2>6
<1> QED BY <1>1, <1>6, <1>7, ReadingPage

LEMMA OrderNext ==
  ASSUME QueueInv, NoOvertaking, [QueueNext]_queueVars
  PROVE  /\ NoOvertaking'
         /\ pc = "page" /\ pc' # "idle" =>
              \A q \in Runs, r \in Runs : page'[q] >= page'[r] => ~ Overtakes(r, q)'
<1>1. CASE ReadPage BY <1>1, ReadPageOrder DEF NoOvertaking
<1>2. CASE Begin
  <2>1. Range(batch') = {} /\ pc = "idle" BY <1>2 DEF Begin, QueueInv, IterationOK, Range
  <2> QED BY <2>1 DEF NoOvertaking, Overtakes
<1>3. CASE \E r \in Runs : Dequeue(r)
  BY <1>3 DEF Dequeue, NoOvertaking
<1>4. CASE Iterated \/ DaemonDies
  BY <1>4 DEF Iterated, DaemonDies, Return, NoOvertaking
<1>5. CASE UNCHANGED <<pc, batch, page, skipped>>
  BY <1>5 DEF NoOvertaking, Overtakes, Precedes
<1>6. ASSUME NEW r \in Runs,
             Launched(r) \/ LaunchFails(r) \/ Submit(r) \/ Start(r) \/ Cancel(r) \/ End(r)
      PROVE  UNCHANGED <<pc, batch, page, skipped>>
  BY <1>6 DEF Launched, LaunchFails, Submit, Start, Cancel, End, Become, paging
<1>7. ASSUME (\E l \in Locations : Unpause(l)) \/ UNCHANGED queueVars
      PROVE  UNCHANGED <<pc, batch, page, skipped>>
  BY <1>7 DEF Unpause, queueVars, paging
<1> QED BY <1>1, <1>2, <1>3, <1>4, <1>5, <1>6, <1>7 DEF QueueNext, Daemon

\* No run overtakes one of a higher priority, or of the same that is older, that has been read with
\* it or later, for any number of pages, limits and paused locations.
THEOREM PrioritiesWithinPages == QueueSpec => PriorityWithinPages
<1>1. QueueInit => NoOvertaking BY DEF QueueInit, NoOvertaking
<1>2. QueueInv /\ NoOvertaking /\ [QueueNext]_queueVars => NoOvertaking' BY OrderNext
<1>3. QueueInv /\ NoOvertaking /\ [QueueNext]_queueVars =>
        [(pc = "page" /\ pc' # "idle") =>
           \A q \in Runs, r \in Runs : page'[q] >= page'[r] => ~ Overtakes(r, q)']_queueVars
  BY OrderNext
<1> QED BY <1>1, <1>2, <1>3, AlwaysQueue, PTL DEF QueueSpec, PriorityWithinPages
=============================================================================
