----------------------------- MODULE AutoRetry ------------------------------
(***************************************************************************)
(* Automatic retries of failed runs.  Whoever ends a run stores the event, *)
(* writes the row's status and, if the run failed, tags it with the        *)
(* decision whether it will be retried.  The event log consumer reads the  *)
(* events after its cursors, then the rows of their runs, retries those    *)
(* that should be, and persists the cursors; it may die anywhere and then  *)
(* starts over.  Meanwhile users re-execute runs themselves.               *)
(*                                                                         *)
(* The runs are one group: the root and what was re-executed from it.      *)
(***************************************************************************)
EXTENDS Naturals, Sequences, FiniteSets

CONSTANTS
  None,
  MaxRuns,      \* bound: runs of the group, numbered in the order they are created
  MaxRetries,   \* run_retries.max_retries
  FetchLimit,   \* events of a type that one iteration reads
  MaxManual,    \* bound: re-executions by users
  MaxCrashes,   \* bound: processes that die
  LateEnds,     \* bound: runs that the monitor may end although their worker ends them, too
  Vanish        \* whether the backfill or the job of a run may be gone when it is to be retried

ASSUME CountsAssumption ==
  /\ {MaxRuns, FetchLimit} \subseteq Nat \ {0}
  /\ {MaxRetries, MaxManual, MaxCrashes} \subseteq Nat
ASSUME CasesAssumption    == LateEnds \subseteq 1 .. MaxRuns /\ Vanish \in BOOLEAN
ASSUME NoneAssumption     == None \notin 1 .. MaxRuns /\ None \notin {"true", "false"}

Runs    == 1 .. MaxRuns
Types   == {"FAILURE", "SUCCESS"}           \* DAGSTER_EVENT_TYPES
Writers == (Runs \X {"worker"}) \cup (LateEnds \X {"monitor"})

VARIABLES
  created,           \* how many runs there are
  status,            \* their status, "STARTED" once submitted
  parent, auto,      \* the run each re-executes, and whether it has a RETRY_NUMBER_TAG
  will, retry,       \* WILL_RETRY_TAG and AUTO_RETRY_RUN_ID_TAG of each run
  log,               \* the terminal events of the runs
  writer,            \* where each writer is, and the tags it is about to write
  cursor,            \* the persisted cursor of each type of event
  pc, todo, record,  \* the consumer: where it is, the runs of its events, their rows
  next,              \* the cursors to persist
  current,           \* <<the run it retries, the run that retries it>>
  manual, crashes,   \* for the bounds
  forgone            \* history: runs the consumer has turned away or failed to retry

rows     == <<created, status, parent, auto>>
tags     == <<will, retry>>
consumer == <<pc, todo, record, next, current>>
bounds   == <<manual, crashes>>
vars     == <<rows, tags, log, writer, cursor, consumer, bounds, forgone>>

Group == 1 .. created                       \* get_run_group
Done  == [at |-> "idle", will |-> None, retry |-> None]

Init ==
  /\ created = 1 /\ status = [r \in Runs |-> IF r = 1 THEN "STARTED" ELSE "absent"]
  /\ parent = [r \in Runs |-> None] /\ auto = [r \in Runs |-> FALSE]
  /\ will = [r \in Runs |-> None] /\ retry = [r \in Runs |-> None]
  /\ log = <<>> /\ writer = [w \in Writers |-> Done]
  /\ cursor = [t \in Types |-> 0] /\ next = [t \in Types |-> 0]
  /\ pc = "idle" /\ todo = {} /\ record = [r \in Runs |-> None] /\ current = <<None, None>>
  /\ manual = 0 /\ crashes = 0 /\ forgone = {}

\* A run is created: add_run.
New(from, automatic, submitted) ==
  /\ created < MaxRuns /\ created' = created + 1
  /\ status' = [status EXCEPT ![created + 1] = IF submitted THEN "STARTED" ELSE "NOT_STARTED"]
  /\ parent' = [parent EXCEPT ![created + 1] = from]
  /\ auto' = [auto EXCEPT ![created + 1] = automatic]

(***************************************************************************)
(* The end of a run: handle_new_event.                                     *)
(***************************************************************************)

\* The worker ends its run once; the monitor fails a run it takes for one that does not start.
Ends(r, who, type) ==
  /\ writer[<<r, who>>] = Done
  /\ \/ who = "worker" /\ status[r] = "STARTED"
     \/ who = "monitor" /\ type = "FAILURE" /\ status[r] \in {"NOT_STARTED", "STARTED"}
  /\ log' = Append(log, [type |-> type, run |-> r])
  /\ writer' = [writer EXCEPT ![<<r, who>>] = [Done EXCEPT !.at = type]]
  /\ UNCHANGED <<rows, tags, cursor, consumer, bounds, forgone>>

\* Mutant: an off-by-one.
ShouldRetryMutant == IF Cardinality(Group) <= MaxRetries + 1 THEN "true" ELSE "false"
\* The decision that auto_reexecution_should_retry_run takes on a failed run.
ShouldRetry == IF MaxRetries > 0 /\ Cardinality(Group) <= MaxRetries THEN "true" ELSE "false"

\* handle_run_event: the row's status follows the event.
WriteStatus(r, who) ==
  /\ writer[<<r, who>>].at \in Types
  /\ status' = [status EXCEPT ![r] = writer[<<r, who>>].at]
  /\ writer' = [writer EXCEPT ![<<r, who>>].at = IF @ = "FAILURE" THEN "decide" ELSE "ended"]
  /\ UNCHANGED <<created, parent, auto, tags, log, cursor, consumer, bounds, forgone>>

\* The row and the group are read to decide; the tag is added to the tags as they were read.
Decide(r, who) ==
  /\ writer[<<r, who>>].at = "decide"
  /\ writer' = [writer EXCEPT ![<<r, who>>] =
       [at |-> "tag", retry |-> retry[r],
        will |-> IF status[r] = "FAILURE" THEN ShouldRetry ELSE "false"]]
  /\ UNCHANGED <<rows, tags, log, cursor, consumer, bounds, forgone>>

Tag(r, who) ==
  /\ writer[<<r, who>>].at = "tag"
  /\ will' = [will EXCEPT ![r] = writer[<<r, who>>].will]
  /\ retry' = [retry EXCEPT ![r] = writer[<<r, who>>].retry]
  /\ writer' = [writer EXCEPT ![<<r, who>>] = [Done EXCEPT !.at = "ended"]]
  /\ UNCHANGED <<rows, log, cursor, consumer, bounds, forgone>>

WriterDies(r, who) ==
  /\ crashes < MaxCrashes /\ crashes' = crashes + 1
  /\ writer[<<r, who>>].at \notin {"idle", "ended"}
  /\ writer' = [writer EXCEPT ![<<r, who>>] = [Done EXCEPT !.at = "ended"]]
  /\ UNCHANGED <<rows, tags, log, cursor, consumer, manual, forgone>>

\* A user re-executes a run that has ended.
Reexecute(r) ==
  /\ manual < MaxManual /\ manual' = manual + 1
  /\ status[r] \in Types /\ New(r, FALSE, TRUE)
  /\ UNCHANGED <<tags, log, writer, cursor, consumer, crashes, forgone>>

(***************************************************************************)
(* The consumer: run_iteration.                                            *)
(***************************************************************************)

\* The positions of the events of a type after its cursor, FetchLimit of them at most.
Unread(t) ==
  LET all == {i \in 1 .. Len(log) : i > cursor[t] /\ log[i].type = t}
  IN  {i \in all : Cardinality({j \in all : j <= i}) <= FetchLimit}

Fetch ==
  /\ pc = "idle" /\ pc' = "fetched"
  /\ todo' = {log[i].run : i \in UNION {Unread(t) : t \in Types}}
  /\ next' = [t \in Types |-> IF Unread(t) = {} THEN cursor[t]
                              ELSE CHOOSE i \in Unread(t) : \A j \in Unread(t) : j <= i]
  /\ next' # cursor                         \* an iteration without events changes nothing
  /\ UNCHANGED <<rows, tags, log, writer, cursor, record, current, bounds, forgone>>

\* get_run_records
ReadRows ==
  /\ pc = "fetched" /\ pc' = "examine"
  /\ record' = [r \in Runs |->
       IF r \in todo THEN [status |-> status[r], will |-> will[r], retry |-> retry[r]] ELSE None]
  /\ UNCHANGED <<rows, tags, log, writer, cursor, todo, next, current, bounds, forgone>>

\* should_retry: it goes by the decision of whoever ended the run, or decides itself if there is
\* none and the row says that the run failed.
Decision(r) ==
  IF record[r].will # None THEN record[r].will
  ELSE IF record[r].status = "FAILURE" THEN ShouldRetry ELSE "false"

Examine(r) ==
  /\ pc = "examine" /\ r \in todo /\ todo' = todo \ {r}
  /\ will' = IF record[r].will = None /\ record[r].status = "FAILURE"
               THEN [will EXCEPT ![r] = Decision(r)] ELSE will
  /\ \/ /\ Decision(r) = "true" /\ pc' = "group" /\ current' = <<r, None>>
        /\ UNCHANGED forgone
     \/ /\ Decision(r) = "false" \/ Vanish            \* the backfill has ended or was deleted
        /\ forgone' = forgone \cup {r} /\ UNCHANGED <<pc, current>>
  /\ UNCHANGED <<rows, retry, log, writer, cursor, record, next, bounds>>

\* Mutant: the group is not searched.
ExistingRetriesMutant(r) == IF record[r].retry # None THEN {record[r].retry} ELSE {None}

\* get_automatically_retried_run_if_exists: the run the tag names, or the first child of the
\* group, in whatever order it is read, if that has a RETRY_NUMBER_TAG.
ExistingRetries(r) ==
  LET children == {n \in Group : parent[n] = r}
  IN  IF record[r].retry # None THEN {record[r].retry}
      ELSE IF children = {} THEN {None}
      ELSE {IF auto[n] THEN n ELSE None : n \in children}

\* retry_run returns early: the job, its repository or the root of the group is gone.
JobIsGone ==
  /\ Vanish /\ pc = "group" /\ pc' = "examine" /\ current' = <<None, None>>
  /\ forgone' = forgone \cup {current[1]}
  /\ UNCHANGED <<rows, tags, log, writer, cursor, todo, record, next, bounds>>

\* Mutant: a retry that exists is taken for one that has been submitted.
FindRetryMutant ==
  /\ pc = "group"
  /\ \E n \in ExistingRetries(current[1]) :
       /\ current' = IF n = None THEN <<current[1], n>> ELSE <<None, None>>
       /\ pc' = IF n = None THEN "create" ELSE "examine"
  /\ UNCHANGED <<rows, tags, log, writer, cursor, todo, record, next, bounds, forgone>>

FindRetry ==
  /\ pc = "group"
  /\ \E n \in ExistingRetries(current[1]) :
       /\ current' = <<current[1], n>> /\ pc' = IF n = None THEN "create" ELSE "tag"
  /\ UNCHANGED <<rows, tags, log, writer, cursor, todo, record, next, bounds, forgone>>

CreateRetry ==
  /\ pc = "create" /\ pc' = "tag"
  /\ New(current[1], TRUE, FALSE) /\ current' = <<current[1], created + 1>>
  /\ UNCHANGED <<tags, log, writer, cursor, todo, record, next, bounds, forgone>>

TagRetry ==
  /\ pc = "tag" /\ pc' = "submit"
  /\ retry' = IF record[current[1]].retry = None
                THEN [retry EXCEPT ![current[1]] = current[2]] ELSE retry
  /\ UNCHANGED <<rows, will, log, writer, cursor, todo, record, next, current, bounds, forgone>>

SubmitRetry ==
  /\ pc = "submit" /\ pc' = "examine" /\ current' = <<None, None>>
  /\ status' = [status EXCEPT ![current[2]] = IF @ = "NOT_STARTED" THEN "STARTED" ELSE @]
  /\ UNCHANGED <<created, parent, auto, tags, log, writer, cursor, todo, record, next, bounds, forgone>>

\* "Since something failed when retrying this run, mark that we will not retry it"
RetryFails ==
  /\ pc \in {"group", "create", "tag", "submit"} /\ pc' = "examine" /\ current' = <<None, None>>
  /\ will' = [will EXCEPT ![current[1]] = "false"] /\ forgone' = forgone \cup {current[1]}
  /\ UNCHANGED <<rows, retry, log, writer, cursor, todo, record, next, bounds>>

\* Mutant: an event a type is behind is taken for read.
PersistCursorsMutant ==
  /\ pc = "examine" /\ todo = {} /\ pc' = "idle"
  /\ cursor' = [t \in Types |-> IF next["FAILURE"] > next["SUCCESS"] THEN next["FAILURE"] ELSE next["SUCCESS"]]
  /\ record' = [r \in Runs |-> None]
  /\ UNCHANGED <<rows, tags, log, writer, todo, next, current, bounds, forgone>>

PersistCursors ==
  /\ pc = "examine" /\ todo = {} /\ pc' = "idle" /\ cursor' = next
  /\ record' = [r \in Runs |-> None]
  /\ UNCHANGED <<rows, tags, log, writer, todo, next, current, bounds, forgone>>

ConsumerDies ==
  /\ crashes < MaxCrashes /\ crashes' = crashes + 1
  /\ pc # "idle" /\ pc' = "idle" /\ todo' = {} /\ next' = cursor
  /\ record' = [r \in Runs |-> None] /\ current' = <<None, None>>
  /\ UNCHANGED <<rows, tags, log, writer, cursor, manual, forgone>>

(***************************************************************************)

Writes(r, who) == WriteStatus(r, who) \/ Decide(r, who) \/ Tag(r, who)
Consumes == \/ Fetch \/ ReadRows \/ JobIsGone \/ FindRetry \/ CreateRetry \/ TagRetry \/ SubmitRetry
            \/ PersistCursors \/ \E r \in Runs : Examine(r)

Next ==
  \/ Consumes \/ RetryFails \/ ConsumerDies
  \/ \E w \in Writers : Writes(w[1], w[2]) \/ WriterDies(w[1], w[2])
  \/ \E w \in Writers, t \in Types : Ends(w[1], w[2], t)
  \/ \E r \in Runs : Reexecute(r)

\* The consumer and whoever ends a run take their next step unless they die; runs need not end.
Fairness ==
  /\ WF_vars(Consumes)
  /\ \A w \in Writers : WF_vars(Writes(w[1], w[2]))

Spec     == Init /\ [][Next]_vars
FairSpec == Spec /\ Fairness

(***************************************************************************)
(* Properties.                                                             *)
(***************************************************************************)

\* Every variable has its type.
TypeOK ==
  /\ created \in Runs
  /\ status \in [Runs -> Types \cup {"absent", "NOT_STARTED", "STARTED"}]
  /\ parent \in [Runs -> Runs \cup {None}] /\ auto \in [Runs -> BOOLEAN]
  /\ will \in [Runs -> {None, "true", "false"}] /\ retry \in [Runs -> Runs \cup {None}]
  /\ log \in Seq([type : Types, run : Runs])
  /\ writer \in [Writers -> [at : Types \cup {"idle", "decide", "tag", "ended"},
                             will : {None, "true", "false"}, retry : Runs \cup {None}]]
  /\ {cursor, next} \subseteq [Types -> Nat]
  /\ pc \in {"idle", "fetched", "examine", "group", "create", "tag", "submit"}
  /\ todo \subseteq Runs /\ forgone \subseteq Runs
  /\ current \in (Runs \cup {None}) \X (Runs \cup {None})
  /\ manual \in 0 .. MaxManual /\ crashes \in 0 .. MaxCrashes

Retries(r)      == {n \in Group : parent[n] = r /\ auto[n]}
Reexecutions(r) == {n \in Group : parent[n] = r /\ ~ auto[n]}

\* A run is retried automatically once, although its events may be read again after a crash, at
\* any step between creating, naming and submitting the retry; unless a user has re-executed it.
RetriedOnce == \A r \in Group : Cardinality(Retries(r)) <= 1 \/ Reexecutions(r) # {}

\* A further retry of a run that a user has re-executed, too.
Repeats(n) == Reexecutions(parent[n]) # {} /\ \E m \in Retries(parent[n]) : m < n

\* "the automatic reexecution system won't launch more than max_retries run itself": the automatic
\* retries of a group are MaxRetries at most, although several runs are decided on at once, by
\* different writers, and whoever dies; but a repeated retry is not counted, see RetriedOnce.
RetriesAreBounded == Cardinality({n \in Group : auto[n] /\ ~ Repeats(n)}) <= MaxRetries

\* With the repeated ones; the code does not keep it.
MaxRetriesHolds == Cardinality({n \in Group : auto[n]}) <= MaxRetries

\* An event behind the persisted cursor, which is not read again, is of a run that has been retried
\* or that the consumer has turned away or failed to retry: no crash makes it forget one.
PassedIsSettled ==
  \A i \in 1 .. Len(log) :
    i <= cursor[log[i].type] => (Retries(log[i].run) # {} \/ log[i].run \in forgone)

\* A retry is submitted or fails, if the consumer dies after creating it, too, unless a user has
\* re-executed the same run.
RetriesAreSubmitted ==
  \A n \in Runs :
    (auto[n] /\ status[n] = "NOT_STARTED")
      ~> (status[n] # "NOT_STARTED" \/ parent[n] \in forgone \/ Reexecutions(parent[n]) # {})

\* "a new run will be kicked off whenever a run fails for any reason": a run that is tagged to be
\* retried is retried, or tagged not to be.
PromisesAreKept == \A r \in Runs : (will[r] = "true") ~> (will[r] = "false" \/ Retries(r) # {})

=============================================================================
