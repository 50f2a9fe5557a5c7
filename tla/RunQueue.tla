------------------------------ MODULE RunQueue ------------------------------
(***************************************************************************)
(* The queued run coordinator's daemon: which runs an iteration takes off  *)
(* the queue, and in which order, under the limits on runs, on tags and on *)
(* pools.  The queue is read page by page, while runs are submitted,       *)
(* canceled and finish; the runs that were chosen are then dequeued, by a  *)
(* thread each, and a launch that fails for the code server pauses its     *)
(* location and enqueues the run again.                                    *)
(*                                                                         *)
(* The races on the row of one run are RunLifecycle's; here a run is read  *)
(* and written in one step.  Pools are those of runs (the granularity      *)
(* "run"); those of ops are ConcurrencyPools.                              *)
(***************************************************************************)
EXTENDS Integers, Sequences, FiniteSets, SequencesExt

CONSTANTS
  NoLimit,
  Runs,         \* numbers, in the order the runs are stored
  Priority,     \* PRIORITY_TAG of each, 0 if there is none or it is malformed
  TagsOf,       \* the limited tags each has: a key, a key with a value, or each value of a key
  Waiting,      \* those that are queued already when the daemon starts
  PoolsOf,      \* all_pools of each
  LocationOf,   \* its code location
  TagLimit,     \* tag_concurrency_limits
  PoolLimit,    \* limits of the pools that have one at first, with op_concurrency_slot_buffer
  DefaultLimit, \* of the others, likewise; NoLimit if it is None or 0, which is never applied
  MaxConcurrentRuns,   \* max_concurrent_runs, NoLimit if it is -1
  PageSize,
  BlocksOnPools,       \* whether pools are looked at: always, or never, or not if counting them raises
  MaxRetries,   \* max_user_code_failure_retries
  MaxErrors,    \* bound: launches that raise
  MaxDeaths     \* bound: deaths of the daemon

ASSUME RunsAssumption ==
  /\ IsFiniteSet(Runs) /\ Runs \subseteq Nat \ {0} /\ Priority \in [Runs -> Int] /\ Waiting \subseteq Runs
  /\ DOMAIN TagsOf = Runs /\ DOMAIN PoolsOf = Runs /\ DOMAIN LocationOf = Runs
  /\ UNION {TagsOf[r] : r \in Runs} \subseteq DOMAIN TagLimit
ASSUME LimitsAssumption ==
  /\ TagLimit \in [DOMAIN TagLimit -> Nat] /\ PoolLimit \in [DOMAIN PoolLimit -> Nat]
  /\ DefaultLimit \in (Nat \ {0}) \cup {NoLimit}
  /\ MaxConcurrentRuns \in Nat \cup {NoLimit} /\ PageSize \in Nat \ {0}
  /\ BlocksOnPools \subseteq BOOLEAN /\ BlocksOnPools # {}
  /\ {MaxRetries, MaxErrors, MaxDeaths} \subseteq Nat

Locations  == {LocationOf[r] : r \in Runs}
PoolsOfAll(runs) == UNION {PoolsOf[r] : r \in runs}
InProgress == {"STARTING", "STARTED", "CANCELING"}
Statuses   == InProgress \cup {"absent", "QUEUED", "FINISHED"}

VARIABLES
  status, enqueues,   \* of each run: its status, how often it has been enqueued
  paused,             \* _location_timeouts: the locations whose timeout has not passed
  pc,                 \* the daemon: idle, paging or dequeuing
  seen, skipped,      \* in_progress_runs and paused_location_names, as the iteration read them
  keys,               \* concurrency_keys, as the iteration read them: the pools it takes to be limited
  cursor, batch,      \* the last run of the last page, and the runs to dequeue
  launching,          \* runs whose launch_run has not returned
  limited,            \* the pools that have a row in the table of limits
  overlooked,         \* history: pools that got their row in an iteration that had read the keys
                      \* before, and have been over their limit at the start of each one since
  page,               \* history: the page of the iteration that held each run, 0 if none did
  errors, deaths      \* for the bounds

rows      == <<status, enqueues>>
pools     == <<limited, overlooked>>
paging    == <<seen, skipped, keys, cursor, page>>
queueVars == <<rows, paused, pc, paging, batch, launching, pools, errors, deaths>>

QueueInit ==
  /\ status = [r \in Runs |-> IF r \in Waiting THEN "QUEUED" ELSE "absent"]
  /\ enqueues = [r \in Runs |-> IF r \in Waiting THEN 1 ELSE 0]
  /\ paused = {} /\ pc = "idle" /\ seen = {} /\ skipped = {} /\ keys = {} /\ cursor = 0
  /\ page = [r \in Runs |-> 0] /\ batch = <<>> /\ launching = {}
  /\ limited = DOMAIN PoolLimit /\ overlooked = {}
  /\ errors = 0 /\ deaths = 0

Running == {r \in Runs : status[r] \in InProgress}
Queued  == {r \in Runs : status[r] = "QUEUED"}

(***************************************************************************)
(* What one page does to the batch.                                        *)
(***************************************************************************)

\* The order of _priority_sort: it is stable, and the pages ascend.
Precedes(q, r) == Priority[q] > Priority[r] \/ (Priority[q] = Priority[r] /\ q < r)

\* Mutant: a count that is one short of the limit is taken for full.
TagBlockedMutant(r, counted) ==
  \E t \in TagsOf[r] :
    Cardinality({q \in seen : t \in TagsOf[q]}) + Cardinality({q \in counted : t \in TagsOf[q]}) + 1
      >= TagLimit[t]

\* TagConcurrencyLimitsCounter.is_blocked, when the runs counted have been counted as launched.
TagBlocked(r, counted) ==
  \E t \in TagsOf[r] :
    Cardinality({q \in seen : t \in TagsOf[q]}) + Cardinality({q \in counted : t \in TagsOf[q]})
      >= TagLimit[t]

LimitOf(p) == IF p \in DOMAIN PoolLimit THEN PoolLimit[p] ELSE DefaultLimit

\* Mutant: the runs in progress are left out.
PoolBlockedMutant(r, counted) ==
  \E p \in PoolsOf[r] \cap keys : Cardinality({q \in counted : p \in PoolsOf[q]}) >= LimitOf(p)

\* GlobalOpConcurrencyLimitsCounter.is_blocked: a pool that is not among the keys that were read has
\* "no concurrency limit set for this key".
PoolBlocked(r, counted) ==
  \E p \in PoolsOf[r] \cap keys :
    Cardinality({q \in seen : p \in PoolsOf[q]}) + Cardinality({q \in counted : p \in PoolsOf[q]})
      >= LimitOf(p)

\* _initialize_pool_limits: the pools of the batch that have no row get one with the default limit.
\* The keys have been read by then, and are not read again in this iteration.
Initialized(runs) == IF DefaultLimit = NoLimit THEN {} ELSE PoolsOfAll(runs) \ limited

\* One run of the sorted batch: it is counted for its tags before its pools, and for its pools
\* before its location is looked at, and stays counted if that removes it.
Consider(acc, r) ==
  IF TagBlocked(r, acc.tagged) THEN acc
  ELSE IF acc.blocks /\ PoolBlocked(r, acc.pooled) THEN [acc EXCEPT !.tagged = @ \cup {r}]
  ELSE [blocks |-> acc.blocks, tagged |-> acc.tagged \cup {r}, pooled |-> acc.pooled \cup {r},
        kept |-> IF LocationOf[r] \in skipped THEN acc.kept ELSE Append(acc.kept, r)]

NoneConsidered(blocks) == [blocks |-> blocks, tagged |-> {}, pooled |-> {}, kept |-> <<>>]

\* What the loop over the sorted batch has come to after each of its runs.
Considered(runs, blocks) ==
  LET acc[n \in 0 .. Len(runs)] ==
        IF n = 0 THEN NoneConsidered(blocks) ELSE Consider(acc[n - 1], runs[n])
  IN  acc

Filter(runs, blocks) == Considered(runs, blocks)[Len(runs)].kept

PrioritySort(runs) ==
  CHOOSE s \in [1 .. Cardinality(runs) -> runs] : \A i, j \in DOMAIN s : i < j => Precedes(s[i], s[j])

Truncate(runs) ==
  LET room == MaxConcurrentRuns - Cardinality(seen)
  IN  IF MaxConcurrentRuns = NoLimit \/ Len(runs) <= room THEN runs ELSE SubSeq(runs, 1, room)

\* get_runs: the first PageSize queued runs after the cursor.
PageRuns ==
  LET later == {r \in Queued : r > cursor}
  IN  {r \in later : Cardinality({q \in later : q <= r}) <= PageSize}

(***************************************************************************)
(* An iteration: _get_runs_to_dequeue and _dequeue_run.                    *)
(***************************************************************************)

Begin ==
  /\ pc = "idle"
  /\ MaxConcurrentRuns # NoLimit => Cardinality(Running) < MaxConcurrentRuns
  /\ Queued # {}                             \* an iteration without queued runs does nothing
  /\ pc' = "page" /\ seen' = Running /\ skipped' = paused
  /\ keys' = limited                        \* read with the first page, before rows are added
  /\ overlooked' = {p \in overlooked : Cardinality({r \in Running : p \in PoolsOf[r]}) > LimitOf(p)}
  /\ UNCHANGED <<rows, paused, cursor, page, batch, launching, limited, errors, deaths>>

LastPage == CHOOSE n \in Range(page) : \A m \in Range(page) : m <= n

\* Mutant: the batch is cut before it is sorted.
ReadPageMutant ==
  /\ pc = "page"
  /\ LET runs == PageRuns
         all  == Range(batch) \cup runs
     IN  /\ pc' = IF Cardinality(runs) < PageSize THEN "dequeue" ELSE "page"
         /\ page' = [r \in Runs |-> IF r \in runs THEN LastPage + 1 ELSE page[r]]
         /\ \/ runs = {} /\ UNCHANGED <<cursor, batch, limited>>
            \/ /\ runs # {} /\ cursor' = CHOOSE r \in runs : \A q \in runs : q <= r
               /\ \E blocks \in BlocksOnPools, new \in SUBSET Initialized(all) :
                    /\ blocks => new = Initialized(all)
                    /\ limited' = limited \cup new
                    /\ batch' = Filter(PrioritySort(Range(Truncate(batch \o SetToSortSeq(runs, <)))), blocks)
  /\ overlooked' = overlooked \cup (limited' \ keys)
  /\ UNCHANGED <<rows, paused, seen, skipped, keys, launching, errors, deaths>>

\* One turn of the loop over the pages.  If the counting raises, some rows may have been added.
ReadPage ==
  /\ pc = "page"
  /\ LET runs == PageRuns
         all  == Range(batch) \cup runs
     IN  /\ pc' = IF Cardinality(runs) < PageSize THEN "dequeue" ELSE "page"
         /\ page' = [r \in Runs |-> IF r \in runs THEN LastPage + 1 ELSE page[r]]
         /\ \/ runs = {} /\ UNCHANGED <<cursor, batch, limited>>
            \/ /\ runs # {} /\ cursor' = CHOOSE r \in runs : \A q \in runs : q <= r
               /\ \E blocks \in BlocksOnPools, new \in SUBSET Initialized(all) :
                    /\ blocks => new = Initialized(all)
                    /\ limited' = limited \cup new
                    /\ batch' = Truncate(Filter(PrioritySort(all), blocks))
  /\ overlooked' = overlooked \cup (limited' \ keys)
  /\ UNCHANGED <<rows, paused, seen, skipped, keys, launching, errors, deaths>>

Drop(r) == \E i \in DOMAIN batch : batch[i] = r /\ batch' = RemoveAt(batch, i)

\* "double check that the run is still queued before dequeing"; the threads come in any order.
Dequeue(r) ==
  /\ pc = "dequeue" /\ r \in Range(batch) /\ Drop(r)
  /\ IF status[r] = "QUEUED" /\ LocationOf[r] \notin paused
       THEN status' = [status EXCEPT ![r] = "STARTING"] /\ launching' = launching \cup {r}
       ELSE UNCHANGED <<status, launching>>
  /\ UNCHANGED <<enqueues, paused, pc, paging, pools, errors, deaths>>

Launched(r) ==
  /\ r \in launching /\ launching' = launching \ {r}
  /\ UNCHANGED <<rows, paused, pc, paging, batch, pools, errors, deaths>>

\* launch_run raises for the code server: the location is paused, the run enqueued again or failed,
\* unless it has "already finished or moved into STARTED".
LaunchFails(r) ==
  /\ errors < MaxErrors /\ errors' = errors + 1
  /\ r \in launching /\ launching' = launching \ {r}
  /\ IF status[r] \notin {"QUEUED", "STARTING"} THEN UNCHANGED <<rows, paused>>
     ELSE IF enqueues[r] - 1 < MaxRetries
       THEN /\ status' = [status EXCEPT ![r] = "QUEUED"] /\ enqueues' = [enqueues EXCEPT ![r] = @ + 1]
            /\ paused' = paused \cup {LocationOf[r]}
     ELSE /\ status' = [status EXCEPT ![r] = "FINISHED"] /\ UNCHANGED enqueues
          /\ paused' = IF MaxRetries > 0 THEN paused \cup {LocationOf[r]} ELSE paused
  /\ UNCHANGED <<pc, paging, batch, pools, deaths>>

\* An iteration's variables are gone with it.
Return ==
  /\ pc' = "idle" /\ seen' = {} /\ skipped' = {} /\ keys' = {} /\ cursor' = 0
  /\ page' = [r \in Runs |-> 0]

Iterated ==
  /\ pc = "dequeue" /\ batch = <<>> /\ launching = {} /\ Return
  /\ UNCHANGED <<rows, paused, batch, launching, pools, errors, deaths>>

\* The daemon dies, and with it the timeouts of the locations.
DaemonDies ==
  /\ deaths < MaxDeaths /\ deaths' = deaths + 1
  /\ pc # "idle" /\ Return /\ batch' = <<>> /\ launching' = {} /\ paused' = {}
  /\ UNCHANGED <<rows, pools, errors>>

(***************************************************************************)
(* The others.                                                             *)
(***************************************************************************)

\* user_code_failure_retry_delay has passed.
Unpause(l) ==
  /\ l \in paused /\ paused' = paused \ {l}
  /\ UNCHANGED <<rows, pc, paging, batch, launching, pools, errors, deaths>>

Become(r, from, to) ==
  /\ status[r] \in from /\ status' = [status EXCEPT ![r] = to]
  /\ UNCHANGED <<paused, pc, paging, batch, launching, pools, errors, deaths>>

Submit(r) == Become(r, {"absent"}, "QUEUED") /\ enqueues' = [enqueues EXCEPT ![r] = 1]
Start(r)  == Become(r, {"STARTING"}, "STARTED") /\ UNCHANGED enqueues
Cancel(r) == Become(r, {"QUEUED"}, "CANCELING") /\ UNCHANGED enqueues
\* The run ends, or a run that does not start is failed by the monitor.
End(r)    == Become(r, InProgress, "FINISHED") /\ UNCHANGED enqueues

Daemon == Begin \/ ReadPage \/ Iterated \/ \E r \in Runs : Dequeue(r) \/ Launched(r)

QueueNext ==
  \/ Daemon \/ DaemonDies
  \/ \E r \in Runs : LaunchFails(r) \/ Submit(r) \/ Start(r) \/ Cancel(r) \/ End(r)
  \/ \E l \in Locations : Unpause(l)

\* The daemon iterates, runs end in the end, and timeouts pass.
Fairness ==
  /\ WF_queueVars(Daemon)
  /\ \A r \in Runs : WF_queueVars(End(r))
  /\ \A l \in Locations : WF_queueVars(Unpause(l))

QueueSpec     == QueueInit /\ [][QueueNext]_queueVars
FairQueueSpec == QueueSpec /\ Fairness

(***************************************************************************)
(* Properties.                                                             *)
(***************************************************************************)

\* Pools that have a limit, or may get the default.
Limitable == DOMAIN PoolLimit \cup (IF DefaultLimit = NoLimit THEN {} ELSE PoolsOfAll(Runs))

\* Every variable has its type.
QueueTypeOK ==
  /\ status \in [Runs -> Statuses] /\ enqueues \in [Runs -> 0 .. MaxRetries + 1]
  /\ paused \subseteq Locations /\ skipped \subseteq Locations
  /\ pc \in {"idle", "page", "dequeue"}
  /\ seen \subseteq Runs /\ launching \subseteq Runs
  /\ limited \subseteq Limitable /\ keys \subseteq limited /\ overlooked \subseteq limited
  /\ cursor \in Runs \cup {0} /\ batch \in Seq(Runs) /\ page \in [Runs -> Nat]
  /\ errors \in 0 .. MaxErrors /\ deaths \in 0 .. MaxDeaths

Executing == {r \in Runs : status[r] \in {"STARTING", "STARTED"}}

\* No limit on runs, tags or pools is ever exceeded, whatever is submitted, enqueued again, canceled
\* or finishes between the reading of the runs in progress, the pages and the launches; but for a
\* pool's default limit, which is not in force in the iteration that applies it (overlooked): once
\* the runs of the pool have come down to it, it is kept like any other.
LimitsHold ==
  /\ MaxConcurrentRuns # NoLimit => Cardinality(Executing) <= MaxConcurrentRuns
  /\ \A t \in DOMAIN TagLimit : Cardinality({r \in Executing : t \in TagsOf[r]}) <= TagLimit[t]
  /\ FALSE \notin BlocksOnPools =>
       \A p \in limited \ overlooked : Cardinality({r \in Executing : p \in PoolsOf[r]}) <= LimitOf(p)

\* A pool never has more runs than its limit, not even when the limit is new; the code does not keep it.
DefaultLimitHolds ==
  \A p \in limited : Cardinality({r \in Executing : p \in PoolsOf[r]}) <= LimitOf(p)

\* Run q, which the iteration has read, was left out although it comes before r, which was chosen,
\* and could be launched in its place.
Overtakes(r, q) ==
  /\ r \in Range(batch) /\ q \notin Range(batch) /\ page[q] > 0 /\ Precedes(q, r)
  /\ TagsOf[q] \subseteq TagsOf[r] /\ PoolsOf[q] \subseteq PoolsOf[r]
  /\ LocationOf[q] \notin skipped

\* A run does not overtake one of a higher priority, or of the same that is older, that has been
\* read with it or later: neither the limits nor the truncation prefer it.
PriorityWithinPages ==
  [][(pc = "page" /\ pc' # "idle") =>
       \A q \in Runs, r \in Runs : page'[q] >= page'[r] => ~ Overtakes(r, q)']_queueVars

\* "Dagster launches runs with higher priority first. If multiple runs have the same priority,
\* Dagster will launch the runs in the order they're submitted to the queue."
PriorityFirst ==
  [][(pc = "page" /\ pc' = "dequeue") => \A q \in Runs, r \in Runs : ~ Overtakes(r, q)']_queueVars

\* Every queued run leaves the queue, whatever its limits, its priority, and the failures of its
\* code server: nothing that is skipped is forgotten.
QueueDrains == \A r \in Runs : (status[r] = "QUEUED") ~> (status[r] # "QUEUED")

=============================================================================
