-------------------------- MODULE ConcurrencyPools --------------------------
(***************************************************************************)
(* Op-concurrency pools: the three tables of the event-log database that   *)
(* make a pool a distributed semaphore (concurrency_limits,                *)
(* concurrency_slots, pending_steps), and everybody who drives them:       *)
(*   - the executor of each run, through InstanceConcurrencyContext;       *)
(*   - the monitoring daemon that frees what finished runs still hold;     *)
(*   - the operator who sets and deletes limits and frees slots by hand.   *)
(* There is one action per SQL statement.  A "block" is the body of one    *)
(* `with self.index_connection()`: TransactionalBlocks names the blocks    *)
(* that the storage runs as one transaction.  index_transaction blocks are *)
(* a transaction in every back-end.                                        *)
(***************************************************************************)
EXTENDS Naturals, FiniteSets

CONSTANTS
  Runs,           \* the runs, each with one executor
  Steps,          \* the steps of all the runs that name a pool
  RunOf,          \* RunOf[s]: the run of step s
  Pools,          \* the concurrency keys
  PoolOf,         \* PoolOf[s]: the pool of step s
  Priority,       \* Priority[s]: run priority plus step priority
  SlotIds,        \* ids for rows of the slots table (bounds the rows alive)
  Limits,         \* the limits the operator may set
  DefaultLimits,  \* the pool default limits a process may be configured with
  Daemon,         \* the monitoring daemon
  Operator,       \* the person behind the UI and the CLI
  None,           \* SQL NULL, Python None
  TransactionalBlocks, \* the blocks that are atomic in this storage
  CrashingActors, \* the actors whose process may die
  OperatorFrees,  \* TRUE: the operator may free slots by hand
  OutlivedRuns    \* runs that may be marked finished with their worker alive

LimitRow == [limit : Nat, from_default : BOOLEAN]
SlotRow  == [pool : Pools, owner : Steps \cup {None}, deleted : BOOLEAN]
Blocks   == {"count", "check", "claim", "free", "remove", "assign"}
Actors   == Runs \cup {Daemon, Operator}

ASSUME PoolsAssumption ==
  /\ IsFiniteSet(Steps) /\ IsFiniteSet(SlotIds)
  /\ RunOf \in [Steps -> Runs]
  /\ PoolOf \in [Steps -> Pools]
  /\ Priority \in [Steps -> Nat]
  /\ Limits \subseteq Nat
  /\ DefaultLimits \subseteq Nat \cup {None}
  /\ Daemon # Operator /\ Daemon \notin Runs /\ Operator \notin Runs
  /\ None \notin Steps \cup Actors \cup LimitRow \cup SlotRow \cup Nat
  /\ None \notin [Pools -> LimitRow \cup {None}]
  /\ TransactionalBlocks \subseteq Blocks
  /\ CrashingActors \subseteq Actors
  /\ OperatorFrees \in BOOLEAN
  /\ OutlivedRuns \subseteq Runs

VARIABLES
  \* the database
  limits,         \* concurrency_limits: a row or None for each pool
  slots,          \* concurrency_slots: a row or None for each id
  pending,        \* the steps with a row in pending_steps
  assigned,       \* those whose assigned_timestamp is set
  older,          \* older[s]: rows of pending_steps created before the one of s
  lock,           \* the actor inside a transactional block, or None
  \* each actor's place in the storage code, and its local variables
  pc,
  target,         \* the step being claimed, or the steps being freed
  count,          \* pending_count in has_unassigned_slots
  rows,           \* slot ids fetched by a SELECT and not used yet
  picked,         \* pending rows fetched by a SELECT and not used yet
  toAssign,       \* keys_to_assign, counted by pool
  \* InstanceConcurrencyContext and ActiveExecution of each run
  config,         \* the default pool limit the process was started with
  pools,          \* the cached _pools
  pendingClaims,  \* _pending_claims
  claims,         \* _claims
  inFlight,       \* ActiveExecution._in_flight
  done,           \* steps the executor knows to be over
  exiting,        \* runs whose executor is leaving the context
  \* the world outside
  world,          \* what the step's own process has done
  finished,       \* runs whose status is one of FINISHED_STATUSES
  revoked         \* history: steps freed by someone else than their executor

db    == <<limits, slots, pending, assigned, older, lock>>
proc  == <<pc, target, count, rows, picked, toAssign>>
ctx   == <<config, pools, pendingClaims, claims, inFlight, done, exiting>>
outer == <<world, finished, revoked>>
vars  == <<db, proc, ctx, outer>>

-----------------------------------------------------------------------------
(* Helpers *)

StepsOf(r) == {s \in Steps : RunOf[s] = r}
InPool(k)  == {s \in Steps : PoolOf[s] = k}

Rows      == {i \in SlotIds : slots[i] # None}
Live(k)   == {i \in Rows : slots[i].pool = k /\ ~slots[i].deleted}
\* Mutant of Free: the step_key IS NULL filter is dropped.
FreeMutant(k) == Live(k)

Free(k)   == {i \in Live(k) : slots[i].owner = None}
HeldBy(T) == {i \in Rows : slots[i].owner \in T}

WithOwner(row, s) == [row EXCEPT !.owner = s]
Pruned(row)       == [row EXCEPT !.deleted = TRUE]
WithLimit(row, n) == [row EXCEPT !.limit = n]

NoneLeft == [k \in Pools |-> 0]

\* A statement of actor a at label `at`: its connection is not waiting for
\* another actor's transaction.
At(a, at) == pc[a] = at /\ lock \in {None, a}

\* The block goes on after this statement, or ends with it.
Hold(a, block) == lock' = IF block \in TransactionalBlocks THEN a ELSE None
Release        == lock' = None

Goto(a, to) == pc' = [pc EXCEPT ![a] = to]

-----------------------------------------------------------------------------
(* A new database, and every executor just started. *)

Init ==
  /\ limits = [k \in Pools |-> None]
  /\ slots = [i \in SlotIds |-> None]
  /\ pending = {} /\ assigned = {}
  /\ older = [s \in Steps |-> {}]
  /\ lock = None
  /\ pc = [a \in Actors |-> "idle"]
  /\ target = [a \in Actors |-> {}]
  /\ count = [r \in Runs |-> 0]
  /\ rows = [a \in Actors |-> {}]
  /\ picked = [a \in Actors |-> {}]
  /\ toAssign = [a \in Actors |-> NoneLeft]
  /\ config \in [Runs -> DefaultLimits]
  /\ pools = [r \in Runs |-> None]
  /\ pendingClaims = {} /\ claims = {} /\ inFlight = {} /\ done = {}
  /\ exiting = {}
  /\ world = [s \in Steps |-> "idle"]
  /\ finished = {} /\ revoked = {}

-----------------------------------------------------------------------------
(* The operator: limits and slots by hand *)

\* Row ids are never reused: an id some statement still remembers stays free.
FreshIds == SlotIds \ (Rows \cup UNION {rows[a] : a \in Actors})

\* _allocate_concurrency_slots: prune live rows, the unclaimed ones first, and
\* sweep every pruned row nobody holds; or insert the missing rows.
Prune(k, n) ==
  \E out \in SUBSET Live(k) :
    /\ Cardinality(Live(k)) = n + Cardinality(out)
    /\ out \subseteq Free(k) \/ Free(k) \subseteq out
    /\ slots' = [i \in SlotIds |->
         IF i \in Rows /\ (i \in out \/ slots[i].deleted) /\ slots[i].owner = None THEN None
         ELSE IF i \in out THEN Pruned(slots[i]) ELSE slots[i]]

\* Mutant of Extend: pruned rows are counted as existing slots.
ExtendMutant(k, n) ==
  \E new \in SUBSET FreshIds :
    /\ n <= Cardinality({i \in Rows : slots[i].pool = k}) + Cardinality(new)
    /\ Cardinality(new) <= n
    /\ slots' = [i \in SlotIds |->
         IF i \in new THEN [pool |-> k, owner |-> None, deleted |-> FALSE]
         ELSE slots[i]]

Extend(k, n) ==
  \E new \in SUBSET FreshIds :
    /\ n = Cardinality(Live(k)) + Cardinality(new)
    /\ slots' = [i \in SlotIds |->
         IF i \in new THEN [pool |-> k, owner |-> None, deleted |-> FALSE]
         ELSE slots[i]]

AllocateSlots(k, n) ==
  IF Cardinality(Live(k)) > n THEN Prune(k, n) ELSE Extend(k, n)

AddedSlots(k, n) ==
  IF Cardinality(Live(k)) > n THEN 0 ELSE n - Cardinality(Live(k))

\* set_concurrency_slots: one transaction, then assign_pending_steps for the
\* slots it added.
SetLimit(k, n) ==
  /\ At(Operator, "idle") /\ lock = None
  /\ limits' = [limits EXCEPT ![k] = [limit |-> n, from_default |-> FALSE]]
  /\ AllocateSlots(k, n)
  /\ toAssign' = [toAssign EXCEPT ![Operator][k] = AddedSlots(k, n)]
  /\ Goto(Operator, IF AddedSlots(k, n) = 0 THEN "idle" ELSE "assign")
  /\ UNCHANGED <<pending, assigned, older, lock, target, count, rows, picked, ctx, outer>>

\* delete_concurrency_limit
DeleteLimit(k) ==
  /\ At(Operator, "idle") /\ lock = None
  /\ limits[k] # None
  /\ limits' = [limits EXCEPT ![k] = None]
  /\ AllocateSlots(k, 0)
  /\ UNCHANGED <<pending, assigned, older, lock, proc, ctx, outer>>

-----------------------------------------------------------------------------
(* The executor: InstanceConcurrencyContext.claim *)

\* The local part of the outcome of a claim.
ClaimBlocked(r) ==
  /\ Goto(r, "idle") /\ target' = [target EXCEPT ![r] = {}]
  /\ UNCHANGED <<pendingClaims, claims, inFlight, revoked>>

ClaimGranted(r, s) ==
  /\ Goto(r, "idle") /\ target' = [target EXCEPT ![r] = {}]
  /\ pendingClaims' = pendingClaims \ {s}
  /\ claims' = claims \cup {s}
  /\ inFlight' = inFlight \cup {s}
  /\ revoked' = revoked \ {s}

WantsDefault(r, info) ==
  \/ info = None /\ config[r] # None
  \/ info # None /\ info.from_default /\ info.limit # config[r]

\* get_steps_to_execute asks for an executable step.  A first claim uses the
\* cached pools if there are any; a repeated one (its timeout has passed)
\* refreshes them.
Claim(s) ==
  LET r == RunOf[s]
      cached == s \notin pendingClaims /\ pools[r] # None
      known == IF cached THEN pools[r] ELSE limits
      info == known[PoolOf[s]]
  IN
  /\ pc[r] = "idle" /\ r \notin exiting
  /\ s \notin inFlight \cup done
  /\ cached \/ lock = None
  /\ pools' = [pools EXCEPT ![r] = known]
  /\ target' = [target EXCEPT ![r] = {s}]
  /\ pendingClaims' = pendingClaims \cup {s}
  /\ Goto(r, IF WantsDefault(r, info) THEN "init_default"
             ELSE IF info = None THEN "unlimited" ELSE "has_pending")
  /\ UNCHANGED <<db, count, rows, picked, toAssign, config, claims, inFlight, done, exiting, outer>>

\* initialize_concurrency_limit_to_default: one transaction.  The insert fails
\* on an existing row, and the update then leaves using_default_limit alone.
InitDefault(r) ==
  /\ At(r, "init_default") /\ lock = None
  /\ \E s \in target[r] : LET k == PoolOf[s] IN
       IF config[r] = None
       THEN /\ limits' = [limits EXCEPT ![k] = None]
            /\ AllocateSlots(k, 0)
       ELSE /\ limits' = [limits EXCEPT ![k] =
                 IF @ = None THEN [limit |-> config[r], from_default |-> TRUE]
                 ELSE WithLimit(@, config[r])]
            /\ AllocateSlots(k, config[r])
  /\ Goto(r, "resync")
  /\ UNCHANGED <<pending, assigned, older, lock, target, count, rows, picked, toAssign, ctx, outer>>

Resync(r) ==
  /\ At(r, "resync") /\ lock = None
  /\ pools' = [pools EXCEPT ![r] = limits]
  /\ \E s \in target[r] :
       Goto(r, IF limits[PoolOf[s]] = None THEN "unlimited" ELSE "has_pending")
  /\ UNCHANGED <<db, target, count, rows, picked, toAssign, config, pendingClaims, claims,
                 inFlight, done, exiting, outer>>

\* No limit for this pool: claim returns True and _claims is not touched.
Unlimited(r) ==
  /\ pc[r] = "unlimited"
  /\ pendingClaims' = pendingClaims \ target[r]
  /\ inFlight' = inFlight \cup target[r]
  /\ Goto(r, "idle") /\ target' = [target EXCEPT ![r] = {}]
  /\ UNCHANGED <<db, count, rows, picked, toAssign, config, pools, claims, done, exiting, outer>>

-----------------------------------------------------------------------------
(* claim_concurrency_slot *)

HasPendingStep(r) ==
  /\ At(r, "has_pending")
  /\ Goto(r, IF target[r] \subseteq pending THEN "check_pending" ELSE "count_assigned")
  /\ UNCHANGED <<db, target, count, rows, picked, toAssign, ctx, outer>>

\* has_unassigned_slots: two counts, and the answer used in the next block.
CountAssigned(r) ==
  /\ At(r, "count_assigned")
  /\ \E s \in target[r] :
       count' = [count EXCEPT ![r] = Cardinality(assigned \cap InPool(PoolOf[s]))]
  /\ Goto(r, "count_slots")
  /\ Hold(r, "count")
  /\ UNCHANGED <<limits, slots, pending, assigned, older, target, rows, picked, toAssign, ctx, outer>>

CountSlots(r) ==
  /\ At(r, "count_slots")
  /\ \E s \in target[r] :
       Goto(r, IF Cardinality(Live(PoolOf[s])) > count[r] THEN "add_assigned" ELSE "add_queued")
  /\ count' = [count EXCEPT ![r] = 0]
  /\ Release
  /\ UNCHANGED <<limits, slots, pending, assigned, older, target, rows, picked, toAssign, ctx, outer>>

\* add_pending_step: a row that exists (IntegrityError) is left as it is.
AddPendingStep(r) ==
  /\ At(r, "add_assigned") \/ At(r, "add_queued")
  /\ \E s \in target[r] :
       IF s \in pending THEN UNCHANGED <<pending, assigned, older>>
       ELSE /\ pending' = pending \cup {s}
            /\ assigned' = IF pc[r] = "add_assigned" THEN assigned \cup {s} ELSE assigned
            /\ older' = [older EXCEPT ![s] = pending]
  /\ Goto(r, "check_pending")
  /\ UNCHANGED <<limits, slots, lock, target, count, rows, picked, toAssign, ctx, outer>>

\* check_concurrency_claim: not registered or not assigned is blocked.
CheckPending(r) ==
  /\ At(r, "check_pending")
  /\ IF target[r] \subseteq assigned
     THEN /\ Goto(r, "check_slot") /\ Hold(r, "check")
          /\ UNCHANGED <<target, pendingClaims, claims, inFlight, revoked>>
     ELSE ClaimBlocked(r) /\ Release
  /\ UNCHANGED <<limits, slots, pending, assigned, older, count, rows, picked, toAssign,
                 config, pools, done, exiting, world, finished>>

\* ... and a slot row of the step, a pruned one too, means it is claimed.
CheckSlot(r) ==
  /\ At(r, "check_slot")
  /\ Release
  /\ \E s \in target[r] :
       IF \E i \in HeldBy({s}) : slots[i].pool = PoolOf[s]
       THEN ClaimGranted(r, s)
       ELSE /\ Goto(r, "select_slot")
            /\ UNCHANGED <<target, pendingClaims, claims, inFlight, revoked>>
  /\ UNCHANGED <<limits, slots, pending, assigned, older, count, rows, picked, toAssign,
                 config, pools, done, exiting, world, finished>>

\* _claim_concurrency_slot: SELECT ... FOR UPDATE SKIP LOCKED LIMIT 1
SelectSlot(r) ==
  /\ At(r, "select_slot")
  /\ \E s \in target[r] :
       IF Free(PoolOf[s]) = {}
       THEN ClaimBlocked(r) /\ Release /\ UNCHANGED rows
       ELSE /\ \E i \in Free(PoolOf[s]) : rows' = [rows EXCEPT ![r] = {i}]
            /\ Goto(r, "take_slot") /\ Hold(r, "claim")
            /\ UNCHANGED <<target, pendingClaims, claims, inFlight, revoked>>
  /\ UNCHANGED <<limits, slots, pending, assigned, older, count, picked, toAssign,
                 config, pools, done, exiting, world, finished>>

\* Mutant of Updated: WHERE names the pool and not the id.
UpdatedMutant(r) == {i \in Rows : \E j \in rows[r] \cap Rows : slots[i].pool = slots[j].pool}

\* ... and UPDATE ... WHERE id = that id: blocked only if the row is gone.
Updated(r) == rows[r] \cap Rows

TakeSlot(r) ==
  /\ At(r, "take_slot")
  /\ Release
  /\ rows' = [rows EXCEPT ![r] = {}]
  /\ \E s \in target[r] :
       IF Updated(r) = {} THEN ClaimBlocked(r) /\ UNCHANGED slots
       ELSE /\ slots' = [i \in SlotIds |->
                 IF i \in Updated(r) THEN WithOwner(slots[i], s) ELSE slots[i]]
            /\ ClaimGranted(r, s)
  /\ UNCHANGED <<limits, pending, assigned, older, count, picked, toAssign,
                 config, pools, done, exiting, world, finished>>

-----------------------------------------------------------------------------
(* free_concurrency_slot_for_step, free_concurrency_slots_for_run, by any     *)
(* actor: free the slots, remove the pending rows, assign to the next steps   *)

\* The call returns.  An executor then forgets the claim (free_step, __exit__).
EndFree(a) ==
  /\ Goto(a, "idle") /\ target' = [target EXCEPT ![a] = {}]
  /\ claims' = IF a \in Runs THEN claims \ target[a] ELSE claims
  /\ pendingClaims' = IF a \in Runs THEN pendingClaims \ target[a] ELSE pendingClaims

InFree(a, to) == Goto(a, to) /\ UNCHANGED <<target, claims, pendingClaims>>

\* History: the daemon or the operator takes the slots of running steps away.
Revoke(a) == revoked' = IF a \in Runs THEN revoked ELSE revoked \cup target[a]

\* Mutant of DeletePruned: the rows pruned meanwhile are forgotten.
DeletePrunedMutant(a) ==
  /\ At(a, "delete_pruned")
  /\ Revoke(a)
  /\ Goto(a, "select_held") /\ Hold(a, "free")
  /\ UNCHANGED <<limits, slots, pending, assigned, older, target, count, rows, picked, toAssign,
                 ctx, world, finished>>

\* _free_concurrency_slots: rows pruned while they were held go away ...
DeletePruned(a) ==
  /\ At(a, "delete_pruned")
  /\ slots' = [i \in SlotIds |->
       IF i \in HeldBy(target[a]) /\ slots[i].deleted THEN None ELSE slots[i]]
  /\ Revoke(a)
  /\ Goto(a, "select_held") /\ Hold(a, "free")
  /\ UNCHANGED <<limits, pending, assigned, older, target, count, rows, picked, toAssign, ctx,
                 world, finished>>

\* Mutant of SelectHeld: the step_key filter is dropped, the run's slots match.
SelectHeldMutant(a) ==
  LET held == HeldBy({s \in Steps : \E t \in target[a] : RunOf[s] = RunOf[t]}) IN
  /\ At(a, "select_held")
  /\ rows' = [rows EXCEPT ![a] = held]
  /\ IF held = {} THEN Goto(a, "select_pending") /\ Release
                  ELSE Goto(a, "free_slots") /\ Hold(a, "free")
  /\ UNCHANGED <<limits, slots, pending, assigned, older, target, count, picked, toAssign, ctx, outer>>

SelectHeld(a) ==
  /\ At(a, "select_held")
  /\ rows' = [rows EXCEPT ![a] = HeldBy(target[a])]
  /\ IF HeldBy(target[a]) = {} THEN Goto(a, "select_pending") /\ Release
                               ELSE Goto(a, "free_slots") /\ Hold(a, "free")
  /\ UNCHANGED <<limits, slots, pending, assigned, older, target, count, picked, toAssign, ctx, outer>>

\* ... and the others lose their owner, whoever that is by now.
FreeSlots(a) ==
  /\ At(a, "free_slots")
  /\ slots' = [i \in SlotIds |->
       IF i \in rows[a] \cap Rows THEN WithOwner(slots[i], None) ELSE slots[i]]
  /\ rows' = [rows EXCEPT ![a] = {}]
  /\ Revoke(a)
  /\ Goto(a, "select_pending") /\ Release
  /\ UNCHANGED <<limits, pending, assigned, older, target, count, picked, toAssign, ctx,
                 world, finished>>

\* _remove_pending_steps: the keys to assign are those of the rows that were
\* assigned when they were selected.
SelectPending(a) ==
  LET found == pending \cap target[a] IN
  /\ At(a, "select_pending")
  /\ IF found = {}
     THEN EndFree(a) /\ Release /\ UNCHANGED <<picked, toAssign>>
     ELSE /\ picked' = [picked EXCEPT ![a] = found]
          /\ toAssign' = [toAssign EXCEPT ![a] =
                [k \in Pools |-> Cardinality(found \cap assigned \cap InPool(k))]]
          /\ InFree(a, "delete_pending") /\ Hold(a, "remove")
  /\ UNCHANGED <<limits, slots, pending, assigned, older, count, rows,
                 config, pools, inFlight, done, exiting, outer>>

\* Ids of rows that are gone match nothing later, in any actor.
DeletePending(a) ==
  /\ At(a, "delete_pending")
  /\ pending' = pending \ picked[a]
  /\ assigned' = assigned \ picked[a]
  /\ older' = [s \in Steps |-> IF s \in picked[a] THEN {} ELSE older[s] \ picked[a]]
  /\ picked' = [b \in Actors |-> picked[b] \ picked[a]]
  /\ Release
  /\ IF toAssign[a] = NoneLeft THEN EndFree(a) ELSE InFree(a, "assign")
  /\ UNCHANGED <<limits, slots, count, rows, toAssign, config, pools, inFlight, done, exiting, outer>>

Queued(k) == (pending \ assigned) \cap InPool(k)

\* ORDER BY priority DESC, create_timestamp ASC LIMIT 1
NextInQueue(k) ==
  {s \in Queued(k) : \A t \in Queued(k) :
     Priority[t] < Priority[s] \/ (Priority[t] = Priority[s] /\ t \notin older[s])}

\* assign_pending_steps: for each key, find the next pending step ...
SelectQueued(a) ==
  /\ At(a, "assign")
  /\ \E k \in {j \in Pools : toAssign[a][j] > 0} :
       /\ toAssign' = [toAssign EXCEPT ![a][k] = @ - 1]
       /\ IF Queued(k) = {}
          THEN /\ UNCHANGED picked
               /\ IF toAssign'[a] = NoneLeft THEN EndFree(a) /\ Release
                                             ELSE InFree(a, "assign") /\ Hold(a, "assign")
          ELSE /\ \E s \in NextInQueue(k) : picked' = [picked EXCEPT ![a] = {s}]
               /\ InFree(a, "set_assigned") /\ Hold(a, "assign")
  /\ UNCHANGED <<limits, slots, pending, assigned, older, count, rows,
                 config, pools, inFlight, done, exiting, outer>>

\* ... and set its assigned_timestamp, if the row is still there.
SetAssigned(a) ==
  /\ At(a, "set_assigned")
  /\ assigned' = assigned \cup picked[a]
  /\ picked' = [picked EXCEPT ![a] = {}]
  /\ IF toAssign[a] = NoneLeft THEN EndFree(a) /\ Release
                               ELSE InFree(a, "assign") /\ Hold(a, "assign")
  /\ UNCHANGED <<limits, slots, pending, older, count, rows, toAssign,
                 config, pools, inFlight, done, exiting, outer>>

\* Mutant of BeginFree: the pending rows go and the slots stay.
BeginFreeMutant(a, T) ==
  /\ pc[a] = "idle"
  /\ target' = [target EXCEPT ![a] = T]
  /\ Goto(a, "select_pending")

\* The call: nothing is read or written yet.
BeginFree(a, T) ==
  /\ pc[a] = "idle"
  /\ target' = [target EXCEPT ![a] = T]
  /\ Goto(a, "delete_pruned")

-----------------------------------------------------------------------------
(* The executor around the claims: ActiveExecution and the step processes *)

\* The executor launches a step that is in flight.
Launch(s) ==
  /\ s \in inFlight /\ world[s] = "idle"
  /\ pc[RunOf[s]] = "idle" /\ RunOf[s] \notin exiting
  /\ world' = [world EXCEPT ![s] = "running"]
  /\ UNCHANGED <<db, proc, ctx, finished, revoked>>

\* The step's process ends: for good, or with a request to retry.
StepEnds(s) ==
  /\ world[s] = "running"
  /\ \E how \in {"ended", "retry"} : world' = [world EXCEPT ![s] = how]
  /\ UNCHANGED <<db, proc, ctx, finished, revoked>>

\* Mutant of HandleEvent: free_step is forgotten.
HandleEventMutant(s) ==
  LET r == RunOf[s] IN
  /\ pc[r] = "idle" /\ r \notin exiting
  /\ s \in inFlight /\ world[s] \in {"ended", "retry"}
  /\ inFlight' = inFlight \ {s}
  /\ done' = IF world[s] = "ended" THEN done \cup {s} ELSE done
  /\ world' = [world EXCEPT ![s] = IF @ = "retry" THEN "idle" ELSE @]
  /\ UNCHANGED <<db, proc, config, pools, pendingClaims, claims, exiting, finished, revoked>>

\* handle_event, for a success, a failure or an up-for-retry: free_step.
HandleEvent(s) ==
  LET r == RunOf[s] IN
  /\ r \notin exiting
  /\ s \in inFlight /\ world[s] \in {"ended", "retry"}
  /\ inFlight' = inFlight \ {s}
  /\ done' = IF world[s] = "ended" THEN done \cup {s} ELSE done
  /\ world' = [world EXCEPT ![s] = IF @ = "retry" THEN "idle" ELSE @]
  /\ IF s \in claims THEN BeginFree(r, {s})
                     ELSE pc[r] = "idle" /\ UNCHANGED <<pc, target>>
  /\ UNCHANGED <<db, count, rows, picked, toAssign, config, pools, pendingClaims, claims,
                 exiting, finished, revoked>>

\* verify_complete: the step's process ended without a terminal event.  The
\* step is abandoned and its slot is not freed.
MarkUnknownState(s) ==
  LET r == RunOf[s] IN
  /\ pc[r] = "idle" /\ r \notin exiting
  /\ s \in inFlight /\ world[s] = "running"
  /\ world' = [world EXCEPT ![s] = "ended"]
  /\ inFlight' = inFlight \ {s} /\ done' = done \cup {s}
  /\ UNCHANGED <<db, proc, config, pools, pendingClaims, claims, exiting, finished, revoked>>

\* The plan is complete, or an exception or an interrupt unwinds the executor.
LeaveContext(r) ==
  /\ pc[r] = "idle" /\ r \notin exiting
  /\ exiting' = exiting \cup {r}
  /\ UNCHANGED <<db, proc, config, pools, pendingClaims, claims, inFlight, done, outer>>

\* __exit__: free_concurrency_slot_for_step for each pending claim.
ExitFree(r) ==
  /\ r \in exiting
  /\ \E s \in pendingClaims \cap StepsOf(r) : BeginFree(r, {s})
  /\ UNCHANGED <<db, count, rows, picked, toAssign, ctx, outer>>

ExitDone(r) ==
  /\ pc[r] = "idle" /\ r \in exiting
  /\ pendingClaims \cap StepsOf(r) = {}
  /\ Goto(r, "exited")
  /\ UNCHANGED <<db, target, count, rows, picked, toAssign, ctx, outer>>

\* The process of an actor dies.  A transaction it is in is rolled back, which
\* is as if it had died before it.
Crash(a) ==
  /\ a \in CrashingActors /\ lock # a
  /\ pc[a] \notin {"exited", "crashed"}
  /\ a \notin Runs => pc[a] # "idle"
  /\ Goto(a, IF a \in Runs THEN "crashed" ELSE "idle")
  /\ target' = [target EXCEPT ![a] = {}]
  /\ count' = IF a \in Runs THEN [count EXCEPT ![a] = 0] ELSE count
  /\ rows' = [rows EXCEPT ![a] = {}]
  /\ picked' = [picked EXCEPT ![a] = {}]
  /\ toAssign' = [toAssign EXCEPT ![a] = NoneLeft]
  /\ pools' = IF a \in Runs THEN [pools EXCEPT ![a] = None] ELSE pools
  /\ LET lost == IF a \in Runs THEN StepsOf(a) ELSE {} IN
       /\ pendingClaims' = pendingClaims \ lost
       /\ claims' = claims \ lost
       /\ inFlight' = inFlight \ lost
       /\ done' = done \ lost
  /\ exiting' = exiting \ {a}
  /\ UNCHANGED <<db, config, outer>>

\* resume_run: a new worker.  It claims every step of the plan again while it
\* replays the run's events (rebuild_from_events).
Resume(r) ==
  /\ pc[r] = "crashed" /\ r \notin finished
  /\ Goto(r, "idle")
  /\ \E d \in DefaultLimits : config' = [config EXCEPT ![r] = d]
  /\ UNCHANGED <<db, target, count, rows, picked, toAssign, pools, pendingClaims, claims,
                 inFlight, done, exiting, outer>>

\* The replay meets the completion of a step whose claim was refused: the
\* invariant in _mark_complete fails and the executor unwinds.
ReplayFails(s) ==
  LET r == RunOf[s] IN
  /\ pc[r] = "idle" /\ r \notin exiting
  /\ s \in pendingClaims /\ world[s] \in {"ended", "retry"}
  /\ exiting' = exiting \cup {r}
  /\ UNCHANGED <<db, proc, config, pools, pendingClaims, claims, inFlight, done, outer>>

\* The run's status becomes one of FINISHED_STATUSES.
EndRun(r) ==
  /\ r \notin finished
  /\ pc[r] \in {"exited", "crashed"} \/ r \in OutlivedRuns
  /\ finished' = finished \cup {r}
  /\ UNCHANGED <<db, proc, ctx, world, revoked>>

-----------------------------------------------------------------------------
(* Those who free a run's slots from outside *)

\* execute_concurrency_slots_iteration: runs are found by their pending rows.
DaemonFree(r) ==
  /\ r \in finished /\ lock \in {None, Daemon}
  /\ pending \cap StepsOf(r) # {}
  /\ BeginFree(Daemon, StepsOf(r))
  /\ UNCHANGED <<db, count, rows, picked, toAssign, ctx, outer>>

\* freeConcurrencySlots of the UI, for a run or for one step.
OperatorFree(r) ==
  /\ OperatorFrees
  /\ \E T \in {StepsOf(r)} \cup {{s} : s \in StepsOf(r)} : BeginFree(Operator, T)
  /\ UNCHANGED <<db, count, rows, picked, toAssign, ctx, outer>>

-----------------------------------------------------------------------------
FreeStep(a) ==
  \/ DeletePruned(a) \/ SelectHeld(a) \/ FreeSlots(a)
  \/ SelectPending(a) \/ DeletePending(a)
  \/ SelectQueued(a) \/ SetAssigned(a)

ClaimStep(r) ==
  \/ InitDefault(r) \/ Resync(r) \/ Unlimited(r)
  \/ HasPendingStep(r) \/ CountAssigned(r) \/ CountSlots(r) \/ AddPendingStep(r)
  \/ CheckPending(r) \/ CheckSlot(r) \/ SelectSlot(r) \/ TakeSlot(r)

OperatorStep ==
  \/ \E k \in Pools : (\E n \in Limits : SetLimit(k, n)) \/ DeleteLimit(k)
  \/ \E r \in Runs : OperatorFree(r)

RunStep(r) ==
  \/ ClaimStep(r) \/ LeaveContext(r) \/ ExitFree(r) \/ ExitDone(r)
  \/ Resume(r) \/ EndRun(r)

StepStep(s) ==
  \/ Claim(s) \/ Launch(s) \/ StepEnds(s) \/ HandleEvent(s)
  \/ MarkUnknownState(s) \/ ReplayFails(s)

SystemNext ==
  \/ \E a \in Actors : FreeStep(a) \/ Crash(a)
  \/ \E r \in Runs : DaemonFree(r) \/ RunStep(r)
  \/ \E s \in Steps : StepStep(s)

Next == SystemNext \/ OperatorStep

Spec == Init /\ [][Next]_vars

\* The operator leaves limits and slots alone.
UntouchedSpec == Init /\ [][SystemNext]_vars

\* What an executor, or a step's process, does next with a step, and what a
\* worker does next; at most one of each is possible at a time.
StepGoesOn(s) == Claim(s) \/ Launch(s) \/ StepEnds(s) \/ HandleEvent(s)

WorkerGoesOn(r) ==
  \/ ClaimStep(r) \/ FreeStep(r) \/ ExitFree(r) \/ ExitDone(r)
  \/ StepsOf(r) \subseteq done /\ LeaveContext(r)
  \/ pc[r] \in {"exited", "crashed"} /\ EndRun(r)

\* A process that is alive goes on; a connection that waits for another
\* actor's transaction gets its turn; the executor's loop offers every
\* executable step again and again (get_steps_to_execute) and leaves when the
\* plan is complete; step processes end; the end of a worker is noticed; the
\* daemon iterates for ever.  Nobody has to crash, to be interrupted or to be
\* resumed.
Fairness ==
  /\ \A s \in Steps : SF_vars(StepGoesOn(s))
  /\ \A r \in Runs : SF_vars(WorkerGoesOn(r)) /\ SF_vars(DaemonFree(r))
  /\ SF_vars(FreeStep(Daemon))

\* Monitoring resumes a run a limited number of times, and a daemon that is
\* started again does not die in every iteration.
CrashesEnd == <>[][~\E a \in CrashingActors : Crash(a)]_vars

FairSpec == UntouchedSpec /\ Fairness /\ CrashesEnd

-----------------------------------------------------------------------------
(* Properties *)

Labels == {"idle", "init_default", "resync", "unlimited", "has_pending",
           "count_assigned", "count_slots", "add_assigned", "add_queued",
           "check_pending", "check_slot", "select_slot", "take_slot",
           "delete_pruned", "select_held", "free_slots", "select_pending",
           "delete_pending", "assign", "set_assigned", "exited", "crashed"}

\* Every variable has its type.
TypeOK ==
  /\ limits \in [Pools -> LimitRow \cup {None}]
  /\ slots \in [SlotIds -> SlotRow \cup {None}]
  /\ pending \subseteq Steps
  /\ assigned \subseteq Steps
  /\ older \in [Steps -> SUBSET Steps]
  /\ lock \in Actors \cup {None}
  /\ pc \in [Actors -> Labels]
  /\ target \in [Actors -> SUBSET Steps]
  /\ count \in [Runs -> Nat]
  /\ rows \in [Actors -> SUBSET SlotIds]
  /\ picked \in [Actors -> SUBSET Steps]
  /\ toAssign \in [Actors -> [Pools -> Nat]]
  /\ config \in [Runs -> DefaultLimits]
  /\ pools \in [Runs -> [Pools -> LimitRow \cup {None}] \cup {None}]
  /\ pendingClaims \subseteq Steps
  /\ claims \subseteq Steps
  /\ inFlight \subseteq Steps
  /\ done \subseteq Steps
  /\ exiting \subseteq Runs
  /\ world \in [Steps -> {"idle", "running", "ended", "retry"}]
  /\ finished \subseteq Runs
  /\ revoked \subseteq Steps

\* A pool has as many live slot rows as its row of the limits table says, and
\* none without such a row (the two tables are updated in one transaction).
SlotsMatchLimit ==
  \A k \in Pools :
    Cardinality(Live(k)) = IF limits[k] = None THEN 0 ELSE limits[k].limit

\* The slot rows are a semaphore: a step the executor believes to be claimed
\* owns a row of its pool, until its own executor frees it or somebody else
\* takes it away (sql_event_log.py:2735).
ClaimsAreBacked ==
  \A s \in claims \ revoked :
    \/ \E i \in HeldBy({s}) : slots[i].pool = PoolOf[s]
    \/ s \in target[RunOf[s]]

\* No step owns two rows.
OneSlotPerStep ==
  \A i, j \in Rows : slots[i].owner # None /\ slots[i].owner = slots[j].owner => i = j

\* A pruned row goes away with its holder: no row is deleted and unclaimed.
PrunedRowsAreHeld ==
  \A i \in Rows : slots[i].deleted => slots[i].owner # None

\* A claimed slot has an assigned pending row, by which the daemon will find
\* the run, unless somebody is between freeing the one and removing the other.
HeldSlotsAreRegistered ==
  \A i \in Rows : slots[i].owner # None => slots[i].owner \in assigned

ClaimLabels == {"init_default", "resync", "unlimited", "has_pending",
                "count_assigned", "count_slots", "add_assigned", "add_queued",
                "check_pending", "check_slot", "select_slot", "take_slot"}

\* Where a call is: nobody who is not in one has a target; a claiming executor
\* has one step of its own that it does not hold, a freeing one steps of its own.
TargetsOK ==
  /\ \A a \in Actors : pc[a] \in {"idle", "exited", "crashed"} => target[a] = {}
  /\ \A r \in Runs : target[r] \subseteq StepsOf(r)
  /\ \A r \in Runs : pc[r] \in ClaimLabels =>
       \E s \in Steps : target[r] = {s} /\ s \notin claims

\* A claim belongs to a step in flight, or done, or being freed.
ClaimsInUse ==
  \A s \in claims : s \in inFlight \/ s \in done \/ s \in target[RunOf[s]]

\* A row belongs to the pool of its owner, and a step that goes for a row has none
\* yet and remembers one row of its own pool, if that is still there.
OwnersOK ==
  /\ \A i \in Rows : slots[i].owner # None => slots[i].pool = PoolOf[slots[i].owner]
  /\ \A r \in Runs : pc[r] \in {"select_slot", "take_slot"} => HeldBy(target[r]) = {}
  /\ \A r \in Runs : pc[r] = "take_slot" =>
       \E i \in SlotIds : /\ rows[r] = {i}
                          /\ i \in Rows => \A s \in target[r] : slots[i].pool = PoolOf[s]

\* The inductive invariant behind OneSlotPerStep, in every storage.
SlotInv == TypeOK /\ TargetsOK /\ ClaimsInUse /\ OwnersOK /\ OneSlotPerStep

\* Between the SELECT and the UPDATE of _claim_concurrency_slot the transaction
\* keeps the row as it was selected; the same in _free_concurrency_slots.
SelectedRowsLocked ==
  /\ \A r \in Runs : pc[r] = "take_slot" =>
       lock = r /\ \A i \in rows[r] : i \in Rows /\ slots[i].owner = None
  /\ \A a \in Actors :
       /\ pc[a] \in {"select_held", "free_slots"} => lock = a
       /\ pc[a] = "free_slots" => rows[a] = HeldBy(target[a])

\* The inductive invariant behind ClaimsAreBacked, for storages that run the
\* claim and free blocks as transactions.
SemaphoreInv == SlotInv /\ SelectedRowsLocked /\ ClaimsAreBacked

\* With its limit left alone, a pool never has more claims of steps in flight
\* than its limit (steps whose slot was taken from them apart):
\* "for a pool foo with a limit 1, we enforce that only one op is executing at
\* a given time across all runs" (concurrency-pools.md:59).
ClaimsWithinLimit ==
  \A k \in Pools : limits[k] # None =>
    Cardinality((claims \cap inFlight \cap InPool(k)) \ revoked) <= limits[k].limit

\* The same sentence when the limit has been lowered: no new step starts
\* before the rows still held, pruned ones included, fit the limit again.
AdmissionWithinLimit ==
  [][\A s \in claims' \ claims :
       limits[PoolOf[s]] # None =>
         Cardinality({i \in Rows' : /\ slots'[i].pool = PoolOf[s]
                                    /\ slots'[i].owner # None})
           <= limits[PoolOf[s]].limit]_vars

\* "The default limit for pools that do not have an explicitly set limit"
\* (full-deployment-settings-reference.md:68): the default never replaces a
\* limit that the operator has set.
ExplicitLimitKept ==
  [][\A k \in Pools :
       limits[k] # None /\ ~limits[k].from_default /\ limits'[k] # limits[k]
         => OperatorStep]_vars

\* A free slot and a step waiting for it do not go together once every call in
\* progress has returned: pending steps are assigned when slots appear "or they
\* will be unutilized until free_concurrency_slots is called"
\* (sql_event_log.py:2411).
NoIdleSlotWhileQueued ==
  (\A a \in Actors : pc[a] \in {"idle", "exited", "crashed"}) =>
    \A k \in Pools : Queued(k) = {} \/ Cardinality(assigned \cap InPool(k)) >= Cardinality(Live(k))

\* The daemon "automatically frees any concurrency slots still held by that
\* run" (run-monitoring.md:80): no slot stays with a finished run.
FinishedRunsReleaseSlots ==
  \A r \in Runs : r \in finished /\ HeldBy(StepsOf(r)) # {} ~> HeldBy(StepsOf(r)) = {}

\* A step at the head of the queue gets the slot it was assigned, unless its
\* executor goes away or its row is removed.
AssignedStepsAreServed ==
  \A s \in Steps :
    s \in assigned ~> \/ s \in claims \/ s \notin pending
                      \/ pc[RunOf[s]] \in {"exited", "crashed"} \/ RunOf[s] \in exiting

=============================================================================
