----------------------- MODULE ConcurrencyPoolsProofs -----------------------
(* Theorems about ConcurrencyPools, for every value of its constants. *)
EXTENDS ConcurrencyPools, FiniteSetTheorems, TLAPS

USE DEF Actors

-----------------------------------------------------------------------------
(* Rows and counts *)

\* What the two updates of a slot row change and what they leave.
LEMMA RowUpdates ==
  ASSUME NEW row \in SlotRow, NEW s \in Steps \cup {None}
  PROVE  /\ WithOwner(row, s) \in SlotRow /\ WithOwner(row, s).owner = s
         /\ WithOwner(row, s).pool = row.pool
         /\ Pruned(row) \in SlotRow /\ Pruned(row).owner = row.owner
         /\ Pruned(row).pool = row.pool
BY DEF SlotRow, WithOwner, Pruned

LEMMA NewRow ==
  ASSUME NEW k \in Pools
  PROVE  [pool |-> k, owner |-> None, deleted |-> FALSE] \in SlotRow
BY DEF SlotRow

LEMMA RowsTyped ==
  ASSUME TypeOK, NEW i \in Rows
  PROVE  slots[i] \in SlotRow
BY DEF TypeOK, Rows

LEMMA SlotCount ==
  ASSUME NEW T, T \subseteq SlotIds
  PROVE  Cardinality(T) \in Nat
BY FS_Subset, FS_CardinalityType, PoolsAssumption

LEMMA StepCount ==
  ASSUME NEW T, T \subseteq Steps
  PROVE  Cardinality(T) \in Nat
BY FS_Subset, FS_CardinalityType, PoolsAssumption

\* Allocating changes no row that is held but its deleted flag, adds rows that
\* nobody holds, and keeps the table well typed.
LEMMA Allocation ==
  ASSUME TypeOK, NEW k \in Pools, NEW n \in Nat, AllocateSlots(k, n)
  PROVE  /\ slots' \in [SlotIds -> SlotRow \cup {None}]
         /\ \A i \in Rows : slots[i].owner # None =>
              /\ i \in Rows' /\ slots'[i].owner = slots[i].owner
              /\ slots'[i].pool = slots[i].pool
         /\ \A i \in Rows' : slots'[i].owner # None =>
              i \in Rows /\ slots[i].owner = slots'[i].owner
<1>1. CASE Prune(k, n)
  <2>1. PICK out \in SUBSET Live(k) :
          slots' = [i \in SlotIds |->
            IF i \in Rows /\ (i \in out \/ slots[i].deleted) /\ slots[i].owner = None THEN None
            ELSE IF i \in out THEN Pruned(slots[i]) ELSE slots[i]]
    BY <1>1 DEF Prune
  <2>2. out \subseteq Rows
    BY DEF Live
  <2>3. \A i \in Rows : /\ slots[i] \in SlotRow /\ Pruned(slots[i]) \in SlotRow
                        /\ Pruned(slots[i]).owner = slots[i].owner
                        /\ Pruned(slots[i]).pool = slots[i].pool
    BY RowUpdates, RowsTyped
  <2> QED BY <2>1, <2>2, <2>3, PoolsAssumption DEF TypeOK, Rows
<1>2. CASE Extend(k, n)
  <2>1. PICK new \in SUBSET FreshIds :
          slots' = [i \in SlotIds |->
            IF i \in new THEN [pool |-> k, owner |-> None, deleted |-> FALSE] ELSE slots[i]]
    BY <1>2 DEF Extend
  <2>2. \A i \in new : i \notin Rows
    BY DEF FreshIds
  <2> QED BY <2>1, <2>2, NewRow, PoolsAssumption DEF TypeOK, Rows
<1> QED BY <1>1, <1>2 DEF AllocateSlots

LEMMA AddedType ==
  ASSUME NEW k \in Pools, NEW n \in Nat
  PROVE  AddedSlots(k, n) \in Nat
<1>1. Cardinality(Live(k)) \in Nat
  BY SlotCount DEF Live, Rows
<1> QED BY <1>1 DEF AddedSlots

\* The local outcome of a claim, and of the end of a free call, is well typed.
ContextTyped ==
  /\ pc \in [Actors -> Labels] /\ target \in [Actors -> SUBSET Steps]
  /\ pendingClaims \subseteq Steps /\ claims \subseteq Steps
  /\ inFlight \subseteq Steps /\ revoked \subseteq Steps

LEMMA BlockedType ==
  ASSUME ContextTyped, NEW r \in Runs, ClaimBlocked(r)
  PROVE  ContextTyped'
BY DEF ContextTyped, ClaimBlocked, Goto, Labels

LEMMA GrantedType ==
  ASSUME ContextTyped, NEW r \in Runs, NEW s \in Steps, ClaimGranted(r, s)
  PROVE  ContextTyped'
BY DEF ContextTyped, ClaimGranted, Goto, Labels

LEMMA GoOnType ==
  ASSUME ContextTyped, NEW a \in Actors, NEW to \in Labels, Goto(a, to),
         UNCHANGED <<target, pendingClaims, claims, inFlight, revoked>>
  PROVE  ContextTyped'
BY DEF ContextTyped, Goto

LEMMA FreedType ==
  ASSUME ContextTyped, NEW a \in Actors, EndFree(a) \/ \E to \in Labels : InFree(a, to),
         UNCHANGED <<inFlight, revoked>>
  PROVE  ContextTyped'
BY DEF ContextTyped, EndFree, InFree, Goto, Labels

LEMMA HoldType ==
  ASSUME NEW a \in Actors, NEW block, Hold(a, block) \/ Release
  PROVE  lock' \in Actors \cup {None}
BY DEF Hold, Release

-----------------------------------------------------------------------------
(* Type correctness *)

\* Every variable always has its type.
THEOREM TypeCorrect == Spec => []TypeOK
<1>1. Init => TypeOK
  BY PoolsAssumption DEF Init, TypeOK, Labels, NoneLeft
<1>2. TypeOK /\ [Next]_vars => TypeOK'
  <2> SUFFICES ASSUME TypeOK, [Next]_vars PROVE TypeOK'
    OBVIOUS
  <2> USE DEF TypeOK, Labels
  <2>1. ASSUME NEW k \in Pools, NEW n \in Limits, SetLimit(k, n) PROVE TypeOK'
    <3>1. n \in Nat /\ AddedSlots(k, n) \in Nat /\ slots' \in [SlotIds -> SlotRow \cup {None}]
      BY <2>1, Allocation, AddedType, PoolsAssumption DEF SetLimit
    <3>2. [limit |-> n, from_default |-> FALSE] \in LimitRow
      BY <2>1, <3>1 DEF LimitRow
    <3> QED BY <2>1, <3>1, <3>2 DEF SetLimit, Goto, ctx, outer
  <2>2. ASSUME NEW k \in Pools, DeleteLimit(k) PROVE TypeOK'
    <3>1. slots' \in [SlotIds -> SlotRow \cup {None}]
      BY <2>2, Allocation DEF DeleteLimit
    <3> QED BY <2>2, <3>1 DEF DeleteLimit, proc, ctx, outer
  <2>3. ASSUME NEW r \in Runs, InitDefault(r) PROVE TypeOK'
    <3>1. PICK s \in target[r] : LET k == PoolOf[s] IN
            IF config[r] = None
            THEN limits' = [limits EXCEPT ![k] = None] /\ AllocateSlots(k, 0)
            ELSE /\ limits' = [limits EXCEPT ![k] =
                      IF @ = None THEN [limit |-> config[r], from_default |-> TRUE]
                      ELSE WithLimit(@, config[r])]
                 /\ AllocateSlots(k, config[r])
      BY <2>3 DEF InitDefault
    <3>2. PoolOf[s] \in Pools /\ (config[r] = None \/ config[r] \in Nat)
      BY <2>3, PoolsAssumption
    <3>3. slots' \in [SlotIds -> SlotRow \cup {None}]
      BY <2>3, <3>1, <3>2, Allocation
    <3>4. limits' \in [Pools -> LimitRow \cup {None}]
      <4>1. ASSUME config[r] \in Nat
            PROVE  /\ [limit |-> config[r], from_default |-> TRUE] \in LimitRow
                   /\ \A row \in LimitRow : WithLimit(row, config[r]) \in LimitRow
        BY <4>1 DEF LimitRow, WithLimit
      <4> QED BY <2>3, <3>1, <3>2, <4>1
    <3> QED BY <2>3, <3>3, <3>4 DEF InitDefault, Goto, ctx, outer
  <2>4. ASSUME NEW s \in Steps, Claim(s) PROVE TypeOK'
    BY <2>4, PoolsAssumption DEF Claim, Goto, db, outer
  <2>5. ASSUME NEW r \in Runs, Resync(r) PROVE TypeOK'
    BY <2>5, PoolsAssumption DEF Resync, Goto, db, outer
  <2>6. ASSUME NEW r \in Runs, Unlimited(r) PROVE TypeOK'
    BY <2>6, PoolsAssumption DEF Unlimited, Goto, db, outer
  <2>7. ASSUME NEW r \in Runs, HasPendingStep(r) PROVE TypeOK'
    BY <2>7, PoolsAssumption DEF HasPendingStep, Goto, db, ctx, outer
  <2>8. ASSUME NEW r \in Runs, CountAssigned(r) PROVE TypeOK'
    <3>1. PICK s \in target[r] :
            count' = [count EXCEPT ![r] = Cardinality(assigned \cap InPool(PoolOf[s]))]
      BY <2>8 DEF CountAssigned
    <3>2. Cardinality(assigned \cap InPool(PoolOf[s])) \in Nat
      BY StepCount
    <3>3. count' \in [Runs -> Nat]
      BY <3>1, <3>2
    <3>4. lock' \in Actors \cup {None} /\ pc' \in [Actors -> Labels]
      BY <2>8 DEF CountAssigned, Goto, Hold
    <3> QED BY <2>8, <3>3, <3>4 DEF CountAssigned, ctx, outer
  <2>9. ASSUME NEW r \in Runs, CountSlots(r) PROVE TypeOK'
    BY <2>9, PoolsAssumption DEF CountSlots, Goto, Release, ctx, outer
  <2>10. ASSUME NEW r \in Runs, AddPendingStep(r) PROVE TypeOK'
    BY <2>10, PoolsAssumption DEF AddPendingStep, Goto, ctx, outer
  <2>11. ASSUME NEW r \in Runs, CheckPending(r) PROVE TypeOK'
    <3>1. ContextTyped'
      BY <2>11, BlockedType, GoOnType DEF CheckPending, ContextTyped
    <3>2. lock' \in Actors \cup {None}
      BY <2>11, HoldType DEF CheckPending
    <3> QED BY <2>11, <3>1, <3>2 DEF CheckPending, ContextTyped
  <2>12. ASSUME NEW r \in Runs, CheckSlot(r) PROVE TypeOK'
    <3>1. PICK s \in target[r] :
            \/ ClaimGranted(r, s)
            \/ /\ Goto(r, "select_slot")
               /\ UNCHANGED <<target, pendingClaims, claims, inFlight, revoked>>
      BY <2>12 DEF CheckSlot
    <3>2. ContextTyped'
      BY <3>1, GrantedType, GoOnType DEF ContextTyped
    <3>3. lock' = None
      BY <2>12 DEF CheckSlot, Release
    <3> QED BY <2>12, <3>2, <3>3 DEF CheckSlot, ContextTyped
  <2>13. ASSUME NEW r \in Runs, SelectSlot(r) PROVE TypeOK'
    <3>1. ContextTyped'
      BY <2>13, BlockedType, GoOnType DEF SelectSlot, ContextTyped
    <3>2. lock' \in Actors \cup {None}
      BY <2>13, HoldType DEF SelectSlot
    <3>3. rows' \in [Actors -> SUBSET SlotIds]
      <4>1. CASE UNCHANGED rows
        BY <4>1
      <4>2. ASSUME NEW k, NEW i \in Free(k), rows' = [rows EXCEPT ![r] = {i}]
            PROVE  rows' \in [Actors -> SUBSET SlotIds]
        <5>1. {i} \in SUBSET SlotIds
          BY DEF Free, Live, Rows
        <5> QED BY <4>2, <5>1
      <4> QED BY <2>13, <4>1, <4>2 DEF SelectSlot
    <3> QED BY <2>13, <3>1, <3>2, <3>3 DEF SelectSlot, ContextTyped
  <2>14. ASSUME NEW r \in Runs, TakeSlot(r) PROVE TypeOK'
    <3>1. PICK s \in target[r] :
            IF rows[r] \cap Rows = {} THEN ClaimBlocked(r) /\ UNCHANGED slots
            ELSE /\ slots' = [i \in SlotIds |->
                      IF i \in rows[r] \cap Rows THEN WithOwner(slots[i], s) ELSE slots[i]]
                 /\ ClaimGranted(r, s)
      BY <2>14 DEF TakeSlot, Updated
    <3>2. s \in Steps /\ \A i \in Rows : WithOwner(slots[i], s) \in SlotRow
      BY <3>1, RowsTyped, RowUpdates
    <3>3. slots' \in [SlotIds -> SlotRow \cup {None}]
      BY <3>1, <3>2 DEF Rows
    <3>4. ContextTyped'
      BY <3>1, <3>2, BlockedType, GrantedType DEF ContextTyped
    <3> QED BY <2>14, <3>3, <3>4 DEF TakeSlot, Updated, Release, ContextTyped
  <2>15. ASSUME NEW a \in Actors, DeletePruned(a) PROVE TypeOK'
    BY <2>15, PoolsAssumption DEF DeletePruned, Goto, Hold, Revoke, ctx
  <2>16. ASSUME NEW a \in Actors, SelectHeld(a) PROVE TypeOK'
    BY <2>16, PoolsAssumption DEF SelectHeld, Goto, Hold, Release, HeldBy, Rows, ctx, outer
  <2>17. ASSUME NEW a \in Actors, FreeSlots(a) PROVE TypeOK'
    <3>1. \A i \in Rows : WithOwner(slots[i], None) \in SlotRow
      BY <2>17, RowsTyped, RowUpdates
    <3>2. slots' \in [SlotIds -> SlotRow \cup {None}]
      BY <2>17, <3>1 DEF FreeSlots
    <3> QED BY <2>17, <3>2 DEF FreeSlots, Goto, Release, Revoke, ctx
  <2>18. ASSUME NEW a \in Actors, SelectPending(a) PROVE TypeOK'
    <3>1. \A k \in Pools : Cardinality(pending \cap target[a] \cap assigned \cap InPool(k)) \in Nat
      BY StepCount
    <3>2. ContextTyped'
      BY <2>18, FreedType DEF SelectPending, ContextTyped, outer
    <3>3. lock' \in Actors \cup {None}
      BY <2>18, HoldType DEF SelectPending
    <3>4. picked' \in [Actors -> SUBSET Steps] /\ toAssign' \in [Actors -> [Pools -> Nat]]
      <4>1. CASE pending \cap target[a] = {}
        BY <2>18, <4>1 DEF SelectPending
      <4>2. CASE pending \cap target[a] # {}
        <5>1. /\ picked' = [picked EXCEPT ![a] = pending \cap target[a]]
              /\ toAssign' = [toAssign EXCEPT ![a] =
                   [k \in Pools |-> Cardinality(pending \cap target[a] \cap assigned \cap InPool(k))]]
          BY <2>18, <4>2 DEF SelectPending
        <5>2. [k \in Pools |-> Cardinality(pending \cap target[a] \cap assigned \cap InPool(k))]
                \in [Pools -> Nat]
          BY <3>1
        <5> HIDE DEF InPool
        <5> QED BY <5>1, <5>2
      <4> QED BY <4>1, <4>2
    <3> QED BY <2>18, <3>2, <3>3, <3>4 DEF SelectPending, ContextTyped, outer
  <2>19. ASSUME NEW a \in Actors, DeletePending(a) PROVE TypeOK'
    BY <2>19 DEF DeletePending, EndFree, InFree, Goto, Release, outer
  <2>20. ASSUME NEW a \in Actors, SelectQueued(a) PROVE TypeOK'
    <3>1. ContextTyped'
      BY <2>20, FreedType DEF SelectQueued, ContextTyped, outer
    <3>2. lock' \in Actors \cup {None}
      BY <2>20, HoldType DEF SelectQueued
    <3>3. toAssign' \in [Actors -> [Pools -> Nat]]
      BY <2>20 DEF SelectQueued
    <3>4. picked' \in [Actors -> SUBSET Steps]
      <4>1. CASE UNCHANGED picked
        BY <4>1
      <4>2. ASSUME NEW k, NEW s \in NextInQueue(k), picked' = [picked EXCEPT ![a] = {s}]
            PROVE  picked' \in [Actors -> SUBSET Steps]
        <5>1. {s} \in SUBSET Steps
          BY DEF NextInQueue, Queued
        <5> QED BY <4>2, <5>1
      <4> QED BY <2>20, <4>1, <4>2 DEF SelectQueued
    <3> QED BY <2>20, <3>1, <3>2, <3>3, <3>4 DEF SelectQueued, ContextTyped, outer
  <2>21. ASSUME NEW a \in Actors, SetAssigned(a) PROVE TypeOK'
    BY <2>21 DEF SetAssigned, EndFree, InFree, Goto, Hold, Release, outer
  <2>22. ASSUME NEW s \in Steps, Launch(s) PROVE TypeOK'
    BY <2>22 DEF Launch, db, proc, ctx
  <2>23. ASSUME NEW s \in Steps, StepEnds(s) PROVE TypeOK'
    BY <2>23 DEF StepEnds, db, proc, ctx
  <2>24. ASSUME NEW s \in Steps, HandleEvent(s) PROVE TypeOK'
    <3>1. RunOf[s] \in Actors
      BY PoolsAssumption
    <3>2. pc' \in [Actors -> Labels] /\ target' \in [Actors -> SUBSET Steps]
      <4>1. CASE UNCHANGED <<pc, target>>
        BY <4>1
      <4>2. CASE BeginFree(RunOf[s], {s})
        <5>1. {s} \in SUBSET Steps
          OBVIOUS
        <5> QED BY <4>2, <3>1, <5>1 DEF BeginFree, Goto
      <4> QED BY <2>24, <4>1, <4>2 DEF HandleEvent
    <3>3. inFlight' \subseteq Steps /\ done' \subseteq Steps
      BY <2>24 DEF HandleEvent
    <3>4. world' \in [Steps -> {"idle", "running", "ended", "retry"}]
      BY <2>24 DEF HandleEvent
    <3> QED BY <2>24, <3>2, <3>3, <3>4 DEF HandleEvent, db
  <2>25. ASSUME NEW s \in Steps, MarkUnknownState(s) PROVE TypeOK'
    BY <2>25 DEF MarkUnknownState, db, proc
  <2>26. ASSUME NEW r \in Runs, LeaveContext(r) PROVE TypeOK'
    BY <2>26 DEF LeaveContext, db, proc, outer
  <2>27. ASSUME NEW r \in Runs, ExitFree(r) PROVE TypeOK'
    BY <2>27 DEF ExitFree, BeginFree, Goto, db, ctx, outer
  <2>28. ASSUME NEW r \in Runs, ExitDone(r) PROVE TypeOK'
    BY <2>28 DEF ExitDone, Goto, db, ctx, outer
  <2>29. ASSUME NEW a \in Actors, Crash(a) PROVE TypeOK'
    BY <2>29 DEF Crash, Goto, NoneLeft, db, outer
  <2>30. ASSUME NEW r \in Runs, Resume(r) PROVE TypeOK'
    BY <2>30 DEF Resume, Goto, db, outer
  <2>31. ASSUME NEW s \in Steps, ReplayFails(s) PROVE TypeOK'
    BY <2>31, PoolsAssumption DEF ReplayFails, db, proc, outer
  <2>32. ASSUME NEW r \in Runs, EndRun(r) PROVE TypeOK'
    BY <2>32 DEF EndRun, db, proc, ctx
  <2>33. ASSUME NEW r \in Runs, DaemonFree(r) PROVE TypeOK'
    BY <2>33 DEF DaemonFree, BeginFree, StepsOf, Goto, db, ctx, outer
  <2>34. ASSUME NEW r \in Runs, OperatorFree(r) PROVE TypeOK'
    BY <2>34 DEF OperatorFree, BeginFree, StepsOf, Goto, db, ctx, outer
  <2>35. CASE UNCHANGED vars
    BY <2>35 DEF vars, db, proc, ctx, outer
  <2> QED
    BY <2>1, <2>2, <2>3, <2>4, <2>5, <2>6, <2>7, <2>8, <2>9, <2>10, <2>11, <2>12, <2>13, <2>14, <2>15, <2>16, <2>17, <2>18, <2>19, <2>20, <2>21, <2>22, <2>23, <2>24, <2>25, <2>26, <2>27, <2>28, <2>29, <2>30, <2>31, <2>32, <2>33, <2>34, <2>35
    DEF Next, SystemNext, OperatorStep, FreeStep, RunStep, ClaimStep, StepStep
<1> QED BY <1>1, <1>2, PTL DEF Spec

-----------------------------------------------------------------------------
(* Where the calls are: TargetsOK and ClaimsInUse *)

ContextInv == TargetsOK /\ ClaimsInUse

LEMMA SameContext ==
  ASSUME ContextInv, UNCHANGED <<pc, target, claims, inFlight, done>>
  PROVE  ContextInv'
BY DEF ContextInv, TargetsOK, ClaimsInUse

\* A call goes on to its next statement.
LEMMA MoveContext ==
  ASSUME TypeOK, ContextInv, NEW a \in Actors, NEW to, Goto(a, to),
         a \in Runs /\ to \in ClaimLabels => pc[a] \in ClaimLabels,
         to \in {"idle", "exited", "crashed"} => target[a] = {},
         UNCHANGED <<target, claims, inFlight, done>>
  PROVE  ContextInv'
<1>1. \A b \in Actors : pc'[b] = IF b = a THEN to ELSE pc[b]
  BY DEF TypeOK, Goto
<1> QED BY <1>1 DEF ContextInv, TargetsOK, ClaimsInUse

\* A call returns.
LEMMA ReturnContext ==
  ASSUME TypeOK, ContextInv, NEW a \in Actors,
         Goto(a, "idle"), target' = [target EXCEPT ![a] = {}], claims' \subseteq Steps,
         \A s \in Steps : RunOf[s] # a /\ s \in claims' => s \in claims,
         \A s \in claims' : s \in inFlight' \cup done' \/ (RunOf[s] # a /\ s \in target[RunOf[s]])
  PROVE  ContextInv'
<1>1. \A b \in Actors : /\ pc'[b] = IF b = a THEN "idle" ELSE pc[b]
                        /\ target'[b] = IF b = a THEN {} ELSE target[b]
  BY DEF TypeOK, Goto
<1>2. TargetsOK'
  <2>1. ASSUME NEW q \in Runs, pc'[q] \in ClaimLabels
        PROVE  \E u \in Steps : target'[q] = {u} /\ u \notin claims'
    <3>1. q # a /\ pc[q] \in ClaimLabels
      BY <1>1, <2>1 DEF ClaimLabels
    <3>2. PICK u \in Steps : target[q] = {u} /\ u \notin claims
      BY <3>1 DEF ContextInv, TargetsOK
    <3>3. RunOf[u] = q
      BY <3>2 DEF ContextInv, TargetsOK, StepsOf
    <3> QED BY <1>1, <3>1, <3>2, <3>3
  <2> QED BY <1>1, <2>1 DEF ContextInv, TargetsOK
<1>3. ClaimsInUse'
  <2>1. \A s \in claims' : RunOf[s] \in Actors
    BY PoolsAssumption DEF ContextInv, ClaimsInUse, TypeOK
  <2> QED BY <1>1, <2>1 DEF ClaimsInUse
<1> QED BY <1>2, <1>3 DEF ContextInv

LEMMA BlockedContext ==
  ASSUME TypeOK, ContextInv, NEW r \in Runs, pc[r] \in ClaimLabels, ClaimBlocked(r),
         UNCHANGED done
  PROVE  ContextInv'
<1>1. PICK u \in Steps : target[r] = {u} /\ u \notin claims
  BY DEF ContextInv, TargetsOK
<1>2. \A s \in claims : s \in inFlight \cup done \/ (RunOf[s] # r /\ s \in target[RunOf[s]])
  BY <1>1 DEF ContextInv, ClaimsInUse
<1> QED BY <1>2, ReturnContext DEF ClaimBlocked, TypeOK

LEMMA GrantedContext ==
  ASSUME TypeOK, ContextInv, NEW r \in Runs, pc[r] \in ClaimLabels,
         NEW s \in target[r], ClaimGranted(r, s), UNCHANGED done
  PROVE  ContextInv'
<1>1. RunOf[s] = r /\ target[r] = {s} /\ s \notin claims
  BY DEF ContextInv, TargetsOK, StepsOf
<1>2. \A q \in claims' : q \in inFlight' \cup done' \/ (RunOf[q] # r /\ q \in target[RunOf[q]])
  BY <1>1 DEF ContextInv, ClaimsInUse, ClaimGranted
<1>3. \A q \in Steps : RunOf[q] # r /\ q \in claims' => q \in claims
  BY <1>1 DEF ClaimGranted
<1>4. s \in Steps /\ claims' \subseteq Steps
  BY DEF TypeOK, ClaimGranted
<1> QED BY <1>2, <1>3, <1>4, ReturnContext DEF ClaimGranted

\* A free call returns, and an executor has forgotten the claims it was about.
LEMMA FreedContext ==
  ASSUME TypeOK, ContextInv, NEW a \in Actors, EndFree(a), UNCHANGED <<inFlight, done>>
  PROVE  ContextInv'
<1>1. \A s \in claims' : s \in claims /\ (a \in Runs => s \notin target[a]) /\ RunOf[s] \in Runs
  BY PoolsAssumption DEF EndFree, TypeOK
<1>2. \A s \in claims' : s \in inFlight' \cup done' \/ (RunOf[s] # a /\ s \in target[RunOf[s]])
  BY <1>1 DEF ContextInv, ClaimsInUse
<1> QED BY <1>1, <1>2, ReturnContext DEF EndFree, TypeOK

\* A free call begins, for a step that ends or for any others.
LEMMA BegunContext ==
  ASSUME TypeOK, ContextInv, NEW a \in Actors, NEW T, BeginFree(a, T),
         a \in Runs => T \subseteq StepsOf(a),
         UNCHANGED claims,
         \A s \in claims : s \in inFlight \cup done => s \in inFlight' \cup done' \cup (IF RunOf[s] = a THEN T ELSE {})
  PROVE  ContextInv'
<1>1. \A b \in Actors : /\ pc'[b] = IF b = a THEN "delete_pruned" ELSE pc[b]
                        /\ target'[b] = IF b = a THEN T ELSE target[b]
  BY DEF TypeOK, BeginFree, Goto
<1>2. target[a] = {}
  BY DEF BeginFree, ContextInv, TargetsOK
<1>3. TargetsOK'
  BY <1>1 DEF ContextInv, TargetsOK, ClaimLabels
<1>4. ClaimsInUse'
  BY <1>1, <1>2, PoolsAssumption DEF ContextInv, ClaimsInUse, TypeOK
<1> QED BY <1>3, <1>4 DEF ContextInv

\* No step of anybody disturbs where the calls are.
LEMMA ContextInductive ==
  ASSUME TypeOK, ContextInv, [Next]_vars
  PROVE  ContextInv'
<1> USE DEF Labels
<1>1. ASSUME NEW k \in Pools, NEW n \in Limits, SetLimit(k, n) PROVE ContextInv'
  BY <1>1, MoveContext, PoolsAssumption
     DEF SetLimit, At, ClaimLabels, ctx, ContextInv, TargetsOK
<1>2. ASSUME NEW k \in Pools, DeleteLimit(k) PROVE ContextInv'
  BY <1>2, SameContext DEF DeleteLimit, proc, ctx
<1>3. ASSUME NEW r \in Runs, InitDefault(r) PROVE ContextInv'
  BY <1>3, MoveContext DEF InitDefault, At, ClaimLabels, ctx
<1>4. ASSUME NEW s \in Steps, Claim(s) PROVE ContextInv'
  <2> DEFINE r == RunOf[s]
  <2>1. r \in Runs /\ pc[r] = "idle" /\ target[r] = {} /\ s \notin inFlight \cup done
    BY <1>4, PoolsAssumption DEF Claim, ContextInv, TargetsOK
  <2>2. s \notin claims
    BY <2>1 DEF ContextInv, ClaimsInUse
  <2>3. PICK to : pc' = [pc EXCEPT ![r] = to]
                  /\ to \in {"init_default", "unlimited", "has_pending"}
    BY <1>4 DEF Claim, Goto
  <2>4. \A b \in Actors : /\ pc'[b] = IF b = r THEN to ELSE pc[b]
                          /\ target'[b] = IF b = r THEN {s} ELSE target[b]
    BY <1>4, <2>3 DEF Claim, TypeOK
  <2>5. UNCHANGED <<claims, inFlight, done>>
    BY <1>4 DEF Claim
  <2>6. TargetsOK'
    BY <2>1, <2>2, <2>3, <2>4, <2>5 DEF ContextInv, TargetsOK, StepsOf
  <2>7. ClaimsInUse'
    BY <2>1, <2>4, <2>5, PoolsAssumption DEF ContextInv, ClaimsInUse, TypeOK
  <2> QED BY <2>6, <2>7 DEF ContextInv
<1>5. ASSUME NEW r \in Runs, Resync(r) PROVE ContextInv'
  BY <1>5, MoveContext DEF Resync, At, ClaimLabels
<1>6. ASSUME NEW r \in Runs, Unlimited(r) PROVE ContextInv'
  <2>1. \A s \in claims : s \in inFlight' \cup done' \/ (RunOf[s] # r /\ s \in target[RunOf[s]])
    BY <1>6 DEF Unlimited, ContextInv, ClaimsInUse
  <2> QED BY <1>6, <2>1, ReturnContext DEF Unlimited, TypeOK
<1>7. ASSUME NEW r \in Runs, HasPendingStep(r) PROVE ContextInv'
  BY <1>7, MoveContext DEF HasPendingStep, At, ClaimLabels, ctx
<1>8. ASSUME NEW r \in Runs, CountAssigned(r) PROVE ContextInv'
  BY <1>8, MoveContext DEF CountAssigned, At, ClaimLabels, ctx
<1>9. ASSUME NEW r \in Runs, CountSlots(r) PROVE ContextInv'
  BY <1>9, MoveContext DEF CountSlots, At, ClaimLabels, ctx
<1>10. ASSUME NEW r \in Runs, AddPendingStep(r) PROVE ContextInv'
  BY <1>10, MoveContext DEF AddPendingStep, At, ClaimLabels, ctx
<1>11. ASSUME NEW r \in Runs, CheckPending(r) PROVE ContextInv'
  BY <1>11, MoveContext, BlockedContext DEF CheckPending, At, ClaimLabels
<1>12. ASSUME NEW r \in Runs, CheckSlot(r) PROVE ContextInv'
  BY <1>12, MoveContext, GrantedContext DEF CheckSlot, At, ClaimLabels
<1>13. ASSUME NEW r \in Runs, SelectSlot(r) PROVE ContextInv'
  BY <1>13, MoveContext, BlockedContext DEF SelectSlot, At, ClaimLabels
<1>14. ASSUME NEW r \in Runs, TakeSlot(r) PROVE ContextInv'
  BY <1>14, BlockedContext, GrantedContext DEF TakeSlot, Updated, At, ClaimLabels
<1>15. ASSUME NEW a \in Actors, DeletePruned(a) PROVE ContextInv'
  BY <1>15, MoveContext DEF DeletePruned, ClaimLabels, ctx
<1>16. ASSUME NEW a \in Actors, SelectHeld(a) PROVE ContextInv'
  BY <1>16, MoveContext DEF SelectHeld, ClaimLabels, ctx
<1>17. ASSUME NEW a \in Actors, FreeSlots(a) PROVE ContextInv'
  BY <1>17, MoveContext DEF FreeSlots, ClaimLabels, ctx
<1>18. ASSUME NEW a \in Actors, SelectPending(a) PROVE ContextInv'
  BY <1>18, MoveContext, FreedContext DEF SelectPending, InFree, ClaimLabels
<1>19. ASSUME NEW a \in Actors, DeletePending(a) PROVE ContextInv'
  BY <1>19, MoveContext, FreedContext DEF DeletePending, InFree, ClaimLabels
<1>20. ASSUME NEW a \in Actors, SelectQueued(a) PROVE ContextInv'
  BY <1>20, MoveContext, FreedContext DEF SelectQueued, InFree, ClaimLabels
<1>21. ASSUME NEW a \in Actors, SetAssigned(a) PROVE ContextInv'
  BY <1>21, MoveContext, FreedContext DEF SetAssigned, InFree, ClaimLabels
<1>22. ASSUME NEW s \in Steps, Launch(s) \/ StepEnds(s) PROVE ContextInv'
  BY <1>22, SameContext DEF Launch, StepEnds, proc, ctx
<1>23. ASSUME NEW s \in Steps, HandleEvent(s) PROVE ContextInv'
  <2>1. RunOf[s] \in Runs /\ s \in StepsOf(RunOf[s])
    BY PoolsAssumption DEF StepsOf
  <2>2. inFlight' = inFlight \ {s} /\ done \subseteq done' /\ claims' = claims
    BY <1>23 DEF HandleEvent
  <2>3. CASE s \in claims
    <3>1. BeginFree(RunOf[s], {s})
      BY <1>23, <2>3 DEF HandleEvent
    <3> QED BY <2>1, <2>2, <3>1, BegunContext
  <2>4. CASE s \notin claims
    <3>1. UNCHANGED <<pc, target>>
      BY <1>23, <2>4 DEF HandleEvent
    <3> QED BY <2>2, <2>4, <3>1 DEF ContextInv, TargetsOK, ClaimsInUse
  <2> QED BY <2>3, <2>4
<1>24. ASSUME NEW s \in Steps, MarkUnknownState(s) PROVE ContextInv'
  BY <1>24 DEF MarkUnknownState, proc, ContextInv, TargetsOK, ClaimsInUse
<1>25. ASSUME NEW r \in Runs, LeaveContext(r) \/ EndRun(r) PROVE ContextInv'
  BY <1>25, SameContext DEF LeaveContext, EndRun, proc, ctx
<1>26. ASSUME NEW r \in Runs, ExitFree(r) PROVE ContextInv'
  <2>1. PICK s \in pendingClaims \cap StepsOf(r) : BeginFree(r, {s})
    BY <1>26 DEF ExitFree
  <2> QED BY <1>26, <2>1, BegunContext DEF ExitFree, ctx
<1>27. ASSUME NEW r \in Runs, ExitDone(r) PROVE ContextInv'
  BY <1>27, MoveContext DEF ExitDone, ClaimLabels, ctx, ContextInv, TargetsOK
<1>28. ASSUME NEW a \in Actors, Crash(a) PROVE ContextInv'
  <2>1. \A b \in Actors :
          /\ pc'[b] = IF b = a THEN (IF a \in Runs THEN "crashed" ELSE "idle") ELSE pc[b]
          /\ target'[b] = IF b = a THEN {} ELSE target[b]
    BY <1>28 DEF Crash, Goto, TypeOK
  <2>2. /\ claims' \subseteq claims
        /\ \A s \in claims' : s \in inFlight \cup done => s \in inFlight' \cup done'
        /\ \A s \in claims' : RunOf[s] # a /\ RunOf[s] \in Runs
    <3>1. CASE a \in Runs
      BY <1>28, <3>1, PoolsAssumption DEF Crash, StepsOf, TypeOK
    <3>2. CASE a \notin Runs
      BY <1>28, <3>2, PoolsAssumption DEF Crash, TypeOK
    <3> QED BY <3>1, <3>2
  <2>3. TargetsOK'
    <3>1. ASSUME NEW q \in Runs, pc'[q] \in ClaimLabels
          PROVE  q # a /\ pc[q] \in ClaimLabels
      BY <2>1, <3>1 DEF ClaimLabels
    <3> QED BY <2>1, <2>2, <3>1 DEF ContextInv, TargetsOK
  <2>4. ClaimsInUse'
    BY <2>1, <2>2 DEF ContextInv, ClaimsInUse
  <2> QED BY <2>3, <2>4 DEF ContextInv
<1>29. ASSUME NEW r \in Runs, Resume(r) PROVE ContextInv'
  BY <1>29, MoveContext DEF Resume, ClaimLabels, ContextInv, TargetsOK
<1>30. ASSUME NEW s \in Steps, ReplayFails(s) PROVE ContextInv'
  BY <1>30, SameContext DEF ReplayFails, proc
<1>31. ASSUME NEW r \in Runs, DaemonFree(r) PROVE ContextInv'
  BY <1>31, BegunContext, PoolsAssumption DEF DaemonFree, ctx
<1>32. ASSUME NEW r \in Runs, OperatorFree(r) PROVE ContextInv'
  BY <1>32, BegunContext, PoolsAssumption DEF OperatorFree, ctx
<1>33. CASE UNCHANGED vars
  BY <1>33, SameContext DEF vars, proc, ctx
<1> QED
  BY <1>1, <1>2, <1>3, <1>4, <1>5, <1>6, <1>7, <1>8, <1>9, <1>10, <1>11, <1>12, <1>13, <1>14, <1>15, <1>16, <1>17, <1>18, <1>19, <1>20, <1>21, <1>22, <1>23, <1>24, <1>25, <1>26, <1>27, <1>28, <1>29, <1>30, <1>31, <1>32, <1>33
  DEF Next, SystemNext, OperatorStep, FreeStep, RunStep, ClaimStep, StepStep

-----------------------------------------------------------------------------
(* No step owns two rows, in any storage *)

RowInv == OwnersOK /\ OneSlotPerStep

\* Rows are freed, pruned, deleted or added, and nobody gets one.
NobodyTakes ==
  /\ \A i \in Rows' : slots'[i].owner # None =>
       i \in Rows /\ slots[i].owner = slots'[i].owner /\ slots[i].pool = slots'[i].pool
  /\ \A a \in Actors : \A i \in rows[a] \cap Rows' :
       i \in Rows /\ slots[i].pool = slots'[i].pool

LEMMA SameSlots ==
  ASSUME UNCHANGED slots
  PROVE  NobodyTakes
BY DEF NobodyTakes, Rows

LEMMA AllocationTakesNothing ==
  ASSUME TypeOK, NEW k \in Pools, NEW n \in Nat, AllocateSlots(k, n)
  PROVE  NobodyTakes
<1>1. CASE Prune(k, n)
  <2>1. PICK out \in SUBSET Live(k) :
          slots' = [i \in SlotIds |->
            IF i \in Rows /\ (i \in out \/ slots[i].deleted) /\ slots[i].owner = None THEN None
            ELSE IF i \in out THEN Pruned(slots[i]) ELSE slots[i]]
    BY <1>1 DEF Prune
  <2>2. \A i \in Rows : /\ Pruned(slots[i]).owner = slots[i].owner
                        /\ Pruned(slots[i]).pool = slots[i].pool
    BY RowUpdates, RowsTyped
  <2>3. ASSUME NEW i \in Rows'
        PROVE  i \in Rows /\ slots'[i].owner = slots[i].owner /\ slots'[i].pool = slots[i].pool
    <3>1. i \in SlotIds /\ slots'[i] # None
      BY DEF Rows
    <3>2. out \subseteq Rows
      BY DEF Live
    <3>3. slots[i] # None
      BY <2>1, <3>1, <3>2 DEF Rows
    <3>4. slots'[i] = IF i \in out THEN Pruned(slots[i]) ELSE slots[i]
      BY <2>1, <3>1, <3>3
    <3> QED BY <2>2, <3>1, <3>3, <3>4 DEF Rows
  <2> QED BY <2>3 DEF NobodyTakes
<1>2. CASE Extend(k, n)
  <2>1. PICK new \in SUBSET FreshIds :
          slots' = [i \in SlotIds |->
            IF i \in new THEN [pool |-> k, owner |-> None, deleted |-> FALSE] ELSE slots[i]]
    BY <1>2 DEF Extend
  <2>2. \A i \in new : i \notin Rows /\ \A a \in Actors : i \notin rows[a]
    BY DEF FreshIds
  <2>3. \A i \in Rows' : \/ i \in new /\ slots'[i].owner = None
                         \/ i \in Rows /\ slots'[i] = slots[i]
    BY <2>1 DEF Rows
  <2> QED BY <2>2, <2>3 DEF NobodyTakes
<1> QED BY <1>1, <1>2 DEF AllocateSlots

\* The actors that neither go for a row nor reach for one keep the invariant.
LEMMA NobodyTakesKeeps ==
  ASSUME TypeOK, RowInv, NobodyTakes,
         \A r \in Runs : pc'[r] \in {"select_slot", "take_slot"} =>
           pc'[r] = pc[r] /\ target'[r] = target[r] /\ rows'[r] = rows[r]
  PROVE  RowInv'
<1>1. \A i \in Rows' : slots'[i].owner # None => slots'[i].pool = PoolOf[slots'[i].owner]
  BY DEF NobodyTakes, RowInv, OwnersOK
<1>2. ASSUME NEW r \in Runs, pc'[r] \in {"select_slot", "take_slot"}
      PROVE  (HeldBy(target[r]))' = {}
  <2>1. HeldBy(target[r]) = {} /\ target'[r] = target[r] /\ None \notin target[r]
    BY <1>2, PoolsAssumption DEF RowInv, OwnersOK, TypeOK
  <2> QED BY <2>1 DEF NobodyTakes, HeldBy
<1>3. ASSUME NEW r \in Runs, pc'[r] = "take_slot"
      PROVE  \E i \in SlotIds : /\ rows'[r] = {i}
                                /\ i \in Rows' => \A s \in target'[r] : slots'[i].pool = PoolOf[s]
  <2>1. PICK i \in SlotIds : /\ rows[r] = {i}
                             /\ i \in Rows => \A s \in target[r] : slots[i].pool = PoolOf[s]
    BY <1>3 DEF RowInv, OwnersOK
  <2>2. rows'[r] = {i} /\ target'[r] = target[r]
    BY <1>3, <2>1
  <2>3. i \in Rows' => i \in Rows /\ slots[i].pool = slots'[i].pool
    BY <2>1 DEF NobodyTakes
  <2> QED BY <2>1, <2>2, <2>3
<1>4. OneSlotPerStep'
  BY DEF NobodyTakes, RowInv, OneSlotPerStep
<1> QED BY <1>1, <1>2, <1>3, <1>4 DEF RowInv, OwnersOK

\* Actor a moves, and not to a place where it goes for a row.
Elsewhere(a) ==
  /\ pc'[a] \notin {"select_slot", "take_slot"}
  /\ \A b \in Actors \ {a} : pc'[b] = pc[b] /\ target'[b] = target[b] /\ rows'[b] = rows[b]

LEMMA ElsewhereKeeps ==
  ASSUME TypeOK, RowInv, NobodyTakes, NEW a \in Actors, Elsewhere(a)
  PROVE  RowInv'
BY NobodyTakesKeeps DEF Elsewhere

LEMMA GotoElsewhere ==
  ASSUME TypeOK, NEW a \in Actors, NEW to, Goto(a, to), to \notin {"select_slot", "take_slot"},
         UNCHANGED target \/ (\E T : target' = [target EXCEPT ![a] = T]),
         UNCHANGED rows \/ (\E T : rows' = [rows EXCEPT ![a] = T])
  PROVE  Elsewhere(a)
BY DEF TypeOK, Goto, Elsewhere

LEMMA StaysElsewhere ==
  ASSUME TypeOK, RowInv, UNCHANGED <<slots, pc, target, rows>>
  PROVE  RowInv'
BY SameSlots, NobodyTakesKeeps

LEMMA RowInductive ==
  ASSUME TypeOK, TypeOK', ContextInv, RowInv, [Next]_vars
  PROVE  RowInv'
<1>1. ASSUME NEW k \in Pools, NEW n \in Limits, SetLimit(k, n) PROVE RowInv'
  <2>1. NobodyTakes
    BY <1>1, AllocationTakesNothing, PoolsAssumption DEF SetLimit
  <2>2. Elsewhere(Operator)
    BY <1>1, GotoElsewhere DEF SetLimit
  <2> QED BY <2>1, <2>2, ElsewhereKeeps
<1>2. ASSUME NEW k \in Pools, DeleteLimit(k) PROVE RowInv'
  <2>1. NobodyTakes
    BY <1>2, AllocationTakesNothing DEF DeleteLimit
  <2> QED BY <1>2, <2>1, NobodyTakesKeeps DEF DeleteLimit, proc
<1>3. ASSUME NEW r \in Runs, InitDefault(r) PROVE RowInv'
  <2>1. PICK s \in target[r] : IF config[r] = None THEN AllocateSlots(PoolOf[s], 0)
                               ELSE AllocateSlots(PoolOf[s], config[r])
    BY <1>3 DEF InitDefault
  <2>2. PoolOf[s] \in Pools /\ (config[r] # None => config[r] \in Nat)
    BY PoolsAssumption DEF TypeOK
  <2>3. NobodyTakes
    BY <2>1, <2>2, AllocationTakesNothing
  <2>4. Elsewhere(r)
    BY <1>3, GotoElsewhere DEF InitDefault
  <2> QED BY <2>3, <2>4, ElsewhereKeeps
<1>4. ASSUME NEW s \in Steps, Claim(s) PROVE RowInv'
  <2>1. RunOf[s] \in Actors /\ UNCHANGED slots
    BY <1>4, PoolsAssumption DEF Claim, db
  <2>2. Elsewhere(RunOf[s])
    BY <1>4, <2>1, GotoElsewhere DEF Claim
  <2> QED BY <2>1, <2>2, SameSlots, ElsewhereKeeps
<1>5. ASSUME NEW r \in Runs, Resync(r) PROVE RowInv'
  <2>1. Elsewhere(r) /\ UNCHANGED slots
    BY <1>5, GotoElsewhere DEF Resync, db
  <2> QED BY <2>1, SameSlots, ElsewhereKeeps
<1>6. ASSUME NEW r \in Runs, Unlimited(r) PROVE RowInv'
  <2>1. Elsewhere(r) /\ UNCHANGED slots
    BY <1>6, GotoElsewhere DEF Unlimited, db
  <2> QED BY <2>1, SameSlots, ElsewhereKeeps
<1>7. ASSUME NEW r \in Runs, HasPendingStep(r) PROVE RowInv'
  <2>1. Elsewhere(r) /\ UNCHANGED slots
    BY <1>7, GotoElsewhere DEF HasPendingStep, db
  <2> QED BY <2>1, SameSlots, ElsewhereKeeps
<1>8. ASSUME NEW r \in Runs, CountAssigned(r) PROVE RowInv'
  <2>1. Elsewhere(r) /\ UNCHANGED slots
    BY <1>8, GotoElsewhere DEF CountAssigned
  <2> QED BY <2>1, SameSlots, ElsewhereKeeps
<1>9. ASSUME NEW r \in Runs, CountSlots(r) PROVE RowInv'
  <2>1. Elsewhere(r) /\ UNCHANGED slots
    BY <1>9, GotoElsewhere DEF CountSlots
  <2> QED BY <2>1, SameSlots, ElsewhereKeeps
<1>10. ASSUME NEW r \in Runs, AddPendingStep(r) PROVE RowInv'
  <2>1. Elsewhere(r) /\ UNCHANGED slots
    BY <1>10, GotoElsewhere DEF AddPendingStep
  <2> QED BY <2>1, SameSlots, ElsewhereKeeps
<1>11. ASSUME NEW r \in Runs, CheckPending(r) PROVE RowInv'
  <2>1. Elsewhere(r) /\ UNCHANGED slots
    BY <1>11, GotoElsewhere DEF CheckPending, ClaimBlocked
  <2> QED BY <2>1, SameSlots, ElsewhereKeeps
<1>12. ASSUME NEW r \in Runs, CheckSlot(r) PROVE RowInv'
  <2>1. PICK s \in target[r] : IF \E i \in HeldBy({s}) : slots[i].pool = PoolOf[s]
                               THEN ClaimGranted(r, s)
                               ELSE Goto(r, "select_slot") /\ UNCHANGED target
    BY <1>12 DEF CheckSlot
  <2>2. UNCHANGED <<slots, rows>>
    BY <1>12 DEF CheckSlot
  <2>3. target[r] = {s}
    BY <1>12 DEF CheckSlot, At, ContextInv, TargetsOK, ClaimLabels
  <2>4. CASE ClaimGranted(r, s)
    <3>1. Elsewhere(r)
      BY <2>2, <2>4, GotoElsewhere DEF ClaimGranted
    <3> QED BY <2>2, <3>1, SameSlots, ElsewhereKeeps
  <2>5. CASE HeldBy({s}) = {} /\ Goto(r, "select_slot") /\ UNCHANGED target
    <3>1. \A q \in Runs : pc'[q] = IF q = r THEN "select_slot" ELSE pc[q]
      BY <2>5 DEF TypeOK, Goto
    <3>2. \A q \in Runs : pc'[q] \in {"select_slot", "take_slot"} => HeldBy(target[q]) = {}
      BY <2>3, <2>5, <3>1 DEF RowInv, OwnersOK
    <3>3. \A q \in Runs : pc'[q] = "take_slot" => pc[q] = "take_slot"
      BY <3>1
    <3> QED BY <2>2, <2>5, <3>2, <3>3 DEF RowInv, OwnersOK, OneSlotPerStep, HeldBy, Rows
  <2>6. (\A i \in HeldBy({s}) : slots[i].pool # PoolOf[s]) => HeldBy({s}) = {}
    <3>1. s # None
      BY PoolsAssumption DEF TypeOK
    <3> QED BY <3>1 DEF HeldBy, RowInv, OwnersOK
  <2> QED BY <2>1, <2>4, <2>5, <2>6
<1>13. ASSUME NEW r \in Runs, SelectSlot(r) PROVE RowInv'
  <2>1. PICK s \in target[r] :
          IF Free(PoolOf[s]) = {} THEN ClaimBlocked(r) /\ UNCHANGED rows
          ELSE /\ \E i \in Free(PoolOf[s]) : rows' = [rows EXCEPT ![r] = {i}]
               /\ Goto(r, "take_slot") /\ UNCHANGED target
    BY <1>13 DEF SelectSlot
  <2>2. UNCHANGED slots
    BY <1>13 DEF SelectSlot
  <2>3. target[r] = {s} /\ HeldBy(target[r]) = {}
    BY <1>13 DEF SelectSlot, At, ContextInv, TargetsOK, ClaimLabels, RowInv, OwnersOK
  <2>4. CASE ClaimBlocked(r) /\ UNCHANGED rows
    <3>1. Elsewhere(r)
      BY <2>4, GotoElsewhere DEF ClaimBlocked
    <3> QED BY <2>2, <3>1, SameSlots, ElsewhereKeeps
  <2>5. ASSUME NEW i \in Free(PoolOf[s]), rows' = [rows EXCEPT ![r] = {i}],
               Goto(r, "take_slot"), UNCHANGED target
        PROVE  RowInv'
    <3>1. i \in SlotIds /\ slots[i].pool = PoolOf[s]
      BY DEF Free, Live, Rows
    <3>2. \A q \in Runs : /\ pc'[q] = IF q = r THEN "take_slot" ELSE pc[q]
                          /\ rows'[q] = IF q = r THEN {i} ELSE rows[q]
      BY <2>5 DEF TypeOK, Goto
    <3>3. \A q \in Runs : pc'[q] = "take_slot" =>
            \E j \in SlotIds : /\ rows'[q] = {j}
                               /\ j \in Rows => \A u \in target[q] : slots[j].pool = PoolOf[u]
      BY <2>3, <3>1, <3>2 DEF RowInv, OwnersOK
    <3>4. \A q \in Runs : pc'[q] \in {"select_slot", "take_slot"} => HeldBy(target[q]) = {}
      BY <2>3, <3>2 DEF RowInv, OwnersOK
    <3> QED BY <2>2, <2>5, <3>3, <3>4 DEF RowInv, OwnersOK, OneSlotPerStep, HeldBy, Rows
  <2> QED BY <2>1, <2>4, <2>5
<1>14. ASSUME NEW r \in Runs, TakeSlot(r) PROVE RowInv'
  <2>1. PICK s \in target[r] :
          IF rows[r] \cap Rows = {} THEN ClaimBlocked(r) /\ UNCHANGED slots
          ELSE /\ slots' = [i \in SlotIds |->
                    IF i \in rows[r] \cap Rows THEN WithOwner(slots[i], s) ELSE slots[i]]
               /\ ClaimGranted(r, s)
    BY <1>14 DEF TakeSlot, Updated
  <2>2. Elsewhere(r)
    BY <1>14, <2>1, GotoElsewhere DEF TakeSlot, Updated, ClaimBlocked, ClaimGranted
  <2>3. CASE UNCHANGED slots
    BY <2>2, <2>3, SameSlots, ElsewhereKeeps
  <2>4. ASSUME rows[r] \cap Rows # {},
               slots' = [i \in SlotIds |->
                 IF i \in rows[r] \cap Rows THEN WithOwner(slots[i], s) ELSE slots[i]]
        PROVE  RowInv'
    <3>1. PICK i \in Rows : rows[r] = {i} /\ \A u \in target[r] : slots[i].pool = PoolOf[u]
      BY <1>14, <2>4 DEF TakeSlot, Updated, At, RowInv, OwnersOK
    <3>2. s \in Steps /\ s # None /\ RunOf[s] = r
      BY PoolsAssumption DEF TypeOK, ContextInv, TargetsOK, StepsOf
    <3>3. slots[i] \in SlotRow /\ WithOwner(slots[i], s) \in SlotRow
          /\ WithOwner(slots[i], s).owner = s /\ WithOwner(slots[i], s).pool = slots[i].pool
      BY <3>2, RowsTyped, RowUpdates
    <3>4. /\ Rows' = Rows
          /\ slots'[i].owner = s /\ slots'[i].pool = PoolOf[s]
          /\ \A j \in Rows \ {i} : slots'[j] = slots[j]
      BY <2>4, <3>1, <3>3, PoolsAssumption DEF Rows
    <3>5. \A j \in Rows : slots[j].owner # s
      BY <1>14 DEF TakeSlot, Updated, At, RowInv, OwnersOK, HeldBy
    <3>6. \A j \in Rows' : slots'[j].owner # None => slots'[j].pool = PoolOf[slots'[j].owner]
      BY <3>4 DEF RowInv, OwnersOK
    <3>7. ASSUME NEW q \in Runs, pc'[q] \in {"select_slot", "take_slot"}
          PROVE  (HeldBy(target[q]))' = {}
      <4>1. q # r /\ pc'[q] = pc[q] /\ target'[q] = target[q]
        BY <2>2, <3>7 DEF Elsewhere
      <4>2. s \notin target[q] /\ HeldBy(target[q]) = {}
        BY <3>2, <3>7, <4>1 DEF ContextInv, TargetsOK, StepsOf, RowInv, OwnersOK
      <4> QED BY <3>4, <4>1, <4>2 DEF HeldBy
    <3>8. ASSUME NEW q \in Runs, pc'[q] = "take_slot"
          PROVE  \E j \in SlotIds : /\ rows'[q] = {j}
                                    /\ j \in Rows' => \A u \in target'[q] : slots'[j].pool = PoolOf[u]
      <4>1. q # r /\ pc'[q] = pc[q] /\ target'[q] = target[q] /\ rows'[q] = rows[q]
        BY <2>2, <3>8 DEF Elsewhere
      <4>2. \A j \in Rows : slots'[j].pool = slots[j].pool
        BY <3>1, <3>4
      <4> QED BY <3>4, <3>8, <4>1, <4>2 DEF RowInv, OwnersOK
    <3>9. OneSlotPerStep'
      BY <3>4, <3>5 DEF RowInv, OneSlotPerStep
    <3> QED BY <3>6, <3>7, <3>8, <3>9 DEF RowInv, OwnersOK
  <2> QED BY <2>1, <2>3, <2>4
<1>15. ASSUME NEW a \in Actors, DeletePruned(a) PROVE RowInv'
  <2>1. Elsewhere(a)
    BY <1>15, GotoElsewhere DEF DeletePruned
  <2>2. \A i \in Rows' : i \in Rows /\ slots'[i] = slots[i]
    BY <1>15 DEF DeletePruned, Rows
  <2> QED BY <2>1, <2>2, ElsewhereKeeps DEF NobodyTakes
<1>16. ASSUME NEW a \in Actors, SelectHeld(a) PROVE RowInv'
  <2>1. Elsewhere(a) /\ UNCHANGED slots
    BY <1>16, GotoElsewhere DEF SelectHeld
  <2> QED BY <2>1, SameSlots, ElsewhereKeeps
<1>17. ASSUME NEW a \in Actors, FreeSlots(a) PROVE RowInv'
  <2>1. Elsewhere(a)
    BY <1>17, GotoElsewhere DEF FreeSlots
  <2>2. \A i \in Rows : WithOwner(slots[i], None).owner = None
                        /\ WithOwner(slots[i], None).pool = slots[i].pool
    BY RowsTyped, RowUpdates
  <2>3. \A i \in Rows' : i \in Rows /\ (slots'[i] = slots[i] \/ slots'[i] = WithOwner(slots[i], None))
    BY <1>17 DEF FreeSlots, Rows
  <2> QED BY <2>1, <2>2, <2>3, ElsewhereKeeps DEF NobodyTakes
<1>18. ASSUME NEW a \in Actors, SelectPending(a) PROVE RowInv'
  <2>1. Elsewhere(a) /\ UNCHANGED slots
    BY <1>18, GotoElsewhere DEF SelectPending, EndFree, InFree
  <2> QED BY <2>1, SameSlots, ElsewhereKeeps
<1>19. ASSUME NEW a \in Actors, DeletePending(a) PROVE RowInv'
  <2>1. Elsewhere(a) /\ UNCHANGED slots
    BY <1>19, GotoElsewhere DEF DeletePending, EndFree, InFree
  <2> QED BY <2>1, SameSlots, ElsewhereKeeps
<1>20. ASSUME NEW a \in Actors, SelectQueued(a) PROVE RowInv'
  <2>1. Elsewhere(a) /\ UNCHANGED slots
    BY <1>20, GotoElsewhere DEF SelectQueued, EndFree, InFree
  <2> QED BY <2>1, SameSlots, ElsewhereKeeps
<1>21. ASSUME NEW a \in Actors, SetAssigned(a) PROVE RowInv'
  <2>1. Elsewhere(a) /\ UNCHANGED slots
    BY <1>21, GotoElsewhere DEF SetAssigned, EndFree, InFree
  <2> QED BY <2>1, SameSlots, ElsewhereKeeps
<1>22. ASSUME NEW s \in Steps, Launch(s) \/ StepEnds(s) \/ MarkUnknownState(s) \/ ReplayFails(s)
       PROVE  RowInv'
  BY <1>22, StaysElsewhere DEF Launch, StepEnds, MarkUnknownState, ReplayFails, db, proc
<1>23. ASSUME NEW s \in Steps, HandleEvent(s) PROVE RowInv'
  <2>1. RunOf[s] \in Actors /\ UNCHANGED <<slots, rows>>
    BY <1>23, PoolsAssumption DEF HandleEvent, db
  <2>2. CASE UNCHANGED <<pc, target>>
    BY <2>1, <2>2, StaysElsewhere
  <2>3. CASE BeginFree(RunOf[s], {s})
    <3>1. Elsewhere(RunOf[s])
      BY <2>1, <2>3, GotoElsewhere DEF BeginFree
    <3> QED BY <2>1, <3>1, SameSlots, ElsewhereKeeps
  <2> QED BY <1>23, <2>2, <2>3 DEF HandleEvent
<1>24. ASSUME NEW r \in Runs, LeaveContext(r) \/ EndRun(r) PROVE RowInv'
  BY <1>24, StaysElsewhere DEF LeaveContext, EndRun, db, proc
<1>25. ASSUME NEW r \in Runs, ExitFree(r) \/ ExitDone(r) \/ Resume(r) PROVE RowInv'
  <2>1. Elsewhere(r) /\ UNCHANGED slots
    BY <1>25, GotoElsewhere DEF ExitFree, BeginFree, ExitDone, Resume, db
  <2> QED BY <2>1, SameSlots, ElsewhereKeeps
<1>26. ASSUME NEW a \in Actors, Crash(a) PROVE RowInv'
  <2>1. Elsewhere(a) /\ UNCHANGED slots
    BY <1>26, GotoElsewhere DEF Crash, db
  <2> QED BY <2>1, SameSlots, ElsewhereKeeps
<1>27. ASSUME NEW r \in Runs, DaemonFree(r) PROVE RowInv'
  <2>1. Elsewhere(Daemon) /\ UNCHANGED slots
    BY <1>27, GotoElsewhere DEF DaemonFree, BeginFree, db
  <2> QED BY <2>1, SameSlots, ElsewhereKeeps
<1>28. ASSUME NEW r \in Runs, OperatorFree(r) PROVE RowInv'
  <2>1. Elsewhere(Operator) /\ UNCHANGED slots
    BY <1>28, GotoElsewhere DEF OperatorFree, BeginFree, db
  <2> QED BY <2>1, SameSlots, ElsewhereKeeps
<1>29. CASE UNCHANGED vars
  BY <1>29, StaysElsewhere DEF vars, db, proc
<1> QED
  BY <1>1, <1>2, <1>3, <1>4, <1>5, <1>6, <1>7, <1>8, <1>9, <1>10, <1>11, <1>12, <1>13, <1>14, <1>15, <1>16, <1>17, <1>18, <1>19, <1>20, <1>21, <1>22, <1>23, <1>24, <1>25, <1>26, <1>27, <1>28, <1>29
  DEF Next, SystemNext, OperatorStep, FreeStep, RunStep, ClaimStep, StepStep

\* No step ever owns two slot rows, whatever the isolation of the storage:
\* _claim_concurrency_slot can give a row that another step has just got, but
\* check_concurrency_claim keeps a step that has one from going for another.
THEOREM OneSlotForEachStep == Spec => []OneSlotPerStep
<1>1. Init => ContextInv /\ RowInv
  BY PoolsAssumption DEF Init, ContextInv, TargetsOK, ClaimsInUse, ClaimLabels, RowInv,
     OwnersOK, OneSlotPerStep, Rows
<1>2. ContextInv /\ RowInv /\ TypeOK /\ TypeOK' /\ [Next]_vars => (ContextInv /\ RowInv)'
  BY ContextInductive, RowInductive
<1>3. ContextInv /\ RowInv => OneSlotPerStep
  BY DEF RowInv
<1> QED BY <1>1, <1>2, <1>3, TypeCorrect, PTL DEF Spec

-----------------------------------------------------------------------------
(* The slot rows are a semaphore in every storage that runs the claim and the *)
(* free blocks as transactions, for every value of the other constants.       *)

Isolated == {"claim", "free"} \subseteq TransactionalBlocks

ClaimInv == SelectedRowsLocked /\ ClaimsAreBacked

-----------------------------------------------------------------------------
(* SelectedRowsLocked: who is between a SELECT and its UPDATE has the lock *)

\* Actor a moves, and not to a place between a SELECT and its UPDATE.
Outside(a) ==
  /\ pc'[a] \notin {"take_slot", "select_held", "free_slots"}
  /\ \A b \in Actors \ {a} : pc'[b] = pc[b] /\ target'[b] = target[b] /\ rows'[b] = rows[b]

LEMMA GotoOutside ==
  ASSUME TypeOK, NEW a \in Actors, NEW to, Goto(a, to),
         to \notin {"take_slot", "select_held", "free_slots"},
         UNCHANGED target \/ (\E T : target' = [target EXCEPT ![a] = T]),
         UNCHANGED rows \/ (\E T : rows' = [rows EXCEPT ![a] = T])
  PROVE  Outside(a)
BY DEF TypeOK, Goto, Outside

LEMMA OutsideLocked ==
  ASSUME SelectedRowsLocked, NEW a \in Actors, Outside(a),
         lock \in {None, a} \/ UNCHANGED <<lock, slots>>
  PROVE  SelectedRowsLocked'
<1>1. CASE lock \in {None, a}
  <2>1. \A b \in Actors \ {a} : lock # b
    BY <1>1, PoolsAssumption
  <2>2. /\ \A r \in Runs : pc'[r] # "take_slot"
        /\ \A b \in Actors : pc'[b] \notin {"select_held", "free_slots"}
    BY <2>1 DEF Outside, SelectedRowsLocked
  <2> QED BY <2>2 DEF SelectedRowsLocked
<1>2. CASE UNCHANGED <<lock, slots>>
  BY <1>2 DEF Outside, SelectedRowsLocked, HeldBy, Rows
<1> QED BY <1>1, <1>2

LEMMA SameLocked ==
  ASSUME SelectedRowsLocked, UNCHANGED <<lock, slots, pc, target, rows>>
  PROVE  SelectedRowsLocked'
BY DEF SelectedRowsLocked, HeldBy, Rows

-----------------------------------------------------------------------------
(* ClaimsAreBacked: what keeps the claim of a step backed *)

LEMMA BackedKept ==
  ASSUME ClaimsAreBacked,
         \A s \in claims' \ revoked' :
           \/ s \in target'[RunOf[s]]
           \/ /\ s \in claims \ revoked /\ s \notin target[RunOf[s]]
              /\ \A i \in Rows : slots[i].owner = s =>
                   i \in Rows' /\ slots'[i].owner = s /\ slots'[i].pool = slots[i].pool
  PROVE  ClaimsAreBacked'
<1> SUFFICES ASSUME NEW s \in claims' \ revoked', s \notin target'[RunOf[s]]
             PROVE  \E i \in HeldBy({s})' : slots'[i].pool = PoolOf[s]
  BY DEF ClaimsAreBacked
<1>1. PICK i \in HeldBy({s}) : slots[i].pool = PoolOf[s]
  BY DEF ClaimsAreBacked
<1>2. i \in Rows' /\ slots'[i].owner = s /\ slots'[i].pool = PoolOf[s]
  BY <1>1 DEF HeldBy
<1> QED BY <1>2 DEF HeldBy

\* The rows stay, no claim is made, and no call about a claimed step returns.
LEMMA QuietBacked ==
  ASSUME ClaimsAreBacked, UNCHANGED slots, claims' \subseteq claims, revoked \subseteq revoked',
         \A s \in claims' : s \in target[RunOf[s]] => s \in target'[RunOf[s]]
  PROVE  ClaimsAreBacked'
BY BackedKept DEF Rows

LEMMA SameBacked ==
  ASSUME ClaimsAreBacked, UNCHANGED <<slots, target, claims, revoked>>
  PROVE  ClaimsAreBacked'
BY QuietBacked

\* A claim is refused: the step it was for is not claimed.
LEMMA RefusedBacked ==
  ASSUME TypeOK, ContextInv, ClaimsAreBacked, NEW r \in Runs, pc[r] \in ClaimLabels,
         target' = [target EXCEPT ![r] = {}], UNCHANGED <<slots, claims, revoked>>
  PROVE  ClaimsAreBacked'
<1>1. PICK u \in Steps : target[r] = {u} /\ u \notin claims
  BY DEF ContextInv, TargetsOK
<1>2. \A s \in claims' : s \in target[RunOf[s]] => s \in target'[RunOf[s]]
  BY <1>1, PoolsAssumption DEF TypeOK
<1> QED BY <1>2, QuietBacked

\* A free call returns, and an executor has forgotten the claims it was about.
LEMMA FreedBacked ==
  ASSUME TypeOK, ClaimsAreBacked, NEW a \in Actors, EndFree(a), UNCHANGED <<slots, revoked>>
  PROVE  ClaimsAreBacked'
<1>1. claims' \subseteq claims /\ \A s \in claims' : RunOf[s] = a => s \notin target[a]
  BY PoolsAssumption DEF EndFree, TypeOK
<1>2. \A s \in claims' : s \in target[RunOf[s]] => s \in target'[RunOf[s]]
  BY <1>1, PoolsAssumption DEF EndFree, TypeOK
<1> QED BY <1>1, <1>2, QuietBacked

\* A call begins: its actor was in none.
LEMMA BegunBacked ==
  ASSUME TypeOK, ContextInv, ClaimsAreBacked, NEW a \in Actors, NEW T, pc[a] = "idle",
         target' = [target EXCEPT ![a] = T], UNCHANGED <<slots, claims, revoked>>
  PROVE  ClaimsAreBacked'
<1>1. target[a] = {}
  BY DEF ContextInv, TargetsOK
<1>2. \A s \in claims' : s \in target[RunOf[s]] => s \in target'[RunOf[s]]
  BY <1>1, PoolsAssumption DEF TypeOK
<1> QED BY <1>2, QuietBacked

LEMMA AllocationBacked ==
  ASSUME TypeOK, ClaimsAreBacked, NEW k \in Pools, NEW n \in Nat, AllocateSlots(k, n),
         UNCHANGED <<target, claims, revoked>>
  PROVE  ClaimsAreBacked'
<1>1. \A s \in claims : s # None
  BY PoolsAssumption DEF TypeOK
<1> QED BY <1>1, Allocation, BackedKept

\* The row a step goes for is unowned and of its pool, or it has one already.
LEMMA GrantBacked ==
  ASSUME TypeOK, ClaimsAreBacked, NEW r \in Runs, NEW s \in Steps, ClaimGranted(r, s),
         RunOf[s] = r, target[r] = {s},
         \E i \in Rows' : slots'[i].owner = s /\ slots'[i].pool = PoolOf[s],
         \A i \in Rows : slots[i].owner # None =>
           i \in Rows' /\ slots'[i].owner = slots[i].owner /\ slots'[i].pool = slots[i].pool
  PROVE  ClaimsAreBacked'
<1> SUFFICES ASSUME NEW q \in claims' \ revoked', q \notin target'[RunOf[q]]
             PROVE  \E i \in HeldBy({q})' : slots'[i].pool = PoolOf[q]
  BY DEF ClaimsAreBacked
<1>1. CASE q = s
  BY <1>1 DEF HeldBy
<1>2. CASE q # s
  <2>1. q \in claims \ revoked /\ q # None /\ RunOf[q] \in Runs
    BY <1>2, PoolsAssumption DEF ClaimGranted, TypeOK
  <2>2. q \notin target[RunOf[q]]
    BY <1>2, <2>1 DEF ClaimGranted, TypeOK
  <2>3. PICK i \in HeldBy({q}) : slots[i].pool = PoolOf[q]
    BY <2>1, <2>2 DEF ClaimsAreBacked
  <2> QED BY <2>1, <2>3 DEF HeldBy
<1> QED BY <1>1, <1>2

-----------------------------------------------------------------------------
(* One step of anybody *)

LEMMA ClaimInductive ==
  ASSUME Isolated, TypeOK, ContextInv, RowInv, ClaimInv, [Next]_vars
  PROVE  ClaimInv'
<1> USE DEF ClaimInv
<1>1. ASSUME NEW k \in Pools, NEW n \in Limits, SetLimit(k, n) PROVE ClaimInv'
  <2>1. Outside(Operator)
    BY <1>1, GotoOutside DEF SetLimit
  <2>2. SelectedRowsLocked'
    BY <1>1, <2>1, OutsideLocked DEF SetLimit
  <2>3. ClaimsAreBacked'
    BY <1>1, AllocationBacked, PoolsAssumption DEF SetLimit, ctx, outer
  <2> QED BY <2>2, <2>3
<1>2. ASSUME NEW k \in Pools, DeleteLimit(k) PROVE ClaimInv'
  <2>1. Outside(Operator)
    BY <1>2 DEF DeleteLimit, At, proc, Outside
  <2>2. SelectedRowsLocked'
    BY <1>2, <2>1, OutsideLocked DEF DeleteLimit
  <2>3. ClaimsAreBacked'
    BY <1>2, AllocationBacked DEF DeleteLimit, proc, ctx, outer
  <2> QED BY <2>2, <2>3
<1>3. ASSUME NEW s \in Steps, Claim(s) PROVE ClaimInv'
  <2>1. RunOf[s] \in Actors
    BY PoolsAssumption
  <2>2. Outside(RunOf[s])
    BY <1>3, <2>1, GotoOutside DEF Claim
  <2>3. SelectedRowsLocked'
    BY <1>3, <2>1, <2>2, OutsideLocked DEF Claim, db
  <2>4. ClaimsAreBacked'
    BY <1>3, <2>1, BegunBacked DEF Claim, db, outer
  <2> QED BY <2>3, <2>4
<1>4. ASSUME NEW r \in Runs, InitDefault(r) PROVE ClaimInv'
  <2>1. Outside(r)
    BY <1>4, GotoOutside DEF InitDefault
  <2>2. SelectedRowsLocked'
    BY <1>4, <2>1, OutsideLocked DEF InitDefault
  <2>3. PICK s \in target[r] : IF config[r] = None THEN AllocateSlots(PoolOf[s], 0)
                               ELSE AllocateSlots(PoolOf[s], config[r])
    BY <1>4 DEF InitDefault
  <2>4. PoolOf[s] \in Pools /\ (config[r] # None => config[r] \in Nat)
    BY PoolsAssumption DEF TypeOK
  <2>5. ClaimsAreBacked'
    BY <1>4, <2>3, <2>4, AllocationBacked DEF InitDefault, ctx, outer
  <2> QED BY <2>2, <2>5
<1>5. ASSUME NEW r \in Runs, Resync(r) PROVE ClaimInv'
  <2>1. Outside(r) /\ SelectedRowsLocked'
    BY <1>5, GotoOutside, OutsideLocked DEF Resync, db, outer, At
  <2>2. ClaimsAreBacked'
    BY <1>5, SameBacked DEF Resync, db, outer
  <2> QED BY <2>1, <2>2
<1>6. ASSUME NEW r \in Runs, Unlimited(r) PROVE ClaimInv'
  <2>1. Outside(r) /\ SelectedRowsLocked'
    BY <1>6, GotoOutside, OutsideLocked DEF Unlimited, db
  <2>2. ClaimsAreBacked'
    BY <1>6, RefusedBacked DEF Unlimited, ClaimLabels, db, outer
  <2> QED BY <2>1, <2>2
<1>7. ASSUME NEW r \in Runs, HasPendingStep(r) PROVE ClaimInv'
  <2>1. Outside(r) /\ SelectedRowsLocked'
    BY <1>7, GotoOutside, OutsideLocked DEF HasPendingStep, db, ctx, outer, At
  <2>2. ClaimsAreBacked'
    BY <1>7, SameBacked DEF HasPendingStep, db, ctx, outer
  <2> QED BY <2>1, <2>2
<1>8. ASSUME NEW r \in Runs, CountAssigned(r) PROVE ClaimInv'
  <2>1. Outside(r) /\ SelectedRowsLocked'
    BY <1>8, GotoOutside, OutsideLocked DEF CountAssigned, ctx, outer, At
  <2>2. ClaimsAreBacked'
    BY <1>8, SameBacked DEF CountAssigned, ctx, outer
  <2> QED BY <2>1, <2>2
<1>9. ASSUME NEW r \in Runs, CountSlots(r) PROVE ClaimInv'
  <2>1. Outside(r) /\ SelectedRowsLocked'
    BY <1>9, GotoOutside, OutsideLocked DEF CountSlots, ctx, outer, At
  <2>2. ClaimsAreBacked'
    BY <1>9, SameBacked DEF CountSlots, ctx, outer
  <2> QED BY <2>1, <2>2
<1>10. ASSUME NEW r \in Runs, AddPendingStep(r) PROVE ClaimInv'
  <2>1. Outside(r) /\ SelectedRowsLocked'
    BY <1>10, GotoOutside, OutsideLocked DEF AddPendingStep, ctx, outer, At
  <2>2. ClaimsAreBacked'
    BY <1>10, SameBacked DEF AddPendingStep, ctx, outer
  <2> QED BY <2>1, <2>2
<1>11. ASSUME NEW r \in Runs, CheckPending(r) PROVE ClaimInv'
  <2>1. Outside(r) /\ SelectedRowsLocked'
    BY <1>11, GotoOutside, OutsideLocked DEF CheckPending, ClaimBlocked, At
  <2>2. CASE UNCHANGED <<target, claims, revoked>>
    BY <1>11, <2>1, <2>2, SameBacked DEF CheckPending
  <2>3. CASE ClaimBlocked(r)
    BY <1>11, <2>1, <2>3, RefusedBacked DEF CheckPending, ClaimBlocked, At, ClaimLabels
  <2> QED BY <1>11, <2>1, <2>2, <2>3 DEF CheckPending
<1>12. ASSUME NEW r \in Runs, CheckSlot(r) PROVE ClaimInv'
  <2>1. PICK s \in target[r] : IF \E i \in HeldBy({s}) : slots[i].pool = PoolOf[s]
                               THEN ClaimGranted(r, s)
                               ELSE Goto(r, "select_slot") /\ UNCHANGED <<target, claims, revoked>>
    BY <1>12 DEF CheckSlot
  <2>2. Outside(r) /\ SelectedRowsLocked'
    BY <1>12, <2>1, GotoOutside, OutsideLocked DEF CheckSlot, ClaimGranted, At
  <2>3. UNCHANGED slots
    BY <1>12 DEF CheckSlot
  <2>4. CASE UNCHANGED <<target, claims, revoked>>
    BY <2>2, <2>3, <2>4, SameBacked
  <2>5. CASE ClaimGranted(r, s) /\ \E i \in HeldBy({s}) : slots[i].pool = PoolOf[s]
    <3>1. s \in Steps /\ RunOf[s] = r /\ target[r] = {s}
      BY <1>12 DEF CheckSlot, At, ContextInv, TargetsOK, ClaimLabels, StepsOf
    <3>2. \E i \in Rows' : slots'[i].owner = s /\ slots'[i].pool = PoolOf[s]
      BY <2>3, <2>5 DEF HeldBy, Rows
    <3> QED BY <2>2, <2>3, <2>5, <3>1, <3>2, GrantBacked DEF Rows
  <2> QED BY <2>1, <2>2, <2>4, <2>5
<1>13. ASSUME NEW r \in Runs, SelectSlot(r) PROVE ClaimInv'
  <2>1. PICK s \in target[r] :
          IF Free(PoolOf[s]) = {} THEN ClaimBlocked(r) /\ UNCHANGED rows
          ELSE /\ \E i \in Free(PoolOf[s]) : rows' = [rows EXCEPT ![r] = {i}]
               /\ Goto(r, "take_slot") /\ Hold(r, "claim")
               /\ UNCHANGED <<target, claims, revoked>>
    BY <1>13 DEF SelectSlot
  <2>2. lock \in {None, r} /\ UNCHANGED slots /\ pc[r] = "select_slot" /\ UNCHANGED revoked
    BY <1>13 DEF SelectSlot, At, ClaimBlocked
  <2>3. CASE ClaimBlocked(r) /\ UNCHANGED rows
    <3>1. SelectedRowsLocked'
      BY <2>2, <2>3, GotoOutside, OutsideLocked DEF ClaimBlocked
    <3> QED BY <2>2, <2>3, <3>1, RefusedBacked DEF ClaimBlocked, ClaimLabels
  <2>4. ASSUME NEW i \in Free(PoolOf[s]), rows' = [rows EXCEPT ![r] = {i}],
               Goto(r, "take_slot"), Hold(r, "claim"), UNCHANGED <<target, claims, revoked>>
        PROVE  ClaimInv'
    <3>1. lock' = r
      BY <2>4 DEF Hold, Isolated
    <3>2. \A b \in Actors : /\ pc'[b] = IF b = r THEN "take_slot" ELSE pc[b]
                            /\ rows'[b] = IF b = r THEN {i} ELSE rows[b]
      BY <2>4 DEF TypeOK, Goto
    <3>3. \A b \in Actors \ {r} : lock # b
      BY <2>2, PoolsAssumption
    <3>4. i \in Rows /\ slots[i].owner = None
      BY DEF Free, Live
    <3>5. /\ \A q \in Runs : pc'[q] = "take_slot" => q = r
          /\ \A b \in Actors : pc'[b] \notin {"select_held", "free_slots"}
      BY <3>2, <3>3 DEF SelectedRowsLocked
    <3>6. SelectedRowsLocked'
      BY <2>2, <3>1, <3>2, <3>4, <3>5 DEF SelectedRowsLocked, Rows
    <3> QED BY <2>2, <2>4, <3>6, SameBacked
  <2> QED BY <2>1, <2>3, <2>4
<1>14. ASSUME NEW r \in Runs, TakeSlot(r) PROVE ClaimInv'
  <2>1. PICK s \in target[r] :
          IF rows[r] \cap Rows = {} THEN ClaimBlocked(r) /\ UNCHANGED slots
          ELSE /\ slots' = [i \in SlotIds |->
                    IF i \in rows[r] \cap Rows THEN WithOwner(slots[i], s) ELSE slots[i]]
               /\ ClaimGranted(r, s)
    BY <1>14 DEF TakeSlot, Updated
  <2>2. SelectedRowsLocked'
    BY <1>14, <2>1, GotoOutside, OutsideLocked DEF TakeSlot, Updated, ClaimBlocked, ClaimGranted, At
  <2>3. PICK i \in Rows : /\ rows[r] = {i} /\ slots[i].owner = None
                          /\ \A u \in target[r] : slots[i].pool = PoolOf[u]
    BY <1>14 DEF TakeSlot, Updated, At, SelectedRowsLocked, RowInv, OwnersOK
  <2>4. s \in Steps /\ RunOf[s] = r /\ target[r] = {s}
    BY <1>14 DEF TakeSlot, Updated, At, ContextInv, TargetsOK, ClaimLabels, StepsOf
  <2>5. slots[i] \in SlotRow /\ WithOwner(slots[i], s) \in SlotRow
        /\ WithOwner(slots[i], s).owner = s /\ WithOwner(slots[i], s).pool = slots[i].pool
    BY <2>4, RowsTyped, RowUpdates
  <2>6. /\ i \in Rows' /\ slots'[i].owner = s /\ slots'[i].pool = PoolOf[s]
        /\ \A j \in Rows \ {i} : j \in Rows' /\ slots'[j] = slots[j]
    BY <2>1, <2>3, <2>5, PoolsAssumption DEF Rows
  <2>7. ClaimGranted(r, s)
    BY <2>1, <2>3
  <2> QED BY <2>2, <2>3, <2>4, <2>6, <2>7, GrantBacked
<1>15. ASSUME NEW a \in Actors, DeletePruned(a) PROVE ClaimInv'
  <2>1. lock \in {None, a} /\ lock' = a /\ UNCHANGED <<target, rows>>
    BY <1>15 DEF DeletePruned, At, Hold, Isolated
  <2>2. \A b \in Actors : pc'[b] = IF b = a THEN "select_held" ELSE pc[b]
    BY <1>15 DEF DeletePruned, TypeOK, Goto
  <2>3. \A b \in Actors \ {a} : lock # b
    BY <2>1, PoolsAssumption
  <2>4. /\ \A q \in Runs : pc'[q] # "take_slot"
        /\ \A b \in Actors : pc'[b] # "free_slots" /\ (pc'[b] = "select_held" => b = a)
    BY <2>2, <2>3 DEF SelectedRowsLocked
  <2>5. SelectedRowsLocked'
    BY <2>1, <2>4 DEF SelectedRowsLocked
  <2>6. \A s \in claims' \ revoked' : s \in claims \ revoked /\ (s \in target[a] => s \in target'[RunOf[s]])
    BY <1>15, <2>1 DEF DeletePruned, ctx, Revoke, ContextInv, TargetsOK, StepsOf
  <2>7. \A i \in Rows : slots[i].owner \notin target[a] => i \in Rows' /\ slots'[i] = slots[i]
    BY <1>15 DEF DeletePruned, HeldBy, Rows
  <2>8. ClaimsAreBacked'
    BY <2>1, <2>6, <2>7, BackedKept
  <2> QED BY <2>5, <2>8
<1>16. ASSUME NEW a \in Actors, SelectHeld(a) PROVE ClaimInv'
  <2>1. lock \in {None, a} /\ UNCHANGED <<slots, target, claims, revoked>>
    BY <1>16 DEF SelectHeld, At, ctx, outer
  <2>2. CASE HeldBy(target[a]) = {}
    BY <1>16, <2>1, <2>2, GotoOutside, OutsideLocked, SameBacked DEF SelectHeld
  <2>3. CASE Goto(a, "free_slots") /\ Hold(a, "free")
    <3>1. lock' = a
      BY <2>3 DEF Hold, Isolated
    <3>2. \A b \in Actors : pc'[b] = IF b = a THEN "free_slots" ELSE pc[b]
      BY <2>3 DEF TypeOK, Goto
    <3>3. rows'[a] = HeldBy(target[a])
      BY <1>16 DEF SelectHeld, TypeOK
    <3>4. \A b \in Actors \ {a} : lock # b
      BY <2>1, PoolsAssumption
    <3>5. /\ \A q \in Runs : pc'[q] # "take_slot"
          /\ \A b \in Actors : pc'[b] \in {"select_held", "free_slots"} => b = a
      BY <3>2, <3>4 DEF SelectedRowsLocked
    <3>6. SelectedRowsLocked'
      BY <2>1, <3>1, <3>3, <3>5 DEF SelectedRowsLocked, HeldBy, Rows
    <3> QED BY <2>1, <3>6, SameBacked
  <2> QED BY <1>16, <2>2, <2>3 DEF SelectHeld
<1>17. ASSUME NEW a \in Actors, FreeSlots(a) PROVE ClaimInv'
  <2>1. lock \in {None, a} /\ rows[a] = HeldBy(target[a]) /\ UNCHANGED target
    BY <1>17 DEF FreeSlots, At, SelectedRowsLocked
  <2>2. SelectedRowsLocked'
    BY <1>17, <2>1, GotoOutside, OutsideLocked DEF FreeSlots
  <2>3. \A s \in claims' \ revoked' : s \in claims \ revoked /\ (s \in target[a] => s \in target'[RunOf[s]])
    BY <1>17, <2>1 DEF FreeSlots, ctx, Revoke, ContextInv, TargetsOK, StepsOf
  <2>4. \A i \in Rows : slots[i].owner \notin target[a] => i \in Rows' /\ slots'[i] = slots[i]
    BY <1>17, <2>1 DEF FreeSlots, HeldBy, Rows
  <2>5. ClaimsAreBacked'
    BY <2>1, <2>3, <2>4, BackedKept
  <2> QED BY <2>2, <2>5
<1>18. ASSUME NEW a \in Actors, SelectPending(a) PROVE ClaimInv'
  <2>1. Outside(a) /\ SelectedRowsLocked'
    BY <1>18, GotoOutside, OutsideLocked DEF SelectPending, EndFree, InFree, At
  <2>2. UNCHANGED <<slots, revoked>> /\ (EndFree(a) \/ UNCHANGED <<target, claims>>)
    BY <1>18 DEF SelectPending, InFree, outer
  <2> QED BY <2>1, <2>2, FreedBacked, SameBacked
<1>19. ASSUME NEW a \in Actors, DeletePending(a) PROVE ClaimInv'
  <2>1. Outside(a) /\ SelectedRowsLocked'
    BY <1>19, GotoOutside, OutsideLocked DEF DeletePending, EndFree, InFree, At
  <2>2. UNCHANGED <<slots, revoked>> /\ (EndFree(a) \/ UNCHANGED <<target, claims>>)
    BY <1>19 DEF DeletePending, InFree, outer
  <2> QED BY <2>1, <2>2, FreedBacked, SameBacked
<1>20. ASSUME NEW a \in Actors, SelectQueued(a) PROVE ClaimInv'
  <2>1. Outside(a) /\ SelectedRowsLocked'
    BY <1>20, GotoOutside, OutsideLocked DEF SelectQueued, EndFree, InFree, At
  <2>2. UNCHANGED <<slots, revoked>> /\ (EndFree(a) \/ UNCHANGED <<target, claims>>)
    BY <1>20 DEF SelectQueued, InFree, outer
  <2> QED BY <2>1, <2>2, FreedBacked, SameBacked
<1>21. ASSUME NEW a \in Actors, SetAssigned(a) PROVE ClaimInv'
  <2>1. Outside(a) /\ SelectedRowsLocked'
    BY <1>21, GotoOutside, OutsideLocked DEF SetAssigned, EndFree, InFree, At
  <2>2. UNCHANGED <<slots, revoked>> /\ (EndFree(a) \/ UNCHANGED <<target, claims>>)
    BY <1>21 DEF SetAssigned, InFree, outer
  <2> QED BY <2>1, <2>2, FreedBacked, SameBacked
<1>22. ASSUME NEW s \in Steps, Launch(s) \/ StepEnds(s) \/ MarkUnknownState(s) \/ ReplayFails(s)
       PROVE  ClaimInv'
  BY <1>22, SameLocked, SameBacked DEF Launch, StepEnds, MarkUnknownState, ReplayFails, db, proc, ctx, outer
<1>23. ASSUME NEW s \in Steps, HandleEvent(s) PROVE ClaimInv'
  <2>1. RunOf[s] \in Actors /\ UNCHANGED <<lock, slots, rows, claims, revoked>>
    BY <1>23, PoolsAssumption DEF HandleEvent, db
  <2>2. CASE UNCHANGED <<pc, target>>
    BY <2>1, <2>2, SameLocked, SameBacked
  <2>3. CASE BeginFree(RunOf[s], {s})
    BY <2>1, <2>3, GotoOutside, OutsideLocked, BegunBacked DEF BeginFree
  <2> QED BY <1>23, <2>2, <2>3 DEF HandleEvent
<1>24. ASSUME NEW r \in Runs, LeaveContext(r) \/ EndRun(r) PROVE ClaimInv'
  BY <1>24, SameLocked, SameBacked DEF LeaveContext, EndRun, db, proc, ctx, outer
<1>25. ASSUME NEW r \in Runs, ExitFree(r) PROVE ClaimInv'
  <2>1. PICK s \in Steps : BeginFree(r, {s})
    BY <1>25 DEF ExitFree, StepsOf
  <2> QED BY <1>25, <2>1, GotoOutside, OutsideLocked, BegunBacked DEF ExitFree, BeginFree, db, ctx, outer
<1>26. ASSUME NEW r \in Runs, ExitDone(r) \/ Resume(r) PROVE ClaimInv'
  <2>1. Outside(r) /\ SelectedRowsLocked'
    BY <1>26, GotoOutside, OutsideLocked DEF ExitDone, Resume, db
  <2>2. ClaimsAreBacked'
    BY <1>26, SameBacked DEF ExitDone, Resume, db, ctx, outer
  <2> QED BY <2>1, <2>2
<1>27. ASSUME NEW a \in Actors, Crash(a) PROVE ClaimInv'
  <2>1. Outside(a) /\ SelectedRowsLocked'
    BY <1>27, GotoOutside, OutsideLocked DEF Crash, db
  <2>2. claims' \subseteq claims /\ \A s \in claims' : RunOf[s] # a
    BY <1>27, PoolsAssumption DEF Crash, StepsOf, TypeOK
  <2>3. \A s \in claims' : s \in target[RunOf[s]] => s \in target'[RunOf[s]]
    BY <1>27, <2>2, PoolsAssumption DEF Crash, TypeOK
  <2>4. ClaimsAreBacked'
    BY <1>27, <2>2, <2>3, QuietBacked DEF Crash, db, outer
  <2> QED BY <2>1, <2>4
<1>28. ASSUME NEW r \in Runs, DaemonFree(r) PROVE ClaimInv'
  BY <1>28, GotoOutside, OutsideLocked, BegunBacked DEF DaemonFree, BeginFree, db, ctx, outer
<1>29. ASSUME NEW r \in Runs, OperatorFree(r) PROVE ClaimInv'
  BY <1>29, GotoOutside, OutsideLocked, BegunBacked DEF OperatorFree, BeginFree, db, ctx, outer
<1>30. CASE UNCHANGED vars
  BY <1>30, SameLocked, SameBacked DEF vars, db, proc, ctx, outer
<1> QED
  BY <1>1, <1>2, <1>3, <1>4, <1>5, <1>6, <1>7, <1>8, <1>9, <1>10, <1>11, <1>12, <1>13, <1>14, <1>15, <1>16, <1>17, <1>18, <1>19, <1>20, <1>21, <1>22, <1>23, <1>24, <1>25, <1>26, <1>27, <1>28, <1>29, <1>30
  DEF Next, SystemNext, OperatorStep, FreeStep, RunStep, ClaimStep, StepStep

\* The slot rows are a semaphore wherever the claim and free blocks are
\* transactions: a step its executor believes to be claimed owns a row of its
\* pool until that executor frees it or somebody else takes the row away.
THEOREM ClaimsStayBacked ==
  ASSUME Isolated
  PROVE  Spec => []ClaimsAreBacked
<1>1. Init => ContextInv /\ RowInv /\ ClaimInv
  BY PoolsAssumption DEF Init, ContextInv, TargetsOK, ClaimsInUse, ClaimLabels, RowInv,
     OwnersOK, OneSlotPerStep, Rows, ClaimInv, SelectedRowsLocked, ClaimsAreBacked
<1>2. ContextInv /\ RowInv /\ ClaimInv /\ TypeOK /\ TypeOK' /\ [Next]_vars
        => (ContextInv /\ RowInv /\ ClaimInv)'
  BY ContextInductive, RowInductive, ClaimInductive
<1>3. ClaimInv => ClaimsAreBacked
  BY DEF ClaimInv
<1> QED BY <1>1, <1>2, <1>3, TypeCorrect, PTL DEF Spec

-----------------------------------------------------------------------------
(* The slot tables: what each statement does to the rows *)

\* The rows that count against a limit stay what they are.
SameLive == \A k \in Pools : Live(k)' = Live(k)

\* Allocating gives pool k exactly n live rows and leaves the other pools alone.
LEMMA AllocationCounts ==
  ASSUME TypeOK, NEW k \in Pools, NEW n \in Nat, AllocateSlots(k, n)
  PROVE  /\ Cardinality(Live(k)') = n
         /\ \A j \in Pools \ {k} : Live(j)' = Live(j)
<1>1. IsFiniteSet(Live(k)) /\ Live(k) \subseteq Rows /\ Rows \subseteq SlotIds
  BY FS_Subset, PoolsAssumption DEF Live, Rows
<1>2. CASE Prune(k, n)
  <2>1. PICK out \in SUBSET Live(k) :
          /\ Cardinality(Live(k)) = n + Cardinality(out)
          /\ slots' = [i \in SlotIds |->
               IF i \in Rows /\ (i \in out \/ slots[i].deleted) /\ slots[i].owner = None THEN None
               ELSE IF i \in out THEN Pruned(slots[i]) ELSE slots[i]]
    BY <1>2 DEF Prune
  <2>2. \A i \in Rows : /\ Pruned(slots[i]) # None /\ Pruned(slots[i]).deleted
                        /\ Pruned(slots[i]).pool = slots[i].pool
    BY RowsTyped, RowUpdates, PoolsAssumption DEF SlotRow, Pruned
  <2>3. ASSUME NEW j \in Pools, NEW i \in SlotIds
        PROVE  i \in Live(j)' <=> i \in Live(j) \ out
    <3>1. CASE i \in out
      BY <1>1, <2>1, <2>2, <3>1 DEF Live, Rows
    <3>2. CASE i \notin out
      BY <1>1, <2>1, <3>2 DEF Live, Rows
    <3> QED BY <3>1, <3>2
  <2>4. \A j \in Pools : Live(j)' = Live(j) \ out
    BY <2>3 DEF Live, Rows
  <2>5. \A j \in Pools \ {k} : Live(j) \ out = Live(j)
    BY <2>1 DEF Live
  <2>6. Cardinality(Live(k) \ out) = Cardinality(Live(k)) - Cardinality(out)
    <3>1. Live(k) \cap out = out
      OBVIOUS
    <3> HIDE DEF Live
    <3> QED BY <1>1, <3>1, FS_Difference
  <2>7. Cardinality(out) \in Nat
    BY <1>1, SlotCount
  <2>8. Cardinality(Live(k) \ out) = n
    BY <2>1, <2>6, <2>7
  <2>9. Live(k)' = Live(k) \ out
    BY <2>4
  <2> QED BY <2>4, <2>5, <2>8, <2>9
<1>3. CASE Extend(k, n)
  <2>1. PICK new \in SUBSET FreshIds :
          /\ n = Cardinality(Live(k)) + Cardinality(new)
          /\ slots' = [i \in SlotIds |->
               IF i \in new THEN [pool |-> k, owner |-> None, deleted |-> FALSE] ELSE slots[i]]
    BY <1>3 DEF Extend
  <2>2. new \subseteq SlotIds /\ new \cap Rows = {}
    BY DEF FreshIds
  <2>3. [pool |-> k, owner |-> None, deleted |-> FALSE] # None
    BY NewRow, PoolsAssumption
  <2>4. Live(k)' = Live(k) \cup new
    BY <2>1, <2>2, <2>3 DEF Live, Rows
  <2>5. \A j \in Pools \ {k} : Live(j)' = Live(j)
    BY <2>1, <2>2 DEF Live, Rows
  <2>6. Cardinality(Live(k) \cup new) = Cardinality(Live(k)) + Cardinality(new)
    <3>1. Live(k) \cap new = {} /\ IsFiniteSet(new)
      BY <1>1, <2>2, FS_Subset, PoolsAssumption
    <3>2. Cardinality(Live(k)) \in Nat /\ Cardinality(new) \in Nat
      BY <1>1, <2>2, SlotCount
    <3>3. /\ Cardinality(Live(k) \cup new)
               = Cardinality(Live(k)) + Cardinality(new) - Cardinality(Live(k) \cap new)
          /\ Cardinality(Live(k) \cap new) = 0
      BY <1>1, <3>1, FS_Union, FS_EmptySet
    <3> QED BY <3>2, <3>3
  <2> QED BY <2>1, <2>4, <2>5, <2>6
<1> QED BY <1>2, <1>3 DEF AllocateSlots

\* Allocating prunes a row that is held, or sweeps it away if nobody holds it.
LEMMA AllocationSweeps ==
  ASSUME TypeOK, NEW k \in Pools, NEW n \in Nat, AllocateSlots(k, n), PrunedRowsAreHeld
  PROVE  PrunedRowsAreHeld'
<1>1. CASE Prune(k, n)
  <2>1. PICK out \in SUBSET Live(k) :
          slots' = [i \in SlotIds |->
            IF i \in Rows /\ (i \in out \/ slots[i].deleted) /\ slots[i].owner = None THEN None
            ELSE IF i \in out THEN Pruned(slots[i]) ELSE slots[i]]
    BY <1>1 DEF Prune
  <2>2. \A i \in Rows : Pruned(slots[i]).owner = slots[i].owner
    BY RowUpdates, RowsTyped
  <2>3. out \subseteq Rows
    BY DEF Live
  <2>4. ASSUME NEW i \in Rows', slots'[i].deleted
        PROVE  slots'[i].owner # None
    <3>1. i \in SlotIds /\ i \in Rows
      BY <2>1, <2>3 DEF Rows
    <3>2. CASE i \in out
      BY <2>1, <2>2, <3>1, <3>2 DEF Rows
    <3>3. CASE i \notin out
      BY <2>1, <2>4, <3>1, <3>3 DEF Rows
    <3> QED BY <3>2, <3>3
  <2> QED BY <2>4 DEF PrunedRowsAreHeld
<1>2. CASE Extend(k, n)
  <2>1. PICK new \in SUBSET FreshIds :
          slots' = [i \in SlotIds |->
            IF i \in new THEN [pool |-> k, owner |-> None, deleted |-> FALSE] ELSE slots[i]]
    BY <1>2 DEF Extend
  <2>2. ASSUME NEW i \in Rows', slots'[i].deleted
        PROVE  i \in Rows /\ slots'[i] = slots[i]
    <3>1. i \in SlotIds /\ (i \in new => slots'[i].deleted = FALSE)
      BY <2>1 DEF Rows
    <3>2. i \notin new
      BY <2>2, <3>1
    <3> QED BY <2>1, <3>1, <3>2 DEF Rows
  <2> QED BY <2>2 DEF PrunedRowsAreHeld
<1> QED BY <1>1, <1>2 DEF AllocateSlots

\* Who goes where: one actor moves, and only it enters or leaves a free call.
OnlyMoves(a) ==
  \A b \in Actors \ {a} : pc'[b] = pc[b] /\ target'[b] = target[b] /\ rows'[b] = rows[b]

FreesRows(a) == pc[a] \in {"select_held", "free_slots"}

\* A limit is set with as many slots, or deleted with all of them.
Allocates(a) ==
  /\ lock = None /\ OnlyMoves(a) /\ ~FreesRows(a)'
  /\ \E k \in Pools, n \in Nat : \E row \in LimitRow \cup {None} :
       /\ AllocateSlots(k, n)
       /\ limits' = [limits EXCEPT ![k] = row]
       /\ n = IF row = None THEN 0 ELSE row.limit

\* The other statements that a call of actor a consists of.
LeavesTables(a) ==
  /\ UNCHANGED <<limits, slots>>
  /\ \/ OnlyMoves(a) /\ ~FreesRows(a)'
     \/ UNCHANGED <<pc, target, rows>>

LEMMA GotoMoves ==
  ASSUME TypeOK, NEW a \in Actors, NEW to, Goto(a, to), to \notin {"select_held", "free_slots"},
         UNCHANGED target \/ (\E T : target' = [target EXCEPT ![a] = T]),
         UNCHANGED rows \/ (\E T : rows' = [rows EXCEPT ![a] = T])
  PROVE  OnlyMoves(a) /\ ~FreesRows(a)'
BY DEF TypeOK, Goto, OnlyMoves, FreesRows

LEMMA TableSteps ==
  ASSUME TypeOK, [Next]_vars
  PROVE  \E a \in Actors :
           \/ Allocates(a) \/ LeavesTables(a)
           \/ DeletePruned(a) \/ SelectHeld(a) \/ FreeSlots(a)
           \/ a \in Runs /\ TakeSlot(a)
<1> DEFINE Named(a) == \/ Allocates(a) \/ LeavesTables(a)
                       \/ DeletePruned(a) \/ SelectHeld(a) \/ FreeSlots(a)
                       \/ a \in Runs /\ TakeSlot(a)
<1>1. ASSUME NEW k \in Pools, NEW n \in Limits, SetLimit(k, n) PROVE Named(Operator)
  <2>1. PICK to \in {"idle", "assign"} : Goto(Operator, to)
    BY <1>1 DEF SetLimit
  <2>2. OnlyMoves(Operator) /\ ~FreesRows(Operator)'
    BY <1>1, <2>1, GotoMoves DEF SetLimit
  <2>3. n \in Nat /\ [limit |-> n, from_default |-> FALSE] \in LimitRow
    BY PoolsAssumption DEF LimitRow
  <2> DEFINE row == [limit |-> n, from_default |-> FALSE]
  <2>4. row # None /\ row.limit = n
    BY <2>3, PoolsAssumption
  <2>5. lock = None /\ limits' = [limits EXCEPT ![k] = row] /\ AllocateSlots(k, n)
    BY <1>1 DEF SetLimit
  <2> HIDE DEF row
  <2> QED BY <2>2, <2>3, <2>4, <2>5 DEF Allocates, row
<1>2. ASSUME NEW k \in Pools, DeleteLimit(k) PROVE Named(Operator)
  BY <1>2 DEF DeleteLimit, At, proc, Allocates, OnlyMoves, FreesRows
<1>3. ASSUME NEW r \in Runs, InitDefault(r) PROVE Named(r)
  <2>1. OnlyMoves(r) /\ ~FreesRows(r)'
    BY <1>3, GotoMoves DEF InitDefault
  <2>2. PICK s \in target[r] :
          IF config[r] = None
          THEN limits' = [limits EXCEPT ![PoolOf[s]] = None] /\ AllocateSlots(PoolOf[s], 0)
          ELSE /\ limits' = [limits EXCEPT ![PoolOf[s]] =
                    IF @ = None THEN [limit |-> config[r], from_default |-> TRUE]
                    ELSE WithLimit(@, config[r])]
               /\ AllocateSlots(PoolOf[s], config[r])
    BY <1>3 DEF InitDefault
  <2>3. PoolOf[s] \in Pools /\ (config[r] # None => config[r] \in Nat)
    BY PoolsAssumption DEF TypeOK
  <2>4. CASE config[r] = None
    BY <1>3, <2>1, <2>2, <2>3, <2>4 DEF InitDefault, Allocates
  <2>5. CASE config[r] # None
    <3> DEFINE row == IF limits[PoolOf[s]] = None
                      THEN [limit |-> config[r], from_default |-> TRUE]
                      ELSE WithLimit(limits[PoolOf[s]], config[r])
    <3>1. row \in LimitRow /\ row.limit = config[r]
      BY <2>3, <2>5 DEF LimitRow, WithLimit, TypeOK
    <3>2. row # None
      BY <3>1, PoolsAssumption
    <3>3. limits' = [limits EXCEPT ![PoolOf[s]] = row] /\ AllocateSlots(PoolOf[s], config[r])
      BY <2>2, <2>5
    <3> HIDE DEF row
    <3> QED BY <1>3, <2>1, <2>3, <2>5, <3>1, <3>2, <3>3 DEF InitDefault, Allocates
  <2> QED BY <2>4, <2>5
<1>4. ASSUME NEW r \in Runs, ClaimStep(r) PROVE Named(r)
  <2>1. CASE InitDefault(r)
    BY <1>3, <2>1
  <2>2. CASE TakeSlot(r)
    BY <2>2
  <2>3. CASE Resync(r) \/ Unlimited(r) \/ HasPendingStep(r) \/ CountAssigned(r) \/ CountSlots(r)
             \/ AddPendingStep(r)
    <3>1. PICK to \in {"idle", "unlimited", "has_pending", "check_pending", "count_assigned",
                       "count_slots", "add_assigned", "add_queued"} : Goto(r, to)
      BY <2>3 DEF Resync, Unlimited, HasPendingStep, CountAssigned, CountSlots, AddPendingStep
    <3>2. UNCHANGED rows /\ (UNCHANGED target \/ \E T : target' = [target EXCEPT ![r] = T])
      BY <2>3 DEF Resync, Unlimited, HasPendingStep, CountAssigned, CountSlots, AddPendingStep
    <3>3. OnlyMoves(r) /\ ~FreesRows(r)'
      BY <3>1, <3>2, GotoMoves
    <3>4. UNCHANGED <<limits, slots>>
      BY <2>3 DEF Resync, Unlimited, HasPendingStep, CountAssigned, CountSlots, AddPendingStep, db
    <3> QED BY <3>3, <3>4 DEF LeavesTables
  <2>4. CASE CheckPending(r) \/ CheckSlot(r) \/ SelectSlot(r)
    <3>1. PICK to \in {"idle", "check_slot", "select_slot", "take_slot"} : Goto(r, to)
      BY <2>4 DEF CheckPending, CheckSlot, SelectSlot, ClaimBlocked, ClaimGranted
    <3>2. /\ UNCHANGED rows \/ \E T : rows' = [rows EXCEPT ![r] = T]
          /\ UNCHANGED target \/ \E T : target' = [target EXCEPT ![r] = T]
      BY <2>4 DEF CheckPending, CheckSlot, SelectSlot, ClaimBlocked, ClaimGranted
    <3>3. OnlyMoves(r) /\ ~FreesRows(r)'
      BY <3>1, <3>2, GotoMoves
    <3>4. UNCHANGED <<limits, slots>>
      BY <2>4 DEF CheckPending, CheckSlot, SelectSlot
    <3> QED BY <3>3, <3>4 DEF LeavesTables
  <2> QED BY <1>4, <2>1, <2>2, <2>3, <2>4 DEF ClaimStep
<1>5. ASSUME NEW a \in Actors, FreeStep(a) PROVE Named(a)
  <2>1. CASE DeletePruned(a) \/ SelectHeld(a) \/ FreeSlots(a)
    BY <2>1
  <2>2. CASE SelectPending(a) \/ DeletePending(a) \/ SelectQueued(a) \/ SetAssigned(a)
    <3>1. PICK to \in {"idle", "delete_pending", "assign", "set_assigned"} : Goto(a, to)
      BY <2>2 DEF SelectPending, DeletePending, SelectQueued, SetAssigned, EndFree, InFree
    <3>2. UNCHANGED rows /\ (UNCHANGED target \/ \E T : target' = [target EXCEPT ![a] = T])
      BY <2>2 DEF SelectPending, DeletePending, SelectQueued, SetAssigned, EndFree, InFree
    <3>3. OnlyMoves(a) /\ ~FreesRows(a)'
      BY <3>1, <3>2, GotoMoves
    <3>4. UNCHANGED <<limits, slots>>
      BY <2>2 DEF SelectPending, DeletePending, SelectQueued, SetAssigned
    <3> QED BY <3>3, <3>4 DEF LeavesTables
  <2> QED BY <1>5, <2>1, <2>2 DEF FreeStep
<1>6. ASSUME NEW s \in Steps, Claim(s) PROVE Named(RunOf[s]) /\ RunOf[s] \in Actors
  <2>1. RunOf[s] \in Actors /\ UNCHANGED <<limits, slots, rows>>
    BY <1>6, PoolsAssumption DEF Claim, db
  <2>2. PICK to \in {"init_default", "unlimited", "has_pending"} : Goto(RunOf[s], to)
    BY <1>6 DEF Claim
  <2>3. \E T : target' = [target EXCEPT ![RunOf[s]] = T]
    BY <1>6 DEF Claim
  <2>4. OnlyMoves(RunOf[s]) /\ ~FreesRows(RunOf[s])'
    BY <2>1, <2>2, <2>3, GotoMoves
  <2> QED BY <2>1, <2>4 DEF LeavesTables
<1>7. ASSUME NEW s \in Steps, Launch(s) \/ StepEnds(s) \/ MarkUnknownState(s) \/ ReplayFails(s)
      PROVE  Named(Daemon)
  BY <1>7 DEF Launch, StepEnds, MarkUnknownState, ReplayFails, db, proc, LeavesTables
<1>8. ASSUME NEW s \in Steps, HandleEvent(s) PROVE Named(RunOf[s]) /\ RunOf[s] \in Actors
  <2>1. RunOf[s] \in Actors /\ UNCHANGED <<limits, slots, rows>>
    BY <1>8, PoolsAssumption DEF HandleEvent, db
  <2>2. CASE UNCHANGED <<pc, target>>
    BY <2>1, <2>2 DEF LeavesTables
  <2>3. CASE BeginFree(RunOf[s], {s})
    <3>1. OnlyMoves(RunOf[s]) /\ ~FreesRows(RunOf[s])'
      BY <2>1, <2>3, GotoMoves DEF BeginFree
    <3> QED BY <2>1, <3>1 DEF LeavesTables
  <2> QED BY <1>8, <2>1, <2>2, <2>3 DEF HandleEvent
<1>9. ASSUME NEW r \in Runs, LeaveContext(r) \/ EndRun(r) PROVE Named(r)
  BY <1>9 DEF LeaveContext, EndRun, db, proc, LeavesTables
<1>10. ASSUME NEW r \in Runs, ExitFree(r) \/ ExitDone(r) \/ Resume(r) PROVE Named(r)
  <2>1. PICK to \in {"idle", "delete_pruned", "exited"} : Goto(r, to)
    BY <1>10 DEF ExitFree, BeginFree, ExitDone, Resume
  <2>2. UNCHANGED rows /\ (UNCHANGED target \/ \E T : target' = [target EXCEPT ![r] = T])
    BY <1>10 DEF ExitFree, BeginFree, ExitDone, Resume
  <2>3. OnlyMoves(r) /\ ~FreesRows(r)'
    BY <2>1, <2>2, GotoMoves
  <2> QED BY <1>10, <2>3 DEF ExitFree, ExitDone, Resume, db, LeavesTables
<1>11. ASSUME NEW a \in Actors, Crash(a) PROVE Named(a)
  <2>1. PICK to \in {"crashed", "idle"} : Goto(a, to)
    BY <1>11 DEF Crash
  <2>2. OnlyMoves(a) /\ ~FreesRows(a)'
    BY <1>11, <2>1, GotoMoves DEF Crash
  <2> QED BY <1>11, <2>2 DEF Crash, db, LeavesTables
<1>12. ASSUME NEW r \in Runs, DaemonFree(r) PROVE Named(Daemon)
  <2>1. OnlyMoves(Daemon) /\ ~FreesRows(Daemon)'
    BY <1>12, GotoMoves DEF DaemonFree, BeginFree
  <2> QED BY <1>12, <2>1 DEF DaemonFree, db, LeavesTables
<1>13. ASSUME NEW r \in Runs, OperatorFree(r) PROVE Named(Operator)
  <2>1. OnlyMoves(Operator) /\ ~FreesRows(Operator)'
    BY <1>13, GotoMoves DEF OperatorFree, BeginFree
  <2> QED BY <1>13, <2>1 DEF OperatorFree, db, LeavesTables
<1>14. UNCHANGED vars => Named(Daemon)
  BY DEF vars, db, proc, LeavesTables
<1> HIDE DEF Named
<1>15. \E a \in Actors : Named(a)
  BY <1>1, <1>2, <1>4, <1>5, <1>6, <1>7, <1>8, <1>9, <1>10, <1>11, <1>12, <1>13, <1>14
  DEF Next, SystemNext, OperatorStep, RunStep, StepStep
<1> QED BY <1>15 DEF Named

-----------------------------------------------------------------------------
(* The slot rows follow the limits *)

\* Changing owners and deleting pruned rows leaves the live rows alone.
LEMMA LiveKept ==
  ASSUME Rows' \subseteq Rows,
         \A i \in Rows : \/ i \in Rows' /\ slots'[i].pool = slots[i].pool
                            /\ slots'[i].deleted = slots[i].deleted
                         \/ slots[i].deleted /\ i \notin Rows'
  PROVE  SameLive
BY DEF SameLive, Live

LEMMA OwnerUpdate ==
  ASSUME NEW row \in SlotRow, NEW s
  PROVE  /\ WithOwner(row, s).pool = row.pool /\ WithOwner(row, s).deleted = row.deleted
         /\ WithOwner(row, s).owner = s
BY DEF SlotRow, WithOwner

\* The two statements that write owners write nothing else.
LEMMA OwnersWritten ==
  ASSUME TypeOK, TypeOK', NEW T, NEW s \in Steps \cup {None},
         slots' = [i \in SlotIds |-> IF i \in T \cap Rows THEN WithOwner(slots[i], s) ELSE slots[i]]
  PROVE  /\ Rows' = Rows
         /\ \A i \in Rows : /\ slots'[i].pool = slots[i].pool
                            /\ slots'[i].deleted = slots[i].deleted
                            /\ slots'[i].owner = IF i \in T THEN s ELSE slots[i].owner
<1>1. \A i \in Rows : /\ slots[i] \in SlotRow /\ i \in SlotIds
                      /\ WithOwner(slots[i], s) \in SlotRow
                      /\ WithOwner(slots[i], s).pool = slots[i].pool
                      /\ WithOwner(slots[i], s).deleted = slots[i].deleted
                      /\ WithOwner(slots[i], s).owner = s
  BY RowsTyped, OwnerUpdate, RowUpdates DEF Rows
<1>2. \A i \in Rows : slots'[i] = IF i \in T THEN WithOwner(slots[i], s) ELSE slots[i]
  BY <1>1
<1>3. Rows' = Rows
  BY <1>1, <1>2, PoolsAssumption DEF Rows
<1> QED BY <1>1, <1>2, <1>3

LEMMA TakenRow ==
  ASSUME TypeOK, TypeOK', NEW r \in Runs, TakeSlot(r)
  PROVE  \/ UNCHANGED slots
         \/ \E s \in target[r] :
              slots' = [i \in SlotIds |->
                IF i \in rows[r] \cap Rows THEN WithOwner(slots[i], s) ELSE slots[i]]
BY DEF TakeSlot, Updated

LEMMA LimitsInductive ==
  ASSUME TypeOK, TypeOK', SlotsMatchLimit, [Next]_vars
  PROVE  SlotsMatchLimit'
<1>1. PICK a \in Actors : \/ Allocates(a) \/ LeavesTables(a)
                          \/ DeletePruned(a) \/ SelectHeld(a) \/ FreeSlots(a)
                          \/ a \in Runs /\ TakeSlot(a)
  BY TableSteps
<1>2. CASE Allocates(a)
  <2>1. PICK k \in Pools, n \in Nat, row \in LimitRow \cup {None} :
          /\ AllocateSlots(k, n)
          /\ limits' = [limits EXCEPT ![k] = row]
          /\ n = IF row = None THEN 0 ELSE row.limit
    BY <1>2 DEF Allocates
  <2>2. /\ Cardinality(Live(k)') = n
        /\ \A j \in Pools \ {k} : Live(j)' = Live(j)
    BY <2>1, AllocationCounts
  <2>3. limits'[k] = row /\ \A j \in Pools \ {k} : limits'[j] = limits[j]
    BY <2>1 DEF TypeOK
  <2> HIDE DEF Live
  <2>4. Cardinality(Live(k)') = IF limits'[k] = None THEN 0 ELSE limits'[k].limit
    BY <2>1, <2>2, <2>3
  <2>5. \A j \in Pools \ {k} :
          Cardinality(Live(j)') = IF limits'[j] = None THEN 0 ELSE limits'[j].limit
    BY <2>2, <2>3 DEF SlotsMatchLimit
  <2> QED BY <2>4, <2>5 DEF SlotsMatchLimit
<1>3. SameLive /\ UNCHANGED limits => SlotsMatchLimit'
  BY DEF SameLive, SlotsMatchLimit
<1>4. UNCHANGED slots => SameLive
  BY DEF SameLive, Live, Rows
<1>5. CASE LeavesTables(a) \/ SelectHeld(a)
  BY <1>3, <1>4, <1>5 DEF LeavesTables, SelectHeld
<1>6. CASE DeletePruned(a)
  <2>1. \A i \in SlotIds : slots'[i] = IF i \in HeldBy(target[a]) /\ slots[i].deleted THEN None
                                     ELSE slots[i]
    BY <1>6 DEF DeletePruned
  <2>2. Rows' \subseteq Rows
    BY <2>1 DEF Rows
  <2>3. ASSUME NEW i \in Rows
        PROVE  \/ i \in Rows' /\ slots'[i] = slots[i]
               \/ slots[i].deleted /\ i \notin Rows'
    <3>1. i \in SlotIds /\ slots[i] # None
      BY DEF Rows
    <3>2. CASE i \in HeldBy(target[a]) /\ slots[i].deleted
      <4>1. slots'[i] = None
        BY <2>1, <3>1, <3>2
      <4> QED BY <3>2, <4>1 DEF Rows
    <3>3. CASE ~(i \in HeldBy(target[a]) /\ slots[i].deleted)
      <4>1. slots'[i] = slots[i]
        BY <2>1, <3>1, <3>3
      <4> QED BY <3>1, <4>1 DEF Rows
    <3> QED BY <3>2, <3>3
  <2>4. SameLive
    BY <2>2, <2>3, LiveKept
  <2> QED BY <1>3, <1>6, <2>4 DEF DeletePruned
<1>7. CASE FreeSlots(a)
  <2>1. SameLive
    BY <1>7, OwnersWritten, LiveKept DEF FreeSlots
  <2> QED BY <1>3, <1>7, <2>1 DEF FreeSlots
<1>8. CASE a \in Runs /\ TakeSlot(a)
  <2>1. ASSUME NEW s \in target[a],
               slots' = [i \in SlotIds |->
                 IF i \in rows[a] \cap Rows THEN WithOwner(slots[i], s) ELSE slots[i]]
        PROVE  SameLive
    <3>1. s \in Steps \cup {None}
      BY DEF TypeOK
    <3> QED BY <2>1, <3>1, OwnersWritten, LiveKept
  <2>2. SameLive
    BY <1>4, <1>8, <2>1, TakenRow
  <2> QED BY <1>3, <1>8, <2>2 DEF TakeSlot
<1> QED BY <1>1, <1>2, <1>5, <1>6, <1>7, <1>8

\* A pool always has as many live slot rows as its limit says and none without
\* a limit, in every storage: set_concurrency_slots, delete_concurrency_limit
\* and initialize_concurrency_limit_to_default write both tables in one
\* transaction, and no other statement adds, prunes or removes a live row.
THEOREM SlotsFollowLimits == Spec => []SlotsMatchLimit
<1>1. Init => SlotsMatchLimit
  <2> SUFFICES ASSUME Init, NEW k \in Pools PROVE Cardinality(Live(k)) = 0 /\ limits[k] = None
    BY DEF SlotsMatchLimit
  <2>1. Live(k) = {}
    BY DEF Init, Live, Rows
  <2> QED BY <2>1, FS_EmptySet DEF Init
<1>2. SlotsMatchLimit /\ TypeOK /\ TypeOK' /\ [Next]_vars => SlotsMatchLimit'
  BY LimitsInductive
<1> QED BY <1>1, <1>2, TypeCorrect, PTL DEF Spec

-----------------------------------------------------------------------------
(* A pruned row is held, until its holder's call to free deletes it           *)

\* From DeletePruned to FreeSlots no row of the call's steps is a pruned one.
Swept ==
  \A a \in Actors : FreesRows(a) => \A i \in HeldBy(target[a]) : ~slots[i].deleted

PrunedInv == PrunedRowsAreHeld /\ Swept

LEMMA PrunedInductive ==
  ASSUME TypeOK, TypeOK', SelectedRowsLocked, PrunedInv, [Next]_vars
  PROVE  PrunedInv'
<1> USE DEF PrunedInv
<1>1. PICK a \in Actors : \/ Allocates(a) \/ LeavesTables(a)
                          \/ DeletePruned(a) \/ SelectHeld(a) \/ FreeSlots(a)
                          \/ a \in Runs /\ TakeSlot(a)
  BY TableSteps
\* Nobody else is in a call to free while a writes the rows.
<1>2. ASSUME lock \in {None, a}, OnlyMoves(a)
      PROVE  \A b \in Actors \ {a} : ~FreesRows(b)'
  <2>1. \A b \in Actors \ {a} : lock # b
    BY <1>2, PoolsAssumption
  <2> QED BY <1>2, <2>1 DEF OnlyMoves, SelectedRowsLocked, FreesRows
<1>3. ASSUME lock \in {None, a}, OnlyMoves(a), ~FreesRows(a)'
      PROVE  Swept'
  BY <1>2, <1>3 DEF Swept
<1>4. CASE Allocates(a)
  <2>1. PICK k \in Pools, n \in Nat : AllocateSlots(k, n)
    BY <1>4 DEF Allocates
  <2>2. PrunedRowsAreHeld'
    BY <2>1, AllocationSweeps
  <2> QED BY <1>3, <1>4, <2>2 DEF Allocates
<1>5. CASE LeavesTables(a)
  <2>1. PrunedRowsAreHeld'
    BY <1>5 DEF LeavesTables, PrunedRowsAreHeld, Rows
  <2>2. \A b \in Actors : FreesRows(b)' => FreesRows(b) /\ target'[b] = target[b]
    BY <1>5 DEF LeavesTables, OnlyMoves, FreesRows
  <2>3. UNCHANGED slots
    BY <1>5 DEF LeavesTables
  <2>4. Swept'
    BY <2>2, <2>3 DEF Swept, HeldBy, Rows
  <2> QED BY <2>1, <2>4
<1>6. CASE DeletePruned(a)
  <2>1. lock \in {None, a} /\ OnlyMoves(a) /\ UNCHANGED target
    BY <1>6 DEF DeletePruned, At, Goto, OnlyMoves, TypeOK
  <2>2. \A i \in Rows' : /\ i \in Rows /\ slots'[i] = slots[i]
                         /\ ~(slots[i].owner \in target[a] /\ slots[i].deleted)
    BY <1>6 DEF DeletePruned, HeldBy, Rows
  <2>3. PrunedRowsAreHeld'
    BY <2>2 DEF PrunedRowsAreHeld
  <2>4. \A i \in HeldBy(target[a])' : ~slots'[i].deleted
    BY <2>1, <2>2 DEF HeldBy
  <2>5. Swept'
    BY <1>2, <2>1, <2>4 DEF Swept
  <2> QED BY <2>3, <2>5
<1>7. CASE SelectHeld(a)
  <2>1. lock \in {None, a} /\ FreesRows(a) /\ UNCHANGED <<slots, target>>
    BY <1>7 DEF SelectHeld, At, FreesRows
  <2>2. OnlyMoves(a)
    BY <1>7 DEF SelectHeld, Goto, OnlyMoves, TypeOK
  <2>3. PrunedRowsAreHeld'
    BY <2>1 DEF PrunedRowsAreHeld, Rows
  <2>4. \A i \in HeldBy(target[a])' : ~slots'[i].deleted
    BY <2>1 DEF HeldBy, Rows, Swept
  <2>5. Swept'
    BY <1>2, <2>1, <2>2, <2>4 DEF Swept
  <2> QED BY <2>3, <2>5
<1>8. CASE FreeSlots(a)
  <2>1. lock \in {None, a} /\ FreesRows(a) /\ rows[a] = HeldBy(target[a])
    BY <1>8 DEF FreeSlots, At, FreesRows, SelectedRowsLocked
  <2>2. OnlyMoves(a) /\ ~FreesRows(a)'
    BY <1>8, GotoMoves DEF FreeSlots
  <2>3. /\ Rows' = Rows
        /\ \A i \in Rows : /\ slots'[i].deleted = slots[i].deleted
                           /\ slots'[i].owner = IF i \in rows[a] THEN None ELSE slots[i].owner
    BY <1>8, OwnersWritten DEF FreeSlots
  <2>4. PrunedRowsAreHeld'
    BY <2>1, <2>3 DEF PrunedRowsAreHeld, Swept
  <2> QED BY <1>3, <2>1, <2>2, <2>4
<1>9. CASE a \in Runs /\ TakeSlot(a)
  <2>1. lock \in {None, a}
    BY <1>9 DEF TakeSlot, At
  <2>2. OnlyMoves(a) /\ ~FreesRows(a)'
    BY <1>9, GotoMoves DEF TakeSlot, ClaimBlocked, ClaimGranted
  <2>3. CASE UNCHANGED slots
    BY <1>3, <2>1, <2>2, <2>3 DEF PrunedRowsAreHeld, Rows
  <2>4. ASSUME NEW s \in target[a],
               slots' = [i \in SlotIds |->
                 IF i \in rows[a] \cap Rows THEN WithOwner(slots[i], s) ELSE slots[i]]
        PROVE  PrunedRowsAreHeld'
    <3>1. s \in Steps /\ s # None
      BY PoolsAssumption DEF TypeOK
    <3>2. /\ Rows' = Rows
          /\ \A i \in Rows : /\ slots'[i].deleted = slots[i].deleted
                             /\ slots'[i].owner = IF i \in rows[a] THEN s ELSE slots[i].owner
      BY <2>4, <3>1, OwnersWritten
    <3> QED BY <3>1, <3>2 DEF PrunedRowsAreHeld
  <2> QED BY <1>3, <1>9, <2>1, <2>2, <2>3, <2>4, TakenRow
<1> QED BY <1>1, <1>4, <1>5, <1>6, <1>7, <1>8, <1>9

\* A pruned row goes away with its holder, where the free block is a
\* transaction: _allocate_concurrency_slots leaves the pruned rows that are held
\* to _free_concurrency_slots, which deletes them before it reads the others.
THEOREM PrunedRowsGoWithTheirHolder ==
  ASSUME Isolated
  PROVE  Spec => []PrunedRowsAreHeld
<1>1. Init => ContextInv /\ RowInv /\ ClaimInv /\ PrunedInv
  BY PoolsAssumption DEF Init, ContextInv, TargetsOK, ClaimsInUse, ClaimLabels, RowInv,
     OwnersOK, OneSlotPerStep, Rows, ClaimInv, SelectedRowsLocked, ClaimsAreBacked,
     PrunedInv, PrunedRowsAreHeld, Swept, FreesRows
<1>2. ContextInv /\ RowInv /\ ClaimInv /\ PrunedInv /\ TypeOK /\ TypeOK' /\ [Next]_vars
        => (ContextInv /\ RowInv /\ ClaimInv /\ PrunedInv)'
  BY ContextInductive, RowInductive, ClaimInductive, PrunedInductive DEF ClaimInv
<1>3. PrunedInv => PrunedRowsAreHeld
  BY DEF PrunedInv
<1> QED BY <1>1, <1>2, <1>3, TypeCorrect, PTL DEF Spec

-----------------------------------------------------------------------------
(* Held slots are registered, while only a run's own executor and, when that  *)
(* is dead and the run finished, the daemon free its slots                     *)

OthersWait == ~OperatorFrees /\ OutlivedRuns = {}

Dead == {"exited", "crashed"}

\* Whoever is freeing is the only one: a finished run's executor is dead, and the
\* daemon frees finished runs only.
GoneRuns ==
  /\ \A r \in finished : pc[r] \in Dead
  /\ \A s \in target[Daemon] : RunOf[s] \in finished
  /\ target[Operator] = {}

GoesForRow == {"check_slot", "select_slot", "take_slot"}
HasFreed   == {"select_pending", "delete_pending", "assign", "set_assigned"}

\* A step that goes for a row has an assigned pending row; a call to free has
\* freed the rows before it deletes the pending rows, those of its own steps.
Registered(a) ==
  /\ pc[a] \in GoesForRow => target[a] \subseteq assigned
  /\ pc[a] \in HasFreed => HeldBy(target[a]) = {}
  /\ pc[a] = "free_slots" => HeldBy(target[a]) \subseteq rows[a]
  /\ pc[a] = "delete_pending" => picked[a] \subseteq target[a]

RegisteredInv == HeldSlotsAreRegistered /\ \A a \in Actors : Registered(a)

\* Actor a goes where Registered asks nothing of it, or nowhere.
Unasked(a) ==
  /\ \/ pc'[a] \notin GoesForRow \cup HasFreed \cup {"free_slots"}
     \/ target'[a] = {} /\ pc'[a] # "delete_pending"
     \/ UNCHANGED <<pc, target, rows>>
  /\ assigned \subseteq assigned' /\ \A b \in Actors : picked'[b] \subseteq picked[b]

Asks(a) ==
  \/ a \in Runs /\ (CheckPending(a) \/ CheckSlot(a) \/ SelectSlot(a) \/ TakeSlot(a))
  \/ SelectHeld(a) \/ FreeSlots(a) \/ SelectPending(a) \/ DeletePending(a)
  \/ SelectQueued(a) \/ SetAssigned(a)

\* Who may move, and what becomes its target.
Allowed(a) ==
  /\ \/ UNCHANGED <<pc, target>>
     \/ pc[a] \notin Dead \/ a \in Runs \ finished
  /\ \/ a \in Runs \/ target'[a] \subseteq target[a]
     \/ a = Daemon /\ \E r \in finished : target'[a] = StepsOf(r)
  /\ UNCHANGED finished \/ (a \in Runs /\ EndRun(a))

LEMMA AtWork ==
  ASSUME NEW a \in Actors, pc[a] \notin Dead, a \in Runs \/ target'[a] \subseteq target[a],
         UNCHANGED finished
  PROVE  Allowed(a)
BY DEF Allowed

LEMMA GotoOnly ==
  ASSUME TypeOK, NEW a \in Actors, NEW to, Goto(a, to),
         UNCHANGED target \/ (\E T : target' = [target EXCEPT ![a] = T]),
         UNCHANGED rows \/ (\E T : rows' = [rows EXCEPT ![a] = T])
  PROVE  OnlyMoves(a)
BY DEF TypeOK, Goto, OnlyMoves

LEMMA GotoUnasked ==
  ASSUME TypeOK, NEW a \in Actors, NEW to, Goto(a, to), assigned \subseteq assigned',
         UNCHANGED picked \/ picked' = [picked EXCEPT ![a] = {}],
         \/ to \notin GoesForRow \cup HasFreed \cup {"free_slots"}
         \/ target'[a] = {} /\ to # "delete_pending"
  PROVE  Unasked(a)
BY DEF TypeOK, Goto, Unasked

LEMMA CallSteps ==
  ASSUME TypeOK, GoneRuns, OthersWait, [Next]_vars
  PROVE  \E a \in Actors : OnlyMoves(a) /\ Allowed(a) /\ (Unasked(a) \/ Asks(a))
<1> DEFINE Named(a) == OnlyMoves(a) /\ Allowed(a) /\ (Unasked(a) \/ Asks(a))
<1>1. ASSUME NEW k \in Pools, NEW n \in Limits, SetLimit(k, n) PROVE Named(Operator)
  <2>1. PICK to \in {"idle", "assign"} : Goto(Operator, to)
    BY <1>1 DEF SetLimit
  <2>2. /\ UNCHANGED <<assigned, picked, target, rows, finished>>
        /\ pc[Operator] \notin Dead /\ target'[Operator] = {}
    BY <1>1 DEF SetLimit, At, outer, Dead, GoneRuns
  <2>3. OnlyMoves(Operator) /\ Allowed(Operator)
    BY <2>1, <2>2, GotoOnly, AtWork
  <2>4. Unasked(Operator)
    BY <2>1, <2>2, GotoUnasked
  <2> QED BY <2>3, <2>4
<1>2. ASSUME NEW k \in Pools, DeleteLimit(k) PROVE Named(Operator)
  BY <1>2 DEF DeleteLimit, proc, outer, OnlyMoves, Allowed, Unasked
<1>3. ASSUME NEW r \in Runs,
             \/ InitDefault(r) \/ Resync(r) \/ Unlimited(r) \/ HasPendingStep(r)
             \/ CountAssigned(r) \/ CountSlots(r) \/ AddPendingStep(r)
      PROVE  Named(r)
  <2>1. PICK to \in {"resync", "idle", "unlimited", "has_pending", "check_pending",
                     "count_assigned", "count_slots", "add_assigned", "add_queued"} : Goto(r, to)
    BY <1>3 DEF InitDefault, Resync, Unlimited, HasPendingStep, CountAssigned, CountSlots,
       AddPendingStep
  <2>2. /\ UNCHANGED <<picked, rows, finished>>
        /\ UNCHANGED target \/ \E T : target' = [target EXCEPT ![r] = T]
    BY <1>3 DEF InitDefault, Resync, Unlimited, HasPendingStep, CountAssigned, CountSlots,
       AddPendingStep, outer
  <2>3. assigned \subseteq assigned'
    BY <1>3 DEF InitDefault, Resync, Unlimited, HasPendingStep, CountAssigned, CountSlots,
       AddPendingStep, db
  <2>4. pc[r] \notin Dead
    BY <1>3 DEF InitDefault, Resync, Unlimited, HasPendingStep, CountAssigned, CountSlots,
       AddPendingStep, At, Dead
  <2>5. to \notin GoesForRow \cup HasFreed \cup {"free_slots"}
    BY DEF GoesForRow, HasFreed
  <2>6. OnlyMoves(r) /\ Allowed(r)
    BY <2>1, <2>2, <2>4, GotoOnly, AtWork
  <2>7. Unasked(r)
    BY <2>1, <2>2, <2>3, <2>5, GotoUnasked
  <2> QED BY <2>6, <2>7
<1>4. ASSUME NEW r \in Runs, CheckPending(r) \/ CheckSlot(r) \/ SelectSlot(r) \/ TakeSlot(r)
      PROVE  Named(r)
  <2>1. PICK to \in {"idle", "check_slot", "select_slot", "take_slot"} : Goto(r, to)
    BY <1>4 DEF CheckPending, CheckSlot, SelectSlot, TakeSlot, ClaimBlocked, ClaimGranted
  <2>2. /\ UNCHANGED rows \/ \E T : rows' = [rows EXCEPT ![r] = T]
        /\ UNCHANGED target \/ \E T : target' = [target EXCEPT ![r] = T]
    BY <1>4 DEF CheckPending, CheckSlot, SelectSlot, TakeSlot, ClaimBlocked, ClaimGranted
  <2>3. pc[r] \notin Dead /\ UNCHANGED finished
    BY <1>4 DEF CheckPending, CheckSlot, SelectSlot, TakeSlot, At, Dead
  <2>4. OnlyMoves(r) /\ Allowed(r)
    BY <2>1, <2>2, <2>3, GotoOnly, AtWork
  <2> QED BY <1>4, <2>4 DEF Asks
<1>5. ASSUME NEW a \in Actors, DeletePruned(a) PROVE Named(a)
  <2>1. /\ Goto(a, "select_held") /\ UNCHANGED <<assigned, picked, target, rows, finished>>
        /\ pc[a] \notin Dead
    BY <1>5 DEF DeletePruned, At, Dead
  <2>2. "select_held" \notin GoesForRow \cup HasFreed \cup {"free_slots"}
    BY DEF GoesForRow, HasFreed
  <2>3. OnlyMoves(a) /\ Allowed(a)
    BY <2>1, GotoOnly, AtWork
  <2>4. Unasked(a)
    BY <2>1, <2>2, GotoUnasked
  <2> QED BY <2>3, <2>4
<1>6. ASSUME NEW a \in Actors,
             \/ SelectHeld(a) \/ FreeSlots(a) \/ SelectPending(a) \/ DeletePending(a)
             \/ SelectQueued(a) \/ SetAssigned(a)
      PROVE  Named(a)
  <2>1. PICK to \in Labels : Goto(a, to)
    BY <1>6 DEF SelectHeld, FreeSlots, SelectPending, DeletePending, SelectQueued, SetAssigned,
       EndFree, InFree, Labels
  <2>2. /\ UNCHANGED rows \/ \E T : rows' = [rows EXCEPT ![a] = T]
        /\ UNCHANGED target \/ target' = [target EXCEPT ![a] = {}]
    BY <1>6 DEF SelectHeld, FreeSlots, SelectPending, DeletePending, SelectQueued, SetAssigned,
       EndFree, InFree
  <2>3. pc[a] \notin Dead /\ UNCHANGED finished
    BY <1>6 DEF SelectHeld, FreeSlots, SelectPending, DeletePending, SelectQueued, SetAssigned,
       At, Dead, outer
  <2>4. target'[a] \subseteq target[a]
    BY <2>2 DEF TypeOK
  <2>5. OnlyMoves(a) /\ Allowed(a)
    BY <2>1, <2>2, <2>3, <2>4, GotoOnly, AtWork
  <2> QED BY <1>6, <2>5 DEF Asks
<1>7. ASSUME NEW s \in Steps, Claim(s) PROVE RunOf[s] \in Actors /\ Named(RunOf[s])
  <2>1. RunOf[s] \in Runs /\ UNCHANGED <<assigned, picked, rows, finished>>
    BY <1>7, PoolsAssumption DEF Claim, db, outer
  <2>2. PICK to \in {"init_default", "unlimited", "has_pending"} : Goto(RunOf[s], to)
    BY <1>7 DEF Claim
  <2>3. pc[RunOf[s]] \notin Dead /\ \E T : target' = [target EXCEPT ![RunOf[s]] = T]
    BY <1>7 DEF Claim, Dead
  <2>4. to \notin GoesForRow \cup HasFreed \cup {"free_slots"}
    BY DEF GoesForRow, HasFreed
  <2>5. OnlyMoves(RunOf[s]) /\ Allowed(RunOf[s])
    BY <2>1, <2>2, <2>3, GotoOnly, AtWork
  <2>6. Unasked(RunOf[s])
    BY <2>1, <2>2, <2>4, GotoUnasked
  <2> QED BY <2>1, <2>5, <2>6
<1>8. ASSUME NEW s \in Steps, Launch(s) \/ StepEnds(s) \/ MarkUnknownState(s) \/ ReplayFails(s)
      PROVE  Named(Operator)
  BY <1>8 DEF Launch, StepEnds, MarkUnknownState, ReplayFails, db, proc, outer,
     OnlyMoves, Allowed, Unasked
<1>9. ASSUME NEW a \in Runs, NEW s \in Steps, BeginFree(a, {s}),
             UNCHANGED <<assigned, picked, rows, finished>>
      PROVE  Named(a)
  <2>1. "delete_pruned" \notin GoesForRow \cup HasFreed \cup {"free_slots"}
    BY DEF GoesForRow, HasFreed
  <2>2. OnlyMoves(a) /\ Unasked(a)
    BY <1>9, <2>1, GotoOnly, GotoUnasked DEF BeginFree
  <2>3. Allowed(a)
    BY <1>9, AtWork DEF BeginFree, Dead
  <2> QED BY <2>2, <2>3
<1>10. ASSUME NEW s \in Steps, HandleEvent(s) PROVE RunOf[s] \in Actors /\ Named(RunOf[s])
  <2>1. RunOf[s] \in Runs /\ UNCHANGED <<assigned, picked, rows, finished>>
    BY <1>10, PoolsAssumption DEF HandleEvent, db
  <2>2. CASE UNCHANGED <<pc, target>>
    BY <2>1, <2>2 DEF OnlyMoves, Allowed, Unasked
  <2>3. CASE BeginFree(RunOf[s], {s})
    BY <1>9, <2>1, <2>3
  <2> QED BY <1>10, <2>1, <2>2, <2>3 DEF HandleEvent
<1>11. ASSUME NEW r \in Runs, LeaveContext(r) PROVE Named(r)
  BY <1>11 DEF LeaveContext, db, proc, outer, OnlyMoves, Allowed, Unasked
<1>12. ASSUME NEW r \in Runs, EndRun(r) PROVE Named(r)
  <2>1. UNCHANGED <<pc, target, rows, assigned, picked>>
    BY <1>12 DEF EndRun, db, proc
  <2> QED BY <1>12, <2>1 DEF OnlyMoves, Allowed, Unasked
<1>13. ASSUME NEW r \in Runs, ExitFree(r) PROVE Named(r)
  <2>1. PICK s \in Steps : BeginFree(r, {s})
    BY <1>13 DEF ExitFree, StepsOf
  <2> QED BY <1>9, <1>13, <2>1 DEF ExitFree, db, outer
<1>14. ASSUME NEW r \in Runs, ExitDone(r) \/ Resume(r) PROVE Named(r)
  <2>1. PICK to \in {"exited", "idle"} : Goto(r, to)
    BY <1>14 DEF ExitDone, Resume
  <2>2. UNCHANGED <<assigned, picked, rows, target, finished>>
    BY <1>14 DEF ExitDone, Resume, db, outer
  <2>3. to \notin GoesForRow \cup HasFreed \cup {"free_slots"}
    BY DEF GoesForRow, HasFreed
  <2>4. OnlyMoves(r) /\ Unasked(r)
    BY <2>1, <2>2, <2>3, GotoOnly, GotoUnasked
  <2>5. Allowed(r)
    BY <1>14, <2>2 DEF ExitDone, Resume, Allowed, Dead
  <2> QED BY <2>4, <2>5
<1>15. ASSUME NEW a \in Actors, Crash(a) PROVE Named(a)
  <2>1. PICK to \in {"crashed", "idle"} : Goto(a, to)
    BY <1>15 DEF Crash
  <2>2. /\ target' = [target EXCEPT ![a] = {}] /\ rows' = [rows EXCEPT ![a] = {}]
        /\ picked' = [picked EXCEPT ![a] = {}] /\ UNCHANGED <<assigned, finished>>
        /\ pc[a] \notin Dead
    BY <1>15 DEF Crash, db, outer, Dead
  <2>3. to \notin GoesForRow \cup HasFreed \cup {"free_slots"}
    BY DEF GoesForRow, HasFreed
  <2>4. OnlyMoves(a) /\ Unasked(a)
    BY <2>1, <2>2, <2>3, GotoOnly, GotoUnasked
  <2>5. target'[a] \subseteq target[a]
    BY <2>2 DEF TypeOK
  <2>6. Allowed(a)
    BY <2>2, <2>5, AtWork
  <2> QED BY <2>4, <2>6
<1>16. ASSUME NEW r \in Runs, DaemonFree(r) PROVE Named(Daemon)
  <2>1. /\ Goto(Daemon, "delete_pruned") /\ pc[Daemon] \notin Dead
        /\ target' = [target EXCEPT ![Daemon] = StepsOf(r)]
        /\ r \in finished /\ UNCHANGED <<assigned, picked, rows, finished>>
    BY <1>16 DEF DaemonFree, BeginFree, db, outer, Dead
  <2>2. "delete_pruned" \notin GoesForRow \cup HasFreed \cup {"free_slots"}
    BY DEF GoesForRow, HasFreed
  <2>3. OnlyMoves(Daemon) /\ Unasked(Daemon)
    BY <2>1, <2>2, GotoOnly, GotoUnasked
  <2>4. target'[Daemon] = StepsOf(r)
    BY <2>1 DEF TypeOK
  <2> QED BY <2>1, <2>3, <2>4 DEF Allowed
<1>17. ASSUME NEW r \in Runs PROVE ~OperatorFree(r)
  BY DEF OperatorFree, OthersWait
<1>18. UNCHANGED vars => Named(Operator)
  BY DEF vars, db, proc, outer, OnlyMoves, Allowed, Unasked
<1> HIDE DEF Named
<1>19. \E a \in Actors : Named(a)
  BY <1>1, <1>2, <1>3, <1>4, <1>5, <1>6, <1>7, <1>8, <1>10, <1>11, <1>12, <1>13, <1>14, <1>15, <1>16, <1>17, <1>18
  DEF Next, SystemNext, OperatorStep, FreeStep, RunStep, ClaimStep, StepStep
<1> QED BY <1>19 DEF Named

LEMMA GoneInductive ==
  ASSUME TypeOK, OthersWait, GoneRuns, [Next]_vars
  PROVE  GoneRuns'
<1>1. PICK a \in Actors : OnlyMoves(a) /\ Allowed(a)
  BY CallSteps
<1>2. \A b \in Actors \ {a} : pc'[b] = pc[b] /\ target'[b] = target[b]
  BY <1>1 DEF OnlyMoves
<1>3. finished \subseteq finished' /\ \A r \in finished' : pc'[r] \in Dead
  <2>1. CASE UNCHANGED finished
    <3>1. \A r \in finished : pc'[r] = pc[r]
      BY <1>1, <1>2 DEF Allowed, GoneRuns, TypeOK
    <3> QED BY <2>1, <3>1 DEF GoneRuns
  <2>2. CASE a \in Runs /\ EndRun(a)
    <3>1. finished' = finished \cup {a} /\ pc[a] \in Dead /\ UNCHANGED pc
      BY <2>2 DEF EndRun, OthersWait, Dead, proc
    <3> QED BY <3>1 DEF GoneRuns
  <2> QED BY <1>1, <2>1, <2>2 DEF Allowed
<1>4. \A s \in target'[Daemon] : RunOf[s] \in finished'
  <2>1. CASE a = Daemon
    BY <1>1, <1>3, <2>1, PoolsAssumption DEF Allowed, GoneRuns, StepsOf
  <2>2. CASE a # Daemon
    BY <1>2, <1>3, <2>2 DEF GoneRuns
  <2> QED BY <2>1, <2>2
<1>5. target'[Operator] = {}
  BY <1>1, <1>2, PoolsAssumption DEF Allowed, GoneRuns
<1> QED BY <1>3, <1>4, <1>5 DEF GoneRuns

LEMMA TargetsDisjoint ==
  ASSUME TypeOK, ContextInv, GoneRuns, NEW a \in Actors, NEW b \in Actors \ {a}
  PROVE  target[a] \cap target[b] = {}
<1>1. \A r \in Runs : target[r] \subseteq StepsOf(r) /\ (pc[r] \in Dead => target[r] = {})
  BY DEF ContextInv, TargetsOK, Dead
<1>2. \A r \in Runs : target[r] \cap target[Daemon] = {}
  BY <1>1 DEF GoneRuns, StepsOf
<1>3. \A r, q \in Runs : r # q => target[r] \cap target[q] = {}
  BY <1>1 DEF StepsOf
<1> QED BY <1>2, <1>3 DEF GoneRuns

\* What the step of actor a leaves to another one.
LEMMA OthersRegistered ==
  ASSUME NEW a \in Actors, OnlyMoves(a), NEW b \in Actors \ {a}, Registered(b),
         picked'[b] \subseteq picked[b], target[b] \cap assigned \subseteq assigned',
         \A i \in Rows' : slots'[i].owner \in target[b] =>
           i \in Rows /\ slots[i].owner = slots'[i].owner
  PROVE  Registered(b)'
<1>1. pc'[b] = pc[b] /\ target'[b] = target[b] /\ rows'[b] = rows[b]
  BY DEF OnlyMoves
<1>2. HeldBy(target[b])' \subseteq HeldBy(target[b])
  BY <1>1 DEF HeldBy
<1> QED BY <1>1, <1>2 DEF Registered

\* Nobody gets a row.
FewerHeld ==
  \A i \in Rows' : slots'[i].owner # None => i \in Rows /\ slots[i].owner = slots'[i].owner

LEMMA RowsWritten ==
  ASSUME TypeOK, TypeOK', [Next]_vars
  PROVE  FewerHeld \/ \E r \in Runs : TakeSlot(r)
<1>1. PICK a \in Actors : \/ Allocates(a) \/ LeavesTables(a)
                          \/ DeletePruned(a) \/ SelectHeld(a) \/ FreeSlots(a)
                          \/ a \in Runs /\ TakeSlot(a)
  BY TableSteps
<1>2. CASE Allocates(a)
  <2>1. PICK k \in Pools, n \in Nat : AllocateSlots(k, n)
    BY <1>2 DEF Allocates
  <2>2. \A i \in Rows' : slots'[i].owner # None =>
          i \in Rows /\ slots[i].owner = slots'[i].owner
    BY <2>1, Allocation
  <2> QED BY <2>2 DEF FewerHeld
<1>3. CASE LeavesTables(a) \/ SelectHeld(a)
  BY <1>3 DEF LeavesTables, SelectHeld, FewerHeld, Rows
<1>4. CASE DeletePruned(a)
  BY <1>4 DEF DeletePruned, FewerHeld, Rows
<1>5. CASE FreeSlots(a)
  <2>1. /\ Rows' = Rows
        /\ \A i \in Rows : slots'[i].owner = IF i \in rows[a] THEN None ELSE slots[i].owner
    BY <1>5, OwnersWritten DEF FreeSlots
  <2> QED BY <2>1 DEF FewerHeld
<1> QED BY <1>1, <1>2, <1>3, <1>4, <1>5

LEMMA RegisteredInductive ==
  ASSUME TypeOK, TypeOK', ContextInv, OthersWait, GoneRuns, RegisteredInv, [Next]_vars
  PROVE  RegisteredInv'
<1> USE DEF RegisteredInv
<1>1. ASSUME NEW r \in Runs, TakeSlot(r) PROVE RegisteredInv'
  <2>1. UNCHANGED <<assigned, picked>> /\ target[r] \subseteq assigned
    BY <1>1 DEF TakeSlot, At, Registered, GoesForRow
  <2>2. OnlyMoves(r) /\ pc'[r] = "idle"
    <3>1. Goto(r, "idle")
      BY <1>1 DEF TakeSlot, ClaimBlocked, ClaimGranted
    <3>2. OnlyMoves(r)
      BY <1>1, <3>1, GotoOnly DEF TakeSlot, ClaimBlocked, ClaimGranted
    <3> QED BY <3>1, <3>2 DEF Goto, TypeOK
  <2>3. \A i \in Rows' : slots'[i].owner # None =>
          \/ i \in Rows /\ slots[i].owner = slots'[i].owner
          \/ slots'[i].owner \in target[r]
    <3>1. ASSUME NEW s \in target[r],
                 slots' = [i \in SlotIds |->
                   IF i \in rows[r] \cap Rows THEN WithOwner(slots[i], s) ELSE slots[i]]
          PROVE  \A i \in Rows' : i \in Rows /\ (slots'[i].owner = slots[i].owner \/ slots'[i].owner = s)
      <4>1. s \in Steps \cup {None}
        BY DEF TypeOK
      <4> QED BY <3>1, <4>1, OwnersWritten
    <3> QED BY <1>1, <3>1, TakenRow DEF Rows
  <2>4. HeldSlotsAreRegistered'
    BY <2>1, <2>3 DEF HeldSlotsAreRegistered
  <2>5. Registered(r)'
    BY <2>2 DEF Registered, GoesForRow, HasFreed
  <2>6. ASSUME NEW b \in Actors \ {r} PROVE Registered(b)'
    <3>1. None \notin target[b] /\ target[b] \cap target[r] = {}
      BY TargetsDisjoint, PoolsAssumption DEF TypeOK
    <3> QED BY <2>1, <2>2, <2>3, <3>1, OthersRegistered
  <2> QED BY <2>4, <2>5, <2>6
<1>2. ASSUME FewerHeld PROVE RegisteredInv'
  <2>1. PICK a \in Actors : OnlyMoves(a) /\ (Unasked(a) \/ Asks(a))
    BY CallSteps
  <2>2. \A b \in Actors : None \notin target[b]
    BY PoolsAssumption DEF TypeOK
  <2>3. \A b \in Actors \ {a} : picked'[b] \subseteq picked[b]
    BY <2>1 DEF Unasked, Asks, CheckPending, CheckSlot, SelectSlot, TakeSlot, SelectHeld,
       FreeSlots, SelectPending, DeletePending, SelectQueued, SetAssigned, TypeOK
  <2>4. \/ assigned \subseteq assigned'
        \/ DeletePending(a) /\ assigned' = assigned \ picked[a]
    BY <2>1 DEF Unasked, Asks, CheckPending, CheckSlot, SelectSlot, TakeSlot, SelectHeld,
       FreeSlots, SelectPending, DeletePending, SelectQueued, SetAssigned
  <2>5. DeletePending(a) => picked[a] \subseteq target[a] /\ HeldBy(target[a]) = {}
    BY DEF DeletePending, At, Registered, HasFreed
  <2>6. HeldSlotsAreRegistered'
    BY <1>2, <2>4, <2>5 DEF HeldSlotsAreRegistered, FewerHeld, HeldBy
  <2>7. ASSUME NEW b \in Actors \ {a} PROVE Registered(b)'
    <3>1. target[b] \cap assigned \subseteq assigned'
      BY <2>4, <2>5, TargetsDisjoint
    <3> QED BY <1>2, <2>1, <2>2, <2>3, <3>1, OthersRegistered DEF FewerHeld
  <2>8. \A T \in SUBSET Steps : HeldBy(T) = {} => \A i \in Rows' : slots'[i].owner \notin T
    BY <1>2, PoolsAssumption DEF FewerHeld, HeldBy
  <2>9. ASSUME pc'[a] \notin GoesForRow \cup HasFreed \cup {"free_slots"} PROVE Registered(a)'
    BY <2>9 DEF Registered, HasFreed
  <2>10. ASSUME Unasked(a) PROVE Registered(a)'
    <3>1. CASE target'[a] = {} /\ pc'[a] # "delete_pending"
      BY <3>1 DEF Registered, HeldBy
    <3>2. CASE UNCHANGED <<pc, target, rows>>
      <4>1. target'[a] \in SUBSET Steps /\ target'[a] = target[a] /\ pc'[a] = pc[a]
            /\ rows'[a] = rows[a] /\ None \notin target[a]
        BY <2>2, <3>2 DEF TypeOK
      <4>2. HeldBy(target[a])' \subseteq HeldBy(target[a])
        BY <1>2, <4>1 DEF FewerHeld, HeldBy
      <4> QED BY <2>10, <4>1, <4>2 DEF Unasked, Registered
    <3> QED BY <2>9, <2>10, <3>1, <3>2 DEF Unasked
  <2>11. ASSUME a \in Runs, CheckPending(a) \/ CheckSlot(a) \/ SelectSlot(a) \/ TakeSlot(a)
         PROVE  Registered(a)'
    <3>1. CASE Goto(a, "idle")
      BY <2>9, <3>1 DEF Goto, TypeOK, GoesForRow, HasFreed
    <3>2. ASSUME NEW to \in GoesForRow, Goto(a, to), UNCHANGED <<target, assigned>>,
                 target[a] \subseteq assigned
          PROVE  Registered(a)'
      BY <3>2 DEF Registered, Goto, TypeOK, GoesForRow, HasFreed
    <3>3. CASE CheckPending(a)
      BY <3>1, <3>2, <3>3 DEF CheckPending, ClaimBlocked, GoesForRow
    <3>4. CASE CheckSlot(a)
      BY <3>1, <3>2, <3>4 DEF CheckSlot, ClaimGranted, At, Registered, GoesForRow
    <3>5. CASE SelectSlot(a)
      BY <3>1, <3>2, <3>5 DEF SelectSlot, ClaimBlocked, At, Registered, GoesForRow
    <3>6. CASE TakeSlot(a)
      BY <3>1, <3>6 DEF TakeSlot, ClaimBlocked, ClaimGranted
    <3> QED BY <2>11, <3>3, <3>4, <3>5, <3>6
  <2>12. ASSUME SelectHeld(a) PROVE Registered(a)'
    <3>1. UNCHANGED <<slots, target>> /\ rows'[a] = HeldBy(target[a])
      BY <2>12 DEF SelectHeld, TypeOK
    <3>2. HeldBy(target[a])' = HeldBy(target[a])
      BY <3>1 DEF HeldBy, Rows
    <3>3. \/ HeldBy(target[a]) = {} /\ pc'[a] = "select_pending"
          \/ pc'[a] = "free_slots"
      BY <2>12 DEF SelectHeld, Goto, TypeOK
    <3> QED BY <3>1, <3>2, <3>3 DEF Registered, GoesForRow, HasFreed
  <2>13. ASSUME FreeSlots(a) PROVE Registered(a)'
    <3>1. HeldBy(target[a]) \subseteq rows[a] /\ UNCHANGED target /\ pc'[a] = "select_pending"
      BY <2>13 DEF FreeSlots, At, Registered, Goto, TypeOK
    <3>2. /\ Rows' = Rows
          /\ \A i \in Rows : slots'[i].owner = IF i \in rows[a] THEN None ELSE slots[i].owner
      BY <2>13, OwnersWritten DEF FreeSlots
    <3>3. HeldBy(target[a])' = {}
      BY <2>2, <3>1, <3>2 DEF HeldBy
    <3> QED BY <3>1, <3>3 DEF Registered, GoesForRow
  <2>14. ASSUME HeldBy(target[a]) = {}, UNCHANGED <<slots, target>>,
                pc'[a] \in HasFreed, pc'[a] = "delete_pending" => picked'[a] \subseteq target[a]
         PROVE  Registered(a)'
    <3>1. HeldBy(target[a])' = {}
      BY <2>14 DEF HeldBy, Rows
    <3> QED BY <2>14, <3>1 DEF Registered, GoesForRow, HasFreed
  <2>15. ASSUME SelectPending(a) \/ DeletePending(a) \/ SelectQueued(a) \/ SetAssigned(a)
         PROVE  Registered(a)'
    <3>1. HeldBy(target[a]) = {} /\ UNCHANGED slots
      BY <2>15 DEF SelectPending, DeletePending, SelectQueued, SetAssigned, At, Registered, HasFreed
    <3>2. CASE EndFree(a)
      BY <2>9, <3>2 DEF EndFree, Goto, TypeOK, GoesForRow, HasFreed
    <3>3. CASE InFree(a, "assign") \/ InFree(a, "set_assigned")
      BY <2>14, <3>1, <3>3 DEF InFree, Goto, TypeOK, HasFreed
    <3>4. CASE SelectPending(a) /\ InFree(a, "delete_pending")
      <4>1. UNCHANGED target /\ pc'[a] = "delete_pending" /\ picked'[a] \subseteq target[a]
        BY <3>4 DEF SelectPending, InFree, EndFree, Goto, TypeOK
      <4> QED BY <2>14, <3>1, <4>1 DEF HasFreed
    <3> QED BY <2>15, <3>2, <3>3, <3>4 DEF SelectPending, DeletePending, SelectQueued, SetAssigned
  <2>16. Registered(a)'
    BY <2>1, <2>10, <2>11, <2>12, <2>13, <2>15 DEF Asks
  <2> QED BY <2>6, <2>7, <2>16
<1> QED BY <1>1, <1>2, RowsWritten

\* Every held slot has an assigned pending row, by which the daemon finds it, as
\* long as nobody frees by hand and no run is finished under a living worker: a
\* claim registers before it takes a row, every call to free takes the rows away
\* before the registration, and only one actor at a time is about a step. This
\* needs no isolation of the storage.
THEOREM SlotsStayRegistered ==
  ASSUME OthersWait
  PROVE  Spec => []HeldSlotsAreRegistered
<1>1. Init => ContextInv /\ GoneRuns /\ RegisteredInv
  BY PoolsAssumption DEF Init, ContextInv, TargetsOK, ClaimsInUse, ClaimLabels, GoneRuns,
     RegisteredInv, Registered, GoesForRow, HasFreed, HeldSlotsAreRegistered, Rows
<1>2. ContextInv /\ GoneRuns /\ RegisteredInv /\ TypeOK /\ TypeOK' /\ [Next]_vars
        => (ContextInv /\ GoneRuns /\ RegisteredInv)'
  BY ContextInductive, GoneInductive, RegisteredInductive
<1>3. RegisteredInv => HeldSlotsAreRegistered
  BY DEF RegisteredInv
<1> QED BY <1>1, <1>2, <1>3, TypeCorrect, PTL DEF Spec

-----------------------------------------------------------------------------
(* Claims of steps in flight are within the limit, as long as no row has been *)
(* pruned under its holder                                                    *)

NothingPruned == \A i \in Rows : ~slots[i].deleted

\* Nobody claims or frees a step in flight.
InFlightRests ==
  /\ pendingClaims \cap inFlight = {}
  /\ \A s \in inFlight : s \notin target[RunOf[s]]

LEMMA FewerRest ==
  ASSUME InFlightRests, pendingClaims' \subseteq pendingClaims, inFlight' \subseteq inFlight,
         \A s \in inFlight' : target'[RunOf[s]] \subseteq target[RunOf[s]]
  PROVE  InFlightRests'
BY DEF InFlightRests

LEMMA SameRests ==
  ASSUME InFlightRests, UNCHANGED <<pendingClaims, inFlight, target>>
  PROVE  InFlightRests'
BY DEF InFlightRests

LEMMA BlockedRests ==
  ASSUME TypeOK, InFlightRests, NEW r \in Runs, ClaimBlocked(r)
  PROVE  InFlightRests'
<1>1. \A s \in inFlight : target'[RunOf[s]] \subseteq target[RunOf[s]]
  BY DEF ClaimBlocked, TypeOK
<1> QED BY <1>1, FewerRest DEF ClaimBlocked

LEMMA GrantedRests ==
  ASSUME TypeOK, InFlightRests, NEW r \in Runs, NEW s \in Steps, RunOf[s] = r, ClaimGranted(r, s)
  PROVE  InFlightRests'
BY DEF InFlightRests, ClaimGranted, TypeOK

LEMMA FreedRests ==
  ASSUME TypeOK, InFlightRests, NEW a \in Actors, UNCHANGED inFlight,
         EndFree(a) \/ \E to : InFree(a, to)
  PROVE  InFlightRests'
<1>1. CASE EndFree(a)
  <2>1. \A s \in inFlight : target'[RunOf[s]] \subseteq target[RunOf[s]]
    BY <1>1 DEF EndFree, TypeOK
  <2> QED BY <1>1, <2>1, FewerRest DEF EndFree
<1>2. CASE \E to : InFree(a, to)
  BY <1>2, SameRests DEF InFree
<1> QED BY <1>1, <1>2

LEMMA RestInductive ==
  ASSUME TypeOK, ContextInv, InFlightRests, [Next]_vars
  PROVE  InFlightRests'
<1>1. ASSUME NEW k \in Pools, (\E n \in Limits : SetLimit(k, n)) \/ DeleteLimit(k)
      PROVE  InFlightRests'
  BY <1>1, SameRests DEF SetLimit, DeleteLimit, proc, ctx
<1>2. ASSUME NEW r \in Runs,
             \/ InitDefault(r) \/ Resync(r) \/ HasPendingStep(r)
             \/ CountAssigned(r) \/ CountSlots(r) \/ AddPendingStep(r)
      PROVE  InFlightRests'
  BY <1>2, SameRests DEF InitDefault, Resync, HasPendingStep, CountAssigned, CountSlots,
     AddPendingStep, ctx
<1>3. ASSUME NEW r \in Runs, Unlimited(r) PROVE InFlightRests'
  <2>1. PICK s \in Steps : target[r] = {s} /\ RunOf[s] = r
    BY <1>3 DEF Unlimited, ContextInv, TargetsOK, ClaimLabels, StepsOf
  <2> QED BY <1>3, <2>1 DEF Unlimited, InFlightRests, TypeOK
<1>4. ASSUME NEW r \in Runs, CheckPending(r) PROVE InFlightRests'
  BY <1>4, SameRests, BlockedRests DEF CheckPending
<1>5. ASSUME NEW r \in Runs, CheckSlot(r) PROVE InFlightRests'
  <2>1. \A s \in target[r] : s \in Steps /\ RunOf[s] = r
    BY DEF ContextInv, TargetsOK, StepsOf
  <2> QED BY <1>5, <2>1, SameRests, GrantedRests DEF CheckSlot
<1>6. ASSUME NEW r \in Runs, SelectSlot(r) PROVE InFlightRests'
  BY <1>6, SameRests, BlockedRests DEF SelectSlot
<1>7. ASSUME NEW r \in Runs, TakeSlot(r) PROVE InFlightRests'
  <2>1. \A s \in target[r] : s \in Steps /\ RunOf[s] = r
    BY DEF ContextInv, TargetsOK, StepsOf
  <2> QED BY <1>7, <2>1, BlockedRests, GrantedRests DEF TakeSlot
<1>8. ASSUME NEW a \in Actors, DeletePruned(a) \/ SelectHeld(a) \/ FreeSlots(a)
      PROVE  InFlightRests'
  BY <1>8, SameRests DEF DeletePruned, SelectHeld, FreeSlots, ctx
<1>9. ASSUME NEW a \in Actors,
             SelectPending(a) \/ DeletePending(a) \/ SelectQueued(a) \/ SetAssigned(a)
      PROVE  InFlightRests'
  <2>1. UNCHANGED inFlight /\ (EndFree(a) \/ \E to : InFree(a, to))
    BY <1>9 DEF SelectPending, DeletePending, SelectQueued, SetAssigned
  <2> QED BY <2>1, FreedRests
<1>10. ASSUME NEW s \in Steps, Claim(s) PROVE InFlightRests'
  <2>1. /\ s \notin inFlight /\ pendingClaims' = pendingClaims \cup {s} /\ inFlight' = inFlight
        /\ target' = [target EXCEPT ![RunOf[s]] = {s}]
    BY <1>10 DEF Claim
  <2>2. \A q \in inFlight : target'[RunOf[q]] = target[RunOf[q]] \/ target'[RunOf[q]] = {s}
    BY <2>1, PoolsAssumption DEF TypeOK
  <2> QED BY <2>1, <2>2 DEF InFlightRests
<1>11. ASSUME NEW s \in Steps, Launch(s) \/ StepEnds(s) \/ ReplayFails(s) PROVE InFlightRests'
  BY <1>11, SameRests DEF Launch, StepEnds, ReplayFails, proc, ctx
<1>12. ASSUME NEW s \in Steps, HandleEvent(s) PROVE InFlightRests'
  <2>1. inFlight' = inFlight \ {s} /\ UNCHANGED pendingClaims
    BY <1>12 DEF HandleEvent
  <2>2. UNCHANGED target \/ target' = [target EXCEPT ![RunOf[s]] = {s}]
    BY <1>12 DEF HandleEvent, BeginFree
  <2>3. \A q \in inFlight : target'[RunOf[q]] = target[RunOf[q]] \/ target'[RunOf[q]] = {s}
    BY <2>2, PoolsAssumption DEF TypeOK
  <2> QED BY <2>1, <2>3 DEF InFlightRests
<1>13. ASSUME NEW s \in Steps, MarkUnknownState(s) PROVE InFlightRests'
  BY <1>13, FewerRest DEF MarkUnknownState, proc
<1>14. ASSUME NEW r \in Runs, LeaveContext(r) \/ ExitDone(r) \/ Resume(r) \/ EndRun(r)
       PROVE  InFlightRests'
  BY <1>14, SameRests DEF LeaveContext, ExitDone, Resume, EndRun, proc, ctx
<1>15. ASSUME NEW r \in Runs, ExitFree(r) PROVE InFlightRests'
  <2>1. PICK s \in pendingClaims : target' = [target EXCEPT ![r] = {s}]
    BY <1>15 DEF ExitFree, BeginFree
  <2>2. UNCHANGED <<pendingClaims, inFlight>>
    BY <1>15 DEF ExitFree, ctx
  <2> QED BY <2>1, <2>2 DEF InFlightRests, TypeOK
<1>16. ASSUME NEW a \in Actors, Crash(a) PROVE InFlightRests'
  <2>1. pendingClaims' \subseteq pendingClaims /\ inFlight' \subseteq inFlight
    BY <1>16 DEF Crash
  <2>2. \A b \in Actors : target'[b] \subseteq target[b]
    BY <1>16 DEF Crash, TypeOK
  <2>3. \A s \in inFlight : RunOf[s] \in Actors
    BY PoolsAssumption DEF TypeOK
  <2> QED BY <2>1, <2>2, <2>3, FewerRest
<1>17. ASSUME NEW r \in Runs, DaemonFree(r) \/ OperatorFree(r) PROVE InFlightRests'
  <2>1. \A q \in Runs : target'[q] = target[q]
    BY <1>17, PoolsAssumption DEF DaemonFree, OperatorFree, BeginFree, TypeOK
  <2>2. UNCHANGED <<pendingClaims, inFlight>>
    BY <1>17 DEF DaemonFree, OperatorFree, ctx
  <2>3. \A s \in inFlight : RunOf[s] \in Runs
    BY PoolsAssumption DEF TypeOK
  <2> QED BY <2>1, <2>2, <2>3, FewerRest
<1>18. CASE UNCHANGED vars
  BY <1>18, SameRests DEF vars, proc, ctx
<1> QED
  BY <1>1, <1>2, <1>3, <1>4, <1>5, <1>6, <1>7, <1>8, <1>9, <1>10, <1>11, <1>12, <1>13, <1>14, <1>15, <1>16, <1>17, <1>18
  DEF Next, SystemNext, OperatorStep, FreeStep, RunStep, ClaimStep, StepStep

\* Each claim of a step in flight that nobody revoked has a live row of its own.
LEMMA OneRowForEachClaim ==
  ASSUME TypeOK, InFlightRests, ClaimsAreBacked, SlotsMatchLimit, NothingPruned
  PROVE  ClaimsWithinLimit
<1> SUFFICES ASSUME NEW k \in Pools, limits[k] # None
             PROVE  Cardinality((claims \cap inFlight \cap InPool(k)) \ revoked) <= limits[k].limit
  BY DEF ClaimsWithinLimit
<1> DEFINE S == (claims \cap inFlight \cap InPool(k)) \ revoked
           Row(s) == CHOOSE i \in Live(k) : slots[i].owner = s
           f == [s \in S |-> Row(s)]
<1>1. \A s \in S : \E i \in Live(k) : slots[i].owner = s
  BY DEF ClaimsAreBacked, InFlightRests, HeldBy, Live, NothingPruned, InPool
<1>2. \A s \in S : Row(s) \in Live(k) /\ slots[Row(s)].owner = s
  BY <1>1
<1>3. f \in [S -> Live(k)]
  BY <1>2
<1>4. \A s, t \in S : f[s] = f[t] => s = t
  BY <1>2
<1>5. f \in Injection(S, Live(k))
  BY <1>3, <1>4 DEF Injection, IsInjective
<1>6. IsFiniteSet(Live(k))
  BY FS_Subset, PoolsAssumption DEF Live, Rows
<1> HIDE DEF S, f
<1>7. Cardinality(S) <= Cardinality(Live(k))
  BY <1>5, <1>6, FS_Injection
<1>8. Cardinality(Live(k)) = limits[k].limit
  BY DEF SlotsMatchLimit
<1> QED BY <1>7, <1>8 DEF S

\* Never more steps in flight with a claim than the pool's limit, whoever
\* changes the limits, as long as no row has been pruned under its holder
\* (a step whose slot was taken from it by hand is not counted).
THEOREM ClaimsFitLimit ==
  ASSUME Isolated
  PROVE  Spec => [](NothingPruned => ClaimsWithinLimit)
<1>1. Init => InFlightRests
  BY DEF Init, InFlightRests
<1>2. InFlightRests /\ TypeOK /\ ContextInv /\ [Next]_vars => InFlightRests'
  BY RestInductive
<1>3. Init => ContextInv
  BY PoolsAssumption DEF Init, ContextInv, TargetsOK, ClaimsInUse, ClaimLabels
<1>4. ContextInv /\ TypeOK /\ TypeOK' /\ [Next]_vars => ContextInv'
  BY ContextInductive
<1>5. TypeOK /\ InFlightRests /\ ClaimsAreBacked /\ SlotsMatchLimit
        => (NothingPruned => ClaimsWithinLimit)
  BY OneRowForEachClaim
<1>6. Spec => []ClaimsAreBacked
  BY ClaimsStayBacked
<1> QED BY <1>1, <1>2, <1>3, <1>4, <1>5, <1>6, TypeCorrect, SlotsFollowLimits, PTL DEF Spec

-----------------------------------------------------------------------------
(* While the deployment's default limit stays what it is, no row is pruned    *)

OneDefault == \A d, e \in DefaultLimits : d = e

\* Every limit is the default, and no row has been pruned.
DefaultInv ==
  /\ NothingPruned
  /\ \A k \in Pools : limits[k] # None =>
       \E d \in DefaultLimits : d # None /\ limits[k].limit = d

LEMMA SystemSteps ==
  ASSUME [SystemNext]_vars
  PROVE  \/ \E r \in Runs : InitDefault(r)
         \/ /\ UNCHANGED limits
            /\ \/ UNCHANGED slots
               \/ \E a \in Actors : DeletePruned(a) \/ FreeSlots(a)
               \/ \E r \in Runs : TakeSlot(r)
<1>1. ASSUME NEW r \in Runs, ClaimStep(r), ~InitDefault(r)
      PROVE  UNCHANGED limits /\ (UNCHANGED slots \/ TakeSlot(r))
  BY <1>1 DEF ClaimStep, Resync, Unlimited, HasPendingStep, CountAssigned, CountSlots,
     AddPendingStep, CheckPending, CheckSlot, SelectSlot, TakeSlot, db
<1>2. ASSUME NEW a \in Actors, FreeStep(a)
      PROVE  UNCHANGED limits /\ (UNCHANGED slots \/ DeletePruned(a) \/ FreeSlots(a))
  BY <1>2 DEF FreeStep, DeletePruned, SelectHeld, FreeSlots, SelectPending, DeletePending,
     SelectQueued, SetAssigned
<1>3. ASSUME NEW s \in Steps, StepStep(s) PROVE UNCHANGED <<limits, slots>>
  BY <1>3 DEF StepStep, Claim, Launch, StepEnds, HandleEvent, MarkUnknownState, ReplayFails, db
<1>4. ASSUME NEW r \in Runs, RunStep(r), ~ClaimStep(r) PROVE UNCHANGED <<limits, slots>>
  BY <1>4 DEF RunStep, LeaveContext, ExitFree, ExitDone, Resume, EndRun, db
<1>5. ASSUME NEW a \in Actors, Crash(a) PROVE UNCHANGED <<limits, slots>>
  BY <1>5 DEF Crash, db
<1>6. ASSUME NEW r \in Runs, DaemonFree(r) PROVE UNCHANGED <<limits, slots>>
  BY <1>6 DEF DaemonFree, db
<1>7. UNCHANGED vars => UNCHANGED <<limits, slots>>
  BY DEF vars, db
<1> QED BY <1>1, <1>2, <1>3, <1>4, <1>5, <1>6, <1>7 DEF SystemNext

LEMMA DefaultInductive ==
  ASSUME OneDefault, TypeOK, TypeOK', SlotsMatchLimit, DefaultInv, [SystemNext]_vars
  PROVE  DefaultInv'
<1> USE DEF DefaultInv
<1>1. ASSUME NEW r \in Runs, InitDefault(r) PROVE DefaultInv'
  <2>1. PICK s \in target[r] :
          IF config[r] = None
          THEN limits' = [limits EXCEPT ![PoolOf[s]] = None] /\ AllocateSlots(PoolOf[s], 0)
          ELSE /\ limits' = [limits EXCEPT ![PoolOf[s]] =
                    IF @ = None THEN [limit |-> config[r], from_default |-> TRUE]
                    ELSE WithLimit(@, config[r])]
               /\ AllocateSlots(PoolOf[s], config[r])
    BY <1>1 DEF InitDefault
  <2>2. PoolOf[s] \in Pools /\ config[r] \in DefaultLimits /\ (config[r] # None => config[r] \in Nat)
    BY PoolsAssumption DEF TypeOK
  <2>3. \A k \in Pools : limits[k] # None => config[r] # None /\ limits[k].limit = config[r]
    BY <2>2 DEF OneDefault
  <2>4. PICK n \in Nat : AllocateSlots(PoolOf[s], n) /\ n = IF config[r] = None THEN 0 ELSE config[r]
    BY <2>1, <2>2
  <2>5. Cardinality(Live(PoolOf[s])) = 0 \/ Cardinality(Live(PoolOf[s])) = n
    BY <2>2, <2>3, <2>4 DEF SlotsMatchLimit
  <2>6. Extend(PoolOf[s], n)
    BY <2>4, <2>5 DEF AllocateSlots
  <2>7. PICK new \in SUBSET FreshIds :
          slots' = [i \in SlotIds |->
            IF i \in new THEN [pool |-> PoolOf[s], owner |-> None, deleted |-> FALSE] ELSE slots[i]]
    BY <2>6 DEF Extend
  <2>8. ASSUME NEW i \in Rows' PROVE ~slots'[i].deleted
    <3>1. CASE i \in new
      BY <2>7, <3>1 DEF Rows
    <3>2. CASE i \notin new
      BY <2>7, <3>2 DEF Rows, NothingPruned
    <3> QED BY <3>1, <3>2
  <2>9. ASSUME NEW k \in Pools, limits'[k] # None
        PROVE  \E d \in DefaultLimits : d # None /\ limits'[k].limit = d
    <3>1. CASE k # PoolOf[s]
      <4>1. limits'[k] = limits[k]
        BY <2>1, <3>1 DEF TypeOK
      <4> QED BY <2>9, <4>1
    <3>2. CASE k = PoolOf[s] /\ config[r] = None
      BY <2>1, <2>2, <2>9, <3>2 DEF TypeOK
    <3>3. CASE k = PoolOf[s] /\ config[r] # None
      <4>1. limits'[k] = IF limits[k] = None THEN [limit |-> config[r], from_default |-> TRUE]
                         ELSE WithLimit(limits[k], config[r])
        BY <2>1, <2>2, <3>3 DEF TypeOK
      <4>2. limits[k] # None => WithLimit(limits[k], config[r]).limit = config[r]
        BY DEF WithLimit, TypeOK, LimitRow
      <4>3. limits'[k].limit = config[r]
        BY <4>1, <4>2
      <4> QED BY <2>2, <3>3, <4>3
    <3> QED BY <3>1, <3>2, <3>3
  <2> QED BY <2>8, <2>9 DEF NothingPruned
<1>2. ASSUME UNCHANGED limits, NothingPruned' PROVE DefaultInv'
  BY <1>2
<1>3. UNCHANGED slots => NothingPruned'
  BY DEF NothingPruned, Rows
<1>4. ASSUME NEW a \in Actors, DeletePruned(a) PROVE NothingPruned'
  BY <1>4 DEF DeletePruned, NothingPruned, Rows
<1>5. ASSUME NEW T, NEW s \in Steps \cup {None},
             slots' = [i \in SlotIds |->
               IF i \in T \cap Rows THEN WithOwner(slots[i], s) ELSE slots[i]]
      PROVE  NothingPruned'
  BY <1>5, OwnersWritten DEF NothingPruned
<1>6. ASSUME NEW a \in Actors, FreeSlots(a) PROVE NothingPruned'
  BY <1>5, <1>6 DEF FreeSlots
<1>7. ASSUME NEW r \in Runs, TakeSlot(r) PROVE NothingPruned'
  <2>1. target[r] \subseteq Steps \cup {None}
    BY DEF TypeOK
  <2> QED BY <1>3, <1>5, <1>7, <2>1, TakenRow
<1> QED BY <1>1, <1>2, <1>3, <1>4, <1>6, <1>7, SystemSteps

\* A pool whose limit is the deployment's default, which nobody changes, never
\* has more claims of steps in flight than its limit: no row is ever pruned.
THEOREM UntouchedLimitHolds ==
  ASSUME Isolated, OneDefault
  PROVE  UntouchedSpec => []ClaimsWithinLimit
<1>1. [SystemNext]_vars => [Next]_vars
  BY DEF Next
<1>2. UntouchedSpec => Spec
  BY <1>1, PTL DEF UntouchedSpec, Spec
<1>3. Init => DefaultInv
  BY PoolsAssumption DEF Init, DefaultInv, NothingPruned, Rows
<1>4. DefaultInv /\ SlotsMatchLimit /\ TypeOK /\ TypeOK' /\ [SystemNext]_vars => DefaultInv'
  BY DefaultInductive
<1>5. DefaultInv => NothingPruned
  BY DEF DefaultInv
<1>6. Spec => [](NothingPruned => ClaimsWithinLimit)
  BY ClaimsFitLimit
<1> QED BY <1>2, <1>3, <1>4, <1>5, <1>6, TypeCorrect, SlotsFollowLimits, PTL DEF UntouchedSpec

=============================================================================
