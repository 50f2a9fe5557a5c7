--------------------------- MODULE AutoRetryProofs ---------------------------
(***************************************************************************)
(* AutoRetry, for any number of runs, retries, readers' limits and deaths. *)
(***************************************************************************)
EXTENDS AutoRetry, FiniteSetTheorems, WellFoundedInduction, TLAPS

(***************************************************************************)
(* Types.                                                                  *)
(***************************************************************************)

LEMMA RunsAreNumbers ==
  /\ Runs \subseteq Nat \ {0} /\ 1 \in Runs /\ MaxRuns \in Runs
  /\ None \notin Runs
  /\ \A w \in Writers : w[1] \in Runs /\ w[2] \in {"worker", "monitor"} /\ w = <<w[1], w[2]>>
<1>1. Runs \subseteq Nat \ {0} /\ 1 \in Runs /\ MaxRuns \in Runs /\ None \notin Runs
  BY CountsAssumption, NoneAssumption DEF Runs
<1>2. LateEnds \subseteq Runs BY CasesAssumption DEF Runs
<1>3. ASSUME NEW w \in Writers
      PROVE  w[1] \in Runs /\ w[2] \in {"worker", "monitor"} /\ w = <<w[1], w[2]>>
  BY <1>2 DEF Writers
<1> QED BY <1>1, <1>3

\* A bounded set of numbers that is not empty has a greatest member.
LEMMA Greatest ==
  ASSUME NEW n \in Nat, NEW S, S \subseteq 1 .. n, S # {}
  PROVE  \E m \in S : \A k \in S : k <= m
<1> DEFINE D == {d \in Nat : \E k \in S : d = n - k}
<1>1. \A k \in S : n - k \in D OBVIOUS
<1>2. D \subseteq Nat /\ D # {} BY <1>1
<1>3. PICK d \in D : \A e \in D : ~ (<<e, d>> \in OpToRel(<, Nat))
  BY <1>2, WFMin, NatLessThanWellFounded
<1>4. PICK m \in S : d = n - m OBVIOUS
<1>5. ASSUME NEW k \in S PROVE k <= m
  <2>1. ~ (n - k < d) BY <1>1, <1>3 DEF OpToRel
  <2> QED BY <1>4, <2>1
<1> QED BY <1>5

\* The cursor that Fetch chooses is that of the last event it has read.
LEMMA LastRead ==
  ASSUME TypeOK, NEW t \in Types, Unread(t) # {},
         NEW m, m = CHOOSE i \in Unread(t) : \A j \in Unread(t) : j <= i
  PROVE  m \in Unread(t) /\ \A j \in Unread(t) : j <= m
<1>1. Len(log) \in Nat /\ Unread(t) \subseteq 1 .. Len(log) BY DEF TypeOK, Unread
<1>2. \E i \in Unread(t) : \A j \in Unread(t) : j <= i BY <1>1, Greatest
<1> QED BY <1>2

LEMMA FetchedCursors ==
  ASSUME TypeOK, Fetch
  PROVE  /\ next' \in [Types -> Nat]
         /\ \A t \in Types :
              \/ Unread(t) = {} /\ next'[t] = cursor[t]
              \/ next'[t] \in Unread(t) /\ \A j \in Unread(t) : j <= next'[t]
<1> DEFINE last(t) == CHOOSE i \in Unread(t) : \A j \in Unread(t) : j <= i
<1>1. next' = [t \in Types |-> IF Unread(t) = {} THEN cursor[t] ELSE last(t)] BY DEF Fetch
<1>2. ASSUME NEW t \in Types
      PROVE  \/ Unread(t) = {} /\ next'[t] = cursor[t]
             \/ next'[t] \in Unread(t) /\ \A j \in Unread(t) : j <= next'[t]
  <2>1. CASE Unread(t) = {} BY <1>1, <2>1
  <2>2. CASE Unread(t) # {}
    <3>1. last(t) \in Unread(t) /\ \A j \in Unread(t) : j <= last(t) BY <2>2, LastRead
    <3> QED BY <1>1, <2>2, <3>1
  <2> QED BY <2>1, <2>2
<1>3. \A t \in Types : cursor[t] \in Nat /\ Unread(t) \subseteq Nat BY DEF TypeOK, Unread
<1> QED BY <1>1, <1>2, <1>3

\* What a new run leaves of the rows, and what it adds.
LEMMA NewTypes ==
  ASSUME TypeOK, NEW from \in Runs, NEW a \in BOOLEAN, NEW s \in BOOLEAN, New(from, a, s)
  PROVE  /\ created' = created + 1 /\ created' \in Runs
         /\ status' \in [Runs -> Types \cup {"absent", "NOT_STARTED", "STARTED"}]
         /\ parent' \in [Runs -> Runs \cup {None}] /\ auto' \in [Runs -> BOOLEAN]
<1>1. created + 1 \in Runs BY CountsAssumption DEF New, TypeOK, Runs
<1> QED BY <1>1 DEF New, TypeOK

Record == [status : Types \cup {"absent", "NOT_STARTED", "STARTED"},
           will : {None, "true", "false"}, retry : Runs \cup {None}]

\* The run that the consumer retries, while it does.
Retrying == pc \in {"group", "create", "tag", "submit"}

\* The consumer works on runs whose rows it has read.
ConsumerOK ==
  /\ pc \notin {"idle", "fetched"} => \A r \in todo : record[r] \in Record
  /\ Retrying => current[1] \in Runs /\ record[current[1]] \in Record
  /\ pc \in {"tag", "submit"} => current[2] \in Runs


LEMMA Elements ==
  ASSUME NEW E, NEW q \in Seq(E)
  PROVE  Len(q) \in Nat /\ \A i \in 1 .. Len(q) : q[i] \in E
OBVIOUS

\* The events, and the counters that may still grow.
LEMMA LogTypes ==
  ASSUME TypeOK
  PROVE  /\ Len(log) \in Nat
         /\ \A i \in 1 .. Len(log) : log[i].type \in Types /\ log[i].run \in Runs
<1>1. log \in Seq([type : Types, run : Runs]) BY DEF TypeOK
<1>2. Len(log) \in Nat /\ \A i \in 1 .. Len(log) : log[i] \in [type : Types, run : Runs]
  BY <1>1, Elements
<1> QED BY <1>2

LEMMA BoundsStep ==
  ASSUME TypeOK
  PROVE  /\ manual < MaxManual => manual + 1 \in 0 .. MaxManual
         /\ crashes < MaxCrashes => crashes + 1 \in 0 .. MaxCrashes
<1>1. MaxManual \in Nat /\ MaxCrashes \in Nat BY CountsAssumption
<1>2. manual \in 0 .. MaxManual /\ crashes \in 0 .. MaxCrashes BY DEF TypeOK
<1> QED BY <1>1, <1>2

LEMMA InitTypes == Init => TypeOK /\ ConsumerOK
<1> SUFFICES ASSUME Init PROVE TypeOK /\ ConsumerOK OBVIOUS
<1>1. log \in Seq([type : Types, run : Runs]) BY DEF Init
<1>2. 0 \in 0 .. MaxManual /\ 0 \in 0 .. MaxCrashes BY CountsAssumption
<1>3. current \in (Runs \cup {None}) \X (Runs \cup {None}) BY DEF Init
<1>4. writer \in [Writers -> [at : Types \cup {"idle", "decide", "tag", "ended"},
                              will : {None, "true", "false"}, retry : Runs \cup {None}]]
  BY DEF Init, Done
<1>5. status \in [Runs -> Types \cup {"absent", "NOT_STARTED", "STARTED"}] BY DEF Init
<1>6. {cursor, next} \subseteq [Types -> Nat] BY DEF Init
<1> QED BY <1>1, <1>2, <1>3, <1>4, <1>5, <1>6, RunsAreNumbers DEF Init, TypeOK, ConsumerOK, Retrying

LEMMA StepTypes ==
  ASSUME TypeOK, ConsumerOK, [Next]_vars
  PROVE  TypeOK' /\ ConsumerOK'
<1> USE RunsAreNumbers DEF Types
<1> DEFINE Writer == [at : Types \cup {"idle", "decide", "tag", "ended"},
                      will : {None, "true", "false"}, retry : Runs \cup {None}]
<1>1. CASE UNCHANGED vars
  BY <1>1 DEF vars, rows, tags, consumer, bounds, TypeOK, ConsumerOK, Retrying, Record
<1>2. ASSUME NEW r \in Runs, NEW who, <<r, who>> \in Writers, NEW t \in Types, Ends(r, who, t)
      PROVE  TypeOK' /\ ConsumerOK'
  <2>1. [Done EXCEPT !.at = t] \in Writer BY DEF Done
  <2>2. writer' \in [Writers -> Writer] BY <1>2, <2>1 DEF Ends, TypeOK
  <2>3. log' \in Seq([type : Types, run : Runs]) BY <1>2 DEF Ends, TypeOK
  <2>4. TypeOK' BY <1>2, <2>2, <2>3 DEF Ends, rows, tags, consumer, bounds, TypeOK
  <2> QED BY <1>2, <2>4 DEF Ends, consumer, ConsumerOK, Retrying, Record
<1>3. ASSUME NEW r \in Runs, NEW who, <<r, who>> \in Writers, WriteStatus(r, who)
      PROVE  TypeOK' /\ ConsumerOK'
  <2>1. writer' \in [Writers -> Writer]
    <3>1. writer \in [Writers -> Writer] BY DEF TypeOK
    <3>2. writer[<<r, who>>] \in Writer BY <1>3, <3>1
    <3>3. [writer[<<r, who>>] EXCEPT !.at = IF @ = "FAILURE" THEN "decide" ELSE "ended"] \in Writer
      BY <3>2
    <3> QED BY <1>3, <3>1, <3>3 DEF WriteStatus
  <2>2. status' \in [Runs -> Types \cup {"absent", "NOT_STARTED", "STARTED"}]
    BY <1>3 DEF WriteStatus, TypeOK
  <2>3. TypeOK' BY <1>3, <2>1, <2>2 DEF WriteStatus, tags, consumer, bounds, TypeOK
  <2> QED BY <1>3, <2>3 DEF WriteStatus, consumer, ConsumerOK, Retrying, Record
<1>4. ASSUME NEW r \in Runs, NEW who, <<r, who>> \in Writers, Decide(r, who)
      PROVE  TypeOK' /\ ConsumerOK'
  <2>1. ShouldRetry \in {"true", "false"} BY DEF ShouldRetry
  <2>2. writer' \in [Writers -> Writer] BY <1>4, <2>1 DEF Decide, TypeOK
  <2>3. TypeOK' BY <1>4, <2>2 DEF Decide, rows, tags, consumer, bounds, TypeOK
  <2> QED BY <1>4, <2>3 DEF Decide, consumer, ConsumerOK, Retrying, Record
<1>5. ASSUME NEW r \in Runs, NEW who, <<r, who>> \in Writers, Tag(r, who)
      PROVE  TypeOK' /\ ConsumerOK'
  <2>1. [Done EXCEPT !.at = "ended"] \in Writer BY DEF Done
  <2>2. writer' \in [Writers -> Writer] BY <1>5, <2>1 DEF Tag, TypeOK
  <2>3. will' \in [Runs -> {None, "true", "false"}] /\ retry' \in [Runs -> Runs \cup {None}]
    BY <1>5 DEF Tag, TypeOK
  <2>4. TypeOK' BY <1>5, <2>2, <2>3 DEF Tag, rows, consumer, bounds, TypeOK
  <2> QED BY <1>5, <2>4 DEF Tag, consumer, ConsumerOK, Retrying, Record
<1>6. ASSUME NEW r \in Runs, NEW who, <<r, who>> \in Writers, WriterDies(r, who)
      PROVE  TypeOK' /\ ConsumerOK'
  <2>1. [Done EXCEPT !.at = "ended"] \in Writer BY DEF Done
  <2>2. writer' \in [Writers -> Writer] BY <1>6, <2>1 DEF WriterDies, TypeOK
  <2>3. crashes' \in 0 .. MaxCrashes BY <1>6, BoundsStep DEF WriterDies
  <2>4. TypeOK' BY <1>6, <2>2, <2>3 DEF WriterDies, rows, tags, consumer, TypeOK
  <2> QED BY <1>6, <2>4 DEF WriterDies, consumer, ConsumerOK, Retrying, Record
<1>7. ASSUME NEW r \in Runs, Reexecute(r)
      PROVE  TypeOK' /\ ConsumerOK'
  <2>1. manual' \in 0 .. MaxManual BY <1>7, BoundsStep DEF Reexecute
  <2>2. New(r, FALSE, TRUE) BY <1>7 DEF Reexecute
  <2>3. TypeOK'
    BY <1>7, <2>1, <2>2, NewTypes DEF Reexecute, tags, consumer, TypeOK
  <2> QED BY <1>7, <2>3 DEF Reexecute, consumer, ConsumerOK, Retrying, Record
<1>8. CASE Fetch
  <2>1. todo' \subseteq Runs
    <3>1. \A t \in Types : Unread(t) \subseteq 1 .. Len(log) BY DEF Unread
    <3>2. \A i \in 1 .. Len(log) : log[i].run \in Runs BY LogTypes
    <3> QED BY <1>8, <3>1, <3>2 DEF Fetch
  <2>2. next' \in [Types -> Nat] BY <1>8, FetchedCursors
  <2>3. TypeOK' BY <1>8, <2>1, <2>2 DEF Fetch, rows, tags, bounds, TypeOK
  <2> QED BY <1>8, <2>3 DEF Fetch, ConsumerOK, Retrying
<1>9. CASE ReadRows
  <2>1. TypeOK' BY <1>9 DEF ReadRows, rows, tags, bounds, TypeOK
  <2>2. \A r \in todo : record'[r] \in Record
    BY <1>9 DEF ReadRows, TypeOK, Record
  <2> QED BY <1>9, <2>1, <2>2 DEF ReadRows, ConsumerOK, Retrying, Record
<1>10. ASSUME NEW r \in Runs, Examine(r)
       PROVE  TypeOK' /\ ConsumerOK'
  <2>1. ShouldRetry \in {"true", "false"} BY DEF ShouldRetry
  <2>2. record[r] \in Record BY <1>10 DEF Examine, ConsumerOK
  <2>3. Decision(r) \in {"true", "false"} BY <2>1, <2>2, NoneAssumption DEF Decision, Record
  <2>4. will' \in [Runs -> {None, "true", "false"}] BY <1>10, <2>3 DEF Examine, TypeOK
  <2>5. current' \in (Runs \cup {None}) \X (Runs \cup {None}) BY <1>10 DEF Examine, TypeOK
  <2>6. TypeOK' BY <1>10, <2>4, <2>5 DEF Examine, rows, bounds, TypeOK
  <2>7. \/ current' = current /\ pc' = "examine"
        \/ current'[1] = r /\ pc' = "group"
    <3>1. CASE Decision(r) = "true" /\ pc' = "group" /\ current' = <<r, None>> BY <3>1
    <3>2. CASE pc' = pc /\ current' = current BY <1>10, <3>2 DEF Examine
    <3> QED BY <1>10, <3>1, <3>2 DEF Examine
  <2> QED BY <1>10, <2>2, <2>6, <2>7 DEF Examine, ConsumerOK, Retrying, Record
<1>11. CASE JobIsGone
  <2>1. current' \in (Runs \cup {None}) \X (Runs \cup {None}) BY <1>11 DEF JobIsGone
  <2>2. TypeOK'
    BY <1>11, <2>1 DEF JobIsGone, rows, tags, bounds, TypeOK, ConsumerOK, Retrying
  <2> QED BY <1>11, <2>2 DEF JobIsGone, ConsumerOK, Retrying, Record
<1>12. CASE FindRetry
  <2>1. PICK n \in ExistingRetries(current[1]) :
          current' = <<current[1], n>> /\ pc' = IF n = None THEN "create" ELSE "tag"
    BY <1>12 DEF FindRetry
  <2>2. current[1] \in Runs /\ record[current[1]] \in Record
    BY <1>12 DEF FindRetry, ConsumerOK, Retrying
  <2>3. Group \subseteq Runs BY DEF Group, Runs, TypeOK
  <2>4. n \in Runs \cup {None} BY <2>2, <2>3 DEF ExistingRetries, Record
  <2>5. TypeOK' BY <1>12, <2>1, <2>2, <2>4 DEF FindRetry, rows, tags, bounds, TypeOK
  <2> QED BY <1>12, <2>1, <2>2, <2>4, <2>5 DEF FindRetry, ConsumerOK, Retrying, Record
<1>13. CASE CreateRetry
  <2>1. current[1] \in Runs BY <1>13 DEF CreateRetry, ConsumerOK, Retrying
  <2>2. New(current[1], TRUE, FALSE) BY <1>13 DEF CreateRetry
  <2>3. created + 1 \in Runs BY <2>1, <2>2, NewTypes
  <2>4. TypeOK' BY <1>13, <2>1, <2>2, <2>3, NewTypes DEF CreateRetry, tags, bounds, TypeOK
  <2> QED BY <1>13, <2>1, <2>3, <2>4 DEF CreateRetry, ConsumerOK, Retrying, Record
<1>14. CASE TagRetry
  <2>1. current[1] \in Runs /\ current[2] \in Runs BY <1>14 DEF TagRetry, ConsumerOK, Retrying
  <2>2. TypeOK' BY <1>14, <2>1 DEF TagRetry, rows, bounds, TypeOK
  <2> QED BY <1>14, <2>1, <2>2 DEF TagRetry, ConsumerOK, Retrying, Record
<1>15. CASE SubmitRetry
  <2>1. current' \in (Runs \cup {None}) \X (Runs \cup {None}) BY <1>15 DEF SubmitRetry
  <2>2. status' \in [Runs -> Types \cup {"absent", "NOT_STARTED", "STARTED"}]
    BY <1>15 DEF SubmitRetry, TypeOK
  <2>3. TypeOK' BY <1>15, <2>1, <2>2 DEF SubmitRetry, tags, bounds, TypeOK
  <2> QED BY <1>15, <2>3 DEF SubmitRetry, ConsumerOK, Retrying, Record
<1>16. CASE RetryFails
  <2>1. current' \in (Runs \cup {None}) \X (Runs \cup {None}) BY <1>16 DEF RetryFails
  <2>2. current[1] \in Runs BY <1>16 DEF RetryFails, ConsumerOK, Retrying
  <2>3. TypeOK' BY <1>16, <2>1, <2>2 DEF RetryFails, rows, bounds, TypeOK
  <2> QED BY <1>16, <2>3 DEF RetryFails, ConsumerOK, Retrying, Record
<1>17. CASE PersistCursors
  <2>1. TypeOK' BY <1>17 DEF PersistCursors, rows, tags, bounds, TypeOK
  <2> QED BY <1>17, <2>1 DEF PersistCursors, ConsumerOK, Retrying
<1>18. CASE ConsumerDies
  <2>1. crashes' \in 0 .. MaxCrashes BY <1>18, BoundsStep DEF ConsumerDies
  <2>2. current' \in (Runs \cup {None}) \X (Runs \cup {None}) BY <1>18 DEF ConsumerDies
  <2>3. TypeOK' BY <1>18, <2>1, <2>2 DEF ConsumerDies, rows, tags, TypeOK
  <2> QED BY <1>18, <2>3 DEF ConsumerDies, ConsumerOK, Retrying
<1>19. \A w \in Writers : w[1] \in Runs /\ <<w[1], w[2]>> \in Writers OBVIOUS
<1> QED BY <1>1, <1>2, <1>3, <1>4, <1>5, <1>6, <1>7, <1>8, <1>9, <1>10, <1>11, <1>12, <1>13, <1>14,
           <1>15, <1>16, <1>17, <1>18, <1>19 DEF Next, Consumes, Writes

\* Every variable keeps its type, and the consumer retries a run whose row it has read.
THEOREM TypeCorrect == Spec => [](TypeOK /\ ConsumerOK)
<1>1. TypeOK /\ ConsumerOK /\ [Next]_vars => (TypeOK /\ ConsumerOK)' BY StepTypes
<1> QED BY <1>1, InitTypes, PTL DEF Spec

(***************************************************************************)
(* The group only grows, by one run at a time.                             *)
(***************************************************************************)

\* Which steps create runs.
LEMMA RowsStep ==
  ASSUME [Next]_vars
  PROVE  UNCHANGED <<created, parent, auto>> \/ CreateRetry \/ \E r \in Runs : Reexecute(r)
BY DEF Next, Consumes, Writes, vars, rows, Ends, WriteStatus, Decide, Tag, WriterDies, Fetch, ReadRows,
       Examine, JobIsGone, FindRetry, TagRetry, SubmitRetry, RetryFails, PersistCursors, ConsumerDies

\* A new run is one child more, of its parent and of nobody else.
LEMMA NewMember ==
  ASSUME TypeOK, NEW from \in Runs, NEW a \in BOOLEAN, NEW s \in BOOLEAN, New(from, a, s)
  PROVE  /\ Group' = Group \cup {created + 1}
         /\ parent'[created + 1] = from /\ auto'[created + 1] = a
         /\ \A n \in Group : parent'[n] = parent[n] /\ auto'[n] = auto[n]
<1>1. created' = created + 1 /\ created \in Nat /\ created' \in Runs
  BY NewTypes, RunsAreNumbers DEF TypeOK
<1> QED BY <1>1 DEF New, TypeOK, Group, Runs

LEMMA NewRetry ==
  ASSUME TypeOK, NEW from \in Runs, New(from, TRUE, FALSE), NEW r \in Runs
  PROVE  /\ Retries(r)' = Retries(r) \cup (IF r = from THEN {created + 1} ELSE {})
         /\ Reexecutions(r)' = Reexecutions(r)
<1>1. /\ Group' = Group \cup {created + 1}
      /\ parent'[created + 1] = from /\ auto'[created + 1]
      /\ \A n \in Group : parent'[n] = parent[n] /\ auto'[n] = auto[n]
  BY NewMember
<1>2. Retries(r)' = Retries(r) \cup (IF r = from THEN {created + 1} ELSE {})
  BY <1>1 DEF Retries
<1> QED BY <1>1, <1>2 DEF Reexecutions

LEMMA NewReexecution ==
  ASSUME TypeOK, NEW from \in Runs, New(from, FALSE, TRUE), NEW r \in Runs
  PROVE  /\ Retries(r)' = Retries(r)
         /\ Reexecutions(r)' = Reexecutions(r) \cup (IF r = from THEN {created + 1} ELSE {})
<1>1. /\ Group' = Group \cup {created + 1}
      /\ parent'[created + 1] = from /\ ~auto'[created + 1]
      /\ \A n \in Group : parent'[n] = parent[n] /\ auto'[n] = auto[n]
  BY NewMember
<1>2. Retries(r)' = Retries(r) BY <1>1 DEF Retries
<1> QED BY <1>1, <1>2 DEF Reexecutions

\* Only the consumer's creation of a retry adds one.
LEMMA Families ==
  ASSUME TypeOK, ConsumerOK, [Next]_vars, NEW r \in Runs
  PROVE  /\ created \in Nat /\ created' \in Nat /\ created <= created'
         /\ Reexecutions(r) \subseteq Reexecutions(r)'
         /\ \/ Retries(r)' = Retries(r)
            \/ CreateRetry /\ r = current[1] /\ Retries(r)' = Retries(r) \cup {created + 1}
<1>1. created \in Nat BY RunsAreNumbers DEF TypeOK
<1>2. CASE UNCHANGED <<created, parent, auto>>
  BY <1>1, <1>2 DEF Retries, Reexecutions, Group
<1>3. CASE CreateRetry
  <2>1. current[1] \in Runs /\ New(current[1], TRUE, FALSE)
    BY <1>3 DEF CreateRetry, ConsumerOK, Retrying
  <2>2. created' = created + 1 BY <2>1, NewTypes
  <2>3. Retries(r)' = Retries(r) \cup (IF r = current[1] THEN {created + 1} ELSE {})
    BY <2>1, NewRetry
  <2>4. Reexecutions(r)' = Reexecutions(r) BY <2>1, NewRetry
  <2> QED BY <1>1, <1>3, <2>2, <2>3, <2>4
<1>4. ASSUME NEW n \in Runs, Reexecute(n)
      PROVE  /\ created' = created + 1
             /\ Reexecutions(r) \subseteq Reexecutions(r)' /\ Retries(r)' = Retries(r)
  <2>1. New(n, FALSE, TRUE) BY <1>4 DEF Reexecute
  <2>2. created' = created + 1 BY <2>1, NewTypes
  <2>3. Retries(r)' = Retries(r) BY <2>1, NewReexecution
  <2>4. Reexecutions(r) \subseteq Reexecutions(r)' BY <2>1, NewReexecution
  <2> QED BY <2>2, <2>3, <2>4
<1> QED BY <1>1, <1>2, <1>3, <1>4, RowsStep

LEMMA GroupTypes ==
  ASSUME TypeOK
  PROVE  Group \subseteq Runs /\ IsFiniteSet(Group) /\ Cardinality(Group) = created
<1>1. created \in Nat \ {0} /\ created <= MaxRuns /\ MaxRuns \in Nat
  BY CountsAssumption DEF TypeOK, Runs
<1>2. IsFiniteSet(1 .. created) /\ Cardinality(1 .. created) = created BY <1>1, FS_Interval
<1> QED BY <1>1, <1>2 DEF Group, Runs

(***************************************************************************)
(* A run is retried once.                                                  *)
(***************************************************************************)

\* The consumer creates a retry only of a run that has none, unless a user has re-executed it.
OnceInv ==
  /\ pc = "create" => Retries(current[1]) = {} \/ Reexecutions(current[1]) # {}
  /\ \A r \in Runs : (\E n : Retries(r) \subseteq {n}) \/ Reexecutions(r) # {}

\* Which steps lead to the creation of a retry.
LEMMA ToCreate ==
  ASSUME [Next]_vars, pc' = "create"
  PROVE  FindRetry \/ (pc = "create" /\ current' = current)
BY DEF Next, Consumes, Writes, vars, consumer, Ends, WriteStatus, Decide, Tag, WriterDies, Fetch, ReadRows,
       Examine, JobIsGone, CreateRetry, TagRetry, SubmitRetry, RetryFails, PersistCursors, ConsumerDies,
       Reexecute

LEMMA OnceStep ==
  ASSUME TypeOK, ConsumerOK, OnceInv, [Next]_vars
  PROVE  OnceInv'
<1>1. ASSUME NEW r \in Runs PROVE (\E n : Retries(r)' \subseteq {n}) \/ Reexecutions(r)' # {}
  <2>1. CASE Reexecutions(r) # {} BY <2>1, Families
  <2>2. CASE Reexecutions(r) = {} /\ Retries(r)' = Retries(r) BY <2>2 DEF OnceInv
  <2>3. CASE CreateRetry /\ r = current[1] /\ Retries(r)' = Retries(r) \cup {created + 1}
    <3>1. Retries(r) = {} \/ Reexecutions(r) # {} BY <2>3 DEF CreateRetry, OnceInv
    <3> QED BY <2>1, <2>3, <3>1
  <2> QED BY <2>1, <2>2, <2>3, Families
<1>2. ASSUME pc' = "create" PROVE Retries(current[1])' = {} \/ Reexecutions(current[1])' # {}
  <2>1. CASE pc = "create" /\ current' = current
    <3>1. current[1] \in Runs BY <2>1 DEF ConsumerOK, Retrying
    <3>2. ~CreateRetry BY <1>2 DEF CreateRetry
    <3>3. Retries(current[1]) = {} \/ Reexecutions(current[1]) # {} BY <2>1 DEF OnceInv
    <3> DEFINE r == current[1]
    <3>4. Retries(r)' = Retries(r) /\ Reexecutions(r) \subseteq Reexecutions(r)'
      <4> HIDE DEF r
      <4>1. \A q \in Runs : Retries(q)' = Retries(q) /\ Reexecutions(q) \subseteq Reexecutions(q)'
        BY <3>2, Families
      <4>2. r \in Runs BY <3>1 DEF r
      <4>3. r' = r BY <2>1 DEF r
      <4> QED BY <4>1, <4>2, <4>3 DEF Retries, Reexecutions
    <3> QED BY <2>1, <3>3, <3>4
  <2>2. CASE FindRetry
    <3>1. PICK n \in ExistingRetries(current[1]) :
            current' = <<current[1], n>> /\ pc' = IF n = None THEN "create" ELSE "tag"
      BY <2>2 DEF FindRetry
    <3>2. n = None BY <1>2, <3>1
    <3> DEFINE r == current[1]
            children == {m \in Group : parent[m] = r}
    <3>3. current[1] \in Runs BY <2>2 DEF FindRetry, ConsumerOK, Retrying
    <3>4. children = {} \/ \E m \in children : ~auto[m]
      <4>1. record[r].retry = None BY <3>1, <3>2 DEF ExistingRetries
      <4>2. ASSUME children # {} PROVE \E m \in children : None = IF auto[m] THEN m ELSE None
        BY <3>1, <3>2, <4>1, <4>2 DEF ExistingRetries
      <4>3. \A m \in children : m \in Runs BY GroupTypes
      <4> QED BY <4>2, <4>3, RunsAreNumbers
    <3>5. Retries(r) = {} \/ Reexecutions(r) # {} BY <3>4 DEF Retries, Reexecutions
    <3>6. current[1]' = r BY <3>1
    <3>7. UNCHANGED <<created, parent, auto>> BY <2>2 DEF FindRetry, rows
    <3> QED BY <3>5, <3>6, <3>7 DEF Retries, Reexecutions, Group
  <2> QED BY <1>2, <2>1, <2>2, ToCreate
<1> QED BY <1>1, <1>2 DEF OnceInv

\* A run is retried automatically once, although its events may be read again after a crash, at
\* any step between creating, naming and submitting the retry; unless a user has re-executed it.
THEOREM RunsRetriedOnce == Spec => []RetriedOnce
<1>1. Init => OnceInv
  <2> SUFFICES ASSUME Init PROVE OnceInv OBVIOUS
  <2>1. \A r \in Runs : Retries(r) = {} BY RunsAreNumbers DEF Init, Retries, Group
  <2>2. pc # "create" BY DEF Init
  <2> QED BY <2>1, <2>2 DEF OnceInv
<1>2. TypeOK /\ ConsumerOK /\ OnceInv /\ [Next]_vars => OnceInv' BY OnceStep
<1>3. TypeOK /\ OnceInv => RetriedOnce
  <2> SUFFICES ASSUME TypeOK, OnceInv, NEW r \in Group
               PROVE  Cardinality(Retries(r)) <= 1 \/ Reexecutions(r) # {}
    BY DEF RetriedOnce
  <2>1. r \in Runs BY GroupTypes
  <2>2. ASSUME NEW n, Retries(r) \subseteq {n} PROVE Cardinality(Retries(r)) <= 1
    <3>1. IsFiniteSet({n}) /\ Cardinality({n}) = 1 BY FS_Singleton
    <3> HIDE DEF Retries
    <3>2. Cardinality(Retries(r)) <= Cardinality({n}) BY <2>2, <3>1, FS_Subset
    <3> QED BY <3>1, <3>2
  <2> QED BY <2>1, <2>2 DEF OnceInv
<1> QED BY <1>1, <1>2, <1>3, TypeCorrect, PTL DEF Spec

(***************************************************************************)
(* Only the first runs of a group are retried: who decides to retry one    *)
(* has counted the group, and the run is in it.                            *)
(***************************************************************************)

\* Whatever has happened to a run, the run has been created.
Known ==
  /\ \A r \in Runs : status[r] # "absent" => r <= created
  /\ \A w \in Writers : writer[w].at # "idle" => w[1] <= created
  /\ \A i \in 1 .. Len(log) : log[i].run <= created
  /\ \A r \in todo : r <= created

\* One event more.
LEMMA LogGrows ==
  ASSUME NEW E, NEW q \in Seq(E), NEW e \in E
  PROVE  /\ Len(Append(q, e)) = Len(q) + 1 /\ Append(q, e)[Len(q) + 1] = e
         /\ \A i \in 1 .. Len(q) : Append(q, e)[i] = q[i]
OBVIOUS

LEMMA EndsLog ==
  ASSUME TypeOK, NEW r \in Runs, NEW who, NEW t \in Types, Ends(r, who, t)
  PROVE  /\ Len(log) \in Nat /\ Len(log') = Len(log) + 1
         /\ log'[Len(log) + 1].run = r /\ log'[Len(log) + 1].type = t
         /\ \A i \in 1 .. Len(log) : log'[i] = log[i]
<1> DEFINE E == [type : Types, run : Runs]
           e == [type |-> t, run |-> r]
<1>1. log \in Seq(E) /\ e \in E BY DEF TypeOK
<1>2. log' = Append(log, e) /\ e.run = r /\ e.type = t BY DEF Ends
<1>3. Len(log) \in Nat BY LogTypes
<1> HIDE DEF E, e
<1> QED BY <1>1, <1>2, <1>3, LogGrows

LEMMA KnownStep ==
  ASSUME TypeOK, ConsumerOK, Known, [Next]_vars
  PROVE  Known'
<1> USE RunsAreNumbers, LogTypes
<1>0. created \in Nat /\ created' \in Nat /\ created <= created'
  BY Families
<1>1. ASSUME NEW w \in Writers, NEW t \in Types, Ends(w[1], w[2], t) PROVE Known'
  <2>1. w[1] \in Runs /\ w = <<w[1], w[2]>> OBVIOUS
  <2>2. w[1] <= created BY <1>1, <2>1 DEF Ends, Known
  <2>3. writer' = [writer EXCEPT ![w] = [Done EXCEPT !.at = t]] /\ UNCHANGED <<created, status, todo>>
    BY <1>1, <2>1 DEF Ends, rows, consumer
  <2>4. \A v \in Writers : writer'[v].at # "idle" => v[1] <= created
    BY <2>2, <2>3 DEF Known, TypeOK
  <2>5. \A i \in 1 .. Len(log') : log'[i].run <= created
    BY <1>1, <2>1, <2>2, EndsLog DEF Known
  <2> QED BY <2>3, <2>4, <2>5 DEF Known
<1>2. ASSUME NEW w \in Writers, Writes(w[1], w[2]) \/ WriterDies(w[1], w[2]) PROVE Known'
  <2>1. w[1] \in Runs /\ w = <<w[1], w[2]>> OBVIOUS
  <2>2. UNCHANGED <<created, log, todo>>
    BY <1>2 DEF Writes, WriteStatus, Decide, Tag, WriterDies, rows, consumer
  <2>3. w[1] <= created
    <3>1. writer[w].at # "idle"
      BY <1>2, <2>1 DEF Writes, WriteStatus, Decide, Tag, WriterDies, Types
    <3> QED BY <3>1 DEF Known
  <2>4. \A v \in Writers : v # w => writer'[v] = writer[v]
    BY <1>2, <2>1 DEF Writes, WriteStatus, Decide, Tag, WriterDies, TypeOK
  <2>5. \A r \in Runs : r # w[1] => status'[r] = status[r]
    BY <1>2 DEF Writes, WriteStatus, Decide, Tag, WriterDies, rows, TypeOK
  <2> QED BY <2>2, <2>3, <2>4, <2>5 DEF Known
<1>11. ASSUME created' = created + 1, \A n \in Runs : n # created + 1 => status'[n] = status[n],
              UNCHANGED <<writer, log, todo>>
       PROVE  Known'
  <2>1. \A n \in Nat : n <= created => n <= created + 1 BY <1>0
  <2>2. \A n \in Runs : status'[n] # "absent" => n <= created + 1 BY <1>0, <1>11, <2>1 DEF Known
  <2>3. \A w \in Writers : writer[w].at # "idle" => w[1] <= created + 1 BY <2>1 DEF Known
  <2>4. \A i \in 1 .. Len(log) : log[i].run <= created + 1 BY <2>1 DEF Known
  <2>5. \A r \in todo : r <= created + 1 BY <2>1 DEF Known, TypeOK
  <2> QED BY <1>11, <2>2, <2>3, <2>4, <2>5 DEF Known
<1>3. ASSUME NEW r \in Runs, Reexecute(r) PROVE Known'
  <2>1. New(r, FALSE, TRUE) BY <1>3 DEF Reexecute
  <2>2. created' = created + 1 BY <2>1 DEF New
  <2>3. \A n \in Runs : n # created + 1 => status'[n] = status[n] BY <2>1 DEF New, TypeOK
  <2>4. UNCHANGED <<writer, log, todo>> BY <1>3 DEF Reexecute, consumer
  <2> QED BY <1>11, <2>2, <2>3, <2>4
<1>4. CASE CreateRetry
  <2>1. created' = created + 1 BY <1>4 DEF New, CreateRetry
  <2>2. \A n \in Runs : n # created + 1 => status'[n] = status[n] BY <1>4 DEF CreateRetry, New, TypeOK
  <2>3. UNCHANGED <<writer, log, todo>> BY <1>4 DEF CreateRetry
  <2> QED BY <1>11, <2>1, <2>2, <2>3
<1>5. CASE Fetch
  <2>1. \A t \in Types : Unread(t) \subseteq 1 .. Len(log) BY DEF Unread
  <2>2. \A r \in todo' : r <= created BY <1>5, <2>1 DEF Fetch, Known
  <2> QED BY <1>5, <2>2 DEF Fetch, Known, rows
<1>6. CASE SubmitRetry
  <2>1. \A r \in Runs : status[r] = "absent" => status'[r] = "absent"
    BY <1>6 DEF SubmitRetry, TypeOK
  <2> QED BY <1>6, <2>1 DEF SubmitRetry, Known
<1>7. ASSUME UNCHANGED <<created, status, writer, log>>, todo' \subseteq todo PROVE Known'
  BY <1>7 DEF Known
<1>8. CASE UNCHANGED vars BY <1>7, <1>8 DEF vars, rows, consumer
<1>9. CASE ReadRows \/ JobIsGone \/ FindRetry \/ TagRetry \/ RetryFails \/ PersistCursors \/ ConsumerDies
  BY <1>7, <1>9 DEF ReadRows, JobIsGone, FindRetry, TagRetry, RetryFails, PersistCursors, ConsumerDies,
                    rows
<1>10. ASSUME NEW r \in Runs, Examine(r) PROVE Known' BY <1>7, <1>10 DEF Examine, rows
<1> QED BY <1>1, <1>2, <1>3, <1>4, <1>5, <1>6, <1>8, <1>9, <1>10 DEF Next, Consumes

\* Who decides to retry a run of the group has seen it among MaxRetries runs at most.
LEMMA DecidedEarly ==
  ASSUME TypeOK, NEW r \in Runs, r <= created, ShouldRetry = "true"
  PROVE  r <= MaxRetries
<1>1. Cardinality(Group) <= MaxRetries BY DEF ShouldRetry
<1>2. created <= MaxRetries BY <1>1, GroupTypes
<1> QED BY <1>2, CountsAssumption, RunsAreNumbers DEF TypeOK

\* Wherever the decision has got to, it is about one of the first runs.
Early ==
  /\ \A r \in Runs : will[r] = "true" => r <= MaxRetries
  /\ \A w \in Writers : writer[w].will = "true" => w[1] <= MaxRetries
  /\ pc \notin {"idle", "fetched"} => \A r \in todo : record[r].will = "true" => r <= MaxRetries
  /\ Retrying => current[1] <= MaxRetries
  /\ \A r \in Runs : Retries(r) # {} => r <= MaxRetries

LEMMA EarlyStep ==
  ASSUME TypeOK, ConsumerOK, Known, Early, [Next]_vars
  PROVE  Early'
<1> USE RunsAreNumbers
<1>1. \A r \in Runs : Retries(r)' # {} => r <= MaxRetries
  <2> SUFFICES ASSUME NEW r \in Runs, Retries(r)' # {} PROVE r <= MaxRetries OBVIOUS
  <2>1. CASE Retries(r)' = Retries(r) BY <2>1 DEF Early
  <2>2. CASE CreateRetry /\ r = current[1] BY <2>2 DEF CreateRetry, Early, Retrying
  <2> QED BY <2>1, <2>2, Families
<1>2. ASSUME UNCHANGED <<will, writer, consumer>> PROVE Early'
  BY <1>1, <1>2 DEF Early, consumer, Retrying
<1>3. ASSUME NEW w \in Writers, NEW t \in Types, Ends(w[1], w[2], t) PROVE Early'
  <2>1. writer' = [writer EXCEPT ![w] = [Done EXCEPT !.at = t]] BY <1>3 DEF Ends
  <2>2. \A v \in Writers : writer'[v].will = "true" => v[1] <= MaxRetries
    BY <2>1, NoneAssumption DEF Early, TypeOK, Done
  <2> QED BY <1>1, <1>3, <2>2 DEF Ends, Early, consumer, tags, Retrying
<1>4. ASSUME NEW w \in Writers, WriteStatus(w[1], w[2]) \/ WriterDies(w[1], w[2]) PROVE Early'
  <2>1. \A v \in Writers : writer'[v].will \in {None, writer[v].will}
    <3>1. writer \in [Writers -> [at : Types \cup {"idle", "decide", "tag", "ended"},
                                  will : {None, "true", "false"}, retry : Runs \cup {None}]]
      BY DEF TypeOK
    <3>2. w = <<w[1], w[2]>> /\ writer[w] = writer[<<w[1], w[2]>>] OBVIOUS
    <3>3. CASE WriteStatus(w[1], w[2])
      <4>1. writer' = [writer EXCEPT ![<<w[1], w[2]>>].at = IF @ = "FAILURE" THEN "decide" ELSE "ended"]
        BY <3>3 DEF WriteStatus
      <4>2. [writer[w] EXCEPT !.at = IF @ = "FAILURE" THEN "decide" ELSE "ended"].will = writer[w].will
        BY <3>1
      <4> QED BY <3>1, <3>2, <4>1, <4>2
    <3>4. CASE WriterDies(w[1], w[2])
      <4>1. writer' = [writer EXCEPT ![w] = [Done EXCEPT !.at = "ended"]] BY <3>2, <3>4 DEF WriterDies
      <4> QED BY <3>1, <4>1 DEF Done
    <3> QED BY <1>4, <3>3, <3>4
  <2> QED BY <1>1, <1>4, <2>1, NoneAssumption DEF WriteStatus, WriterDies, Early, consumer, tags, Retrying
<1>5. ASSUME NEW w \in Writers, Decide(w[1], w[2]) PROVE Early'
  <2>1. w = <<w[1], w[2]>> /\ w[1] \in Runs /\ w[1] <= created BY <1>5 DEF Decide, Known
  <2>2. writer'[w].will = "true" => ShouldRetry = "true" BY <1>5, <2>1 DEF Decide, TypeOK
  <2>3. \A v \in Writers : v # w => writer'[v] = writer[v] BY <1>5, <2>1 DEF Decide, TypeOK
  <2>4. \A v \in Writers : writer'[v].will = "true" => v[1] <= MaxRetries
    BY <2>1, <2>2, <2>3, DecidedEarly DEF Early
  <2> QED BY <1>1, <1>5, <2>4 DEF Decide, Early, consumer, tags, Retrying
<1>6. ASSUME NEW w \in Writers, Tag(w[1], w[2]) PROVE Early'
  <2>1. w = <<w[1], w[2]>> /\ w[1] \in Runs OBVIOUS
  <2>2. \A v \in Writers : writer'[v].will \in {None, writer[v].will}
    BY <1>6 DEF Tag, TypeOK, Done
  <2>3. \A r \in Runs : will'[r] = "true" => r <= MaxRetries
    BY <1>6, <2>1 DEF Tag, TypeOK, Early
  <2> QED BY <1>1, <1>6, <2>2, <2>3, NoneAssumption DEF Tag, Early, consumer, Retrying
<1>7. CASE Fetch BY <1>1, <1>7 DEF Fetch, Early, tags, Retrying
<1>8. CASE ReadRows
  <2>1. \A r \in todo : record'[r].will = will[r] BY <1>8 DEF ReadRows, TypeOK
  <2>2. \A r \in todo' : record'[r].will = "true" => r <= MaxRetries
    BY <1>8, <2>1 DEF ReadRows, Early, TypeOK
  <2> QED BY <1>1, <1>8, <2>2 DEF ReadRows, Early, tags, Retrying
<1>9. ASSUME NEW r \in Runs, Examine(r) PROVE Early'
  <2>1. r \in todo /\ r <= created /\ pc = "examine" BY <1>9 DEF Examine, Known
  <2>2. Decision(r) = "true" => r <= MaxRetries
    BY <2>1, DecidedEarly DEF Decision, Early
  <2>3. \A n \in Runs : will'[n] = "true" => n <= MaxRetries
    BY <1>9, <2>2 DEF Examine, TypeOK, Early
  <2>4. \/ pc' = "group" /\ current' = <<r, None>> /\ Decision(r) = "true"
        \/ pc' = "examine"
    BY <1>9, <2>1 DEF Examine
  <2>5. Retrying' => current'[1] <= MaxRetries BY <2>2, <2>4 DEF Retrying
  <2> QED BY <1>1, <1>9, <2>1, <2>3, <2>5 DEF Examine, Early
<1>10. CASE FindRetry
  <2>1. current'[1] = current[1] /\ Retrying BY <1>10 DEF FindRetry, Retrying
  <2> QED BY <1>1, <1>10, <2>1 DEF FindRetry, Early, tags, Retrying
<1>11. CASE CreateRetry
  <2>1. current'[1] = current[1] /\ Retrying BY <1>11 DEF CreateRetry, Retrying
  <2> QED BY <1>1, <1>11, <2>1 DEF CreateRetry, Early, tags, Retrying
<1>12. CASE TagRetry BY <1>1, <1>12 DEF TagRetry, Early, Retrying
<1>13. CASE JobIsGone \/ SubmitRetry
  BY <1>1, <1>13 DEF JobIsGone, SubmitRetry, Early, tags, Retrying
<1>14. CASE RetryFails
  <2>1. \A r \in Runs : will'[r] = "true" => will[r] = "true" BY <1>14 DEF RetryFails, TypeOK
  <2> QED BY <1>1, <1>14, <2>1 DEF RetryFails, Early, Retrying
<1>15. CASE PersistCursors \/ ConsumerDies
  BY <1>1, <1>15 DEF PersistCursors, ConsumerDies, Early, tags, Retrying
<1>16. CASE UNCHANGED vars BY <1>2, <1>16 DEF vars, tags
<1>17. ASSUME NEW r \in Runs, Reexecute(r) PROVE Early' BY <1>2, <1>17 DEF Reexecute, tags
<1> QED BY <1>3, <1>4, <1>5, <1>6, <1>7, <1>8, <1>9, <1>10, <1>11, <1>12, <1>13, <1>14, <1>15, <1>16,
           <1>17 DEF Next, Consumes, Writes

\* A retry re-executes a run.
Descends == \A n \in Group : auto[n] => parent[n] \in Runs

LEMMA DescendsStep ==
  ASSUME TypeOK, ConsumerOK, Descends, [Next]_vars
  PROVE  Descends'
<1>1. CASE UNCHANGED <<created, parent, auto>> BY <1>1 DEF Descends, Group
<1>2. ASSUME NEW from \in Runs, NEW a \in BOOLEAN, NEW submitted \in BOOLEAN, New(from, a, submitted)
      PROVE  Descends'
  <2>1. /\ Group' = Group \cup {created + 1} /\ parent'[created + 1] = from
        /\ \A n \in Group : parent'[n] = parent[n] /\ auto'[n] = auto[n]
    BY <1>2, NewMember
  <2> QED BY <2>1 DEF Descends
<1>3. CASE CreateRetry BY <1>2, <1>3 DEF CreateRetry, ConsumerOK, Retrying
<1>4. ASSUME NEW r \in Runs, Reexecute(r) PROVE Descends' BY <1>2, <1>4 DEF Reexecute
<1> QED BY <1>1, <1>3, <1>4, RowsStep

\* "the automatic reexecution system won't launch more than max_retries run itself": the automatic
\* retries of a group are MaxRetries at most, whoever dies and whichever runs are decided on at
\* once, if those are not counted that repeat a retry of a run that a user has re-executed, too.
\* Only the first runs are retried, and each has one retry that counts.
THEOREM RetriesBounded == Spec => []RetriesAreBounded
<1>1. Init => Known /\ Early /\ OnceInv /\ Descends
  <2> SUFFICES ASSUME Init PROVE Known /\ Early /\ OnceInv /\ Descends OBVIOUS
  <2>1. \A r \in Runs : Retries(r) = {} BY RunsAreNumbers DEF Init, Retries, Group
  <2>2. Descends BY RunsAreNumbers DEF Init, Descends, Group
  <2>3. OnceInv BY <2>1 DEF Init, OnceInv
  <2>4. Known BY RunsAreNumbers DEF Init, Known, Done
  <2>5. Early BY <2>1, NoneAssumption DEF Init, Early, Retrying, Done
  <2> QED BY <2>2, <2>3, <2>4, <2>5
<1>2. TypeOK /\ ConsumerOK /\ Known /\ Early /\ OnceInv /\ Descends /\ [Next]_vars
        => (Known /\ Early /\ OnceInv /\ Descends)'
  BY KnownStep, EarlyStep, OnceStep, DescendsStep
<1>3. TypeOK /\ Early /\ OnceInv /\ Descends => RetriesAreBounded
  <2> SUFFICES ASSUME TypeOK, Early, OnceInv, Descends PROVE RetriesAreBounded OBVIOUS
  <2> DEFINE counted == {n \in Group : auto[n] /\ ~ Repeats(n)}
             retried == [n \in counted |-> parent[n]]
  <2>1. MaxRetries \in Nat BY CountsAssumption
  <2>2. ASSUME NEW n \in counted
        PROVE  /\ parent[n] \in Runs /\ n \in Retries(parent[n]) /\ n \in Nat
               /\ parent[n] \in 1 .. MaxRetries
    <3>1. parent[n] \in Runs /\ n \in Retries(parent[n]) /\ n \in Nat
      BY GroupTypes, RunsAreNumbers DEF Descends, Retries
    <3> QED BY <2>1, <3>1, RunsAreNumbers DEF Early
  <2>3. ASSUME NEW m \in counted, NEW n \in counted, parent[m] = parent[n], m < n PROVE FALSE
    <3>1. m \in Retries(parent[n]) /\ n \in Retries(parent[n]) /\ parent[n] \in Runs /\ m # n
      BY <2>2, <2>3
    <3>2. Reexecutions(parent[n]) # {} BY <3>1 DEF OnceInv
    <3> QED BY <2>3, <3>1, <3>2 DEF Repeats
  <2>4. \A m, n \in counted : parent[m] = parent[n] => m = n
    <3>1. \A m, n \in counted : m \in Nat /\ n \in Nat BY <2>2
    <3> QED BY <2>3, <3>1
  <2>5. retried \in Injection(counted, 1 .. MaxRetries)
    BY <2>2, <2>4 DEF Injection, IsInjective
  <2>6. IsFiniteSet(1 .. MaxRetries) /\ Cardinality(1 .. MaxRetries) = MaxRetries BY <2>1, FS_Interval
  <2> HIDE DEF counted, retried
  <2>7. Cardinality(counted) <= MaxRetries BY <2>5, <2>6, FS_Injection
  <2> QED BY <2>7 DEF RetriesAreBounded, counted
<1> QED BY <1>1, <1>2, <1>3, TypeCorrect, PTL DEF Spec

(***************************************************************************)
(* No failure is forgotten: what is behind a cursor has been dealt with,   *)
(* and what is behind the next cursors is being dealt with.                *)
(***************************************************************************)

\* Somebody has read, or is about to write, that r has a retry.
Mentioned(r) ==
  \/ retry[r] # None
  \/ \E w \in Writers : w[1] = r /\ writer[w].retry # None
  \/ pc \notin {"idle", "fetched"} /\ r \in todo /\ record[r].retry # None
  \/ Retrying /\ current[1] = r /\ (record[r].retry # None \/ pc \in {"tag", "submit"})

Named == \A r \in Runs : Mentioned(r) => Retries(r) # {}

LEMMA MentionedStep ==
  ASSUME TypeOK, ConsumerOK, [Next]_vars, NEW r \in Runs, Mentioned(r)'
  PROVE  Mentioned(r) \/ (CreateRetry /\ current[1] = r) \/ (FindRetry /\ Retries(r) # {})
<1> USE RunsAreNumbers
<1> DEFINE Writer == [at : Types \cup {"idle", "decide", "tag", "ended"},
                      will : {None, "true", "false"}, retry : Runs \cup {None}]
<1>0. writer \in [Writers -> Writer] /\ retry \in [Runs -> Runs \cup {None}] BY DEF TypeOK
<1>1. ASSUME UNCHANGED <<retry, writer, consumer>> PROVE Mentioned(r)
  BY <1>1 DEF Mentioned, consumer, Retrying
<1>2. ASSUME NEW w \in Writers, NEW t \in Types, Ends(w[1], w[2], t) PROVE Mentioned(r)
  <2>1. writer' = [writer EXCEPT ![w] = [Done EXCEPT !.at = t]] BY <1>2 DEF Ends
  <2>2. \A v \in Writers : writer'[v].retry \in {None, writer[v].retry} BY <1>0, <2>1 DEF Done
  <2> QED BY <1>2, <2>2 DEF Ends, Mentioned, consumer, tags, Retrying
<1>3. ASSUME NEW w \in Writers, WriteStatus(w[1], w[2]) PROVE Mentioned(r)
  <2>1. writer' = [writer EXCEPT ![<<w[1], w[2]>>].at = IF @ = "FAILURE" THEN "decide" ELSE "ended"]
    BY <1>3 DEF WriteStatus
  <2>2. [writer[w] EXCEPT !.at = IF @ = "FAILURE" THEN "decide" ELSE "ended"].retry = writer[w].retry
    BY <1>0
  <2>3. \A v \in Writers : writer'[v].retry = writer[v].retry BY <1>0, <2>1, <2>2
  <2> QED BY <1>3, <2>3 DEF WriteStatus, Mentioned, consumer, tags, Retrying
<1>4. ASSUME NEW w \in Writers, WriterDies(w[1], w[2]) PROVE Mentioned(r)
  <2>1. writer' = [writer EXCEPT ![w] = [Done EXCEPT !.at = "ended"]] BY <1>4 DEF WriterDies
  <2>2. \A v \in Writers : writer'[v].retry \in {None, writer[v].retry} BY <1>0, <2>1 DEF Done
  <2> QED BY <1>4, <2>2 DEF WriterDies, Mentioned, consumer, tags, Retrying
<1>5. ASSUME NEW w \in Writers, Decide(w[1], w[2]) PROVE Mentioned(r)
  <2>1. w = <<w[1], w[2]>> OBVIOUS
  <2>2. writer'[w].retry = retry[w[1]] BY <1>0, <1>5, <2>1 DEF Decide
  <2>3. \A v \in Writers : v # w => writer'[v] = writer[v] BY <1>0, <1>5, <2>1 DEF Decide
  <2>4. ASSUME NEW v \in Writers, v[1] = r, writer'[v].retry # None PROVE Mentioned(r)
    BY <2>2, <2>3, <2>4 DEF Mentioned
  <2> QED BY <1>5, <2>4 DEF Decide, Mentioned, consumer, tags, Retrying
<1>6. ASSUME NEW w \in Writers, Tag(w[1], w[2]) PROVE Mentioned(r)
  <2>1. w = <<w[1], w[2]>> OBVIOUS
  <2>2. writer' = [writer EXCEPT ![w] = [Done EXCEPT !.at = "ended"]] BY <1>6, <2>1 DEF Tag
  <2>3. \A v \in Writers : writer'[v].retry \in {None, writer[v].retry} BY <1>0, <2>2 DEF Done
  <2>4. ASSUME retry'[r] # None PROVE Mentioned(r)
    <3>1. CASE r = w[1] BY <1>0, <1>6, <2>1, <2>4, <3>1 DEF Tag, Mentioned
    <3>2. CASE r # w[1] BY <1>0, <1>6, <2>4, <3>2 DEF Tag, Mentioned
    <3> QED BY <3>1, <3>2
  <2> QED BY <1>6, <2>3, <2>4 DEF Tag, Mentioned, consumer, Retrying
<1>7. CASE Fetch BY <1>7 DEF Fetch, Mentioned, tags, Retrying
<1>8. CASE ReadRows
  <2>1. r \in todo => record'[r].retry = retry[r] BY <1>8 DEF ReadRows
  <2> QED BY <1>8, <2>1 DEF ReadRows, Mentioned, tags, Retrying
<1>9. ASSUME NEW n \in Runs, Examine(n) PROVE Mentioned(r)
  <2>1. n \in todo /\ pc = "examine" /\ todo' \subseteq todo /\ UNCHANGED <<retry, writer, record>>
    BY <1>9 DEF Examine
  <2>2. \/ pc' = "group" /\ current' = <<n, None>>
        \/ pc' = "examine"
    BY <1>9, <2>1 DEF Examine
  <2> QED BY <2>1, <2>2 DEF Mentioned, Retrying
<1>10. CASE FindRetry
  <2>1. PICK n \in ExistingRetries(current[1]) :
          current' = <<current[1], n>> /\ pc' = IF n = None THEN "create" ELSE "tag"
    BY <1>10 DEF FindRetry
  <2>2. UNCHANGED <<retry, writer, todo, record>> /\ pc = "group" BY <1>10 DEF FindRetry, tags
  <2>3. CASE pc' = "tag" /\ current[1] = r /\ record[r].retry = None
    <3>1. n # None BY <2>1, <2>3
    <3>2. PICK m \in Group : parent[m] = r /\ n = IF auto[m] THEN m ELSE None
      BY <2>1, <2>3, <3>1 DEF ExistingRetries
    <3>3. m \in Retries(r) BY <3>1, <3>2 DEF Retries
    <3> QED BY <1>10, <3>3
  <2>4. CASE ~(pc' = "tag" /\ current[1] = r /\ record[r].retry = None)
    BY <2>1, <2>2, <2>4 DEF Mentioned, Retrying
  <2> QED BY <2>3, <2>4
<1>11. CASE CreateRetry
  <2>1. current'[1] = current[1] /\ pc = "create" /\ pc' = "tag" /\ UNCHANGED <<retry, writer, todo, record>>
    BY <1>11 DEF CreateRetry, tags
  <2> QED BY <1>11, <2>1 DEF Mentioned, Retrying
<1>12. CASE TagRetry
  <2>1. pc = "tag" /\ pc' = "submit" /\ UNCHANGED <<writer, todo, record, current>> BY <1>12 DEF TagRetry
  <2>2. retry'[r] = retry[r] \/ current[1] = r BY <1>0, <1>12 DEF TagRetry
  <2> QED BY <2>1, <2>2 DEF Mentioned, Retrying
<1>13. CASE JobIsGone \/ SubmitRetry \/ RetryFails
  BY <1>13 DEF JobIsGone, SubmitRetry, RetryFails, Mentioned, tags, Retrying
<1>14. CASE PersistCursors \/ ConsumerDies
  BY <1>14 DEF PersistCursors, ConsumerDies, Mentioned, tags, Retrying
<1>15. CASE UNCHANGED vars BY <1>1, <1>15 DEF vars, tags
<1>16. ASSUME NEW n \in Runs, Reexecute(n) PROVE Mentioned(r)
  <2>1. UNCHANGED <<retry, writer, consumer>> BY <1>16 DEF Reexecute, tags
  <2> QED BY <1>1, <2>1
<1> QED BY <1>2, <1>3, <1>4, <1>5, <1>6, <1>7, <1>8, <1>9, <1>10, <1>11, <1>12, <1>13, <1>14, <1>15, <1>16
        DEF Next, Consumes, Writes

LEMMA NamedStep ==
  ASSUME TypeOK, ConsumerOK, Named, [Next]_vars
  PROVE  Named'
<1> SUFFICES ASSUME NEW r \in Runs, Mentioned(r)' PROVE Retries(r)' # {} BY DEF Named
<1>1. CASE Mentioned(r) \/ (FindRetry /\ Retries(r) # {}) BY <1>1, Families DEF Named
<1>2. CASE CreateRetry /\ current[1] = r
  <2>1. New(r, TRUE, FALSE) BY <1>2 DEF CreateRetry
  <2> QED BY <2>1, NewRetry
<1> QED BY <1>1, <1>2, MentionedStep

\* A run the consumer is done with, or has read an event of and is dealing with.
Over(r)  == Retries(r) # {} \/ r \in forgone
Dealt(r) == Over(r) \/ r \in todo \/ (Retrying /\ current[1] = r)

LEMMA OverStays ==
  ASSUME TypeOK, ConsumerOK, [Next]_vars, NEW r \in Runs, Over(r)
  PROVE  Over(r)'
<1>1. forgone \subseteq forgone'
  BY DEF Next, Consumes, Writes, vars, Ends, WriteStatus, Decide, Tag, WriterDies, Fetch, ReadRows, Examine,
         JobIsGone, FindRetry, CreateRetry, TagRetry, SubmitRetry, RetryFails, PersistCursors, ConsumerDies,
         Reexecute
<1> QED BY <1>1, Families DEF Over

LEMMA DealtStays ==
  ASSUME TypeOK, ConsumerOK, Named, [Next]_vars, NEW r \in Runs, Dealt(r), pc' # "idle", ~Fetch
  PROVE  Dealt(r)'
<1>1. CASE Over(r) BY <1>1, OverStays DEF Dealt
<1>2. CASE UNCHANGED consumer /\ ~Over(r) BY <1>2 DEF Dealt, consumer, Retrying
<1>3. ASSUME NEW w \in Writers, Writes(w[1], w[2]) \/ WriterDies(w[1], w[2]) PROVE UNCHANGED consumer
  BY <1>3 DEF Writes, WriteStatus, Decide, Tag, WriterDies
<1>4. ASSUME NEW w \in Writers, NEW t \in Types, Ends(w[1], w[2], t) PROVE UNCHANGED consumer
  BY <1>4 DEF Ends
<1>5. ASSUME NEW n \in Runs, Reexecute(n) PROVE UNCHANGED consumer BY <1>5 DEF Reexecute
<1>6. UNCHANGED vars => UNCHANGED consumer BY DEF vars
<1>7. CASE ReadRows /\ ~Over(r) BY <1>7 DEF ReadRows, Dealt, Retrying
<1>8. ASSUME NEW n \in Runs, Examine(n), ~Over(r) PROVE Dealt(r)'
  <2>1. n \in todo /\ pc = "examine" /\ todo' = todo \ {n} BY <1>8 DEF Examine
  <2>2. \/ pc' = "group" /\ current' = <<n, None>>
        \/ forgone' = forgone \cup {n}
    BY <1>8 DEF Examine
  <2> QED BY <1>8, <2>1, <2>2 DEF Dealt, Over, Retrying
<1>9. CASE FindRetry /\ ~Over(r)
  <2>1. current'[1] = current[1] /\ Retrying' /\ UNCHANGED todo BY <1>9 DEF FindRetry, Retrying
  <2> QED BY <1>9, <2>1 DEF Dealt
<1>10. CASE CreateRetry /\ ~Over(r)
  <2>1. current'[1] = current[1] /\ Retrying' /\ UNCHANGED todo BY <1>10 DEF CreateRetry, Retrying
  <2> QED BY <1>10, <2>1 DEF Dealt
<1>11. CASE TagRetry /\ ~Over(r) BY <1>11 DEF TagRetry, Dealt, Retrying
<1>12. CASE SubmitRetry /\ ~Over(r)
  <2>1. current[1] # r BY <1>12 DEF SubmitRetry, Named, Mentioned, Retrying, Over
  <2> QED BY <1>12, <2>1 DEF SubmitRetry, Dealt
<1>13. CASE (JobIsGone \/ RetryFails) /\ ~Over(r)
  BY <1>13 DEF JobIsGone, RetryFails, Dealt, Over
<1>14. ~PersistCursors /\ ~ConsumerDies BY DEF PersistCursors, ConsumerDies
<1> QED BY <1>1, <1>2, <1>3, <1>4, <1>5, <1>6, <1>7, <1>8, <1>9, <1>10, <1>11, <1>12, <1>13, <1>14
        DEF Next, Consumes

Behind ==
  /\ \A t \in Types : cursor[t] <= Len(log) /\ next[t] <= Len(log)
  /\ pc # "idle" => \A i \in 1 .. Len(log), r \in Runs :
                      (log[i].run = r /\ i <= next[log[i].type]) => Dealt(r)
  /\ \A i \in 1 .. Len(log), r \in Runs :
       (log[i].run = r /\ i <= cursor[log[i].type]) => Over(r)

LEMMA BehindStep ==
  ASSUME TypeOK, ConsumerOK, Named, Behind, [Next]_vars
  PROVE  Behind'
<1> USE LogTypes
<1>0. \A r \in Runs : Over(r) => Over(r)' BY OverStays
<1>1. ASSUME NEW w \in Writers, NEW t \in Types, Ends(w[1], w[2], t) PROVE Behind'
  <2>1. w[1] \in Runs BY RunsAreNumbers
  <2>2. /\ Len(log') = Len(log) + 1 /\ log'[Len(log) + 1].type = t
        /\ \A i \in 1 .. Len(log) : log'[i] = log[i]
    BY <1>1, <2>1, EndsLog
  <2>3. UNCHANGED <<cursor, consumer>> BY <1>1 DEF Ends
  <2>4. UNCHANGED <<cursor, next, pc>> BY <2>3 DEF consumer
  <2>5. \A u \in Types : cursor[u] \in Nat /\ next[u] \in Nat BY DEF TypeOK
  <2>6. \A u \in Types : cursor'[u] <= Len(log') /\ next'[u] <= Len(log')
    BY <2>2, <2>4, <2>5 DEF Behind
  <2>7. ASSUME NEW i \in 1 .. Len(log'), i <= cursor[log'[i].type] \/ i <= next[log'[i].type]
        PROVE  i \in 1 .. Len(log) /\ log'[i] = log[i]
    BY <2>2, <2>5, <2>7 DEF Behind
  <2>8. ~Fetch BY <2>3 DEF Fetch, consumer
  <2>9. ASSUME pc' # "idle", NEW i \in 1 .. Len(log'), NEW r \in Runs,
               log'[i].run = r, i <= next'[log'[i].type]
        PROVE  Dealt(r)'
    <3>1. Dealt(r) BY <2>4, <2>7, <2>9 DEF Behind
    <3> QED BY <2>8, <2>9, <3>1, DealtStays
  <2>10. ASSUME NEW i \in 1 .. Len(log'), NEW r \in Runs, log'[i].run = r, i <= cursor'[log'[i].type]
         PROVE  Over(r)'
    BY <1>0, <2>4, <2>7, <2>10 DEF Behind
  <2> QED BY <2>6, <2>9, <2>10 DEF Behind
<1>2. CASE UNCHANGED log /\ ~Fetch /\ ~PersistCursors
  <2>1. UNCHANGED cursor
    BY <1>2 DEF Next, Consumes, Writes, vars, Ends, WriteStatus, Decide, Tag, WriterDies, ReadRows, Examine,
         JobIsGone, FindRetry, CreateRetry, TagRetry, SubmitRetry, RetryFails, ConsumerDies, Reexecute
  <2>2. (UNCHANGED next /\ (pc = "idle" => pc' = "idle")) \/ (pc' = "idle" /\ next' = cursor)
    BY <1>2 DEF Next, Consumes, Writes, vars, Ends, WriteStatus, Decide, Tag, WriterDies, ReadRows, Examine,
         JobIsGone, FindRetry, CreateRetry, TagRetry, SubmitRetry, RetryFails, ConsumerDies, Reexecute,
         consumer
  <2>3. \A t \in Types : cursor'[t] <= Len(log') /\ next'[t] <= Len(log') BY <1>2, <2>1, <2>2 DEF Behind
  <2>4. ASSUME pc' # "idle", NEW i \in 1 .. Len(log'), NEW r \in Runs,
               log'[i].run = r, i <= next'[log'[i].type]
        PROVE  Dealt(r)'
    <3>1. Dealt(r) BY <1>2, <2>2, <2>4 DEF Behind
    <3> QED BY <1>2, <2>4, <3>1, DealtStays
  <2>5. ASSUME NEW i \in 1 .. Len(log'), NEW r \in Runs, log'[i].run = r, i <= cursor'[log'[i].type]
        PROVE  Over(r)'
    BY <1>0, <1>2, <2>1, <2>5 DEF Behind
  <2> QED BY <2>3, <2>4, <2>5 DEF Behind
<1>3. CASE Fetch
  <2>1. UNCHANGED <<log, cursor>> /\ todo' = {log[i].run : i \in UNION {Unread(t) : t \in Types}}
    BY <1>3 DEF Fetch
  <2>2. \A t \in Types : Unread(t) \subseteq 1 .. Len(log) BY DEF Unread
  <2>3. \A t \in Types : \/ Unread(t) = {} /\ next'[t] = cursor[t]
                         \/ next'[t] \in Unread(t) /\ \A j \in Unread(t) : j <= next'[t]
    BY <1>3, FetchedCursors
  <2>4. \A t \in Types : cursor'[t] <= Len(log') /\ next'[t] <= Len(log')
    BY <2>1, <2>2, <2>3 DEF Behind
  <2>5. ASSUME NEW i \in 1 .. Len(log), i <= next'[log[i].type], ~(i <= cursor[log[i].type])
        PROVE  i \in Unread(log[i].type)
    <3> DEFINE t == log[i].type
               all == {j \in 1 .. Len(log) : j > cursor[t] /\ log[j].type = t}
               upto(j) == {k \in all : k <= j}
    <3>1. t \in Types /\ cursor[t] \in Nat BY DEF TypeOK
    <3>2. next'[t] \in Unread(t) /\ next'[t] \in all BY <2>3, <2>5, <3>1 DEF Unread
    <3>3. i \in all BY <2>5, <3>1
    <3>4. upto(i) \subseteq upto(next'[t]) BY <2>5, <3>2
    <3>5. IsFiniteSet(upto(next'[t]))
      <4>1. IsFiniteSet(1 .. Len(log)) BY FS_Interval
      <4> QED BY <4>1, FS_Subset
    <3>6. /\ Cardinality(upto(i)) <= Cardinality(upto(next'[t]))
          /\ Cardinality(upto(i)) \in Nat /\ Cardinality(upto(next'[t])) \in Nat
      <4> HIDE DEF upto
      <4> QED BY <3>4, <3>5, FS_Subset, FS_CardinalityType
    <3>7. Cardinality(upto(next'[t])) <= FetchLimit BY <3>2 DEF Unread
    <3>8. Cardinality(upto(i)) <= FetchLimit BY <3>6, <3>7, CountsAssumption
    <3> QED BY <3>3, <3>8 DEF Unread
  <2>6. ASSUME NEW i \in 1 .. Len(log'), NEW r \in Runs, log'[i].run = r, i <= next'[log'[i].type]
        PROVE  Dealt(r)'
    <3>1. CASE i <= cursor[log[i].type] BY <1>0, <2>1, <2>6, <3>1 DEF Behind, Dealt
    <3>2. CASE ~(i <= cursor[log[i].type])
      <4>1. i \in Unread(log[i].type) /\ log[i].type \in Types BY <2>1, <2>5, <2>6, <3>2
      <4>2. r \in todo' BY <2>1, <2>6, <4>1
      <4> QED BY <4>2 DEF Dealt
    <3> QED BY <3>1, <3>2
  <2>7. ASSUME NEW i \in 1 .. Len(log'), NEW r \in Runs, log'[i].run = r, i <= cursor'[log'[i].type]
        PROVE  Over(r)'
    BY <1>0, <2>1, <2>7 DEF Behind
  <2> QED BY <2>4, <2>6, <2>7 DEF Behind
<1>4. CASE PersistCursors
  <2>1. pc = "examine" /\ todo = {} /\ pc' = "idle" /\ cursor' = next /\ UNCHANGED <<log, next>>
    BY <1>4 DEF PersistCursors
  <2>2. \A t \in Types : cursor'[t] <= Len(log') /\ next'[t] <= Len(log') BY <2>1 DEF Behind
  <2>3. ASSUME NEW i \in 1 .. Len(log'), NEW r \in Runs, log'[i].run = r, i <= cursor'[log'[i].type]
        PROVE  Over(r)'
    <3>1. Dealt(r) BY <2>1, <2>3 DEF Behind
    <3>2. Over(r) BY <2>1, <3>1 DEF Dealt, Retrying
    <3> QED BY <1>0, <3>2
  <2> QED BY <2>1, <2>2, <2>3 DEF Behind
<1>5. ASSUME ~UNCHANGED log PROVE \E w \in Writers, t \in Types : Ends(w[1], w[2], t)
  BY <1>5 DEF Next, Consumes, Writes, vars, WriteStatus, Decide, Tag, WriterDies, Fetch, ReadRows, Examine,
         JobIsGone, FindRetry, CreateRetry, TagRetry, SubmitRetry, RetryFails, PersistCursors, ConsumerDies,
         Reexecute
<1> QED BY <1>1, <1>2, <1>3, <1>4, <1>5

\* An event behind the persisted cursor, which is not read again, is of a run that has been retried
\* or that the consumer has turned away or failed to retry: no crash makes it forget one.
THEOREM FailuresAreDealtWith == Spec => []PassedIsSettled
<1>1. Init => Named /\ Behind
  <2> SUFFICES ASSUME Init PROVE Named /\ Behind OBVIOUS
  <2>1. log = <<>> /\ Len(log) = 0 BY DEF Init
  <2>2. Named BY DEF Init, Named, Mentioned, Retrying, Done
  <2> QED BY <2>1, <2>2 DEF Init, Behind
<1>2. TypeOK /\ ConsumerOK /\ Named /\ Behind /\ [Next]_vars => (Named /\ Behind)'
  BY NamedStep, BehindStep
<1>3. TypeOK /\ Behind => PassedIsSettled
  <2> SUFFICES ASSUME TypeOK, Behind, NEW i \in 1 .. Len(log), i <= cursor[log[i].type]
               PROVE  Retries(log[i].run) # {} \/ log[i].run \in forgone
    BY DEF PassedIsSettled
  <2>1. log[i].run \in Runs BY LogTypes
  <2>2. Over(log[i].run) BY <2>1 DEF Behind
  <2> QED BY <2>2 DEF Over
<1> QED BY <1>1, <1>2, <1>3, TypeCorrect, PTL DEF Spec
=============================================================================
