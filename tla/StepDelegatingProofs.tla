------------------------ MODULE StepDelegatingProofs ------------------------
(***************************************************************************)
(* Theorems about the step-delegating executor, for every plan without     *)
(* dynamic outputs, whatever breaks or dies, and however often the run is  *)
(* resumed.                                                                *)
(***************************************************************************)
EXTENDS StepDelegating, ActiveExecutionProofs, SequenceTheorems

(***************************************************************************)
(* The events of the log.                                                  *)
(***************************************************************************)

\* The kinds of events that end an attempt, and of those that end a step.
Endings == {"success", "failure", "retry"}
Kinds   == Endings \cup {"skip", "init", "output"}

LEMMA EventCases ==
  ASSUME NEW e \in Events
  PROVE  \/ \E s \in Steps : \E k \in {"success", "failure", "skip", "init"} : e = <<k, s>>
         \/ \E s \in Steps, delayed \in BOOLEAN : e = <<"retry", s, delayed>>
         \/ \E h \in Handles : Output[h].source \in Steps /\ e = <<"output", Output[h].source, h>>
<1>1. \/ \E s \in Steps : e \in Ends(s) \cup {<<"skip", s>>, <<"init", s>>}
      \/ \E h \in Handles : Output[h].source \in Steps /\ e = <<"output", Output[h].source, h>>
  BY DEF Events
<1>2. ASSUME NEW s \in Steps, e \in Ends(s) \cup {<<"skip", s>>, <<"init", s>>}
      PROVE  \/ \E k \in {"success", "failure", "skip", "init"} : e = <<k, s>>
             \/ \E delayed \in BOOLEAN : e = <<"retry", s, delayed>>
  BY <1>2 DEF Ends
<1> QED BY <1>1, <1>2

LEMMA EventShape ==
  ASSUME NEW e \in Events
  PROVE  /\ e[1] \in Kinds /\ e[2] \in Steps
         /\ e[1] = "output" => e[3] \in Handles /\ e[2] = Output[e[3]].source
         /\ IsEnd(e) <=> e[1] \in Endings
         /\ \A s : e \in Ends(s) <=> e[1] \in Endings /\ e[2] = s
         /\ \A s, k : k # "retry" /\ k # "output" => (e = <<k, s>> <=> e[1] = k /\ e[2] = s)
         /\ \A s, h : e = <<"output", s, h>> <=> e[1] = "output" /\ e[2] = s /\ e[3] = h
<1>1. CASE \E s \in Steps : \E k \in {"success", "failure", "skip", "init"} : e = <<k, s>>
  <2>1. PICK s \in Steps, k \in {"success", "failure", "skip", "init"} : e = <<k, s>>
    BY <1>1
  <2>2. e[1] = k /\ e[2] = s
    BY <2>1
  <2> QED BY <2>1, <2>2 DEF Endings, Kinds, IsEnd, Of, Ends
<1>2. CASE \E s \in Steps, delayed \in BOOLEAN : e = <<"retry", s, delayed>>
  BY <1>2 DEF Endings, Kinds, IsEnd, Of, Ends
<1>3. CASE \E h \in Handles : Output[h].source \in Steps /\ e = <<"output", Output[h].source, h>>
  BY <1>3 DEF Endings, Kinds, IsEnd, Of, Ends
<1> QED BY <1>1, <1>2, <1>3, EventCases

LEMMA RetryShape ==
  ASSUME NEW e \in Events, e[1] = "retry"
  PROVE  e[2] \in Steps /\ e[3] \in BOOLEAN
<1>1. CASE \E s \in Steps, delayed \in BOOLEAN : e = <<"retry", s, delayed>>
  BY <1>1
<1>2. CASE \E s \in Steps : \E k \in {"success", "failure", "skip", "init"} : e = <<k, s>>
  BY <1>2
<1>3. CASE \E h \in Handles : e = <<"output", Output[h].source, h>>
  BY <1>3
<1> QED BY <1>1, <1>2, <1>3, EventCases

(***************************************************************************)
(* How often a step is reported, in the first n events of a log.           *)
(***************************************************************************)

Marks(l, K, s, n) == {i \in 1 .. n : l[i][1] \in K /\ l[i][2] = s}
Count(l, K, s, n) == Cardinality(Marks(l, K, s, n))

LEMMA CountType ==
  ASSUME NEW l, NEW K, NEW s, NEW n \in Nat
  PROVE  IsFiniteSet(Marks(l, K, s, n)) /\ Count(l, K, s, n) \in Nat
<1>1. IsFiniteSet(1 .. n)
  BY FS_Interval
<1>2. Marks(l, K, s, n) \subseteq 1 .. n
  BY DEF Marks
<1> QED BY <1>1, <1>2, FS_Subset, FS_CardinalityType DEF Count

LEMMA CountNone ==
  ASSUME NEW l, NEW K, NEW s
  PROVE  Count(l, K, s, 0) = 0
<1>1. Marks(l, K, s, 0) = {}
  BY DEF Marks
<1> QED BY <1>1, FS_EmptySet DEF Count

\* The count goes up by one with an event that counts.
LEMMA CountNext ==
  ASSUME NEW l, NEW K, NEW s, NEW n \in Nat
  PROVE  Count(l, K, s, n + 1) = Count(l, K, s, n)
           + (IF l[n + 1][1] \in K /\ l[n + 1][2] = s THEN 1 ELSE 0)
<1>1. Marks(l, K, s, n + 1) =
        IF l[n + 1][1] \in K /\ l[n + 1][2] = s THEN Marks(l, K, s, n) \cup {n + 1} ELSE Marks(l, K, s, n)
  BY DEF Marks
<1>2. n + 1 \notin Marks(l, K, s, n)
  BY DEF Marks
<1> QED BY <1>1, <1>2, CountType, FS_AddElement DEF Count

LEMMA CountGrows ==
  ASSUME NEW l, NEW K, NEW s, NEW m \in Nat, NEW n \in Nat, m <= n
  PROVE  /\ Count(l, K, s, m) <= Count(l, K, s, n)
         /\ Count(l, K, s, m) < Count(l, K, s, n) =>
              \E i \in m + 1 .. n : l[i][1] \in K /\ l[i][2] = s
         /\ (\E i \in m + 1 .. n : l[i][1] \in K /\ l[i][2] = s) =>
              Count(l, K, s, m) < Count(l, K, s, n)
<1>1. Marks(l, K, s, m) \subseteq Marks(l, K, s, n)
  BY DEF Marks
<1>2. Count(l, K, s, m) <= Count(l, K, s, n)
  BY <1>1, CountType, FS_Subset DEF Count
<1>3. ASSUME Count(l, K, s, m) < Count(l, K, s, n)
      PROVE  \E i \in m + 1 .. n : l[i][1] \in K /\ l[i][2] = s
  <2>1. Marks(l, K, s, n) # Marks(l, K, s, m)
    BY <1>3, CountType DEF Count
  <2>2. PICK i : i \in Marks(l, K, s, n) /\ i \notin Marks(l, K, s, m)
    BY <1>1, <2>1
  <2> QED BY <2>2 DEF Marks
<1>4. ASSUME NEW i \in m + 1 .. n, l[i][1] \in K, l[i][2] = s
      PROVE  Count(l, K, s, m) < Count(l, K, s, n)
  <2>1. i \in Marks(l, K, s, n) /\ i \notin Marks(l, K, s, m)
    BY <1>4 DEF Marks
  <2> QED BY <2>1, <1>1, CountType, FS_Subset DEF Count
<1> QED BY <1>2, <1>3, <1>4

LEMMA CountAgrees ==
  ASSUME NEW l, NEW k, NEW K, NEW s, NEW n \in Nat, \A i \in 1 .. n : l[i] = k[i]
  PROVE  Count(l, K, s, n) = Count(k, K, s, n)
<1>1. Marks(l, K, s, n) = Marks(k, K, s, n)
  BY DEF Marks
<1> QED BY <1>1 DEF Count

\* Two events that count are one, if the count is at most 1.
LEMMA CountOnce ==
  ASSUME NEW l, NEW K, NEW s, NEW n \in Nat
  PROVE  Count(l, K, s, n) <= 1 <=> \A i, j \in Marks(l, K, s, n) : i = j
<1>1. ASSUME NEW i \in Marks(l, K, s, n), NEW j \in Marks(l, K, s, n), i # j
      PROVE  Count(l, K, s, n) > 1
  <2>1. Cardinality({i, j}) = 2
    <3>1. IsFiniteSet({i}) /\ Cardinality({i}) = 1
      BY FS_Singleton
    <3>2. {i, j} = {i} \cup {j} /\ j \notin {i}
      BY <1>1
    <3> QED BY <3>1, <3>2, FS_AddElement
  <2>2. {i, j} \subseteq Marks(l, K, s, n)
    BY <1>1
  <2> QED BY <2>1, <2>2, CountType, FS_Subset DEF Count
<1>2. ASSUME \A i, j \in Marks(l, K, s, n) : i = j
      PROVE  Count(l, K, s, n) <= 1
  <2>1. CASE Marks(l, K, s, n) = {}
    BY <2>1, FS_EmptySet DEF Count
  <2>2. CASE Marks(l, K, s, n) # {}
    <3>1. PICK i : Marks(l, K, s, n) = {i}
      BY <1>2, <2>2
    <3>2. Cardinality({i}) = 1
      BY FS_Singleton
    <3> QED BY <3>1, <3>2 DEF Count
  <2> QED BY <2>1, <2>2
<1>3. Count(l, K, s, n) \in Nat
  BY CountType
<1> QED BY <1>1, <1>2, <1>3

Reports(l, s, n) == Count(l, Endings, s, n)
Retries(l, s, n) == Count(l, {"retry"}, s, n)
Finals(l, s, n)  == Count(l, {"success", "failure"}, s, n)

LEMMA ReportsSplit ==
  ASSUME NEW l, NEW s, NEW n \in Nat
  PROVE  /\ Reports(l, s, n) = Retries(l, s, n) + Finals(l, s, n)
         /\ Reports(l, s, n) \in Nat /\ Retries(l, s, n) \in Nat /\ Finals(l, s, n) \in Nat
<1> DEFINE R == Marks(l, {"retry"}, s, n)
           F == Marks(l, {"success", "failure"}, s, n)
<1>1. Marks(l, Endings, s, n) = R \cup F
  BY DEF Marks, Endings
<1>2. R \cap F = {}
  BY DEF Marks
<1>3. IsFiniteSet(R) /\ IsFiniteSet(F) /\ Cardinality(R) \in Nat /\ Cardinality(F) \in Nat
  BY CountType DEF Count
<1>4. Cardinality(R \cup F) = Cardinality(R) + Cardinality(F)
  <2> HIDE DEF R, F
  <2>1. Cardinality(R \cup F) = Cardinality(R) + Cardinality(F) - Cardinality(R \cap F)
    BY <1>3, FS_Union
  <2>2. Cardinality(R \cap F) = 0
    BY <1>2, FS_EmptySet
  <2> QED BY <1>3, <2>1, <2>2
<1> QED BY <1>1, <1>3, <1>4 DEF Reports, Retries, Finals, Count

(***************************************************************************)
(* What a step writes into the log: events of the kinds K, one for each of *)
(* the steps S.                                                            *)
(***************************************************************************)

New == Len(log) + 1 .. Len(log')

Writes(S, K) ==
  /\ log' \in Seq(Events) /\ Len(log) <= Len(log')
  /\ \A i \in 1 .. Len(log) : log'[i] = log[i]
  /\ \A i \in New : log'[i][1] \in K /\ log'[i][2] \in S
  /\ \A i, j \in New : log'[i][2] = log'[j][2] => i = j
  /\ \A s \in S : \E i \in New : log'[i][2] = s

LEMMA LogEvents ==
  ASSUME log \in Seq(Events)
  PROVE  Len(log) \in Nat /\ DOMAIN log = 1 .. Len(log) /\ \A i \in 1 .. Len(log) : log[i] \in Events
  BY LenProperties, ElementOfSeq

LEMMA RestWrites ==
  ASSUME log \in Seq(Events), log' = log
  PROVE  Writes({}, {})
  BY LogEvents DEF Writes, New

LEMMA AppendWrites ==
  ASSUME log \in Seq(Events), NEW e \in Events, log' = Append(log, e)
  PROVE  Writes({e[2]}, {e[1]})
<1>1. /\ log' \in Seq(Events) /\ Len(log') = Len(log) + 1
      /\ \A i \in 1 .. Len(log) : log'[i] = log[i]
      /\ log'[Len(log) + 1] = e
  BY AppendProperties
<1>2. New = {Len(log) + 1}
  BY <1>1, LogEvents DEF New
<1> QED BY <1>1, <1>2, LogEvents DEF Writes

LEMMA SetToSeqOnto ==
  ASSUME NEW S, IsFiniteSet(S)
  PROVE  /\ Cardinality(S) \in Nat
         /\ SetToSeq(S) \in [1 .. Cardinality(S) -> S]
         /\ \A i, j \in 1 .. Cardinality(S) : SetToSeq(S)[i] = SetToSeq(S)[j] => i = j
         /\ \A s \in S : \E i \in 1 .. Cardinality(S) : SetToSeq(S)[i] = s
<1> DEFINE places == 1 .. Cardinality(S)
           P(f) == f \in [places -> S] /\ IsInjective(f)
<1>1. Cardinality(S) \in Nat /\ ExistsBijection(places, S)
  BY FS_CardinalityType
<1>2. \E f : P(f)
  <2>1. PICK f : f \in Bijection(places, S)
    BY <1>1 DEF ExistsBijection
  <2>2. P(f)
    BY <2>1 DEF Bijection, Injection, IsInjective
  <2> QED BY <2>2
<1>3. P(SetToSeq(S))
  BY <1>2 DEF SetToSeq
<1>4. SetToSeq(S) \in Injection(places, S)
  BY <1>3 DEF Injection
<1>5. IsFiniteSet(places) /\ Cardinality(places) = Cardinality(S)
  BY <1>1, FS_Interval
<1>6. SetToSeq(S) \in Surjection(places, S)
  BY <1>4, <1>5, FS_Injection
<1>7. \A s \in S : \E i \in places : SetToSeq(S)[i] = s
  BY <1>6 DEF Surjection
<1> QED BY <1>1, <1>3, <1>7 DEF IsInjective

\* One event for each element of a set, in any order.
LEMMA ConcatWrites ==
  ASSUME log \in Seq(Events), NEW S, IsFiniteSet(S), NEW K,
         NEW new \in [1 .. Cardinality(S) -> Events],
         \A i \in 1 .. Cardinality(S) : new[i][1] \in K /\ new[i][2] = SetToSeq(S)[i],
         log' = log \o new
  PROVE  Writes(S, K)
<1> DEFINE n == Cardinality(S)
<1>1. /\ n \in Nat
      /\ \A i \in 1 .. n : new[i][1] \in K /\ new[i][2] = SetToSeq(S)[i] /\ SetToSeq(S)[i] \in S
  BY SetToSeqOnto
<1>2. new \in Seq(Events) /\ Len(new) = n
  <2>1. new \in [1 .. n -> Events]
    OBVIOUS
  <2> HIDE DEF n
  <2>2. new \in Seq(Events)
    BY <1>1, <2>1, SeqDef
  <2>3. DOMAIN new = 1 .. n /\ DOMAIN new = 1 .. Len(new) /\ Len(new) \in Nat
    BY <2>1, <2>2, LenProperties
  <2> QED BY <1>1, <2>2, <2>3
<1>3. log' = log \o new
  OBVIOUS
<1>4. /\ log' \in Seq(Events) /\ Len(log') = Len(log) + n
      /\ \A i \in 1 .. Len(log) + n : log'[i] = IF i <= Len(log) THEN log[i] ELSE new[i - Len(log)]
  <2>1. /\ log \o new \in Seq(Events) /\ Len(log \o new) = Len(log) + Len(new)
        /\ \A i \in 1 .. Len(log) + Len(new) :
             (log \o new)[i] = IF i <= Len(log) THEN log[i] ELSE new[i - Len(log)]
    BY <1>2, ConcatProperties
  <2> QED BY <1>2, <1>3, <2>1
<1>5. Len(log) \in Nat
  BY LogEvents
<1>6. ASSUME NEW i \in New
      PROVE  /\ i - Len(log) \in 1 .. n
             /\ log'[i] = new[i - Len(log)]
             /\ log'[i][1] \in K /\ log'[i][2] = SetToSeq(S)[i - Len(log)] /\ log'[i][2] \in S
  <2>1. i - Len(log) \in 1 .. n /\ i \in 1 .. Len(log) + n /\ ~ (i <= Len(log))
    BY <1>1, <1>4, <1>5, <1>6 DEF New
  <2> QED BY <2>1, <1>1, <1>4
<1>7. ASSUME NEW i \in New, NEW j \in New, log'[i][2] = log'[j][2]
      PROVE  i = j
  <2>1. i - Len(log) = j - Len(log)
    <3>1. SetToSeq(S)[i - Len(log)] = SetToSeq(S)[j - Len(log)]
      BY <1>6, <1>7
    <3>2. i - Len(log) \in 1 .. Cardinality(S) /\ j - Len(log) \in 1 .. Cardinality(S)
      BY <1>6, <1>7
    <3> QED BY <3>1, <3>2, SetToSeqOnto
  <2> QED BY <1>4, <1>5, <2>1 DEF New
<1>8. ASSUME NEW s \in S
      PROVE  \E i \in New : log'[i][2] = s
  <2>1. PICK i \in 1 .. n : SetToSeq(S)[i] = s
    BY SetToSeqOnto
  <2>2. i + Len(log) \in New
    BY <1>1, <1>4, <1>5 DEF New
  <2>3. log'[i + Len(log)][2] = SetToSeq(S)[(i + Len(log)) - Len(log)]
    BY <1>6, <2>2
  <2>4. (i + Len(log)) - Len(log) = i
    BY <1>1, <1>5
  <2> QED BY <2>1, <2>2, <2>3, <2>4
<1>9. \A i \in 1 .. Len(log) : log'[i] = log[i]
  BY <1>1, <1>4, <1>5
<1>10. Len(log) <= Len(log')
  BY <1>1, <1>4, <1>5
<1> QED BY <1>4, <1>6, <1>7, <1>8, <1>9, <1>10 DEF Writes

LEMMA CountWritten ==
  ASSUME log \in Seq(Events), NEW S, NEW K, Writes(S, K), NEW L, NEW s
  PROVE  /\ \A n \in 0 .. Len(log) : Count(log', L, s, n) = Count(log, L, s, n)
         /\ Count(log, L, s, Len(log)) <= Count(log', L, s, Len(log'))
         /\ s \notin S \/ K \cap L = {} =>
              Count(log', L, s, Len(log')) = Count(log, L, s, Len(log))
         /\ s \in S /\ K \subseteq L =>
              Count(log', L, s, Len(log')) = Count(log, L, s, Len(log)) + 1
<1>1. Len(log) \in Nat /\ Len(log') \in Nat /\ Len(log) <= Len(log')
  BY LogEvents, LenProperties DEF Writes
<1>2. \A n \in 0 .. Len(log) : Count(log', L, s, n) = Count(log, L, s, n)
  BY <1>1, CountAgrees DEF Writes
<1>3. Count(log', L, s, Len(log)) = Count(log, L, s, Len(log))
  BY <1>1, <1>2
<1>4. Count(log', L, s, Len(log)) <= Count(log', L, s, Len(log'))
  BY <1>1, CountGrows
<1>5. ASSUME s \notin S \/ K \cap L = {}
      PROVE  Marks(log', L, s, Len(log')) = Marks(log', L, s, Len(log))
  BY <1>1, <1>5 DEF Marks, Writes, New
<1>6. ASSUME s \in S, K \subseteq L
      PROVE  Count(log', L, s, Len(log')) = Count(log', L, s, Len(log)) + 1
  <2>1. PICK i \in New : log'[i][2] = s
    BY <1>6 DEF Writes
  <2>2. Marks(log', L, s, Len(log')) = Marks(log', L, s, Len(log)) \cup {i}
    BY <1>1, <1>6, <2>1 DEF Marks, Writes, New
  <2>3. i \notin Marks(log', L, s, Len(log))
    BY <1>1, <2>1 DEF Marks, New
  <2> QED BY <1>1, <2>2, <2>3, CountType, FS_AddElement DEF Count
<1> QED BY <1>2, <1>3, <1>4, <1>5, <1>6 DEF Count

(***************************************************************************)
(* The plan: what the steps take, and what the executor does to it.        *)
(***************************************************************************)

Needs(s)         == UNION {i.from : i \in Step[s].inputs}
Gated(i)         == {h \in i.from : Output[h].kind # "check"}
Lacking(i, outs) == {h \in Gated(i) : Output[h].source \in Steps /\ h \notin outs}

\* With these steps ended well and these outputs produced, s is executed, and not skipped.
Supplied(s, well, outs) ==
  /\ \A h \in Needs(s) : Output[h].source \in Steps =>
       IF RequireUpstreamSuccess THEN Output[h].source \in well ELSE h \in outs
  /\ \A i \in Step[s].inputs : Lacking(i, outs) # {} => i.fanIn /\ Lacking(i, outs) # Gated(i)

LEMMA SuppliedMore ==
  ASSUME NEW s, NEW well, NEW outs, Supplied(s, well, outs),
         NEW more, well \subseteq more, NEW others, outs \subseteq others
  PROVE  Supplied(s, more, others)
<1>1. \A i : Lacking(i, others) \subseteq Lacking(i, outs) /\ Lacking(i, outs) \subseteq Gated(i)
  BY DEF Lacking
<1>2. \A i \in Step[s].inputs : Lacking(i, others) # {} => i.fanIn /\ Lacking(i, others) # Gated(i)
  BY <1>1 DEF Supplied
<1> QED BY <1>2 DEF Supplied

\* No step collects anything.
LEMMA PlainInputs ==
  ASSUME NEW s \in Steps
  PROVE  /\ Step[s].spawn = None /\ Step[s].needs = {}
         /\ \A i \in Step[s].inputs : i.collect = None /\ Sources(i) = i.from /\ Gating(i) = Gated(i)
         /\ SourcesOf(s) = Needs(s) /\ SourcesOf(s)' = Needs(s)
         /\ Deps(s) = {Output[h].source : h \in Needs(s)} \cap Steps
<1>1. Step[s].needs = {}
  BY DelegatingAssumption
<1>2. Step[s].spawn = None
  BY <1>1, PlanAssumption
<1>3. \A i \in Step[s].inputs : i.collect = None
  BY <1>1, PlanAssumption
<1>4. \A i \in Step[s].inputs : Sources(i) = i.from /\ Sources(i)' = i.from /\ Gating(i) = Gated(i)
  BY <1>3 DEF Sources, Gating, Gated
<1>5. {Sources(i) : i \in Step[s].inputs} = {i.from : i \in Step[s].inputs}
  BY <1>4
<1>6. {Sources(i)' : i \in Step[s].inputs} = {i.from : i \in Step[s].inputs}
  BY <1>4
<1>7. SourcesOf(s) = Needs(s) /\ SourcesOf(s)' = Needs(s)
  BY <1>5, <1>6 DEF SourcesOf, Needs
<1> QED BY <1>1, <1>2, <1>3, <1>4, <1>7 DEF Deps

PlanInv ==
  /\ StepSets /\ Apart /\ OtherTypes
  /\ planned = Steps /\ newMappings = FALSE /\ unknownState = {}
  /\ ReadyOutputs \subseteq stepOutputs
  /\ \A s \in executable \cup inFlight \cup waitingToRetry \cup success \cup failed :
       Supplied(s, EndedWell, stepOutputs)

\* A new ActiveExecution.
Fresh ==
  /\ planned = Steps /\ executable \subseteq Steps /\ pending = Steps \ executable
  /\ \A s \in executable : Supplied(s, {}, ReadyOutputs)
  /\ stepOutputs = ReadyOutputs /\ emitted = {}
  /\ completed = {} /\ noneMapped = {} /\ newMappings = FALSE /\ gathering = [d \in Dynamic |-> {}]
  /\ success = {} /\ failed = {} /\ skipped = {} /\ abandoned = {} /\ unknownState = {}
  /\ pendingSkip = {} /\ pendingAbandon = {} /\ waitingToRetry = {} /\ inFlight = {}
  /\ attempts = [s \in Steps |-> 0]

LEMMA FreshPlan == Fresh => PlanInv
<1> SUFFICES ASSUME Fresh PROVE PlanInv
  OBVIOUS
<1>1. StepSets /\ Apart
  BY DEF Fresh, StepSets, Apart, Undone, Terminal, EndedWell, EndedBadly
<1>2. OtherTypes
  BY PlanAssumption DEF Fresh, OtherTypes
<1>3. EndedWell = {}
  BY DEF Fresh, EndedWell
<1> QED BY <1>1, <1>2, <1>3 DEF Fresh, PlanInv

\* What waits for nothing has all it needs.
LEMMA FirstSupplied ==
  ASSUME NEW s \in Steps,
         IF RequireUpstreamSuccess THEN Deps(s) = {}
         ELSE \A h \in SourcesOf(s) : Output[h].source \in KeysToExecute => h \in ReadyOutputs
  PROVE  Supplied(s, {}, ReadyOutputs)
<1>1. \A h \in Needs(s) : Output[h].source \in Steps => ~ RequireUpstreamSuccess /\ h \in ReadyOutputs
  BY PlainInputs, DelegatingAssumption
<1>2. \A i \in Step[s].inputs : Gated(i) \subseteq Needs(s)
  BY DEF Gated, Needs
<1>3. \A i \in Step[s].inputs : Lacking(i, ReadyOutputs) = {}
  BY <1>1, <1>2 DEF Lacking
<1> QED BY <1>1, <1>3 DEF Supplied

LEMMA InitFresh == Init => Fresh
<1> SUFFICES ASSUME Init PROVE Fresh
  OBVIOUS
<1>1. {s \in Steps : Step[s].needs = {} /\ Step[s].spawn = None} = Steps
  BY PlainInputs
<1>2. /\ planned = Steps /\ pending = Steps \ executable
      /\ executable = {s \in Steps : (RequireUpstreamSuccess => Deps(s) = {}) /\ ShouldExecute(s)}
  BY <1>1 DEF Init
<1>3. ASSUME NEW s \in executable PROVE Supplied(s, {}, ReadyOutputs)
  <2>1. s \in Steps /\ (RequireUpstreamSuccess => Deps(s) = {}) /\ ShouldExecute(s)
    BY <1>2
  <2>2. ~ RequireUpstreamSuccess =>
          \A h \in SourcesOf(s) : Output[h].source \in KeysToExecute => h \in ReadyOutputs
    BY <2>1 DEF ShouldExecute, AllProduced, HasProduced, Init
  <2> QED BY <2>1, <2>2, FirstSupplied
<1> QED BY <1>2, <1>3 DEF Init, Fresh

LEMMA ResumeFresh == Resume => Fresh'
<1> SUFFICES ASSUME Resume PROVE Fresh'
  OBVIOUS
<1>1. /\ executable' \subseteq Steps /\ pending' = Steps \ executable'
      /\ \A s \in executable' :
           IF RequireUpstreamSuccess THEN Deps(s) = {}
           ELSE \A h \in SourcesOf(s) : Output[h].source \in KeysToExecute => h \in ReadyOutputs
  BY DEF Resume
<1>2. \A s \in executable' : Supplied(s, {}, ReadyOutputs)
  BY <1>1, FirstSupplied
<1> QED BY <1>1, <1>2 DEF Resume, Fresh

\* What the executor does to the plan otherwise.
PlanStep ==
  \/ \E limit, due, asked, refused : GetStepsToExecute(limit, due, asked, refused)
  \/ \E due : SkipRound(due) \/ AbandonRound(due)
  \/ \E s \in Steps : SuccessEvent(s) \/ FailureEvent(s)
  \/ \E s \in Steps, delayed \in BOOLEAN : RetryMode = "enabled" /\ MarkUpForRetry(s, delayed)
  \/ MarkUnknownState({})
  \/ \E h \in Handles :
       /\ stepOutputs' = stepOutputs \cup {h} /\ emitted' = emitted \cup {h}
       /\ UNCHANGED <<undecided, inFlight, success, failed, skipped, abandoned, unknownState, mappings, attempts>>
  \/ UNCHANGED vars

\* What the plan's variables are after a step that leaves them alone.
LEMMA SamePlan ==
  ASSUME UNCHANGED vars
  PROVE  /\ planned' = planned /\ pending' = pending /\ executable' = executable
         /\ pendingSkip' = pendingSkip /\ pendingAbandon' = pendingAbandon
         /\ waitingToRetry' = waitingToRetry /\ inFlight' = inFlight
         /\ success' = success /\ failed' = failed /\ skipped' = skipped /\ abandoned' = abandoned
         /\ unknownState' = unknownState /\ stepOutputs' = stepOutputs /\ emitted' = emitted
         /\ gathering' = gathering /\ completed' = completed /\ noneMapped' = noneMapped
         /\ newMappings' = newMappings /\ attempts' = attempts
  BY DEF vars, buckets

\* The decisions taken by _update, from what the steps have ended with.
LEMMA Deciding ==
  ASSUME PlanInv
  PROVE  /\ Resolved = {}
         /\ \A s \in ToExecute : s \in Steps /\ Supplied(s, EndedWell, stepOutputs)
         /\ \A s \in ToSkip : \E i \in Step[s].inputs :
              /\ \E h \in Gated(i) : Output[h].source \in EndedWell /\ h \notin stepOutputs
              /\ i.fanIn => \A h \in Gated(i) : Output[h].source \in EndedWell /\ h \notin stepOutputs
         /\ \A s \in ToAbandon : \E h \in Needs(s) :
              Output[h].source \in EndedBadly /\ (RequireUpstreamSuccess \/ h \notin stepOutputs)
<1>1. Resolved = {} /\ noneMapped = {} /\ Waiting \subseteq Steps
  BY DelegatingAssumption DEF PlanInv, OtherTypes, StepSets, Resolved, Waiting
<1>2. ToSkip \subseteq Steps /\ ToAbandon \subseteq Steps /\ ToExecute \subseteq Steps
  BY <1>1, Decisions
<1>3. ASSUME NEW s \in Steps, NEW i \in Step[s].inputs
      PROVE  /\ FanIn(i) <=> i.fanIn
             /\ Missing(i) = {h \in Gated(i) : Output[h].source \in EndedWell /\ h \notin stepOutputs}
             /\ Gating(i) = Gated(i)
  BY <1>1, PlainInputs DEF FanIn, Missing
<1>4. ASSUME NEW s \in ToExecute
      PROVE  Supplied(s, EndedWell, stepOutputs)
  <2>1. s \in Steps /\ ~ ShouldSkip(s) /\ ~ ShouldAbandon(s) /\ Decidable(s) /\ ShouldExecute(s)
    BY <1>2 DEF ToExecute, ToAbandon, ToSkip
  <2>2. ASSUME NEW h \in Needs(s), Output[h].source \in Steps
        PROVE  IF RequireUpstreamSuccess THEN Output[h].source \in EndedWell ELSE h \in stepOutputs
    <3>1. h \in SourcesOf(s) /\ Output[h].source \in Deps(s)
      BY <2>1, <2>2, PlainInputs
    <3>2. CASE RequireUpstreamSuccess
      BY <2>1, <3>1, <3>2 DEF Decidable, ShouldAbandon, Terminal
    <3>3. CASE ~ RequireUpstreamSuccess
      BY <2>1, <2>2, <3>1, <3>3, DelegatingAssumption DEF ShouldExecute, AllProduced, HasProduced
    <3> QED BY <3>2, <3>3
  <2>3. ASSUME NEW i \in Step[s].inputs, Lacking(i, stepOutputs) # {}
        PROVE  i.fanIn /\ Lacking(i, stepOutputs) # Gated(i)
    <3>1. \A h \in Gated(i) : h \in Needs(s)
      BY DEF Gated, Needs
    <3>2. Lacking(i, stepOutputs) = Missing(i)
      <4>1. EndedWell \subseteq Steps
        BY DEF PlanInv, StepSets, EndedWell
      <4> QED BY <1>3, <2>1, <2>2, <3>1, <4>1 DEF Lacking
    <3> QED BY <1>3, <2>1, <2>3, <3>2 DEF ShouldSkip
  <2> QED BY <2>2, <2>3 DEF Supplied
<1>5. ASSUME NEW s \in ToSkip
      PROVE  \E i \in Step[s].inputs :
               /\ \E h \in Gated(i) : Output[h].source \in EndedWell /\ h \notin stepOutputs
               /\ i.fanIn => \A h \in Gated(i) : Output[h].source \in EndedWell /\ h \notin stepOutputs
  <2>1. s \in Steps /\ ShouldSkip(s)
    BY <1>2 DEF ToSkip
  <2>2. PICK i \in Step[s].inputs : Missing(i) # {} /\ (FanIn(i) => Missing(i) = Gating(i))
    BY <2>1 DEF ShouldSkip
  <2>3. /\ FanIn(i) <=> i.fanIn
        /\ Missing(i) = {h \in Gated(i) : Output[h].source \in EndedWell /\ h \notin stepOutputs}
        /\ Gating(i) = Gated(i)
    BY <1>3, <2>1
  <2>4. \E h \in Gated(i) : Output[h].source \in EndedWell /\ h \notin stepOutputs
    BY <2>2, <2>3
  <2>5. ASSUME i.fanIn, NEW h \in Gated(i) PROVE Output[h].source \in EndedWell /\ h \notin stepOutputs
    BY <2>2, <2>3, <2>5
  <2> QED BY <2>4, <2>5
<1>6. ASSUME NEW s \in ToAbandon
      PROVE  \E h \in Needs(s) :
               Output[h].source \in EndedBadly /\ (RequireUpstreamSuccess \/ h \notin stepOutputs)
  <2>1. s \in Steps /\ ShouldAbandon(s)
    BY <1>2 DEF ToAbandon
  <2> QED BY <2>1, PlainInputs DEF ShouldAbandon, LostSource
<1> QED BY <1>1, <1>2, <1>4, <1>5, <1>6

\* What has ended stays ended, and outputs stay.
Onwards ==
  /\ success \subseteq success' /\ skipped \subseteq skipped' /\ failed \subseteq failed'
  /\ abandoned \subseteq abandoned' /\ stepOutputs \subseteq stepOutputs'

\* Which steps come to be ready, or to be executed.
Ways ==
  executable' \cup inFlight' \cup waitingToRetry' \cup success' \cup failed'
    \subseteq executable \cup inFlight \cup waitingToRetry \cup success \cup failed \cup ToExecute

LEMMA PlanMoves ==
  ASSUME PlanInv, PlanStep
  PROVE  /\ Onwards /\ Ways
         /\ StepSets' /\ Apart' /\ OtherTypes'
         /\ planned' = Steps /\ newMappings' = FALSE /\ unknownState' = {}
<1> DEFINE Goal == /\ Onwards /\ Ways
                   /\ planned' = Steps /\ newMappings' = FALSE /\ unknownState' = {}
<1> USE DelegatingAssumption
<1>1. ASSUME NEW limit, NEW due, NEW asked, NEW refused, GetStepsToExecute(limit, due, asked, refused)
      PROVE  Goal
  BY <1>1, Deciding DEF GetStepsToExecute, Selection, Update, NowExecutable, Onwards, Ways, PlanInv
<1>2. ASSUME NEW due, SkipRound(due) PROVE Goal
  BY <1>2, Deciding DEF SkipRound, Update, NowExecutable, Onwards, Ways, PlanInv
<1>3. ASSUME NEW due, AbandonRound(due) PROVE Goal
  BY <1>3, Deciding DEF AbandonRound, Update, NowExecutable, Onwards, Ways, PlanInv
<1>4. ASSUME NEW s \in Steps, SuccessEvent(s) PROVE Goal
  BY <1>4 DEF SuccessEvent, undecided, Onwards, Ways, PlanInv
<1>5. ASSUME NEW s \in Steps, FailureEvent(s) PROVE Goal
  BY <1>5 DEF FailureEvent, undecided, mappings, Onwards, Ways, PlanInv
<1>6. ASSUME NEW s \in Steps, NEW delayed \in BOOLEAN, RetryMode = "enabled", MarkUpForRetry(s, delayed)
      PROVE  Goal
  BY <1>6 DEF MarkUpForRetry, mappings, Onwards, Ways, PlanInv
<1>7. ASSUME MarkUnknownState({}) PROVE Goal
  BY <1>7 DEF MarkUnknownState, undecided, mappings, Onwards, Ways, PlanInv
<1>8. ASSUME NEW h \in Handles, stepOutputs' = stepOutputs \cup {h}, emitted' = emitted \cup {h},
             UNCHANGED <<undecided, inFlight, success, failed, skipped, abandoned, unknownState, mappings, attempts>>
      PROVE  Goal /\ StepSets' /\ Apart' /\ OtherTypes'
  <2>1. Goal
    BY <1>8 DEF undecided, mappings, Onwards, Ways, PlanInv
  <2>2. StepSets'
    BY <1>8 DEF undecided, PlanInv, StepSets
  <2>3. Apart'
    BY <1>8 DEF undecided, PlanInv, Apart, Undone, Terminal, EndedWell, EndedBadly
  <2>4. OtherTypes'
    BY <1>8 DEF mappings, PlanInv, OtherTypes
  <2> QED BY <2>1, <2>2, <2>3, <2>4
<1>9. CASE UNCHANGED vars
  BY <1>9, SamePlan DEF Onwards, Ways, PlanInv, StepSets, Apart, OtherTypes, Undone, Terminal, EndedWell, EndedBadly
<1>10. ASSUME NEW s \in Steps, NEW delayed \in BOOLEAN, RetryMode = "enabled", MarkUpForRetry(s, delayed)
       PROVE  StepSets' /\ Apart' /\ OtherTypes'
  <2>1. StepSets'
    BY <1>10 DEF MarkUpForRetry, PlanInv, StepSets
  <2>2. Apart'
    <3>1. CASE delayed
      BY <1>10, <3>1 DEF MarkUpForRetry, Requeued, PlanInv, Apart, Undone, Terminal, EndedWell, EndedBadly
    <3>2. CASE ~ delayed
      BY <1>10, <3>2 DEF MarkUpForRetry, Requeued, PlanInv, Apart, Undone, Terminal, EndedWell, EndedBadly
    <3> QED BY <3>1, <3>2
  <2>3. OtherTypes'
    BY <1>10 DEF MarkUpForRetry, mappings, PlanInv, OtherTypes
  <2> QED BY <2>1, <2>2, <2>3
<1>11. ASSUME Call PROVE StepSets' /\ Apart' /\ OtherTypes'
  <2>1. Sound /\ OtherTypes
    BY DEF PlanInv, Sound
  <2> QED BY <1>11, <2>1, CallSound, CallTypes DEF Sound
<1>12. PlanStep => \/ Call \/ UNCHANGED vars
                   \/ \E s \in Steps, delayed \in BOOLEAN : RetryMode = "enabled" /\ MarkUpForRetry(s, delayed)
                   \/ \E h \in Handles :
                        /\ stepOutputs' = stepOutputs \cup {h} /\ emitted' = emitted \cup {h}
                        /\ UNCHANGED <<undecided, inFlight, success, failed, skipped, abandoned, unknownState, mappings, attempts>>
  BY DEF PlanStep, Call, StepEvent
<1> QED BY <1>1, <1>2, <1>3, <1>4, <1>5, <1>6, <1>7, <1>8, <1>9, <1>10, <1>11, <1>12 DEF PlanStep

LEMMA PlanKept ==
  ASSUME PlanInv, PlanStep
  PROVE  PlanInv'
<1>1. /\ Onwards /\ Ways /\ StepSets' /\ Apart' /\ OtherTypes'
      /\ planned' = Steps /\ newMappings' = FALSE /\ unknownState' = {}
  BY PlanMoves
<1>2. EndedWell \subseteq EndedWell' /\ stepOutputs \subseteq stepOutputs'
  BY <1>1 DEF Onwards, EndedWell
<1>3. \A s \in executable \cup inFlight \cup waitingToRetry \cup success \cup failed \cup ToExecute :
        Supplied(s, EndedWell, stepOutputs)
  BY Deciding DEF PlanInv
<1>4. \A s \in executable' \cup inFlight' \cup waitingToRetry' \cup success' \cup failed' :
        Supplied(s, EndedWell', stepOutputs')
  BY <1>1, <1>2, <1>3, SuppliedMore DEF Ways
<1> QED BY <1>1, <1>2, <1>4 DEF PlanInv

(***************************************************************************)
(* The loop, the replay and the workers, without what no invariant needs.  *)
(***************************************************************************)

Shape ==
  /\ at \in Looping \cup Replays \cup Over \cup {"down"}
  /\ log \in Seq(Events) /\ read \in 0 .. Len(log) /\ fetched \in 0 .. Len(log)
  /\ running \subseteq Steps /\ toStart \subseteq Steps /\ slots \subseteq {s \in Steps : Step[s].pool}
  /\ DOMAIN worker \subseteq [step : Steps, attempt : Nat]
  /\ worker \in [DOMAIN worker -> {"running", "reported", "broken", "failed"}]
  /\ sent \in [DOMAIN worker -> SUBSET Handles]
  /\ faults \in 0 .. MaxFaults /\ resumed \in BOOLEAN /\ doubtful \in BOOLEAN /\ crossed \subseteq Steps

\* A retry is in the log only if retries are allowed, and a step whose skip is in the log is
\* skipped, or will be found to be by the replay, which then fails.
LogRules ==
  /\ \A i \in 1 .. Len(log) : log[i][1] = "retry" => RetryMode = "enabled"
  /\ \A i \in 1 .. Len(log) : log[i][1] = "skip" =>
       /\ at \in Looping => log[i][2] \in skipped
       /\ at \in Replays => i \in read + 1 .. fetched

Cursors ==
  /\ at \in Replays \cup {"handle"} => read <= fetched
  /\ at \in Replays => resumed
  /\ at \in (Looping \ {"start"}) \cup Replays => toStart = {}
  /\ at \in Looping => running \cup toStart = inFlight /\ running \cap toStart = {}

Base == PlanInv /\ Shape /\ LogRules /\ Cursors

\* The effects of an event on the plan.
Takes(e) ==
  /\ e[1] \in Endings => e[2] \in inFlight
  /\ inFlight' = IF e[1] \in Endings THEN inFlight \ {e[2]} ELSE inFlight
  /\ success' = IF e[1] = "success" THEN success \cup {e[2]} ELSE success
  /\ failed' = IF e[1] = "failure" THEN failed \cup {e[2]} ELSE failed
  /\ attempts' = IF e[1] = "retry" THEN [attempts EXCEPT ![e[2]] = @ + 1] ELSE attempts
  /\ stepOutputs' = IF e[1] = "output" THEN stepOutputs \cup {e[3]} ELSE stepOutputs
  /\ UNCHANGED <<skipped, abandoned, pendingSkip, pendingAbandon>>

\* The effects of get_steps_to_execute.
Vends(batch) ==
  /\ batch \cap (inFlight \cup Terminal) = {} /\ inFlight' = inFlight \cup batch
  /\ pendingSkip' = pendingSkip \cup ToSkip /\ pendingAbandon' = pendingAbandon \cup ToAbandon
  /\ UNCHANGED <<success, failed, attempts, stepOutputs, skipped, abandoned>>

LEMMA HandledTakes ==
  ASSUME PlanInv, NEW e \in Events, Handled(e), e[1] = "retry" => RetryMode = "enabled"
  PROVE  PlanStep /\ Takes(e) /\ e[1] # "skip"
<1> DEFINE Goal == PlanStep /\ Takes(e) /\ e[1] # "skip"
<1> USE DEF Of
<1>1. CASE e[1] = "success" /\ SuccessEvent(e[2])
  BY <1>1, EventShape DEF SuccessEvent, PlanStep, Takes, undecided, Endings
<1>2. CASE e[1] = "failure" /\ FailureEvent(e[2])
  BY <1>2, EventShape DEF FailureEvent, PlanStep, Takes, undecided, Endings
<1>3. CASE e[1] = "retry" /\ MarkUpForRetry(e[2], e[3])
  <2>1. e[2] \in Steps /\ e[3] \in BOOLEAN
    BY <1>3, RetryShape
  <2>2. Takes(e)
    BY <1>3 DEF MarkUpForRetry, Takes, Endings
  <2> QED BY <1>3, <2>1, <2>2 DEF PlanStep
<1>4. CASE /\ e[1] = "output"
           /\ stepOutputs' = stepOutputs \cup {e[3]} /\ emitted' = emitted \cup {e[3]}
           /\ UNCHANGED <<undecided, inFlight, success, failed, skipped, abandoned, unknownState,
                          mappings, attempts>>
  <2>1. e[3] \in Handles
    BY <1>4, EventShape
  <2>2. PlanStep
    BY <1>4, <2>1 DEF PlanStep
  <2>3. Takes(e)
    BY <1>4 DEF Takes, undecided, Endings
  <2> QED BY <1>4, <2>2, <2>3
<1>5. CASE e[1] = "init" /\ UNCHANGED vars
  BY <1>5, SamePlan DEF PlanStep, Takes, Endings
<1> QED BY <1>1, <1>2, <1>3, <1>4, <1>5 DEF Handled

LEMMA TakenVends ==
  ASSUME PlanInv, NEW limit, NEW batch, TakeSteps(limit, batch)
  PROVE  PlanStep /\ Vends(batch) /\ slots' = slots \cup {s \in batch : Step[s].pool}
<1>1. PICK due, refused : /\ refused \subseteq NowExecutable(due) \ (batch \cup slots)
                          /\ GetStepsToExecute(limit, due, batch \cup refused, refused)
  BY DEF TakeSteps
<1>2. (batch \cup refused) \ refused = batch
  BY <1>1
<1>3. batch \subseteq executable \cup ToExecute \cup waitingToRetry
  BY <1>1, <1>2 DEF GetStepsToExecute, Selection, Update, NowExecutable
<1>4. batch \cap (inFlight \cup Terminal) = {}
  BY <1>3, Deciding, Decisions DEF Waiting, PlanInv, Apart, Undone
<1>5. Vends(batch)
  BY <1>1, <1>2, <1>4 DEF GetStepsToExecute, Vends
<1>6. PlanStep
  BY <1>1 DEF PlanStep
<1> QED BY <1>5, <1>6 DEF TakeSteps

LEMMA FailureOrRetryEvents ==
  ASSUME NEW s \in Steps, NEW e \in FailureOrRetry(s)
  PROVE  /\ e \in Events /\ e[2] = s /\ e[1] \in {"retry", "failure"}
         /\ e[1] = "retry" => RetryMode = "enabled"
<1>1. e \in Ends(s) /\ e[1] \in {"retry", "failure"} /\ e[2] = s
  BY DEF FailureOrRetry, Ends
<1>2. e[1] = "retry" => RetryMode = "enabled"
  <2>1. e[1] = "retry" => MayRetry(s)
    BY DEF FailureOrRetry
  <2> QED BY <2>1, PlanAssumption, DelegatingAssumption DEF MayRetry
<1> QED BY <1>1, <1>2 DEF Events

\* The executor stops, or dies.
Stops ==
  /\ at' \in Over \cup {"down"} /\ log' = log /\ UNCHANGED vars
  /\ read' \in 0 .. Len(log) /\ fetched' = fetched /\ running' \subseteq Steps /\ toStart' \subseteq Steps
  /\ DOMAIN worker' = DOMAIN worker
  /\ \A w \in DOMAIN worker : worker'[w] = worker[w] \/ (worker[w] = "running" /\ worker'[w] = "broken")
  /\ UNCHANGED <<resumed, doubtful, crossed>>
  /\ at' = "done" => at = "check" /\ Complete
  /\ at' = "raised" => resumed \/ (at = "handle" /\ read < fetched /\ Refused(NextEvent))

\* It goes on, with nothing done but that the events may be fetched.
Passes ==
  /\ log' = log /\ UNCHANGED vars /\ UNCHANGED <<read, running, toStart, worker, resumed, doubtful, crossed>>
  /\ \/ at' = at /\ fetched' = fetched
     \/ at = "check" /\ at' = "handle" /\ fetched' = Len(log)
     \/ at = "check" /\ at' = "skip" /\ inFlight = {} /\ fetched' = fetched
     \/ at = "start" /\ toStart = {} /\ at' = "check" /\ fetched' = fetched

Hears ==
  /\ at = "handle" /\ at' = "handle" /\ read < fetched /\ read' = read + 1
  /\ Takes(NextEvent)
  /\ running' = IF NextEvent[1] \in Endings THEN running \ {NextEvent[2]} ELSE running
  /\ IF NextEvent[1] = "init"
       THEN \E k \in {"retry", "failure"} :
              Writes({NextEvent[2]}, {k}) /\ (k = "retry" => RetryMode = "enabled")
       ELSE log' = log
  /\ UNCHANGED <<fetched, toStart, worker, resumed, doubtful, crossed>>

Skips ==
  /\ at = "skip" \/ (at = "handle" /\ read = fetched)
  /\ at' \in {"skip", "abandon"} /\ fetched' = 0
  /\ Writes(SkipVended, {"skip"}) /\ skipped' = skipped \cup SkipVended
  /\ pendingSkip' = {} /\ pendingAbandon' = AbandonVended
  /\ UNCHANGED <<inFlight, success, failed, attempts, stepOutputs, abandoned>>
  /\ UNCHANGED <<read, running, toStart, worker, resumed, doubtful, crossed>>

Abandons ==
  /\ at = "abandon" /\ at' \in {"abandon", "health"}
  /\ log' = log /\ abandoned' = abandoned \cup AbandonVended
  /\ pendingSkip' = SkipVended /\ pendingAbandon' = {}
  /\ UNCHANGED <<inFlight, success, failed, attempts, stepOutputs, skipped>>
  /\ UNCHANGED <<read, fetched, running, toStart, worker, resumed, doubtful, crossed>>

Examines ==
  /\ at = "health" /\ at' = "launch"
  /\ Writes(Sick, {"retry", "failure"})
  /\ \A i \in New : log'[i][1] = "retry" => RetryMode = "enabled"
  /\ crossed' = crossed \cup CrossedOf(Sick)
  /\ UNCHANGED vars /\ UNCHANGED <<read, fetched, running, toStart, worker, resumed, doubtful>>

Selects ==
  /\ at \in {"health", "launch"} /\ at' = "start" /\ log' = log /\ Vends(toStart')
  /\ UNCHANGED <<read, fetched, running, worker, resumed, doubtful, crossed>>

\* The workers of the steps S are new, and run.
NewWorkers(S) ==
  /\ DOMAIN worker' = DOMAIN worker \cup CurrentOf(S)
  /\ \A w \in CurrentOf(S) : worker'[w] = "running"
  /\ \A w \in DOMAIN worker \ CurrentOf(S) : worker'[w] = worker[w]

Starts(s) ==
  /\ at = "start" /\ at' = "start" /\ s \in toStart
  /\ toStart' = toStart \ {s} /\ running' = running \cup {s}
  /\ NewWorkers({s}) /\ doubtful' = (doubtful \/ Current(s) \in DOMAIN worker)
  /\ log' = log /\ UNCHANGED vars /\ UNCHANGED <<read, fetched, resumed, crossed>>

Resumes ==
  /\ at = "down" /\ at' = "refresh" /\ Fresh'
  /\ read' = 0 /\ fetched' = Len(log) /\ running' = {} /\ toStart' = {} /\ resumed' = TRUE
  /\ log' = log /\ UNCHANGED <<worker, doubtful, crossed>>

Refreshes ==
  /\ at = "refresh" /\ at' = "replay" /\ log' = log /\ \E batch \in SUBSET Steps : Vends(batch)
  /\ UNCHANGED <<read, fetched, running, toStart, worker, resumed, doubtful, crossed>>

ReplaysNext ==
  /\ at = "replay" /\ at' = "refresh" /\ read < fetched /\ read' = read + 1
  /\ Takes(NextEvent) /\ NextEvent[1] # "skip" /\ log' = log
  /\ UNCHANGED <<fetched, running, toStart, worker, resumed, doubtful, crossed>>

Rechecks ==
  /\ at = "replay" /\ read = fetched /\ fetched' = 0 /\ running' = inFlight
  /\ \/ at' = "check" /\ NewWorkers(Relaunched)
     \/ at' = "failed" /\ \E S \in SUBSET Relaunched : NewWorkers(S)
  /\ crossed' = crossed \cup CrossedOf(Relaunched)
  /\ log' = log /\ UNCHANGED vars /\ UNCHANGED <<read, toStart, resumed, doubtful>>

\* A worker reports an output, or the end, or breaks, before it reports the end or after it.
Toils(w) ==
  /\ w \in DOMAIN worker
  /\ DOMAIN worker' = DOMAIN worker /\ \A v \in DOMAIN worker \ {w} : worker'[v] = worker[v]
  /\ \/ worker[w] = "running" /\ worker'[w] = "running" /\ Writes({w.step}, {"output"})
     \/ /\ worker[w] = "running" /\ worker'[w] = "reported"
        /\ \E k \in Endings \cup {"init"} :
             Writes({w.step}, {k}) /\ (k = "retry" => RetryMode = "enabled")
     \/ worker[w] = "running" /\ worker'[w] = "broken" /\ log' = log
     \/ worker[w] = "reported" /\ worker'[w] = "failed" /\ log' = log
  /\ UNCHANGED vars /\ UNCHANGED <<at, read, fetched, running, toStart, resumed, doubtful, crossed>>

Moved ==
  \/ Stops \/ Passes \/ Hears \/ Skips \/ Abandons \/ Examines \/ Selects \/ \E s \in Steps : Starts(s)
  \/ Resumes \/ Refreshes \/ ReplaysNext \/ Rechecks \/ \E w \in DOMAIN worker : Toils(w)

\* The types of what the moves say nothing of.
Rest ==
  /\ slots \subseteq {s \in Steps : Step[s].pool}
  /\ DOMAIN worker \subseteq [step : Steps, attempt : Nat]
  /\ worker \in [DOMAIN worker -> {"running", "reported", "broken", "failed"}]
  /\ sent \in [DOMAIN worker -> SUBSET Handles]
  /\ faults \in 0 .. MaxFaults /\ resumed \in BOOLEAN /\ doubtful \in BOOLEAN /\ crossed \subseteq Steps

LEMMA CurrentWorkers ==
  ASSUME PlanInv, NEW S, S \subseteq Steps
  PROVE  CurrentOf(S) \subseteq [step : Steps, attempt : Nat]
<1>1. attempts \in [Steps -> Nat]
  BY DEF PlanInv, OtherTypes
<1>2. \A s \in Steps : Current(s) \in [step : Steps, attempt : Nat]
  BY <1>1 DEF Current
<1> QED BY <1>2 DEF CurrentOf

LEMMA TerminatedWorkers ==
  ASSUME Rest, NEW S, Terminated(S), UNCHANGED <<slots, faults, resumed, doubtful, crossed>>
  PROVE  /\ DOMAIN worker' = DOMAIN worker
         /\ \A w \in DOMAIN worker : worker'[w] = worker[w] \/ (worker[w] = "running" /\ worker'[w] = "broken")
         /\ Rest'
<1>1. /\ DOMAIN worker' = DOMAIN worker
      /\ \A w \in DOMAIN worker : worker'[w] = IF w \in CurrentOf(S) /\ worker[w] = "running" THEN "broken" ELSE worker[w]
      /\ worker' \in [DOMAIN worker -> {"running", "reported", "broken", "failed"}]
  BY DEF Terminated, Rest
<1>2. sent' = sent
  BY DEF Terminated
<1>3. sent' \in [DOMAIN worker' -> SUBSET Handles]
  BY <1>1, <1>2 DEF Rest
<1>4. worker' \in [DOMAIN worker' -> {"running", "reported", "broken", "failed"}]
  BY <1>1
<1>5. DOMAIN worker' \subseteq [step : Steps, attempt : Nat]
  BY <1>1 DEF Rest
<1> QED BY <1>1, <1>3, <1>4, <1>5 DEF Rest

LEMMA LaunchedWorkers ==
  ASSUME PlanInv, Rest, NEW S, S \subseteq Steps, Launched(S),
         UNCHANGED <<slots, faults, resumed>>, doubtful' \in BOOLEAN, crossed' \subseteq Steps
  PROVE  NewWorkers(S) /\ Rest'
<1>1. /\ DOMAIN worker' = DOMAIN worker \cup CurrentOf(S)
      /\ \A w \in DOMAIN worker' : worker'[w] = IF w \in CurrentOf(S) THEN "running" ELSE worker[w]
      /\ worker' \in [DOMAIN worker \cup CurrentOf(S) -> {"running", "reported", "broken", "failed"}]
  BY DEF Launched, Rest
<1>2. DOMAIN sent = DOMAIN worker /\ sent' \in [DOMAIN worker \cup CurrentOf(S) -> SUBSET Handles]
  BY DEF Launched, Rest
<1>3. NewWorkers(S)
  BY <1>1 DEF NewWorkers
<1> QED BY <1>1, <1>2, <1>3, CurrentWorkers DEF Rest

Follows == Moved /\ (PlanStep \/ Resume) /\ Rest'

LEMMA WorkerFollows ==
  ASSUME Base, NEW w \in DOMAIN worker, EndStep(w) \/ Break(w) \/ \E h \in Handles : EmitOutput(w, h)
  PROVE  Follows
<1>1. /\ w.step \in Steps /\ log \in Seq(Events)
      /\ worker \in [DOMAIN worker -> {"running", "reported", "broken", "failed"}]
      /\ sent \in [DOMAIN worker -> SUBSET Handles]
  BY DEF Base, Shape
<1>2. ASSUME NEW e \in Events, NEW state \in {"running", "reported", "broken", "failed"}, Report(w, e, state), e[2] = w.step
      PROVE  /\ Writes({w.step}, {e[1]}) /\ worker'[w] = state
             /\ DOMAIN worker' = DOMAIN worker /\ \A v \in DOMAIN worker \ {w} : worker'[v] = worker[v]
             /\ worker' \in [DOMAIN worker -> {"running", "reported", "broken", "failed"}]
             /\ UNCHANGED vars /\ UNCHANGED <<at, read, fetched, running, toStart, resumed, doubtful, crossed>>
             /\ slots' = slots /\ faults' = faults
  <2>1. Writes({w.step}, {e[1]})
    BY <1>1, <1>2, AppendWrites DEF Report, past
  <2> QED BY <1>1, <1>2, <2>1 DEF Report, place, past
<1>3. ASSUME NEW h \in Handles, EmitOutput(w, h)
      PROVE  Follows
  <2>1. <<"output", w.step, h>> \in Events
    BY <1>1, <1>3 DEF EmitOutput, Outputs, Events
  <2>2. worker[w] = "running" /\ Report(w, <<"output", w.step, h>>, "running")
    BY <1>3 DEF EmitOutput, Works
  <2>3. /\ Writes({w.step}, {"output"}) /\ worker'[w] = "running"
        /\ DOMAIN worker' = DOMAIN worker /\ \A v \in DOMAIN worker \ {w} : worker'[v] = worker[v]
        /\ worker' \in [DOMAIN worker -> {"running", "reported", "broken", "failed"}]
        /\ UNCHANGED vars /\ UNCHANGED <<at, read, fetched, running, toStart, resumed, doubtful, crossed>>
        /\ slots' = slots /\ faults' = faults
    BY <1>2, <2>1, <2>2
  <2>4. sent' \in [DOMAIN worker -> SUBSET Handles]
    BY <1>1, <1>3 DEF EmitOutput
  <2>5. Toils(w)
    BY <2>2, <2>3 DEF Toils
  <2>6. Rest'
    BY <2>3, <2>4 DEF Base, Shape, Rest
  <2> QED BY <2>3, <2>5, <2>6 DEF Follows, Moved, PlanStep
<1>4. ASSUME EndStep(w)
      PROVE  Follows
  <2>1. PICK e \in Events : /\ Report(w, e, "reported") /\ e[2] = w.step /\ e[1] \in Endings \cup {"init"}
                            /\ e[1] = "retry" => RetryMode = "enabled"
    <3>1. CASE Report(w, <<"success", w.step>>, "reported")
      BY <1>1, <3>1 DEF Events, Ends, Endings
    <3>2. CASE Report(w, <<"failure", w.step>>, "reported")
      BY <1>1, <3>2 DEF Events, Ends, Endings
    <3>3. CASE Report(w, <<"init", w.step>>, "reported")
      BY <1>1, <3>3 DEF Events, Ends, Endings
    <3>4. ASSUME RetryMode # "disabled", NEW delayed \in BOOLEAN, Report(w, <<"retry", w.step, delayed>>, "reported")
          PROVE  \E e \in Events : /\ Report(w, e, "reported") /\ e[2] = w.step /\ e[1] \in Endings \cup {"init"}
                                   /\ e[1] = "retry" => RetryMode = "enabled"
      <4>1. RetryMode = "enabled"
        BY <3>4, PlanAssumption, DelegatingAssumption
      <4>2. <<"retry", w.step, delayed>> \in Events
        BY <1>1, <3>4 DEF Events, Ends
      <4> QED BY <3>4, <4>1, <4>2 DEF Endings
    <3> QED BY <1>4, <3>1, <3>2, <3>3, <3>4 DEF EndStep
  <2>2. worker[w] = "running" /\ sent' = sent
    BY <1>4 DEF EndStep, Works
  <2>3. /\ Writes({w.step}, {e[1]}) /\ worker'[w] = "reported"
        /\ DOMAIN worker' = DOMAIN worker /\ \A v \in DOMAIN worker \ {w} : worker'[v] = worker[v]
        /\ worker' \in [DOMAIN worker -> {"running", "reported", "broken", "failed"}]
        /\ UNCHANGED vars /\ UNCHANGED <<at, read, fetched, running, toStart, resumed, doubtful, crossed>>
        /\ slots' = slots /\ faults' = faults
    BY <1>2, <2>1
  <2>4. Toils(w)
    BY <2>1, <2>2, <2>3 DEF Toils
  <2>5. Rest'
    BY <1>1, <2>2, <2>3 DEF Base, Shape, Rest
  <2> QED BY <2>3, <2>4, <2>5 DEF Follows, Moved, PlanStep
<1>5. ASSUME Break(w)
      PROVE  Follows
  <2>1. /\ \/ worker[w] = "running" /\ worker'[w] = "broken"
           \/ worker[w] = "reported" /\ worker'[w] = "failed"
        /\ DOMAIN worker' = DOMAIN worker /\ \A v \in DOMAIN worker \ {w} : worker'[v] = worker[v]
        /\ worker' \in [DOMAIN worker -> {"running", "reported", "broken", "failed"}]
        /\ UNCHANGED vars /\ log' = log /\ UNCHANGED <<at, read, fetched, running, toStart, resumed, doubtful, crossed>>
        /\ slots' = slots /\ sent' = sent
    BY <1>1, <1>5 DEF Break, Goes, place, past
  <2>2. faults' \in 0 .. MaxFaults
    BY <1>5, DelegatingAssumption DEF Break, Base, Shape
  <2>3. Toils(w)
    BY <2>1 DEF Toils
  <2>4. Rest'
    BY <1>1, <2>1, <2>2 DEF Base, Shape, Rest
  <2> QED BY <2>1, <2>3, <2>4 DEF Follows, Moved, PlanStep
<1> QED BY <1>3, <1>4, <1>5

LEMMA SameFits ==
  ASSUME Base, UNCHANGED <<read, running, toStart>>
  PROVE  read' \in 0 .. Len(log) /\ running' \subseteq Steps /\ toStart' \subseteq Steps
  BY DEF Base, Shape

LEMMA QuietFollows ==
  ASSUME Base, EndPlan \/ Interrupted \/ PopEvents \/ Sleep \/ Die \/ UNCHANGED delegatingVars
  PROVE  Follows
<1> USE DEF Follows, Moved, PlanStep
<1>1. Rest /\ log' = log
  BY DEF Base, Shape, Rest, EndPlan, Interrupted, PopEvents, Sleep, Die, Leave, place, delegatingVars, past
<1>2. ASSUME UNCHANGED workers, slots' = slots, faults' \in 0 .. MaxFaults, UNCHANGED <<resumed, doubtful, crossed>>
      PROVE  Rest' /\ worker' = worker
  BY <1>1, <1>2 DEF Rest, workers
<1>3. CASE EndPlan
  BY <1>1, <1>2, <1>3, SameFits DEF EndPlan, place, workers, Stops, Over, Rest, past
<1>4. ASSUME Leave PROVE faults' \in 0 .. MaxFaults /\ at' = "down"
  BY <1>1, <1>4, DelegatingAssumption DEF Rest, Leave
<1>5. CASE Interrupted
  <2>1. CASE WillResume
    BY <1>1, <1>2, <1>4, <1>5, <2>1, SameFits DEF Interrupted, place, workers, Stops, Over, past
  <2>2. CASE ~ WillResume
    <3>1. /\ at' = "stopped" /\ Terminated(running) /\ UNCHANGED <<slots, faults, resumed, doubtful, crossed>>
          /\ UNCHANGED vars /\ UNCHANGED place
      BY <1>5, <2>2 DEF Interrupted, past
    <3> QED BY <1>1, <3>1, TerminatedWorkers, SameFits DEF Stops, Over, place
  <2> QED BY <2>1, <2>2
<1>6. CASE PopEvents
  BY <1>1, <1>2, <1>6 DEF PopEvents, place, Passes, Rest, past
<1>7. CASE Sleep
  BY <1>1, <1>2, <1>7 DEF Sleep, place, Passes, Rest, past
<1>8. CASE Die
  BY <1>1, <1>2, <1>4, <1>8, SameFits DEF Die, place, workers, Stops, past
<1>9. CASE UNCHANGED delegatingVars
  BY <1>1, <1>2, <1>9 DEF delegatingVars, place, Passes, Rest, past
<1> QED BY <1>3, <1>5, <1>6, <1>7, <1>8, <1>9

LEMMA NextInLog ==
  ASSUME Base, read < fetched
  PROVE  NextEvent \in Events /\ read + 1 \in 1 .. Len(log) /\ (NextEvent[1] = "retry" => RetryMode = "enabled")
<1>1. read + 1 \in 1 .. Len(log) /\ log \in Seq(Events)
  BY LogEvents DEF Base, Shape
<1> QED BY <1>1, LogEvents DEF Base, LogRules, NextEvent

LEMMA HandleFollows ==
  ASSUME Base, HandleEvent
  PROVE  Follows
<1> DEFINE e == NextEvent
<1>1. /\ at = "handle" /\ read < fetched /\ read' = read + 1
      /\ UNCHANGED <<fetched, toStart, faults, resumed, doubtful, crossed>>
  BY DEF HandleEvent, past
<1>2. e \in Events /\ (e[1] = "retry" => RetryMode = "enabled") /\ read + 1 \in 1 .. Len(log)
  BY <1>1, NextInLog
<1>3. Rest /\ log \in Seq(Events)
  BY DEF Base, Shape, Rest
<1>4. CASE Refused(e) /\ RaiseTo("raised") /\ UNCHANGED <<vars, log, running, slots>>
  <2>1. read' \in 0 .. Len(log) /\ running' \subseteq Steps /\ toStart' \subseteq Steps
    BY <1>1, <1>2, <1>4, LogEvents DEF Base, Shape
  <2>2. Stops /\ Rest'
    BY <1>1, <1>3, <1>4, <2>1, TerminatedWorkers DEF RaiseTo, Stops, Over
  <2> QED BY <1>4, <2>2 DEF Follows, Moved, PlanStep
<1>5. CASE /\ ~ Refused(e) /\ e[1] # "skip" /\ Handled(e)
           /\ running' = IF IsEnd(e) THEN running \ {Of(e)} ELSE running
           /\ IF e[1] = "init" THEN \E x \in FailureOrRetry(Of(e)) : log' = Append(log, x)
                               ELSE UNCHANGED log
           /\ UNCHANGED <<at, workers>>
  <2>1. PlanInv
    BY DEF Base
  <2>2. PlanStep /\ Takes(e)
    BY <1>2, <1>5, <2>1, HandledTakes
  <2>3. running' = IF e[1] \in Endings THEN running \ {e[2]} ELSE running
    BY <1>2, <1>5, EventShape DEF Of
  <2>4. e[1] = "init" => \E k \in {"retry", "failure"} :
                           Writes({e[2]}, {k}) /\ (k = "retry" => RetryMode = "enabled")
    <3>1. SUFFICES ASSUME e[1] = "init"
                   PROVE  \E k \in {"retry", "failure"} :
                            Writes({e[2]}, {k}) /\ (k = "retry" => RetryMode = "enabled")
      OBVIOUS
    <3>2. PICK x \in FailureOrRetry(e[2]) : log' = Append(log, x)
      BY <1>5, <3>1 DEF Of
    <3>3. /\ x \in Events /\ x[2] = e[2] /\ x[1] \in {"retry", "failure"}
          /\ x[1] = "retry" => RetryMode = "enabled"
      BY <1>2, <3>2, EventShape, FailureOrRetryEvents
    <3> QED BY <1>3, <3>2, <3>3, AppendWrites
  <2>5. e[1] # "init" => log' = log
    BY <1>5
  <2>6. slots' \subseteq slots
    BY <1>5 DEF Handled
  <2>7. at' = at /\ worker' = worker /\ sent' = sent
    BY <1>5 DEF workers
  <2>8. Rest'
    BY <1>1, <1>3, <2>6, <2>7 DEF Rest
  <2>9. Hears
    BY <1>1, <2>2, <2>3, <2>4, <2>5, <2>7 DEF Hears
  <2> QED BY <2>2, <2>8, <2>9 DEF Follows, Moved
<1>6. CASE /\ e[1] = "skip" /\ MarkUnknownState({Of(e)} \cap inFlight)
           /\ UNCHANGED <<at, log, running, slots, workers>>
  <2>1. e[2] \in skipped
    <3>1. log[read + 1][1] = "skip" /\ at \in Looping
      BY <1>1, <1>6 DEF NextEvent, Looping
    <3> QED BY <1>2, <3>1 DEF Base, LogRules, NextEvent
  <2>2. {Of(e)} \cap inFlight = {}
    BY <2>1 DEF Of, Base, PlanInv, Apart, Terminal, EndedWell
  <2>3. MarkUnknownState({})
    BY <1>6, <2>2
  <2>4. Takes(e)
    BY <1>6, <2>3 DEF MarkUnknownState, Takes, Endings, undecided
  <2>5. e[1] \notin Endings /\ e[1] # "init"
    BY <1>6 DEF Endings
  <2>6. worker' = worker /\ sent' = sent
    BY <1>6 DEF workers
  <2>7. Rest'
    BY <1>1, <1>3, <1>6, <2>6 DEF Rest
  <2>8. Hears
    BY <1>1, <1>6, <2>4, <2>5, <2>6 DEF Hears
  <2> QED BY <2>3, <2>7, <2>8 DEF Follows, Moved, PlanStep
<1> QED BY <1>4, <1>5, <1>6 DEF HandleEvent

LEMMA SkipsFollow ==
  ASSUME Base, ProcessSkips
  PROVE  Follows
<1>1. PICK due : /\ at = "skip" \/ (at = "handle" /\ read = fetched)
                 /\ SkipRound(due) /\ fetched' = 0
                 /\ at' = IF SkipVended = {} THEN "abandon" ELSE "skip"
                 /\ log' = log \o [i \in 1 .. Cardinality(SkipVended) |-> <<"skip", SetToSeq(SkipVended)[i]>>]
                 /\ UNCHANGED <<read, running, toStart, slots, workers, faults, resumed, doubtful, crossed>>
  BY DEF ProcessSkips, past
<1>2. Rest /\ log \in Seq(Events) /\ PlanInv
  BY DEF Base, Shape, Rest
<1>3. SkipVended \subseteq Steps /\ IsFiniteSet(SkipVended)
  <2>1. SkipVended \subseteq Steps
    BY <1>2, Decisions, Deciding DEF SkipVended, Waiting, PlanInv, StepSets
  <2> QED BY <2>1, StepsFinite
<1>4. Writes(SkipVended, {"skip"})
  <2> DEFINE new == [i \in 1 .. Cardinality(SkipVended) |-> <<"skip", SetToSeq(SkipVended)[i]>>]
  <2>1. \A i \in 1 .. Cardinality(SkipVended) : SetToSeq(SkipVended)[i] \in Steps
    BY <1>3, SetToSeqOnto
  <2>2. new \in [1 .. Cardinality(SkipVended) -> Events]
    BY <2>1 DEF Events
  <2>3. /\ \A i \in 1 .. Cardinality(SkipVended) : new[i][1] \in {"skip"} /\ new[i][2] = SetToSeq(SkipVended)[i]
        /\ log' = log \o new
    BY <1>1
  <2> HIDE DEF new
  <2> QED BY <1>2, <1>3, <2>2, <2>3, ConcatWrites
<1>5. Skips
  BY <1>1, <1>4 DEF SkipRound, Skips, workers
<1>6. Rest'
  BY <1>1, <1>2 DEF Rest, workers
<1> QED BY <1>1, <1>5, <1>6 DEF Follows, Moved, PlanStep

LEMMA AbandonsFollow ==
  ASSUME Base, ProcessAbandons
  PROVE  Follows
<1>1. PICK due : /\ at = "abandon" /\ AbandonRound(due)
                 /\ at' = IF AbandonVended = {} THEN "health" ELSE "abandon"
                 /\ UNCHANGED <<log, place, slots, workers, faults, resumed, doubtful, crossed>>
  BY DEF ProcessAbandons, past
<1>2. Abandons
  BY <1>1 DEF AbandonRound, Abandons, place, workers
<1>3. Rest'
  BY <1>1 DEF Base, Shape, Rest, workers
<1> QED BY <1>1, <1>2, <1>3 DEF Follows, Moved, PlanStep

LEMMA HealthFollows ==
  ASSUME Base, HealthCheck
  PROVE  Follows
<1>1. PICK events : /\ \A s \in Sick : events[s] \in FailureOrRetry(s)
                    /\ log' = log \o [i \in 1 .. Cardinality(Sick) |-> events[SetToSeq(Sick)[i]]]
  BY DEF HealthCheck
<1>2. /\ at = "health" /\ at' = "launch" /\ crossed' = crossed \cup CrossedOf(Sick)
      /\ UNCHANGED <<vars, place, slots, workers, faults, resumed, doubtful>>
  BY DEF HealthCheck
<1>3. Rest /\ log \in Seq(Events) /\ Sick \subseteq Steps /\ IsFiniteSet(Sick)
  BY StepsFinite DEF Base, Shape, Rest, Sick
<1>4. \A s \in Sick : /\ events[s] \in Events /\ events[s][1] \in {"retry", "failure"} /\ events[s][2] = s
                      /\ events[s][1] = "retry" => RetryMode = "enabled"
  BY <1>1, <1>3, FailureOrRetryEvents
<1> DEFINE new == [i \in 1 .. Cardinality(Sick) |-> events[SetToSeq(Sick)[i]]]
<1>5. \A i \in 1 .. Cardinality(Sick) : SetToSeq(Sick)[i] \in Sick /\ SetToSeq(Sick)[i] \in Steps
  BY <1>3, SetToSeqOnto
<1>6. /\ new \in [1 .. Cardinality(Sick) -> Events]
      /\ log' = log \o new
      /\ \A i \in 1 .. Cardinality(Sick) :
           /\ new[i][1] \in {"retry", "failure"} /\ new[i][2] = SetToSeq(Sick)[i]
           /\ new[i][1] = "retry" => RetryMode = "enabled"
  BY <1>1, <1>4, <1>5
<1> HIDE DEF new
<1>7. \A i \in 1 .. Cardinality(Sick) : new[i][1] \in {"retry", "failure"} /\ new[i][2] = SetToSeq(Sick)[i]
  BY <1>6
<1>8. Writes(Sick, {"retry", "failure"})
  BY <1>3, <1>6, <1>7, ConcatWrites
<1>9. \A i \in New : log'[i][1] = "retry" => RetryMode = "enabled"
  <2>1. CASE RetryMode = "enabled"
    BY <2>1
  <2>2. CASE RetryMode # "enabled"
    <3>1. \A i \in 1 .. Cardinality(Sick) : new[i][1] \in {"failure"} /\ new[i][2] = SetToSeq(Sick)[i]
      BY <1>6, <2>2
    <3>2. Writes(Sick, {"failure"})
      BY <1>3, <1>6, <3>1, ConcatWrites
    <3> QED BY <3>2 DEF Writes
  <2> QED BY <2>1, <2>2
<1>10. Examines
  BY <1>2, <1>9, <1>8 DEF Examines, place, workers
<1>11. Rest'
  BY <1>2, <1>3 DEF Rest, workers, CrossedOf
<1> QED BY <1>2, <1>10, <1>11 DEF Follows, Moved, PlanStep

LEMMA LaunchFollows ==
  ASSUME Base, LaunchSome
  PROVE  Follows
<1>1. PICK batch \in SUBSET Steps : TakeSteps(Free, batch) /\ toStart' = batch
  BY DEF LaunchSome, past
<1>2. /\ at \in {"health", "launch"} /\ at' = "start"
      /\ UNCHANGED <<log, read, fetched, running, workers, faults, resumed, doubtful, crossed>>
  BY DEF LaunchSome, past
<1>3. PlanStep /\ Vends(batch) /\ slots' = slots \cup {s \in batch : Step[s].pool}
  BY <1>1, TakenVends DEF Base
<1>4. Selects
  BY <1>1, <1>2, <1>3 DEF Selects, workers
<1>5. Rest'
  BY <1>2, <1>3 DEF Base, Shape, Rest, workers
<1> QED BY <1>3, <1>4, <1>5 DEF Follows, Moved

LEMMA StartFollows ==
  ASSUME Base, NEW s \in Steps, StartStep(s)
  PROVE  Follows
<1>1. /\ at = "start" /\ s \in toStart /\ toStart' = toStart \ {s} /\ running' = running \cup {s}
      /\ UNCHANGED <<vars, log, read, fetched, slots, faults, resumed, crossed>>
  BY DEF StartStep
<1>2. PlanInv /\ Rest
  BY DEF Base, Shape, Rest
<1>3. CASE Launched({s}) /\ UNCHANGED at /\ doubtful' = (doubtful \/ Current(s) \in DOMAIN worker)
  <2>1. doubtful' \in BOOLEAN /\ crossed' \subseteq Steps
    BY <1>1, <1>2, <1>3 DEF Rest
  <2>2. NewWorkers({s}) /\ Rest'
    BY <1>1, <1>2, <1>3, <2>1, LaunchedWorkers
  <2> QED BY <1>1, <1>3, <2>2 DEF Follows, Moved, PlanStep, Starts
<1>4. CASE RaiseTo("failed") /\ UNCHANGED doubtful
  <2>1. read' \in 0 .. Len(log) /\ running' \subseteq Steps /\ toStart' \subseteq Steps
    BY <1>1 DEF Base, Shape
  <2>2. Stops /\ Rest'
    BY <1>1, <1>2, <1>4, <2>1, TerminatedWorkers DEF RaiseTo, Stops, Over
  <2> QED BY <1>1, <2>2 DEF Follows, Moved, PlanStep
<1> QED BY <1>3, <1>4 DEF StartStep

LEMMA ResumeFollows ==
  ASSUME Base, Resuming
  PROVE  Follows
<1>1. PlanInv /\ Rest
  BY DEF Base, Shape, Rest
<1>2. CASE Resume
  <2>1. Resumes
    BY <1>2, ResumeFresh DEF Resume, Resumes, workers
  <2>2. Rest'
    BY <1>1, <1>2 DEF Resume, Rest, workers
  <2> QED BY <1>2, <2>1, <2>2 DEF Follows, Moved
<1>3. CASE Refresh
  <2>1. PICK batch \in SUBSET Steps : TakeSteps(Cardinality(Steps), batch)
    BY <1>3 DEF Refresh, past
  <2>2. PlanStep /\ Vends(batch) /\ slots' = slots \cup {s \in batch : Step[s].pool}
    BY <1>1, <2>1, TakenVends
  <2>3. /\ at = "refresh" /\ at' = "replay"
        /\ UNCHANGED <<log, place, workers, faults, resumed, doubtful, crossed>>
    BY <1>3 DEF Refresh, past
  <2>4. Refreshes
    BY <2>2, <2>3 DEF Refreshes, place, workers
  <2>5. Rest'
    BY <1>1, <2>2, <2>3 DEF Rest, workers
  <2> QED BY <2>2, <2>4, <2>5 DEF Follows, Moved
<1>4. CASE Replay
  <2> DEFINE e == NextEvent
  <2>1. /\ at = "replay" /\ read < fetched /\ read' = read + 1
        /\ UNCHANGED <<log, fetched, running, toStart, workers, faults, resumed, doubtful, crossed>>
    BY <1>4 DEF Replay, past
  <2>2. e \in Events /\ (e[1] = "retry" => RetryMode = "enabled")
    BY <2>1, NextInLog
  <2>3. CASE Refused(e) \/ e[1] = "skip"
    <3>1. at' = "raised" /\ UNCHANGED <<vars, slots>>
      BY <1>4, <2>3 DEF Replay, past
    <3>2. resumed
      BY <2>1 DEF Base, Cursors, Replays
    <3>3. Stops
      <4>1. read' \in 0 .. Len(log) /\ running' \subseteq Steps /\ toStart' \subseteq Steps
        BY <2>1, NextInLog, LogEvents DEF Base, Shape
      <4> QED BY <2>1, <3>1, <3>2, <4>1 DEF Stops, Over, workers
    <3>4. Rest'
      BY <1>1, <2>1, <3>1 DEF Rest, workers
    <3> QED BY <3>1, <3>3, <3>4 DEF Follows, Moved, PlanStep
  <2>4. CASE ~ (Refused(e) \/ e[1] = "skip")
    <3>1. at' = "refresh" /\ Handled(e)
      BY <1>4, <2>4 DEF Replay, past
    <3>2. PlanStep /\ Takes(e)
      BY <1>1, <2>2, <3>1, HandledTakes
    <3>3. slots' \subseteq slots
      BY <3>1 DEF Handled
    <3>4. ReplaysNext
      BY <2>1, <2>4, <3>1, <3>2 DEF ReplaysNext, workers
    <3>5. Rest'
      BY <1>1, <2>1, <3>3 DEF Rest, workers
    <3> QED BY <3>2, <3>4, <3>5 DEF Follows, Moved
  <2> QED BY <2>3, <2>4
<1>5. CASE Recheck
  <2>1. PICK S \in SUBSET Relaunched : /\ Launched(S)
                                       /\ (at' = "check" /\ S = Relaunched) \/ at' = "failed"
    <3>1. CASE at' = "check" /\ Launched(Relaunched)
      BY <3>1
    <3>2. CASE at' = "failed" /\ \E S \in SUBSET Relaunched : S # Relaunched /\ Launched(S)
      BY <3>2
    <3> QED BY <1>5, <3>1, <3>2 DEF Recheck
  <2>2. /\ at = "replay" /\ read = fetched /\ fetched' = 0 /\ running' = inFlight
        /\ crossed' = crossed \cup CrossedOf(Relaunched)
        /\ UNCHANGED <<vars, log, read, toStart, slots, faults, resumed, doubtful>>
    BY <1>5 DEF Recheck
  <2>3. S \subseteq Steps
    BY <1>1 DEF Relaunched, PlanInv, StepSets
  <2>4. crossed' \subseteq Steps
    BY <1>1, <2>2 DEF Rest, CrossedOf, Relaunched, PlanInv, StepSets
  <2>5. NewWorkers(S) /\ Rest'
    BY <1>1, <2>1, <2>2, <2>3, <2>4, LaunchedWorkers DEF Rest
  <2>6. Rechecks
    BY <2>1, <2>2, <2>5 DEF Rechecks
  <2> QED BY <2>2, <2>5, <2>6 DEF Follows, Moved, PlanStep
<1> QED BY <1>2, <1>3, <1>4, <1>5 DEF Resuming

LEMMA AllFollow ==
  ASSUME Base, [DelegatingNext]_delegatingVars
  PROVE  Follows
  BY QuietFollows, HandleFollows, SkipsFollow, AbandonsFollow, HealthFollows, LaunchFollows,
    StartFollows, ResumeFollows, WorkerFollows DEF DelegatingNext, Round

(***************************************************************************)
(* The basic invariants.                                                   *)
(***************************************************************************)

\* The log grows at its end.
LEMMA WrittenGrows ==
  ASSUME log \in Seq(Events), NEW S, NEW K, Writes(S, K)
  PROVE  /\ log' \in Seq(Events) /\ Len(log) \in Nat /\ Len(log') \in Nat /\ Len(log) <= Len(log')
         /\ \A i \in 1 .. Len(log) : log'[i] = log[i] /\ log[i] \in Events
         /\ \A i \in 1 .. Len(log') : log'[i] \in Events
         /\ \A i \in 1 .. Len(log') : i \in 1 .. Len(log) \/ (i \in New /\ i > Len(log))
<1>1. log' \in Seq(Events) /\ Len(log) <= Len(log') /\ Len(log) \in Nat
  BY LogEvents DEF Writes
<1>2. Len(log') \in Nat /\ \A i \in 1 .. Len(log') : log'[i] \in Events
  BY <1>1, LenProperties, ElementOfSeq
<1> QED BY <1>1, <1>2, LogEvents DEF Writes, New

LEMMA LogMoves ==
  ASSUME Base, Moved
  PROVE  /\ \E S, K : Writes(S, K)
         /\ \A i \in New : log'[i][1] = "retry" => RetryMode = "enabled"
         /\ \A i \in New : log'[i][1] = "skip" => Skips /\ log'[i][2] \in SkipVended
<1> DEFINE Goal == /\ \E S, K : Writes(S, K)
                   /\ \A i \in New : log'[i][1] = "retry" => RetryMode = "enabled"
                   /\ \A i \in New : log'[i][1] = "skip" => Skips /\ log'[i][2] \in SkipVended
<1>1. log \in Seq(Events)
  BY DEF Base, Shape
<1>2. ASSUME log' = log PROVE Goal
  BY <1>1, <1>2, RestWrites DEF Writes
<1>3. ASSUME NEW S, NEW k, Writes(S, {k}), k # "skip", k = "retry" => RetryMode = "enabled" PROVE Goal
  <2>1. \A i \in New : log'[i][1] = k
    BY <1>3 DEF Writes
  <2> QED BY <1>3, <2>1
<1>4. ASSUME Hears PROVE Goal
  <2>1. CASE NextEvent[1] = "init"
    <3>1. PICK k \in {"retry", "failure"} :
            Writes({NextEvent[2]}, {k}) /\ (k = "retry" => RetryMode = "enabled")
      BY <1>4, <2>1 DEF Hears
    <3> QED BY <1>3, <3>1
  <2> QED BY <1>2, <1>4, <2>1 DEF Hears
<1>5. ASSUME Skips PROVE Goal
  <2>1. Writes(SkipVended, {"skip"})
    BY <1>5 DEF Skips
  <2>2. \A i \in New : log'[i][1] = "skip" /\ log'[i][2] \in SkipVended
    BY <2>1 DEF Writes
  <2> QED BY <1>5, <2>1, <2>2
<1>6. ASSUME Examines PROVE Goal
  <2>1. /\ Writes(Sick, {"retry", "failure"})
        /\ \A i \in New : log'[i][1] = "retry" => RetryMode = "enabled"
    BY <1>6 DEF Examines
  <2> QED BY <2>1 DEF Writes
<1>7. ASSUME NEW w \in DOMAIN worker, Toils(w) PROVE Goal
  <2>1. CASE Writes({w.step}, {"output"})
    BY <1>3, <2>1
  <2>2. CASE \E k \in Endings \cup {"init"} : Writes({w.step}, {k}) /\ (k = "retry" => RetryMode = "enabled")
    BY <1>3, <2>2 DEF Endings
  <2> QED BY <1>2, <1>7, <2>1, <2>2 DEF Toils
<1> QED BY <1>2, <1>4, <1>5, <1>6, <1>7
      DEF Moved, Stops, Passes, Abandons, Selects, Starts, Resumes, Refreshes, ReplaysNext, Rechecks

LEMMA ShapeKept ==
  ASSUME Base, Moved, Rest', PlanInv'
  PROVE  Shape'
<1>1. PICK S, K : Writes(S, K)
  BY LogMoves
<1>2. /\ log' \in Seq(Events) /\ Len(log) \in Nat /\ Len(log') \in Nat /\ Len(log) <= Len(log')
      /\ read \in 0 .. Len(log) /\ fetched \in 0 .. Len(log) /\ running \subseteq Steps /\ toStart \subseteq Steps
      /\ at \in Looping \cup Replays \cup Over \cup {"down"}
      /\ inFlight \subseteq Steps /\ inFlight' \subseteq Steps
  BY <1>1, WrittenGrows DEF Base, Shape, PlanInv, StepSets
<1> DEFINE Goal == /\ at' \in Looping \cup Replays \cup Over \cup {"down"}
                   /\ read' \in 0 .. Len(log') /\ fetched' \in 0 .. Len(log')
                   /\ running' \subseteq Steps /\ toStart' \subseteq Steps
<1>3. Goal
  <2> USE DEF Looping, Replays, Over
  <2>1. ASSUME Stops PROVE Goal
    BY <1>2, <2>1 DEF Stops
  <2>2. ASSUME Passes PROVE Goal
    BY <1>2, <2>2 DEF Passes
  <2>3. ASSUME Hears PROVE Goal
    BY <1>2, <2>3 DEF Hears
  <2>4. ASSUME Skips \/ Abandons \/ Examines PROVE Goal
    BY <1>2, <2>4 DEF Skips, Abandons, Examines
  <2>5. ASSUME Selects PROVE Goal
    BY <1>2, <2>5 DEF Selects, Vends
  <2>6. ASSUME NEW s \in Steps, Starts(s) PROVE Goal
    BY <1>2, <2>6 DEF Starts
  <2>7. ASSUME Resumes \/ Refreshes \/ ReplaysNext \/ Rechecks PROVE Goal
    <3>1. ASSUME Rechecks PROVE fetched' \in 0 .. Len(log')
      BY <1>2, <3>1 DEF Rechecks
    <3> QED BY <1>2, <2>7, <3>1 DEF Resumes, Refreshes, ReplaysNext, Rechecks
  <2>8. ASSUME NEW w \in DOMAIN worker, Toils(w) PROVE Goal
    BY <1>2, <2>8 DEF Toils
  <2> QED BY <2>1, <2>2, <2>3, <2>4, <2>5, <2>6, <2>7, <2>8 DEF Moved
<1> QED BY <1>2, <1>3 DEF Shape, Rest

LEMMA LogRulesKept ==
  ASSUME Base, Moved
  PROVE  LogRules'
<1>1. PICK S, K : Writes(S, K)
  BY LogMoves
<1>2. /\ log' \in Seq(Events) /\ Len(log) \in Nat /\ Len(log') \in Nat /\ Len(log) <= Len(log')
      /\ \A i \in 1 .. Len(log) : log'[i] = log[i]
      /\ \A i \in 1 .. Len(log') : i \in 1 .. Len(log) \/ (i \in New /\ i > Len(log))
      /\ read \in 0 .. Len(log) /\ fetched \in 0 .. Len(log)
      /\ at \in Looping \cup Replays \cup Over \cup {"down"}
  BY <1>1, WrittenGrows DEF Base, Shape
<1>3. \A i \in 1 .. Len(log') : log'[i][1] = "retry" => RetryMode = "enabled"
  BY <1>2, LogMoves DEF Base, LogRules
<1> DEFINE Rule(i) == /\ at' \in Looping => log'[i][2] \in skipped'
                      /\ at' \in Replays => i \in read' + 1 .. fetched'
<1> USE DEF Looping, Replays, Over
<1>4. ASSUME NEW i \in New, log'[i][1] = "skip" PROVE Rule(i)
  BY <1>4, LogMoves DEF Skips
<1>5. ASSUME NEW i \in 1 .. Len(log), log[i][1] = "skip" PROVE Rule(i)
  <2>1. /\ at \in Looping => log[i][2] \in skipped
        /\ at \in Replays => i \in read + 1 .. fetched
        /\ log'[i] = log[i]
    BY <1>2, <1>5 DEF Base, LogRules
  <2>2. ASSUME Stops PROVE Rule(i)
    BY <2>2 DEF Stops
  <2>3. ASSUME Passes PROVE Rule(i)
    BY <2>1, <2>3, SamePlan DEF Passes
  <2>4. ASSUME Hears \/ Skips \/ Abandons PROVE Rule(i)
    BY <2>1, <2>4 DEF Hears, Skips, Abandons, Takes
  <2>5. ASSUME Examines PROVE Rule(i)
    BY <2>1, <2>5, SamePlan DEF Examines
  <2>6. ASSUME Selects PROVE Rule(i)
    BY <2>1, <2>6 DEF Selects, Vends
  <2>7. ASSUME NEW s \in Steps, Starts(s) PROVE Rule(i)
    BY <2>1, <2>7, SamePlan DEF Starts
  <2>8. ASSUME Resumes \/ Refreshes PROVE Rule(i)
    BY <1>2, <2>1, <2>8 DEF Resumes, Refreshes
  <2>9. ASSUME ReplaysNext PROVE Rule(i)
    <3>1. i # read + 1
      BY <1>5, <2>9 DEF ReplaysNext, NextEvent
    <3> QED BY <1>2, <2>1, <2>9, <3>1 DEF ReplaysNext
  <2>10. ASSUME Rechecks PROVE Rule(i)
    BY <1>2, <2>1, <2>10 DEF Rechecks
  <2>11. ASSUME NEW w \in DOMAIN worker, Toils(w) PROVE Rule(i)
    BY <2>1, <2>11, SamePlan DEF Toils
  <2> QED BY <2>2, <2>3, <2>4, <2>5, <2>6, <2>7, <2>8, <2>9, <2>10, <2>11 DEF Moved
<1>6. ASSUME NEW i \in 1 .. Len(log'), log'[i][1] = "skip" PROVE Rule(i)
  BY <1>2, <1>4, <1>5, <1>6
<1> QED BY <1>3, <1>6 DEF LogRules

LEMMA CursorsKept ==
  ASSUME Base, Moved
  PROVE  Cursors'
<1>1. /\ Cursors /\ Len(log) \in Nat /\ read \in 0 .. Len(log) /\ fetched \in 0 .. Len(log)
      /\ at \in Looping \cup Replays \cup Over \cup {"down"}
      /\ inFlight \subseteq Steps /\ toStart \subseteq Steps
  BY LogEvents DEF Base, Shape, PlanInv, StepSets
<1> USE DEF Looping, Replays, Over
<1>2. ASSUME Stops PROVE Cursors'
  BY <1>2 DEF Stops, Cursors
<1>3. ASSUME Passes PROVE Cursors'
  BY <1>1, <1>3, SamePlan DEF Passes, Cursors
<1>4. ASSUME Hears PROVE Cursors'
  BY <1>1, <1>4 DEF Hears, Takes, Cursors
<1>5. ASSUME Skips \/ Abandons PROVE Cursors'
  BY <1>1, <1>5 DEF Skips, Abandons, Cursors
<1>6. ASSUME Examines PROVE Cursors'
  BY <1>1, <1>6, SamePlan DEF Examines, Cursors
<1>7. ASSUME Selects PROVE Cursors'
  BY <1>1, <1>7 DEF Selects, Vends, Cursors
<1>8. ASSUME NEW s \in Steps, Starts(s) PROVE Cursors'
  BY <1>1, <1>8, SamePlan DEF Starts, Cursors
<1>9. ASSUME Resumes PROVE Cursors'
  BY <1>1, <1>9 DEF Resumes, Cursors
<1>10. ASSUME Refreshes \/ ReplaysNext PROVE Cursors'
  BY <1>1, <1>10 DEF Refreshes, ReplaysNext, Cursors
<1>11. ASSUME Rechecks PROVE Cursors'
  BY <1>1, <1>11, SamePlan DEF Rechecks, Cursors
<1>12. ASSUME NEW w \in DOMAIN worker, Toils(w) PROVE Cursors'
  BY <1>1, <1>12, SamePlan DEF Toils, Cursors
<1> QED BY <1>2, <1>3, <1>4, <1>5, <1>6, <1>7, <1>8, <1>9, <1>10, <1>11, <1>12 DEF Moved

LEMMA BaseKept ==
  ASSUME Base, [DelegatingNext]_delegatingVars
  PROVE  Base' /\ Moved
<1>1. Moved /\ (PlanStep \/ Resume) /\ Rest'
  BY AllFollow DEF Follows
<1>2. PlanInv'
  <2>1. CASE PlanStep
    BY <2>1, PlanKept DEF Base
  <2>2. CASE Resume
    <3>1. Fresh'
      BY <2>2, ResumeFresh
    <3>2. Fresh' => PlanInv'
      BY FreshPlan, PTL
    <3> QED BY <3>1, <3>2
  <2> QED BY <1>1, <2>1, <2>2
<1>3. Shape' /\ LogRules' /\ Cursors'
  BY <1>1, <1>2, ShapeKept, LogRulesKept, CursorsKept
<1> QED BY <1>1, <1>2, <1>3 DEF Base

LEMMA InitBase ==
  ASSUME DelegatingInit
  PROVE  Base
<1>1. Fresh /\ PlanInv
  BY InitFresh, FreshPlan DEF DelegatingInit
<1>2. log = <<>> /\ log \in Seq(Events) /\ Len(log) = 0
  BY EmptySeq DEF DelegatingInit
<1>3. Shape
  <2>1. DOMAIN worker = {} /\ worker \in [{} -> {"running", "reported", "broken", "failed"}] /\ sent \in [{} -> SUBSET Handles]
    BY DEF DelegatingInit
  <2>2. /\ at = "check" /\ read = 0 /\ fetched = 0 /\ running = {} /\ toStart = {} /\ slots = {}
        /\ worker = <<>> /\ sent = <<>> /\ faults = 0 /\ resumed = FALSE /\ doubtful = FALSE
        /\ crossed = {}
    BY DEF DelegatingInit
  <2>3. MaxFaults \in Nat
    BY DelegatingAssumption
  <2>4. worker \in [DOMAIN worker -> {"running", "reported", "broken", "failed"}] /\ sent \in [DOMAIN worker -> SUBSET Handles]
    BY <2>1
  <2>5. DOMAIN worker \subseteq [step : Steps, attempt : Nat]
    BY <2>1
  <2>6. read \in 0 .. Len(log) /\ fetched \in 0 .. Len(log) /\ faults \in 0 .. MaxFaults
    BY <1>2, <2>2, <2>3
  <2> QED BY <1>2, <2>2, <2>4, <2>5, <2>6 DEF Shape, Looping
<1>4. LogRules
  BY <1>2 DEF LogRules
<1>5. Cursors
  BY <1>1, <1>2 DEF DelegatingInit, Cursors, Fresh, Replays, Looping
<1> QED BY <1>1, <1>3, <1>4, <1>5 DEF Base

\* A step takes the outputs of the other steps of the plan from this run, and not from a past one,
\* after a resume, too.
THEOREM DelegatingWaits == DelegatingSpec => []WaitsForThisRun
<1>1. ASSUME Base PROVE WaitsForThisRun
  <2>1. ASSUME NEW s \in executable \cup inFlight \cup success \cup failed, NEW h \in SourcesOf(s),
               Output[h].source \in planned, h \notin stepOutputs
        PROVE  RequireUpstreamSuccess /\ Output[h].source \in EndedWell
    <3>1. s \in Steps /\ Supplied(s, EndedWell, stepOutputs) /\ planned = Steps
      BY <1>1 DEF Base, PlanInv, StepSets
    <3>2. h \in Needs(s)
      BY <2>1, <3>1, PlainInputs
    <3> QED BY <2>1, <3>1, <3>2 DEF Supplied
  <2> QED BY <2>1 DEF WaitsForThisRun
<1>2. Base /\ [DelegatingNext]_delegatingVars => Base'
  BY BaseKept
<1> QED BY InitBase, <1>1, <1>2, PTL DEF DelegatingSpec

\* Every variable of the executor, its plan and its workers has its type.
THEOREM DelegatingTypes == DelegatingSpec => []DelegatingTypeOK
<1>1. Base /\ [DelegatingNext]_delegatingVars => Base'
  BY BaseKept
<1>2. Base => DelegatingTypeOK
  BY TypesApart DEF Base, PlanInv, Shape, DelegatingTypeOK
<1> QED BY InitBase, <1>1, <1>2, PTL DEF DelegatingSpec

(***************************************************************************)
(* What the log says of the steps and of their workers.                    *)
(***************************************************************************)

\* The executor knows what it has read: how often a step was retried, and whether it has ended,
Counted == \A s \in Steps :
  /\ attempts[s] = Retries(log, s, read)
  /\ Finals(log, s, read) = IF s \in success \cup failed THEN 1 ELSE 0
\* with what, and with which outputs.
Noted ==
  /\ \A s \in success : \E i \in 1 .. read : log[i][1] = "success" /\ log[i][2] = s
  /\ \A s \in failed : \E i \in 1 .. read : log[i][1] = "failure" /\ log[i][2] = s
  /\ \A i \in 1 .. read : log[i][1] = "output" => log[i][3] \in stepOutputs
  /\ \A h \in stepOutputs : h \in ReadyOutputs \/ \E i \in 1 .. read : log[i][1] = "output" /\ log[i][3] = h

\* Skips are its own: the loop has written them, and a replay does not get past one.
Heard ==
  /\ at \in Looping \cup Replays => Counted /\ Noted
  /\ at \in Looping => \A s \in skipped : \E i \in 1 .. Len(log) : log[i][1] = "skip" /\ log[i][2] = s
  /\ at \in Replays => skipped = {} /\ abandoned = {}

\* A worker has the number of the retries at its launch; what it reports last is in the log.
Finished == {"reported", "failed"}

Behind == \A w \in DOMAIN worker :
  /\ w.attempt <= Retries(log, w.step, Len(log))
  /\ worker[w] \in Finished =>
       \/ w.attempt < Reports(log, w.step, Len(log))
       \/ \E i \in 1 .. Len(log) : /\ log[i][1] = "init" /\ log[i][2] = w.step
                                   /\ at \in Looping /\ ~ resumed => i > read

Staffed == at \in Looping => \A s \in running : Current(s) \in DOMAIN worker

\* Before a resume, nothing is launched twice, and each event is expected, unless a check crosses
\* the end of a worker.
FirstRun == ~ resumed =>
  /\ ~ doubtful /\ (at = "raised" => crossed # {})
  /\ at \in Looping => \A w \in DOMAIN worker :
       /\ w.attempt <= attempts[w.step]
       /\ w.attempt = attempts[w.step] => w.step \in running \cup success \cup failed

\* The attempt of w was reported; the one to be reported next; an event the loop has yet to handle.
Reported(w) == w.attempt < Reports(log, w.step, Len(log))
Answer(s)   == [step |-> s, attempt |-> Reports(log, s, Len(log))]
Ahead(i)    == (at \in Looping /\ i > read) \/ (at \in Replays /\ i > fetched)

\* The executor has read, or is about to read, what it wrote of a worker that broke.
Answered(w) ==
  /\ at \in Replays \cup {"handle"} => w.attempt < Reports(log, w.step, fetched)
  /\ at \in {"skip", "abandon", "health"} /\ w.step \in inFlight => w.attempt < Reports(log, w.step, read)

\* Reports come in the order of the attempts: each has its worker, what runs is the next to report,
\* and so is what the loop is yet to answer for.  This is so of each step until a check crosses it.
Orderly ==
  /\ \A s \in Steps \ crossed, j \in Nat :
       j < Reports(log, s, Len(log)) => [step |-> s, attempt |-> j] \in DOMAIN worker
  /\ \A w \in DOMAIN worker : w.step \notin crossed =>
       /\ worker[w] = "running" => w.attempt = Reports(log, w.step, Len(log))
       /\ worker[w] = "broken" /\ Reported(w) => Answered(w)
  /\ \A i \in 1 .. Len(log) : log[i][1] = "init" /\ log[i][2] \notin crossed /\ Ahead(i) =>
       /\ Answer(log[i][2]) \in DOMAIN worker /\ worker[Answer(log[i][2])] \in Finished
       /\ \A j \in 1 .. Len(log) : log[j][1] = "init" /\ Ahead(j) /\ log[j][2] = log[i][2] => i = j

\* A step ends once, and puts out nothing after that.
Once ==
  /\ \A s \in Steps \ crossed : Finals(log, s, Len(log)) <= 1
  /\ \A i, j \in 1 .. Len(log) :
       /\ log[i][1] \in {"success", "failure"} /\ log[j][1] = "output"
       /\ log[i][2] = log[j][2] /\ log[i][2] \notin crossed
       => j < i

\* What the log says of the steps that ended well, and of outputs: enough for all that was launched.
LoggedWell(l) == {s \in Steps : \E i \in 1 .. Len(l) : l[i][1] \in {"success", "skip"} /\ l[i][2] = s}
LoggedOuts(l) == ReadyOutputs \cup {h \in Handles : \E i \in 1 .. Len(l) : l[i][1] = "output" /\ l[i][3] = h}

Founded ==
  /\ \A w \in DOMAIN worker : Supplied(w.step, LoggedWell(log), LoggedOuts(log))
  /\ \A i \in 1 .. Len(log) : log[i][1] = "output" => \E w \in DOMAIN worker : w.step = log[i][2]

\* A step that was launched is not skipped or abandoned, unless it fails to be replayed.
Dropped == skipped \cup pendingSkip \cup abandoned \cup pendingAbandon
NoSkips == \A i \in 1 .. Len(log) : log[i][1] # "skip"

Spared == at \in Looping \/ (at \in Replays /\ NoSkips) => \A w \in DOMAIN worker : w.step \notin Dropped

LEMMA CountsGrow ==
  ASSUME Base, Moved, NEW s
  PROVE  /\ \A n \in 0 .. Len(log) :
              /\ Reports(log', s, n) = Reports(log, s, n) /\ Retries(log', s, n) = Retries(log, s, n)
              /\ Finals(log', s, n) = Finals(log, s, n)
         /\ Reports(log, s, Len(log)) <= Reports(log', s, Len(log'))
         /\ Retries(log, s, Len(log)) <= Retries(log', s, Len(log'))
         /\ Len(log) \in Nat /\ Len(log') \in Nat /\ Len(log) <= Len(log')
         /\ log' \in Seq(Events) /\ \A i \in 1 .. Len(log) : log'[i] = log[i]
<1>1. log \in Seq(Events)
  BY DEF Base, Shape
<1>2. PICK S, K : Writes(S, K)
  BY LogMoves
<1> QED BY <1>1, <1>2, CountWritten, WrittenGrows DEF Reports, Retries, Finals

\* The counts are numbers, and more is counted in more.
LEMMA CountsFit ==
  ASSUME NEW l, NEW s, NEW m \in Nat, NEW n \in Nat, m <= n
  PROVE  /\ Reports(l, s, m) = Retries(l, s, m) + Finals(l, s, m)
         /\ Reports(l, s, m) \in Nat /\ Retries(l, s, m) \in Nat /\ Finals(l, s, m) \in Nat
         /\ Reports(l, s, m) <= Reports(l, s, n) /\ Retries(l, s, m) <= Retries(l, s, n)
         /\ Finals(l, s, m) <= Finals(l, s, n)
  BY ReportsSplit, CountGrows DEF Reports, Retries, Finals

LEMMA StillHeard ==
  ASSUME Base, Moved, read' = read, attempts' = attempts, success' = success, failed' = failed,
         stepOutputs' = stepOutputs, Counted, Noted
  PROVE  Counted' /\ Noted'
<1>1. read \in 0 .. Len(log) /\ success \subseteq Steps /\ failed \subseteq Steps
  BY DEF Base, Shape, PlanInv, StepSets
<1>2. Counted'
  BY <1>1, CountsGrow DEF Counted
<1>3. Len(log) \in Nat /\ \A i \in 1 .. Len(log) : log'[i] = log[i]
  BY CountsGrow
<1>4. \A i \in 1 .. read : log'[i] = log[i]
  BY <1>1, <1>3
<1>5. Noted'
  BY <1>4 DEF Noted
<1> QED BY <1>2, <1>5

LEMMA NextHeard ==
  ASSUME Base, Moved, read < fetched, read' = read + 1, Takes(NextEvent), Counted, Noted
  PROVE  Counted' /\ Noted'
<1> DEFINE e == NextEvent
<1>1. /\ e \in Events /\ read + 1 \in 1 .. Len(log) /\ e = log[read + 1]
      /\ read \in Nat /\ read + 1 \in 0 .. Len(log) /\ read \in 0 .. Len(log)
      /\ attempts \in [Steps -> Nat] /\ success \subseteq Steps /\ failed \subseteq Steps
      /\ inFlight \cap (success \cup failed) = {}
  BY NextInLog DEF Base, Shape, PlanInv, StepSets, OtherTypes, NextEvent, Apart, Terminal, EndedWell, EndedBadly
<1>2. e[1] \in Kinds /\ e[2] \in Steps
  BY <1>1, EventShape
<1>3. Len(log) \in Nat /\ \A i \in 1 .. Len(log) : log'[i] = log[i]
  BY CountsGrow
<1> HIDE DEF e
<1>4. ASSUME NEW s \in Steps
      PROVE  /\ attempts'[s] = Retries(log', s, read')
             /\ Finals(log', s, read') = IF s \in success' \cup failed' THEN 1 ELSE 0
  <2>1. /\ Retries(log', s, read') = Retries(log, s, read + 1)
        /\ Finals(log', s, read') = Finals(log, s, read + 1)
    BY <1>1, CountsGrow
  <2>2. /\ Retries(log, s, read + 1) = Retries(log, s, read) + (IF e[1] = "retry" /\ e[2] = s THEN 1 ELSE 0)
        /\ Finals(log, s, read + 1) = Finals(log, s, read)
             + (IF e[1] \in {"success", "failure"} /\ e[2] = s THEN 1 ELSE 0)
    <3>1. \A K : Count(log, K, s, read + 1) = Count(log, K, s, read)
                   + (IF e[1] \in K /\ e[2] = s THEN 1 ELSE 0)
      BY <1>1, CountNext
    <3> QED BY <3>1 DEF Retries, Finals
  <2>3. /\ attempts[s] = Retries(log, s, read)
        /\ Finals(log, s, read) = IF s \in success \cup failed THEN 1 ELSE 0
    BY DEF Counted
  <2>4. /\ e[1] \in Endings => e[2] \in inFlight
        /\ success' = IF e[1] = "success" THEN success \cup {e[2]} ELSE success
        /\ failed' = IF e[1] = "failure" THEN failed \cup {e[2]} ELSE failed
        /\ attempts' = IF e[1] = "retry" THEN [attempts EXCEPT ![e[2]] = @ + 1] ELSE attempts
    BY DEF Takes, e
  <2>5. attempts'[s] = attempts[s] + (IF e[1] = "retry" /\ e[2] = s THEN 1 ELSE 0)
    BY <1>1, <2>4
  <2>6. (IF s \in success' \cup failed' THEN 1 ELSE 0) = (IF s \in success \cup failed THEN 1 ELSE 0)
          + (IF e[1] \in {"success", "failure"} /\ e[2] = s THEN 1 ELSE 0)
    <3>1. e[1] \in {"success", "failure"} /\ e[2] = s => s \notin success \cup failed
      BY <1>1, <2>4 DEF Endings
    <3> QED BY <2>4, <3>1
  <2> QED BY <2>1, <2>2, <2>3, <2>5, <2>6
<1>5. /\ \A i \in 1 .. read : log'[i] = log[i] /\ i \in 1 .. read + 1
      /\ \A i \in 1 .. read + 1 : i \in 1 .. read \/ i = read + 1
      /\ read + 1 \in 1 .. read + 1 /\ log'[read + 1] = e
  BY <1>1, <1>3
<1>6. Noted'
  BY <1>5 DEF Noted, Takes, e
<1> QED BY <1>4, <1>6 DEF Counted

LEMMA HeardKept ==
  ASSUME Base, Moved, Heard
  PROVE  Heard'
<1> USE DEF Looping, Replays, Over
<1> DEFINE Told(l, s) == \E i \in 1 .. Len(l) : l[i][1] = "skip" /\ l[i][2] = s
           Goal == /\ at' \in Looping \cup Replays => Counted' /\ Noted'
                   /\ at' \in Looping => \A s \in skipped' : Told(log', s)
                   /\ at' \in Replays => skipped' = {} /\ abandoned' = {}
<1>1. \A s : Told(log, s) => Told(log', s)
  <2>1. /\ Len(log) \in Nat /\ Len(log') \in Nat /\ Len(log) <= Len(log')
        /\ \A i \in 1 .. Len(log) : log'[i] = log[i]
    BY CountsGrow
  <2> QED BY <2>1
<1>2. /\ at \in Looping \cup Replays => Counted /\ Noted
      /\ at \in Looping => \A s \in skipped : Told(log, s)
      /\ at \in Replays => skipped = {} /\ abandoned = {}
      /\ at \in Looping \cup Replays \cup Over \cup {"down"}
  BY DEF Heard, Base, Shape
<1> DEFINE Same == /\ read' = read /\ attempts' = attempts /\ success' = success /\ failed' = failed
                   /\ stepOutputs' = stepOutputs
<1>3. ASSUME Same, at \in Looping \cup Replays PROVE Counted' /\ Noted'
  BY <1>2, <1>3, StillHeard
<1> HIDE DEF Told
<1>4. ASSUME Stops PROVE Goal
  BY <1>4 DEF Stops
<1>5. ASSUME UNCHANGED vars, read' = read,
             at' \in Looping => at \in Looping \cup Replays, at' \in Replays => at \in Replays
      PROVE Goal
  <2>1. Same /\ skipped' = skipped /\ abandoned' = abandoned
    BY <1>5, SamePlan
  <2> QED BY <1>1, <1>2, <1>3, <1>5, <2>1
<1>6. ASSUME Passes \/ Examines \/ Rechecks \/ (\E s \in Steps : Starts(s)) \/ \E w \in DOMAIN worker : Toils(w)
      PROVE Goal
  BY <1>2, <1>5, <1>6 DEF Passes, Examines, Rechecks, Starts, Toils
<1>7. ASSUME Hears \/ ReplaysNext PROVE Goal
  <2>1. Counted /\ Noted /\ Takes(NextEvent) /\ read < fetched /\ read' = read + 1
    BY <1>2, <1>7 DEF Hears, ReplaysNext
  <2>2. Counted' /\ Noted'
    BY <2>1, NextHeard
  <2>3. skipped' = skipped /\ abandoned' = abandoned
    BY <2>1 DEF Takes
  <2> QED BY <1>1, <1>2, <1>7, <2>2, <2>3 DEF Hears, ReplaysNext
<1>8. ASSUME Skips PROVE Goal
  <2>1. Same /\ skipped' = skipped \cup SkipVended /\ Writes(SkipVended, {"skip"})
        /\ at \in Looping /\ at' \in Looping
    BY <1>8 DEF Skips
  <2>2. ASSUME NEW s \in SkipVended PROVE Told(log', s)
    <3>1. PICK i \in New : log'[i][2] = s
      BY <2>1, <2>2 DEF Writes
    <3>2. log'[i][1] = "skip"
      BY <2>1, <3>1 DEF Writes
    <3>3. i \in 1 .. Len(log')
      BY <3>1, CountsGrow DEF New
    <3> QED BY <3>1, <3>2, <3>3 DEF Told
  <2> QED BY <1>1, <1>2, <1>3, <2>1, <2>2
<1>9. ASSUME Abandons PROVE Goal
  BY <1>1, <1>2, <1>3, <1>9 DEF Abandons
<1>10. ASSUME Selects \/ Refreshes PROVE Goal
  <2>1. Same /\ skipped' = skipped /\ abandoned' = abandoned
    BY <1>10 DEF Selects, Refreshes, Vends
  <2> QED BY <1>1, <1>2, <1>3, <1>10, <2>1 DEF Selects, Refreshes
<1>11. ASSUME Resumes PROVE Goal
  <2>1. /\ read' = 0 /\ attempts' = [s \in Steps |-> 0] /\ success' = {} /\ failed' = {}
        /\ stepOutputs' = ReadyOutputs /\ skipped' = {} /\ abandoned' = {} /\ at' = "refresh"
    BY <1>11 DEF Resumes, Fresh
  <2>2. \A l, s : Retries(l, s, 0) = 0 /\ Finals(l, s, 0) = 0
    BY CountNone DEF Retries, Finals
  <2>3. Counted' /\ Noted'
    BY <2>1, <2>2 DEF Counted, Noted
  <2> QED BY <2>1, <2>3
<1>12. Goal
  BY <1>4, <1>6, <1>7, <1>8, <1>9, <1>10, <1>11 DEF Moved
<1> QED BY <1>12 DEF Heard, Told

\* A step is reported by its worker, or the executor answers for one that is gone.
LEMMA Reporting ==
  ASSUME Base, Moved, NEW s,
         Reports(log', s, Len(log')) # Reports(log, s, Len(log)) \/ Finals(log', s, Len(log')) # Finals(log, s, Len(log))
  PROVE  /\ Reports(log', s, Len(log')) = Reports(log, s, Len(log)) + 1
         /\ Finals(log', s, Len(log')) <= Finals(log, s, Len(log)) + 1
         /\ \/ \E w \in DOMAIN worker : Toils(w) /\ w.step = s /\ worker'[w] = "reported"
            \/ Hears /\ NextEvent[1] = "init" /\ NextEvent[2] = s
            \/ Examines /\ s \in Sick
<1> DEFINE Changed == Reports(log', s, Len(log')) = Reports(log, s, Len(log)) + 1
           Quiet == /\ Reports(log', s, Len(log')) = Reports(log, s, Len(log))
                    /\ Finals(log', s, Len(log')) = Finals(log, s, Len(log))
<1>1. log \in Seq(Events)
  BY DEF Base, Shape
<1>2. ~ Quiet
  OBVIOUS
<1>3. ASSUME NEW S, NEW K, Writes(S, K), s \notin S \/ K \cap Endings = {} PROVE FALSE
  <2>1. K \cap Endings = {} => K \cap {"success", "failure"} = {}
    BY DEF Endings
  <2> QED BY <1>1, <1>2, <1>3, <2>1, CountWritten DEF Reports, Finals
<1>4. ASSUME NEW S, NEW K, Writes(S, K), s \in S, K \subseteq Endings PROVE Changed
  BY <1>1, <1>4, CountWritten DEF Reports
<1>5. log' # log
  BY <1>2
<1>6. ASSUME Hears PROVE NextEvent[1] = "init" /\ NextEvent[2] = s /\ Changed
  <2>1. NextEvent[1] = "init"
    BY <1>5, <1>6 DEF Hears
  <2>2. PICK k \in {"retry", "failure"} : Writes({NextEvent[2]}, {k})
    BY <1>6, <2>1 DEF Hears
  <2>3. {k} \subseteq Endings
    BY DEF Endings
  <2> QED BY <1>3, <1>4, <2>1, <2>2, <2>3
<1>7. ASSUME Skips PROVE FALSE
  <2>1. Writes(SkipVended, {"skip"})
    BY <1>7 DEF Skips
  <2>2. {"skip"} \cap Endings = {}
    BY DEF Endings
  <2> QED BY <1>3, <2>1, <2>2
<1>8. ASSUME Examines PROVE s \in Sick /\ Changed
  <2>1. Writes(Sick, {"retry", "failure"}) /\ {"retry", "failure"} \subseteq Endings
    BY <1>8 DEF Examines, Endings
  <2> QED BY <1>3, <1>4, <2>1
<1>9. ASSUME NEW w \in DOMAIN worker, Toils(w) PROVE w.step = s /\ worker'[w] = "reported" /\ Changed
  <2>1. CASE Writes({w.step}, {"output"})
    <3>1. {"output"} \cap Endings = {}
      BY DEF Endings
    <3> QED BY <1>3, <2>1, <3>1
  <2>2. CASE worker'[w] = "reported" /\ \E k \in Endings \cup {"init"} : Writes({w.step}, {k})
    <3>1. PICK k \in Endings \cup {"init"} : Writes({w.step}, {k})
      BY <2>2
    <3>2. CASE k = "init"
      <4>1. {k} \cap Endings = {}
        BY <3>2 DEF Endings
      <4> QED BY <1>3, <3>1, <4>1
    <3>3. CASE k \in Endings
      <4>1. {k} \subseteq Endings
        BY <3>3
      <4> QED BY <1>3, <1>4, <2>2, <3>1, <4>1
    <3> QED BY <3>1, <3>2, <3>3
  <2> QED BY <1>5, <1>9, <2>1, <2>2 DEF Toils
<1>10. Changed /\ \/ \E w \in DOMAIN worker : Toils(w) /\ w.step = s /\ worker'[w] = "reported"
                  \/ Hears /\ NextEvent[1] = "init" /\ NextEvent[2] = s
                  \/ Examines /\ s \in Sick
  BY <1>5, <1>6, <1>7, <1>8, <1>9
     DEF Moved, Stops, Passes, Abandons, Selects, Starts, Resumes, Refreshes, ReplaysNext, Rechecks
<1>11. Finals(log', s, Len(log')) <= Finals(log, s, Len(log)) + 1
  <2>1. /\ Retries(log, s, Len(log)) <= Retries(log', s, Len(log')) /\ Len(log) \in Nat /\ Len(log') \in Nat
    BY CountsGrow
  <2>2. /\ Reports(log, s, Len(log)) = Retries(log, s, Len(log)) + Finals(log, s, Len(log))
        /\ Reports(log', s, Len(log')) = Retries(log', s, Len(log')) + Finals(log', s, Len(log'))
        /\ Retries(log, s, Len(log)) \in Nat /\ Retries(log', s, Len(log')) \in Nat
        /\ Finals(log, s, Len(log)) \in Nat /\ Finals(log', s, Len(log')) \in Nat
    BY <2>1, ReportsSplit
  <2> QED BY <1>10, <2>1, <2>2
<1> QED BY <1>10, <1>11

\* What becomes of workers.
LEMMA WorkerMoves ==
  ASSUME Base, Moved
  PROVE  /\ DOMAIN worker \subseteq DOMAIN worker'
         /\ \A w \in DOMAIN worker' :
              \/ w \in DOMAIN worker /\ worker'[w] = worker[w]
              \/ /\ w \in DOMAIN worker /\ worker[w] = "running" /\ worker'[w] = "broken" /\ log' = log
                 /\ Stops \/ Toils(w)
              \/ w \in DOMAIN worker /\ worker[w] = "running" /\ worker'[w] = "reported" /\ Toils(w)
              \/ /\ w \in DOMAIN worker /\ worker[w] = "reported" /\ worker'[w] = "failed" /\ log' = log
                 /\ Toils(w)
              \/ /\ worker'[w] = "running" /\ w.step \in Steps /\ w = Current(w.step)
                 /\ Starts(w.step) \/ (Rechecks /\ w.step \in Relaunched)
<1> DEFINE Fate(w) ==
              \/ w \in DOMAIN worker /\ worker'[w] = worker[w]
              \/ /\ w \in DOMAIN worker /\ worker[w] = "running" /\ worker'[w] = "broken" /\ log' = log
                 /\ Stops \/ Toils(w)
              \/ w \in DOMAIN worker /\ worker[w] = "running" /\ worker'[w] = "reported" /\ Toils(w)
              \/ /\ w \in DOMAIN worker /\ worker[w] = "reported" /\ worker'[w] = "failed" /\ log' = log
                 /\ Toils(w)
              \/ /\ worker'[w] = "running" /\ w.step \in Steps /\ w = Current(w.step)
                 /\ Starts(w.step) \/ (Rechecks /\ w.step \in Relaunched)
           Goal == DOMAIN worker \subseteq DOMAIN worker' /\ \A w \in DOMAIN worker' : Fate(w)
<1>1. ASSUME worker' = worker PROVE Goal
  BY <1>1
<1>2. ASSUME Stops PROVE Goal
  BY <1>2 DEF Stops
<1>3. ASSUME NEW v \in DOMAIN worker, Toils(v) PROVE Goal
  <2>1. /\ DOMAIN worker' = DOMAIN worker
        /\ \A w \in DOMAIN worker \ {v} : worker'[w] = worker[w]
        /\ \/ worker[v] = "running" /\ worker'[v] \in {"running", "reported"}
           \/ worker[v] = "running" /\ worker'[v] = "broken" /\ log' = log
           \/ worker[v] = "reported" /\ worker'[v] = "failed" /\ log' = log
    BY <1>3 DEF Toils
  <2> QED BY <1>3, <2>1
<1>4. \A s : Current(s).step = s
  BY DEF Current
<1>5. ASSUME NEW s \in Steps, Starts(s) PROVE Goal
  <2>1. /\ CurrentOf({s}) = {Current(s)}
        /\ DOMAIN worker' = DOMAIN worker \cup CurrentOf({s})
        /\ \A w \in CurrentOf({s}) : worker'[w] = "running"
        /\ \A w \in DOMAIN worker \ CurrentOf({s}) : worker'[w] = worker[w]
    BY <1>5 DEF Starts, NewWorkers, CurrentOf
  <2> QED BY <1>4, <1>5, <2>1
<1>6. ASSUME Rechecks PROVE Goal
  <2>1. PICK S \in SUBSET Relaunched : NewWorkers(S)
    BY <1>6 DEF Rechecks
  <2>2. /\ DOMAIN worker' = DOMAIN worker \cup CurrentOf(S)
        /\ \A w \in CurrentOf(S) : worker'[w] = "running"
        /\ \A w \in DOMAIN worker \ CurrentOf(S) : worker'[w] = worker[w]
        /\ \A w \in CurrentOf(S) : \E s \in Relaunched : w = Current(s)
        /\ Relaunched \subseteq Steps
    BY <2>1 DEF NewWorkers, CurrentOf, Relaunched, Base, PlanInv, StepSets
  <2> QED BY <1>4, <1>6, <2>2
<1>7. Goal
  BY <1>1, <1>2, <1>3, <1>5, <1>6
     DEF Moved, Passes, Hears, Skips, Abandons, Examines, Selects, Resumes, Refreshes, ReplaysNext
<1> QED BY <1>7

\* Attempts, as they are numbered.
LEMMA CurrentAttempt ==
  ASSUME Base, Heard, at \in Looping \cup Replays, NEW s \in Steps
  PROVE  /\ Current(s).step = s /\ Current(s).attempt = attempts[s]
         /\ attempts[s] = Retries(log, s, read) /\ attempts[s] \in Nat
         /\ attempts[s] <= Reports(log, s, read) /\ Reports(log, s, read) \in Nat
         /\ Retries(log, s, Len(log)) \in Nat /\ Reports(log, s, Len(log)) \in Nat
         /\ attempts[s] <= Retries(log, s, Len(log))
         /\ Retries(log, s, Len(log)) <= Reports(log, s, Len(log))
         /\ Reports(log, s, read) <= Reports(log, s, Len(log))
         /\ s \notin success \cup failed => Reports(log, s, read) = attempts[s]
         /\ s \in success \cup failed => Reports(log, s, read) = attempts[s] + 1
<1>1. read \in Nat /\ Len(log) \in Nat /\ read <= Len(log)
  BY LogEvents DEF Base, Shape
<1>2. /\ attempts[s] = Retries(log, s, read)
      /\ Finals(log, s, read) = IF s \in success \cup failed THEN 1 ELSE 0
  BY DEF Heard, Counted
<1>3. /\ Reports(log, s, read) = Retries(log, s, read) + Finals(log, s, read)
      /\ Reports(log, s, Len(log)) = Retries(log, s, Len(log)) + Finals(log, s, Len(log))
      /\ Reports(log, s, read) \in Nat /\ Retries(log, s, read) \in Nat
      /\ Reports(log, s, Len(log)) \in Nat /\ Retries(log, s, Len(log)) \in Nat /\ Finals(log, s, Len(log)) \in Nat
      /\ Retries(log, s, read) <= Retries(log, s, Len(log)) /\ Reports(log, s, read) <= Reports(log, s, Len(log))
  BY <1>1, CountsFit
<1>4. Current(s).step = s /\ Current(s).attempt = attempts[s]
  BY DEF Current
<1> QED BY <1>2, <1>3, <1>4

LEMMA BehindKept ==
  ASSUME Base, Moved, Heard, Behind
  PROVE  Behind'
<1> USE DEF Looping, Replays, Over
<1> DEFINE Gone(w) == \/ w.attempt < Reports(log, w.step, Len(log))
                      \/ \E i \in 1 .. Len(log) : /\ log[i][1] = "init" /\ log[i][2] = w.step
                                                  /\ at \in Looping /\ ~ resumed => i > read
           GoneNext(w) == \/ w.attempt < Reports(log', w.step, Len(log'))
                          \/ \E i \in 1 .. Len(log') : /\ log'[i][1] = "init" /\ log'[i][2] = w.step
                                                       /\ at' \in Looping /\ ~ resumed' => i > read'
<1>1. /\ Len(log) \in Nat /\ Len(log') \in Nat /\ Len(log) <= Len(log')
      /\ \A i \in 1 .. Len(log) : log'[i] = log[i] /\ i \in 1 .. Len(log')
      /\ DOMAIN worker \subseteq [step : Steps, attempt : Nat] /\ read \in 0 .. Len(log)
  <2>1. /\ Len(log) \in Nat /\ Len(log') \in Nat /\ Len(log) <= Len(log')
        /\ \A i \in 1 .. Len(log) : log'[i] = log[i]
    BY CountsGrow
  <2> QED BY <2>1 DEF Base, Shape
<1>2. \A s : /\ Reports(log, s, Len(log)) \in Nat /\ Reports(log', s, Len(log')) \in Nat
             /\ Retries(log, s, Len(log)) \in Nat /\ Retries(log', s, Len(log')) \in Nat
             /\ Reports(log, s, Len(log)) <= Reports(log', s, Len(log'))
             /\ Retries(log, s, Len(log)) <= Retries(log', s, Len(log'))
             /\ Retries(log, s, Len(log)) <= Reports(log, s, Len(log))
  BY <1>1, CountsGrow, ReportsSplit
<1>3. ASSUME NEW w \in DOMAIN worker PROVE w.attempt <= Retries(log', w.step, Len(log'))
  <2>1. w.attempt <= Retries(log, w.step, Len(log)) /\ w.attempt \in Nat
    BY <1>1 DEF Behind
  <2> QED BY <1>2, <2>1
<1>4. ASSUME NEW w, w.step \in Steps, w = Current(w.step), at \in Looping \cup Replays
      PROVE  w.attempt <= Retries(log', w.step, Len(log'))
  <2>1. w.attempt <= Retries(log, w.step, Len(log)) /\ w.attempt \in Nat
    BY <1>4, CurrentAttempt
  <2> QED BY <1>2, <2>1
<1>5. ASSUME NEW w \in DOMAIN worker, worker[w] \in Finished PROVE GoneNext(w)
  <2>1. CASE w.attempt < Reports(log, w.step, Len(log))
    BY <1>1, <1>2, <2>1
  <2>2. CASE ~ (w.attempt < Reports(log, w.step, Len(log)))
    <3>1. PICK i \in 1 .. Len(log) : /\ log[i][1] = "init" /\ log[i][2] = w.step
                                     /\ at \in Looping /\ ~ resumed => i > read
      BY <1>5, <2>2 DEF Behind
    <3>2. CASE Hears /\ i = read + 1
      <4>1. NextEvent[1] = "init" /\ NextEvent[2] = w.step
        BY <3>1, <3>2 DEF NextEvent
      <4>2. PICK k \in {"retry", "failure"} : Writes({w.step}, {k})
        BY <3>2, <4>1 DEF Hears
      <4>3. Reports(log', w.step, Len(log')) = Reports(log, w.step, Len(log)) + 1
        <5>1. log \in Seq(Events) /\ {k} \subseteq Endings
          BY DEF Base, Shape, Endings
        <5> QED BY <4>2, <5>1, CountWritten DEF Reports
      <4>4. w.attempt <= Retries(log, w.step, Len(log)) /\ w.attempt \in Nat
        BY <1>1 DEF Behind
      <4> QED BY <1>2, <4>3, <4>4
    <3>3. CASE ~ (Hears /\ i = read + 1)
      <4>1. at' \in Looping /\ ~ resumed' => i > read'
        <5>1. CASE at' \notin Looping \/ resumed'
          BY <5>1
        <5>2. CASE at' \in Looping /\ ~ resumed'
          <6>1. at \in Looping /\ ~ resumed /\ (read' = read \/ (Hears /\ read' = read + 1))
            BY <5>2 DEF Moved, Stops, Passes, Hears, Skips, Abandons, Examines, Selects, Starts, Resumes,
                    Refreshes, ReplaysNext, Rechecks, Toils, Base, Cursors, Shape
          <6> QED BY <1>1, <3>1, <3>3, <6>1
        <5> QED BY <5>1, <5>2
      <4> QED BY <1>1, <3>1, <4>1
    <3> QED BY <3>2, <3>3
  <2> QED BY <2>1, <2>2
<1>6. ASSUME NEW w \in DOMAIN worker, worker'[w] = "reported", Toils(w) PROVE GoneNext(w)
  <2>1. PICK k \in Endings \cup {"init"} : Writes({w.step}, {k})
    BY <1>6 DEF Toils
  <2>2. log \in Seq(Events) /\ w.attempt <= Retries(log, w.step, Len(log)) /\ w.attempt \in Nat
    BY <1>1 DEF Base, Shape, Behind
  <2>3. CASE k \in Endings
    <3>1. Reports(log', w.step, Len(log')) = Reports(log, w.step, Len(log)) + 1
      <4>1. {k} \subseteq Endings
        BY <2>3
      <4> QED BY <2>1, <2>2, <4>1, CountWritten DEF Reports
    <3> QED BY <1>2, <2>2, <3>1
  <2>4. CASE k = "init"
    <3>1. PICK i \in New : log'[i][2] = w.step
      BY <2>1 DEF Writes
    <3>2. log'[i][1] = "init" /\ i \in 1 .. Len(log') /\ i > Len(log) /\ i \in Nat
      BY <1>1, <2>1, <2>4, <3>1 DEF Writes, New
    <3>3. read' = read /\ i > read'
      BY <1>1, <1>6, <3>2 DEF Toils
    <3> QED BY <3>1, <3>2, <3>3
  <2> QED BY <2>1, <2>3, <2>4
<1>7. ASSUME NEW w \in DOMAIN worker'
      PROVE  /\ w.attempt <= Retries(log', w.step, Len(log'))
             /\ worker'[w] \in Finished => GoneNext(w)
  <2>1. Starts(w.step) \/ Rechecks => at \in Looping \cup Replays
    BY DEF Starts, Rechecks
  <2> QED BY <1>3, <1>4, <1>5, <1>6, <2>1, WorkerMoves DEF Finished
<1> QED BY <1>7 DEF Behind

LEMMA StaffedKept ==
  ASSUME Base, Moved, Heard, Staffed
  PROVE  Staffed'
<1> USE DEF Looping, Replays, Over
<1> SUFFICES ASSUME at' \in Looping, NEW s \in running' PROVE Current(s)' \in DOMAIN worker'
  BY DEF Staffed
<1>1. DOMAIN worker \subseteq DOMAIN worker' /\ at \in Looping \cup Replays \cup Over \cup {"down"}
  BY WorkerMoves DEF Base, Shape
<1>2. ASSUME attempts' = attempts, at \in Looping, s \in running PROVE Current(s)' \in DOMAIN worker'
  BY <1>1, <1>2 DEF Staffed, Current
<1>3. CASE Passes \/ Examines \/ \E w \in DOMAIN worker : Toils(w)
  BY <1>1, <1>2, <1>3, SamePlan DEF Passes, Examines, Toils
<1>4. CASE Skips \/ Abandons \/ Selects
  BY <1>1, <1>2, <1>4 DEF Skips, Abandons, Selects, Vends
<1>5. CASE Hears
  <2>1. /\ running' = IF NextEvent[1] \in Endings THEN running \ {NextEvent[2]} ELSE running
        /\ attempts' = IF NextEvent[1] = "retry" THEN [attempts EXCEPT ![NextEvent[2]] = @ + 1] ELSE attempts
        /\ attempts \in [Steps -> Nat] /\ running \subseteq Steps
    BY <1>5 DEF Hears, Takes, Base, Shape, PlanInv, OtherTypes
  <2>2. s \in running /\ attempts'[s] = attempts[s]
    BY <2>1 DEF Endings
  <2> QED BY <1>1, <1>5, <2>2 DEF Staffed, Current, Hears
<1>6. CASE \E t \in Steps : Starts(t)
  <2>1. PICK t \in Steps : Starts(t)
    BY <1>6
  <2>2. attempts' = attempts /\ running' = running \cup {t} /\ at \in Looping
    BY <2>1, SamePlan DEF Starts
  <2>3. Current(t) \in DOMAIN worker'
    BY <2>1 DEF Starts, NewWorkers, CurrentOf
  <2> QED BY <1>2, <2>2, <2>3 DEF Current
<1>7. CASE Rechecks
  <2>1. running' = inFlight /\ attempts' = attempts /\ NewWorkers(Relaunched)
    BY <1>7, SamePlan DEF Rechecks
  <2>2. Current(s) \in DOMAIN worker'
    <3>1. CASE Current(s) \in DOMAIN worker
      BY <1>1, <3>1
    <3>2. CASE Current(s) \notin DOMAIN worker
      BY <2>1, <3>2 DEF Relaunched, Unhealthy, NewWorkers, CurrentOf
    <3> QED BY <3>1, <3>2
  <2> QED BY <2>1, <2>2 DEF Current
<1> QED BY <1>3, <1>4, <1>5, <1>6, <1>7 DEF Moved, Stops, Resumes, Refreshes, ReplaysNext

\* A step in flight with nothing unread has not been reported since its last launch.
LEMMA NothingUnread ==
  ASSUME Base, Heard, at \in Looping \cup Replays, NEW s \in inFlight, ~ Unread(s)
  PROVE  /\ s \in Steps /\ Current(s) = Answer(s)
         /\ \A i \in read + 1 .. Len(log) : ~ (log[i][1] = "init" /\ log[i][2] = s)
<1>1. /\ s \in Steps /\ s \notin success \cup failed /\ log \in Seq(Events)
      /\ read \in Nat /\ Len(log) \in Nat /\ read <= Len(log)
  BY LogEvents DEF Base, Shape, PlanInv, StepSets, Apart, Terminal, EndedWell, EndedBadly
<1>2. ASSUME NEW i \in read + 1 .. Len(log)
      PROVE  ~ (log[i][1] \in Endings /\ log[i][2] = s) /\ ~ (log[i][1] = "init" /\ log[i][2] = s)
  <2>1. log[i] \in Events
    BY <1>1, <1>2, LogEvents
  <2>2. log[i] \notin Ends(s) /\ log[i] # <<"init", s>>
    BY <1>2 DEF Unread
  <2>3. log[i] \in Ends(s) <=> log[i][1] \in Endings /\ log[i][2] = s
    BY <2>1, EventShape
  <2>4. log[i][1] = "init" /\ log[i][2] = s => log[i] = <<"init", s>>
    <3>1. \A t, k : k # "retry" /\ k # "output" => (log[i] = <<k, t>> <=> log[i][1] = k /\ log[i][2] = t)
      BY <2>1, EventShape
    <3>2. "init" # "retry" /\ "init" # "output"
      OBVIOUS
    <3>3. log[i] = <<"init", s>> <=> log[i][1] = "init" /\ log[i][2] = s
      BY <3>1, <3>2, Zenon
    <3> QED BY <3>3
  <2> QED BY <2>2, <2>3, <2>4
<1>3. Reports(log, s, Len(log)) = Reports(log, s, read)
  <2>1. ~ (Reports(log, s, read) < Reports(log, s, Len(log)))
    BY <1>1, <1>2, CountGrows DEF Reports
  <2> QED BY <1>1, <2>1, CountsFit
<1>4. Reports(log, s, read) = attempts[s]
  BY <1>1, CurrentAttempt
<1> QED BY <1>1, <1>2, <1>3, <1>4 DEF Answer, Current

LEMMA CrossedGrows ==
  ASSUME Moved
  PROVE  crossed \subseteq crossed'
  BY DEF Moved, Stops, Passes, Hears, Skips, Abandons, Examines, Selects, Starts, Resumes, Refreshes,
         ReplaysNext, Rechecks, Toils

\* Whose attempt an event of the executor or of a worker ends.
LEMMA Reporters ==
  ASSUME Base, Moved, Heard, Staffed, Orderly, NEW s, s \notin crossed',
         Reports(log', s, Len(log')) # Reports(log, s, Len(log)) \/ Finals(log', s, Len(log')) # Finals(log, s, Len(log))
  PROVE  /\ Reports(log', s, Len(log')) = Reports(log, s, Len(log)) + 1
         /\ Finals(log', s, Len(log')) <= Finals(log, s, Len(log)) + 1
         /\ s \in Steps /\ Answer(s) \in DOMAIN worker
         /\ \/ Toils(Answer(s)) /\ worker[Answer(s)] = "running" /\ worker'[Answer(s)] = "reported"
            \/ Hears /\ NextEvent[1] = "init" /\ NextEvent[2] = s /\ worker[Answer(s)] \in Finished
            \/ Examines /\ worker[Answer(s)] = "broken"
            \/ /\ Examines /\ worker[Answer(s)] = "failed"
               /\ \A i \in read + 1 .. Len(log) : ~ (log[i][1] = "init" /\ log[i][2] = s)
<1>1. /\ Reports(log', s, Len(log')) = Reports(log, s, Len(log)) + 1
      /\ Finals(log', s, Len(log')) <= Finals(log, s, Len(log)) + 1
      /\ \/ \E w \in DOMAIN worker : Toils(w) /\ w.step = s /\ worker'[w] = "reported"
         \/ Hears /\ NextEvent[1] = "init" /\ NextEvent[2] = s
         \/ Examines /\ s \in Sick
  BY Reporting
<1>2. /\ DOMAIN worker \subseteq [step : Steps, attempt : Nat] /\ running \subseteq Steps
      /\ read \in 0 .. Len(log) /\ Len(log) \in Nat /\ s \notin crossed
  BY LogEvents, CrossedGrows DEF Base, Shape
<1>3. ASSUME NEW w \in DOMAIN worker, Toils(w), w.step = s, worker'[w] = "reported"
      PROVE  w = Answer(s) /\ s \in Steps /\ worker[w] = "running"
  <2>1. worker[w] = "running" /\ w \in [step : Steps, attempt : Nat]
    BY <1>2, <1>3 DEF Toils
  <2>2. w.attempt = Reports(log, s, Len(log))
    BY <1>2, <1>3, <2>1 DEF Orderly
  <2> QED BY <1>3, <2>1, <2>2 DEF Answer
<1>4. ASSUME Hears, NextEvent[1] = "init", NextEvent[2] = s
      PROVE  s \in Steps /\ Answer(s) \in DOMAIN worker /\ worker[Answer(s)] \in Finished
  <2>1. at \in Looping /\ read < fetched
    BY <1>4 DEF Hears, Looping
  <2>2. read + 1 \in 1 .. Len(log) /\ NextEvent \in Events
    BY <2>1, NextInLog
  <2>3. Ahead(read + 1)
    BY <1>2, <2>1 DEF Ahead
  <2>4. log[read + 1][1] = "init" /\ log[read + 1][2] = s
    BY <1>4 DEF NextEvent
  <2> QED BY <1>2, <1>4, <2>2, <2>3, <2>4, EventShape DEF Orderly
<1>5. ASSUME Examines, s \in Sick, Is(s, "failed")
      PROVE  /\ s \in Steps /\ Answer(s) \in DOMAIN worker /\ worker[Answer(s)] = "failed"
             /\ \A i \in read + 1 .. Len(log) : ~ (log[i][1] = "init" /\ log[i][2] = s)
  <2>1. at \in Looping /\ s \in inFlight
    BY <1>5 DEF Examines, Sick, Base, Cursors, Looping
  <2>2. ~ Unread(s)
    BY <1>5 DEF Examines, CrossedOf
  <2> QED BY <1>5, <2>1, <2>2, NothingUnread DEF Is
<1>6. ASSUME Examines, s \in Sick, ~ Is(s, "failed")
      PROVE  s \in Steps /\ Answer(s) \in DOMAIN worker /\ worker[Answer(s)] = "broken"
  <2>1. at = "health" /\ s \in running /\ s \in Steps /\ s \in inFlight
    BY <1>2, <1>6 DEF Examines, Sick, Base, Cursors, Looping
  <2>2. Current(s) \in DOMAIN worker /\ worker[Current(s)] = "broken"
    BY <1>6, <2>1 DEF Staffed, Sick, Unhealthy, Is, Looping
  <2>3. s \notin success \cup failed
    BY <2>1 DEF Base, PlanInv, Apart, Terminal, EndedWell, EndedBadly
  <2>4. /\ Current(s).step = s /\ Current(s).attempt = attempts[s] /\ attempts[s] \in Nat
        /\ attempts[s] <= Reports(log, s, Len(log)) /\ Reports(log, s, Len(log)) \in Nat
        /\ Reports(log, s, read) = attempts[s]
    BY <2>1, <2>3, CurrentAttempt DEF Looping
  <2>5. ~ Reported(Current(s))
    BY <1>2, <2>1, <2>2, <2>4 DEF Orderly, Answered
  <2>6. attempts[s] = Reports(log, s, Len(log))
    BY <2>4, <2>5 DEF Reported
  <2> QED BY <2>1, <2>2, <2>6 DEF Answer, Current
<1> QED BY <1>1, <1>3, <1>4, <1>5, <1>6

\* Only a worker reports the failure of a resource.
LEMMA NewInits ==
  ASSUME Base, Moved, NEW i \in New, log'[i][1] = "init"
  PROVE  /\ \E w \in DOMAIN worker : /\ Toils(w) /\ w.step = log'[i][2] /\ worker[w] = "running" /\ worker'[w] = "reported"
                                     /\ Reports(log', w.step, Len(log')) = Reports(log, w.step, Len(log))
         /\ \A j \in New : log'[j][2] = log'[i][2] => i = j
<1>1. log \in Seq(Events) /\ \E S, K : Writes(S, K)
  BY LogMoves DEF Base, Shape
<1>2. \A j \in New : log'[j][2] = log'[i][2] => i = j
  BY <1>1 DEF Writes
<1>3. log' # log
  BY <1>1, LogEvents DEF New
<1>4. ASSUME NEW S, NEW K, Writes(S, K) PROVE "init" \in K /\ log'[i][2] \in S
  BY <1>4 DEF Writes
<1>5. ~ Hears /\ ~ Skips /\ ~ Examines
  <2>1. ~ Skips
    BY <1>4 DEF Skips
  <2>2. ~ Examines
    BY <1>4 DEF Examines
  <2>3. ASSUME Hears PROVE FALSE
    <3>1. PICK k \in {"retry", "failure"} : Writes({NextEvent[2]}, {k})
      BY <1>3, <2>3 DEF Hears
    <3> QED BY <1>4, <3>1
  <2> QED BY <2>1, <2>2, <2>3
<1>6. PICK w \in DOMAIN worker : Toils(w)
  BY <1>3, <1>5
     DEF Moved, Stops, Passes, Abandons, Selects, Starts, Resumes, Refreshes, ReplaysNext, Rechecks
<1>7. worker'[w] = "reported" /\ \E k \in Endings \cup {"init"} : Writes({w.step}, {k})
  <2>1. ~ Writes({w.step}, {"output"})
    <3>1. "init" \notin {"output"}
      OBVIOUS
    <3> QED BY <1>4, <3>1
  <2> QED BY <1>3, <1>6, <2>1 DEF Toils
<1>8. Writes({w.step}, {"init"})
  BY <1>4, <1>7
<1>9. {"init"} \cap Endings = {}
  BY DEF Endings
<1>10. Reports(log', w.step, Len(log')) = Reports(log, w.step, Len(log))
  BY <1>1, <1>8, <1>9, CountWritten DEF Reports
<1> QED BY <1>2, <1>4, <1>6, <1>7, <1>8, <1>10 DEF Toils

\* An event that is still to be read was to be read before.
LEMMA AheadBefore ==
  ASSUME Base, Moved, NEW i \in 1 .. Len(log), Ahead(i)'
  PROVE  Ahead(i)
<1> USE DEF Looping, Replays, Over
<1>1. /\ read \in 0 .. Len(log) /\ fetched \in 0 .. Len(log) /\ Len(log) \in Nat
      /\ (at' \in Looping /\ i > read') \/ (at' \in Replays /\ i > fetched')
      /\ at \in Looping \cup Replays \cup Over \cup {"down"}
  BY LogEvents DEF Ahead, Base, Shape
<1>2. CASE Stops \/ Resumes
  BY <1>1, <1>2 DEF Stops, Resumes
<1>3. CASE Rechecks
  BY <1>1, <1>3 DEF Rechecks, Ahead
<1>4. CASE Hears \/ ReplaysNext
  BY <1>1, <1>4 DEF Hears, ReplaysNext, Ahead
<1>5. CASE Passes \/ Skips \/ Abandons \/ Examines \/ Selects \/ (\E s \in Steps : Starts(s)) \/ Refreshes
           \/ \E w \in DOMAIN worker : Toils(w)
  BY <1>1, <1>5 DEF Passes, Skips, Abandons, Examines, Selects, Starts, Refreshes, Toils, Ahead
<1> QED BY <1>2, <1>3, <1>4, <1>5 DEF Moved

LEMMA AnsweredKept ==
  ASSUME Base, Moved, Heard, NEW w \in DOMAIN worker, Reported(w), Answered(w)
  PROVE  Answered(w)'
<1> USE DEF Looping, Replays, Over
<1>1. /\ read \in 0 .. Len(log) /\ fetched \in 0 .. Len(log) /\ Len(log) \in Nat
      /\ at \in Looping \cup Replays \cup Over \cup {"down"}
      /\ w.attempt < Reports(log, w.step, Len(log))
  BY LogEvents DEF Base, Shape, Reported
<1>2. \A n \in 0 .. Len(log) : Reports(log', w.step, n) = Reports(log, w.step, n)
  BY CountsGrow
<1>3. Len(log) \in 0 .. Len(log)
  BY <1>1
<1>4. CASE Stops
  BY <1>4 DEF Stops, Answered
<1>5. CASE Passes
  BY <1>1, <1>2, <1>3, <1>5, SamePlan DEF Passes, Answered
<1>6. CASE Hears
  BY <1>1, <1>2, <1>6 DEF Hears, Answered
<1>7. CASE Skips \/ Abandons
  BY <1>1, <1>2, <1>7 DEF Skips, Abandons, Answered
<1>8. CASE Examines \/ Selects \/ \E s \in Steps : Starts(s)
  BY <1>8 DEF Examines, Selects, Starts, Answered
<1>9. CASE Resumes
  BY <1>1, <1>2, <1>3, <1>9 DEF Resumes, Answered
<1>10. CASE Refreshes \/ ReplaysNext
  BY <1>1, <1>2, <1>10 DEF Refreshes, ReplaysNext, Answered
<1>11. CASE Rechecks
  BY <1>11 DEF Rechecks, Answered
<1>12. CASE \E v \in DOMAIN worker : Toils(v)
  BY <1>1, <1>2, <1>12, SamePlan DEF Toils, Answered
<1> QED BY <1>4, <1>5, <1>6, <1>7, <1>8, <1>9, <1>10, <1>11, <1>12 DEF Moved

\* A worker that is launched has nothing behind it that was reported for its attempt.
LEMMA LaunchedLast ==
  ASSUME Base, Moved, Heard, Orderly, ~ doubtful', NEW s \in Steps, s \notin crossed',
         Starts(s) \/ (Rechecks /\ s \in Relaunched)
  PROVE  /\ Current(s) = Answer(s) /\ log' = log
         /\ \/ Current(s) \notin DOMAIN worker \/ worker[Current(s)] = "broken"
            \/ \A i \in fetched + 1 .. Len(log) : ~ (log[i][1] = "init" /\ log[i][2] = s)
<1> USE DEF Looping, Replays
<1>1. at \in Looping \cup Replays /\ s \notin crossed
  BY CrossedGrows DEF Starts, Rechecks
<1>2. /\ Current(s).step = s /\ Current(s).attempt = attempts[s] /\ attempts[s] \in Nat
      /\ attempts[s] <= Reports(log, s, Len(log)) /\ Reports(log, s, Len(log)) \in Nat
      /\ s \notin success \cup failed => Reports(log, s, read) = attempts[s]
  BY <1>1, CurrentAttempt
<1>3. CASE Current(s) \notin DOMAIN worker
  <2>1. ~ (attempts[s] < Reports(log, s, Len(log)))
    BY <1>1, <1>2, <1>3 DEF Orderly, Current
  <2> QED BY <1>2, <1>3, <2>1 DEF Answer, Current, Starts, Rechecks
<1>4. CASE Current(s) \in DOMAIN worker /\ Is(s, "failed")
  <2>1. Rechecks /\ s \in inFlight
    BY <1>4 DEF Starts, Relaunched
  <2>2. ~ Unread(s) /\ read = fetched /\ log' = log
    BY <1>4, <2>1 DEF Rechecks, CrossedOf, Starts
  <2> QED BY <1>1, <2>1, <2>2, NothingUnread
<1>5. CASE Current(s) \in DOMAIN worker /\ ~ Is(s, "failed")
  <2>1. Rechecks /\ s \in inFlight /\ worker[Current(s)] = "broken"
    BY <1>5 DEF Starts, Relaunched, Unhealthy, Is
  <2>2. s \notin success \cup failed
    BY <2>1 DEF Base, PlanInv, Apart, Terminal, EndedWell, EndedBadly
  <2>3. at \in Replays /\ read = fetched /\ log' = log
    BY <2>1 DEF Rechecks
  <2>4. ~ Reported(Current(s))
    BY <1>1, <1>2, <1>5, <2>1, <2>2, <2>3 DEF Orderly, Answered
  <2> QED BY <1>2, <2>1, <2>3, <2>4 DEF Reported, Answer, Current
<1> QED BY <1>3, <1>4, <1>5

LEMMA OrderlyKept ==
  ASSUME Base, Moved, Heard, Staffed, Orderly, ~ doubtful'
  PROVE  Orderly'
<1> USE DEF Looping, Replays
<1>1. /\ Len(log) \in Nat /\ Len(log') \in Nat /\ Len(log) <= Len(log')
      /\ \A i \in 1 .. Len(log) : log'[i] = log[i]
      /\ log' \in Seq(Events)
  BY CountsGrow
<1>2. /\ DOMAIN worker \subseteq [step : Steps, attempt : Nat] /\ DOMAIN worker \subseteq DOMAIN worker'
      /\ worker \in [DOMAIN worker -> {"running", "reported", "broken", "failed"}]
      /\ crossed \subseteq crossed'
  BY WorkerMoves, CrossedGrows DEF Base, Shape
<1>3. \A s : /\ Reports(log, s, Len(log)) \in Nat /\ Reports(log', s, Len(log')) \in Nat
             /\ Reports(log, s, Len(log)) <= Reports(log', s, Len(log'))
  BY <1>1, CountsGrow, ReportsSplit
<1>4. ASSUME NEW s \in Steps \ crossed', NEW j \in Nat, j < Reports(log', s, Len(log'))
      PROVE  [step |-> s, attempt |-> j] \in DOMAIN worker'
  <2>1. CASE j < Reports(log, s, Len(log))
    BY <1>2, <2>1 DEF Orderly
  <2>2. CASE ~ (j < Reports(log, s, Len(log)))
    <3>1. Reports(log', s, Len(log')) = Reports(log, s, Len(log)) + 1 /\ Answer(s) \in DOMAIN worker
      BY <1>3, <1>4, <2>2, Reporters
    <3>2. j = Reports(log, s, Len(log))
      BY <1>3, <1>4, <2>2, <3>1
    <3> QED BY <1>2, <3>1, <3>2 DEF Answer
  <2> QED BY <2>1, <2>2
<1>5. ASSUME NEW w \in DOMAIN worker, worker[w] = "running", w.attempt = Reports(log, w.step, Len(log))
      PROVE  w = Answer(w.step)
  BY <1>2, <1>5 DEF Answer
<1>6. ASSUME NEW w \in DOMAIN worker', w.step \notin crossed', worker'[w] = "running"
      PROVE  w.attempt = Reports(log', w.step, Len(log'))
  <2>1. CASE w \in DOMAIN worker /\ worker'[w] = worker[w]
    <3>1. w.attempt = Reports(log, w.step, Len(log)) /\ w = Answer(w.step)
      BY <1>2, <1>5, <1>6, <2>1 DEF Orderly
    <3>2. CASE Reports(log', w.step, Len(log')) = Reports(log, w.step, Len(log))
      BY <3>1, <3>2
    <3>3. CASE Reports(log', w.step, Len(log')) # Reports(log, w.step, Len(log))
      BY <1>6, <2>1, <3>1, <3>3, Reporters DEF Finished
    <3> QED BY <3>2, <3>3
  <2>2. CASE w.step \in Steps /\ w = Current(w.step) /\ (Starts(w.step) \/ (Rechecks /\ w.step \in Relaunched))
    <3>1. w = Answer(w.step) /\ log' = log
      BY <1>6, <2>2, LaunchedLast
    <3> QED BY <3>1 DEF Answer
  <2> QED BY <1>6, <2>1, <2>2, WorkerMoves
<1>7. ASSUME NEW w \in DOMAIN worker', w.step \notin crossed', worker'[w] = "broken",
             w.attempt < Reports(log', w.step, Len(log'))
      PROVE  Answered(w)'
  <2>1. CASE w \in DOMAIN worker /\ worker[w] = "running" /\ log' = log
    <3>1. w.attempt = Reports(log, w.step, Len(log))
      BY <1>2, <1>7, <2>1 DEF Orderly
    <3> QED BY <1>3, <1>7, <2>1, <3>1
  <2>2. CASE w \in DOMAIN worker /\ worker'[w] = worker[w]
    <3>1. CASE Reported(w)
      <4>1. Answered(w)
        BY <1>2, <1>7, <2>2, <3>1 DEF Orderly, Answered
      <4> QED BY <2>2, <3>1, <4>1, AnsweredKept
    <3>2. CASE ~ Reported(w)
      <4>1. /\ Reports(log', w.step, Len(log')) = Reports(log, w.step, Len(log)) + 1
            /\ w = Answer(w.step)
        <5>1. Reports(log', w.step, Len(log')) # Reports(log, w.step, Len(log))
          BY <1>7, <3>2 DEF Reported
        <5>2. Reports(log', w.step, Len(log')) = Reports(log, w.step, Len(log)) + 1
          BY <1>7, <5>1, Reporters
        <5>3. w.attempt = Reports(log, w.step, Len(log))
          BY <1>2, <1>3, <1>7, <2>2, <3>2, <5>2 DEF Reported
        <5> QED BY <1>2, <2>2, <5>2, <5>3 DEF Answer
      <4>2. Examines
        BY <1>7, <2>2, <4>1, <1>3, Reporters DEF Finished
      <4> QED BY <4>2 DEF Examines, Answered
    <3> QED BY <3>1, <3>2
  <2> QED BY <1>7, <2>1, <2>2, WorkerMoves
<1>8. ASSUME NEW i \in 1 .. Len(log), log[i][1] = "init", log[i][2] \notin crossed', Ahead(i)'
      PROVE  /\ Ahead(i) /\ Answer(log[i][2])' = Answer(log[i][2])
             /\ Answer(log[i][2]) \in DOMAIN worker
             /\ worker[Answer(log[i][2])] \in Finished /\ worker'[Answer(log[i][2])] \in Finished
  <2> DEFINE s == log[i][2]
  <2>1. Ahead(i)
    BY <1>8, AheadBefore
  <2>2. Answer(s) \in DOMAIN worker /\ worker[Answer(s)] \in Finished
    BY <1>2, <1>8, <2>1 DEF Orderly
  <2>3. s \in Steps
    BY LogEvents, EventShape DEF Base, Shape
  <2>4. ASSUME Reports(log', s, Len(log')) # Reports(log, s, Len(log)) PROVE FALSE
    <3>1. Hears /\ NextEvent[1] = "init" /\ NextEvent[2] = s
      <4>1. i \in read + 1 .. Len(log) \/ ~ Examines
        BY <1>1, <1>8, <2>1 DEF Ahead, Examines, Base, Shape
      <4> QED BY <1>8, <2>2, <2>4, <4>1, Reporters DEF Finished
    <3>2. read + 1 \in 1 .. Len(log) /\ log[read + 1][1] = "init" /\ log[read + 1][2] = s /\ Ahead(read + 1)
      <4>1. read < fetched /\ at \in Looping /\ read \in 0 .. Len(log)
        BY <3>1 DEF Hears, Base, Shape
      <4> QED BY <3>1, <4>1, NextInLog DEF NextEvent, Ahead
    <3>3. i = read + 1
      BY <1>2, <1>8, <2>1, <3>2 DEF Orderly
    <3> QED BY <1>8, <3>1, <3>2, <3>3 DEF Hears, Ahead
  <2>5. Answer(s)' = Answer(s)
    <3>1. log'[i] = log[i]
      BY <1>1
    <3> QED BY <2>4, <3>1 DEF Answer
  <2>6. worker'[Answer(s)] \in Finished
    <3>1. Answer(s) \in DOMAIN worker'
      BY <1>2, <2>2
    <3>2. Answer(s).step = s
      BY DEF Answer
    <3>3. ASSUME Answer(s) = Current(s), Starts(s) \/ (Rechecks /\ s \in Relaunched) PROVE FALSE
      <4>1. \A k \in fetched + 1 .. Len(log) : ~ (log[k][1] = "init" /\ log[k][2] = s)
        BY <1>8, <2>2, <2>3, <3>3, LaunchedLast DEF Finished
      <4>2. ~ Starts(s)
        BY <2>2, <3>3, <4>1 DEF Starts
      <4>3. i \in fetched + 1 .. Len(log)
        BY <1>1, <1>8, <2>1, <3>3, <4>2 DEF Rechecks, Ahead, Base, Shape
      <4> QED BY <1>8, <4>1, <4>3
    <3> QED BY <2>2, <3>1, <3>2, <3>3, WorkerMoves DEF Finished
  <2> QED BY <2>1, <2>2, <2>5, <2>6
<1>9. ASSUME NEW i \in New, log'[i][1] = "init", log'[i][2] \notin crossed'
      PROVE  /\ Answer(log'[i][2]) \in DOMAIN worker /\ worker[Answer(log'[i][2])] = "running"
             /\ worker'[Answer(log'[i][2])] = "reported"
             /\ Reports(log', log'[i][2], Len(log')) = Reports(log, log'[i][2], Len(log))
             /\ \A j \in New : log'[j][2] = log'[i][2] => i = j
  <2>1. PICK w \in DOMAIN worker : /\ w.step = log'[i][2] /\ worker[w] = "running" /\ worker'[w] = "reported"
                                   /\ Reports(log', w.step, Len(log')) = Reports(log, w.step, Len(log))
    BY <1>9, NewInits
  <2>2. w = Answer(w.step)
    BY <1>2, <1>5, <1>9, <2>1 DEF Orderly
  <2> QED BY <1>9, <2>1, <2>2, NewInits
<1>10. ASSUME NEW i \in 1 .. Len(log'), log'[i][1] = "init", log'[i][2] \notin crossed', Ahead(i)'
       PROVE  /\ Answer(log[i][2])' \in DOMAIN worker' /\ worker'[Answer(log[i][2])'] \in Finished
              /\ \A j \in 1 .. Len(log') : log'[j][1] = "init" /\ Ahead(j)' /\ log'[j][2] = log'[i][2] => i = j
  <2>1. \A j \in 1 .. Len(log') : j \in 1 .. Len(log) \/ j \in New
    BY <1>1 DEF New
  <2>2. CASE i \in 1 .. Len(log)
    <3>1. /\ Ahead(i) /\ Answer(log[i][2])' = Answer(log[i][2]) /\ log'[i] = log[i]
          /\ Answer(log[i][2]) \in DOMAIN worker
          /\ worker[Answer(log[i][2])] \in Finished /\ worker'[Answer(log[i][2])] \in Finished
      BY <1>1, <1>8, <1>10, <2>2
    <3>2. ASSUME NEW j \in 1 .. Len(log), log'[j][1] = "init", Ahead(j)', log'[j][2] = log'[i][2] PROVE i = j
      <4>1. Ahead(j) /\ log'[j] = log[j]
        BY <1>1, <3>2, AheadBefore
      <4> QED BY <1>2, <1>10, <2>2, <3>1, <3>2, <4>1 DEF Orderly
    <3>3. ASSUME NEW j \in New, log'[j][1] = "init", log'[j][2] = log'[i][2] PROVE FALSE
      BY <1>9, <1>10, <3>1, <3>3 DEF Finished
    <3> QED BY <1>2, <2>1, <3>1, <3>2, <3>3
  <2>3. CASE i \in New
    <3>1. /\ Answer(log'[i][2]) \in DOMAIN worker /\ worker[Answer(log'[i][2])] = "running"
          /\ worker'[Answer(log'[i][2])] = "reported"
          /\ Reports(log', log'[i][2], Len(log')) = Reports(log, log'[i][2], Len(log))
          /\ \A j \in New : log'[j][2] = log'[i][2] => i = j
      BY <1>9, <1>10, <2>3
    <3>2. Answer(log[i][2])' = Answer(log'[i][2])
      BY <3>1 DEF Answer
    <3>3. ASSUME NEW j \in 1 .. Len(log), log'[j][1] = "init", Ahead(j)', log'[j][2] = log'[i][2] PROVE FALSE
      <4>1. log'[j] = log[j]
        BY <1>1
      <4> QED BY <1>8, <1>10, <3>1, <3>3, <4>1 DEF Finished
    <3> QED BY <1>2, <2>1, <3>1, <3>2, <3>3 DEF Finished
  <2> QED BY <2>1, <2>2, <2>3
<1> QED BY <1>4, <1>6, <1>7, <1>10 DEF Orderly, Answered, Reported

LEMMA NewOutputs ==
  ASSUME Base, Moved, NEW i \in New, log'[i][1] = "output"
  PROVE  /\ \E w \in DOMAIN worker : Toils(w) /\ w.step = log'[i][2] /\ worker[w] = "running"
         /\ \A j \in New : log'[j][1] = "output"
<1>1. log \in Seq(Events)
  BY DEF Base, Shape
<1>2. log' # log
  BY <1>1, LogEvents DEF New
<1>3. ASSUME NEW S, NEW K, Writes(S, K) PROVE "output" \in K /\ log'[i][2] \in S
  BY <1>3 DEF Writes
<1>4. ASSUME Hears PROVE FALSE
  <2>1. PICK k \in {"retry", "failure"} : Writes({NextEvent[2]}, {k})
    BY <1>2, <1>4 DEF Hears
  <2> QED BY <1>3, <2>1
<1>5. ~ Skips /\ ~ Examines
  BY <1>3 DEF Skips, Examines
<1>6. PICK w \in DOMAIN worker : Toils(w)
  BY <1>2, <1>4, <1>5
     DEF Moved, Stops, Passes, Abandons, Selects, Starts, Resumes, Refreshes, ReplaysNext, Rechecks
<1>7. ASSUME NEW k \in Endings \cup {"init"}, Writes({w.step}, {k}) PROVE FALSE
  BY <1>3, <1>7 DEF Endings
<1>8. Writes({w.step}, {"output"})
  BY <1>2, <1>6, <1>7 DEF Toils
<1>9. \A j \in New : log'[j][1] = "output"
  BY <1>8 DEF Writes
<1>10. w.step = log'[i][2]
  BY <1>3, <1>8
<1>11. worker[w] = "running"
  BY <1>2, <1>6 DEF Toils
<1> QED BY <1>6, <1>9, <1>10, <1>11

\* What may still report a step has not been preceded by its end.
LEMMA NoneYet ==
  ASSUME Base, Behind, Orderly, NEW s, Answer(s) \in DOMAIN worker
  PROVE  /\ Finals(log, s, Len(log)) = 0
         /\ \A i \in 1 .. Len(log) : ~ (log[i][1] \in {"success", "failure"} /\ log[i][2] = s)
<1>1. Len(log) \in Nat
  BY LogEvents DEF Base, Shape
<1>2. Reports(log, s, Len(log)) <= Retries(log, s, Len(log))
  BY DEF Behind, Answer
<1>3. Finals(log, s, Len(log)) = 0
  BY <1>1, <1>2, ReportsSplit
<1>4. ASSUME NEW i \in 1 .. Len(log), log[i][1] \in {"success", "failure"}, log[i][2] = s PROVE FALSE
  <2>1. i \in 0 + 1 .. Len(log)
    BY <1>1
  <2>2. Finals(log, s, 0) < Finals(log, s, Len(log)) /\ Finals(log, s, 0) = 0
    BY <1>1, <1>4, <2>1, CountGrows, CountNone DEF Finals
  <2> QED BY <1>3, <2>2
<1> QED BY <1>3, <1>4

LEMMA OnceKept ==
  ASSUME Base, Moved, Heard, Behind, Staffed, Orderly, Once
  PROVE  Once'
<1>1. /\ Len(log) \in Nat /\ Len(log') \in Nat /\ Len(log) <= Len(log')
      /\ \A i \in 1 .. Len(log) : log'[i] = log[i]
      /\ \A i \in 1 .. Len(log') : i \in 1 .. Len(log) \/ (i \in New /\ i > Len(log))
  <2>1. log \in Seq(Events) /\ \E S, K : Writes(S, K)
    BY LogMoves DEF Base, Shape
  <2> QED BY <2>1, WrittenGrows
<1>2. ASSUME NEW s \in Steps \ crossed' PROVE Finals(log', s, Len(log')) <= 1
  <2>1. CASE Finals(log', s, Len(log')) = Finals(log, s, Len(log))
    BY <1>2, <2>1, CrossedGrows DEF Once
  <2>2. CASE Finals(log', s, Len(log')) # Finals(log, s, Len(log))
    <3>1. Finals(log', s, Len(log')) <= Finals(log, s, Len(log)) + 1 /\ Answer(s) \in DOMAIN worker
      BY <2>2, Reporters
    <3>2. Finals(log, s, Len(log)) = 0 /\ Finals(log', s, Len(log')) \in Nat
      BY <1>1, <3>1, NoneYet, ReportsSplit
    <3> QED BY <3>1, <3>2
  <2> QED BY <2>1, <2>2
<1>3. ASSUME NEW i \in 1 .. Len(log'), NEW j \in 1 .. Len(log'), log'[i][1] \in {"success", "failure"},
             log'[j][1] = "output", log'[i][2] = log'[j][2], log'[i][2] \notin crossed'
      PROVE  j < i
  <2>1. CASE j \in New
    <3>1. PICK w \in DOMAIN worker : Toils(w) /\ w.step = log'[j][2] /\ worker[w] = "running"
      BY <1>3, <2>1, NewOutputs
    <3>2. w = Answer(w.step)
      BY <1>3, <3>1, CrossedGrows DEF Orderly, Answer, Base, Shape
    <3>3. i \notin 1 .. Len(log)
      BY <1>1, <1>3, <3>1, <3>2, NoneYet
    <3>4. i \notin New
      BY <1>3, <2>1, NewOutputs
    <3> QED BY <1>1, <3>3, <3>4
  <2>2. CASE j \in 1 .. Len(log) /\ i \in 1 .. Len(log)
    BY <1>1, <1>3, <2>2, CrossedGrows DEF Once
  <2>3. CASE j \in 1 .. Len(log) /\ i \in New /\ i > Len(log)
    BY <1>1, <2>3
  <2> QED BY <1>1, <2>1, <2>2, <2>3
<1> QED BY <1>2, <1>3 DEF Once

LEMMA FirstRunKept ==
  ASSUME Base, Moved, Heard, FirstRun, ~ doubtful => Orderly
  PROVE  FirstRun'
<1> USE DEF Looping, Replays, Over
<1>1. CASE resumed'
  BY <1>1 DEF FirstRun
<1> SUFFICES ASSUME ~ resumed'
             PROVE  /\ ~ doubtful' /\ (at' = "raised" => crossed' # {})
                    /\ at' \in Looping => \A w \in DOMAIN worker' :
                         /\ w.attempt <= attempts'[w.step]
                         /\ w.attempt = attempts'[w.step] => w.step \in running' \cup success' \cup failed'
  BY <1>1 DEF FirstRun
<1> DEFINE First(w) == /\ w.attempt <= attempts[w.step]
                       /\ w.attempt = attempts[w.step] => w.step \in running \cup success \cup failed
           Goal == /\ ~ doubtful' /\ (at' = "raised" => crossed' # {})
                   /\ at' \in Looping => \A w \in DOMAIN worker' :
                        /\ w.attempt <= attempts'[w.step]
                        /\ w.attempt = attempts'[w.step] => w.step \in running' \cup success' \cup failed'
<1>2. ~ resumed
  BY DEF Moved, Stops, Passes, Hears, Skips, Abandons, Examines, Selects, Starts, Resumes,
         Refreshes, ReplaysNext, Rechecks, Toils
<1>3. /\ ~ doubtful /\ (at = "raised" => crossed # {}) /\ Orderly /\ at \notin Replays
      /\ at \in Looping => \A w \in DOMAIN worker : First(w)
  BY <1>2 DEF FirstRun, Base, Cursors
<1>4. /\ attempts \in [Steps -> Nat] /\ DOMAIN worker \subseteq [step : Steps, attempt : Nat]
      /\ at \in Looping => running \cup toStart = inFlight /\ running \cap toStart = {}
      /\ inFlight \cap (success \cup failed) = {} /\ read \in 0 .. Len(log) /\ Len(log) \in Nat
  BY LogEvents DEF Base, Shape, PlanInv, OtherTypes, Cursors, Apart, Terminal, EndedWell, EndedBadly
<1>5. ASSUME Stops PROVE Goal
  <2>1. ASSUME at = "handle", read < fetched, Refused(NextEvent), crossed = {} PROVE FALSE
    <3> DEFINE e == NextEvent
               s == NextEvent[2]
               j == Reports(log, s, read)
    <3>1. e \in Events /\ read + 1 \in 1 .. Len(log) /\ e = log[read + 1]
      BY <2>1, NextInLog DEF NextEvent
    <3>2. e[1] \in Endings /\ s \in Steps /\ s \notin inFlight
      BY <2>1, <3>1, EventShape DEF Refused, Of
    <3>3. /\ Reports(log, s, read + 1) = j + 1 /\ j \in Nat
          /\ Reports(log, s, read + 1) <= Reports(log, s, Len(log)) /\ Reports(log, s, Len(log)) \in Nat
      <4>1. read \in Nat /\ read + 1 \in Nat /\ read + 1 <= Len(log)
        BY <1>4, <3>1
      <4>2. Count(log, Endings, s, read + 1) = Count(log, Endings, s, read) + 1
        BY <3>1, <3>2, <4>1, CountNext
      <4>3. /\ Count(log, Endings, s, read + 1) <= Count(log, Endings, s, Len(log))
            /\ Count(log, Endings, s, read) \in Nat /\ Count(log, Endings, s, Len(log)) \in Nat
        BY <1>4, <4>1, CountGrows, CountType
      <4> QED BY <4>2, <4>3 DEF Reports
    <3> HIDE DEF j
    <3>4. [step |-> s, attempt |-> j] \in DOMAIN worker
      <4>1. \A t \in Steps \ crossed, i \in Nat :
              i < Reports(log, t, Len(log)) => [step |-> t, attempt |-> i] \in DOMAIN worker
        BY <1>3 DEF Orderly
      <4>2. s \in Steps \ crossed
        BY <2>1, <3>2
      <4> HIDE DEF s
      <4> QED BY <3>3, <4>1, <4>2
    <3>5. /\ attempts[s] \in Nat /\ attempts[s] <= j
          /\ s \in success \cup failed => j = attempts[s] + 1
      BY <2>1, <3>2, CurrentAttempt DEF j
    <3>6. j <= attempts[s] /\ (j = attempts[s] => s \in running \cup success \cup failed)
      BY <1>3, <2>1, <3>4
    <3>7. s \in running
      BY <3>3, <3>5, <3>6
    <3> QED BY <1>4, <2>1, <3>2, <3>7
  <2> QED BY <1>2, <1>3, <1>5, <2>1 DEF Stops
<1>6. ASSUME Passes \/ Examines \/ \E w \in DOMAIN worker : Toils(w) PROVE Goal
  <2>1. /\ UNCHANGED vars /\ running' = running /\ DOMAIN worker' = DOMAIN worker /\ doubtful' = doubtful
        /\ (at' = "raised" => at = "raised" /\ crossed' = crossed) /\ (at' \in Looping => at \in Looping)
    BY <1>3, <1>6 DEF Passes, Examines, Toils
  <2>2. attempts' = attempts /\ success' = success /\ failed' = failed
    BY <2>1, SamePlan
  <2> QED BY <1>3, <2>1, <2>2
<1>7. ASSUME Skips \/ Abandons \/ Selects PROVE Goal
  BY <1>3, <1>7 DEF Skips, Abandons, Selects, Vends
<1>8. ASSUME Hears PROVE Goal
  <2> DEFINE e == NextEvent
  <2>1. /\ at = "handle" /\ at' = "handle" /\ worker' = worker /\ doubtful' = doubtful
        /\ running' = IF e[1] \in Endings THEN running \ {e[2]} ELSE running
        /\ e[1] \in Endings => e[2] \in inFlight
        /\ success' = IF e[1] = "success" THEN success \cup {e[2]} ELSE success
        /\ failed' = IF e[1] = "failure" THEN failed \cup {e[2]} ELSE failed
        /\ attempts' = IF e[1] = "retry" THEN [attempts EXCEPT ![e[2]] = @ + 1] ELSE attempts
    BY <1>8 DEF Hears, Takes
  <2> HIDE DEF e
  <2>2. ASSUME NEW w \in DOMAIN worker
        PROVE  /\ w.attempt <= attempts'[w.step]
               /\ w.attempt = attempts'[w.step] => w.step \in running' \cup success' \cup failed'
    <3>1. First(w) /\ w.step \in Steps /\ w.attempt \in Nat /\ attempts[w.step] \in Nat
      BY <1>3, <1>4, <2>1
    <3>2. CASE e[1] = "retry" /\ w.step = e[2]
      <4>1. attempts'[w.step] = attempts[w.step] + 1
        BY <1>4, <2>1, <3>1, <3>2
      <4> QED BY <3>1, <4>1
    <3>3. CASE ~ (e[1] = "retry" /\ w.step = e[2])
      <4>1. attempts'[w.step] = attempts[w.step]
        BY <1>4, <2>1, <3>1, <3>3
      <4> QED BY <2>1, <3>1, <3>3, <4>1 DEF Endings
    <3> QED BY <3>2, <3>3
  <2> QED BY <1>3, <2>1, <2>2
<1>9. ASSUME NEW s \in Steps, Starts(s) PROVE Goal
  <2>1. /\ at = "start" /\ at' = "start" /\ s \in toStart /\ running' = running \cup {s}
        /\ DOMAIN worker' = DOMAIN worker \cup {Current(s)}
        /\ doubtful' = (doubtful \/ Current(s) \in DOMAIN worker)
        /\ attempts' = attempts /\ success' = success /\ failed' = failed
    BY <1>9, SamePlan DEF Starts, NewWorkers, CurrentOf
  <2>2. Current(s).step = s /\ Current(s).attempt = attempts[s]
    BY DEF Current
  <2>3. Current(s) \notin DOMAIN worker
    BY <1>3, <1>4, <2>1, <2>2
  <2>4. ASSUME NEW w \in DOMAIN worker'
        PROVE  /\ w.attempt <= attempts[w.step]
               /\ w.attempt = attempts[w.step] => w.step \in running \cup {s} \cup success \cup failed
    <3>1. CASE w \in DOMAIN worker
      BY <1>3, <2>1, <3>1
    <3>2. CASE w = Current(s)
      BY <1>4, <2>2, <3>2
    <3> QED BY <2>1, <2>4, <3>1, <3>2
  <2> QED BY <1>3, <2>1, <2>3, <2>4
<1>10. ASSUME Resumes \/ Refreshes \/ ReplaysNext \/ Rechecks PROVE Goal
  BY <1>3, <1>10 DEF Resumes, Refreshes, ReplaysNext, Rechecks
<1> QED BY <1>5, <1>6, <1>7, <1>8, <1>9, <1>10 DEF Moved

HistoryInv ==
  /\ Base /\ Heard /\ Behind /\ Staffed /\ FirstRun
  /\ ~ doubtful => Orderly /\ Once

LEMMA HistoryKept ==
  ASSUME HistoryInv, [DelegatingNext]_delegatingVars
  PROVE  HistoryInv' /\ Moved
<1>1. Base /\ Base' /\ Moved /\ Heard /\ Behind /\ Staffed /\ FirstRun
  BY BaseKept DEF HistoryInv
<1>2. Heard' /\ Behind' /\ Staffed'
  BY <1>1, HeardKept, BehindKept, StaffedKept
<1>3. FirstRun'
  BY <1>1, FirstRunKept DEF HistoryInv
<1>4. ASSUME ~ doubtful' PROVE Orderly' /\ Once'
  <2>1. ~ doubtful
    BY <1>1, <1>4 DEF Moved, Stops, Passes, Hears, Skips, Abandons, Examines, Selects, Starts, Resumes,
           Refreshes, ReplaysNext, Rechecks, Toils
  <2>2. Orderly /\ Once
    BY <2>1 DEF HistoryInv
  <2> QED BY <1>1, <1>4, <2>2, OrderlyKept, OnceKept
<1> QED BY <1>1, <1>2, <1>3, <1>4 DEF HistoryInv

LEMMA InitHistory ==
  ASSUME DelegatingInit
  PROVE  HistoryInv
<1>1. Base /\ Fresh
  BY InitBase, InitFresh DEF DelegatingInit
<1>2. /\ log = <<>> /\ Len(log) = 0 /\ read = 0 /\ running = {} /\ DOMAIN worker = {} /\ at = "check"
      /\ resumed = FALSE /\ doubtful = FALSE /\ crossed = {}
  BY EmptySeq DEF DelegatingInit
<1>3. \A s : Retries(log, s, 0) = 0 /\ Finals(log, s, 0) = 0 /\ Reports(log, s, 0) = 0
  BY CountNone DEF Retries, Finals, Reports
<1>4. Heard
  BY <1>1, <1>2, <1>3 DEF Heard, Counted, Noted, Fresh, Looping, Replays
<1>5. Behind /\ Staffed /\ FirstRun
  BY <1>2 DEF Behind, Staffed, FirstRun, Looping
<1>6. Orderly
  BY <1>2, <1>3 DEF Orderly
<1>7. Once
  BY <1>2, <1>3 DEF Once
<1> QED BY <1>1, <1>4, <1>5, <1>6, <1>7 DEF HistoryInv

LEMMA History == DelegatingSpec => []HistoryInv
<1>1. HistoryInv /\ [DelegatingNext]_delegatingVars => HistoryInv'
  BY HistoryKept
<1> QED BY InitHistory, <1>1, PTL DEF DelegatingSpec

\* The loop finds each step that ends, and has a worker or an event to come for each that it
\* waits for, after a resume, too, but for the failed resource that a resumed executor forgets.
THEOREM NoneWaitedForInVain == DelegatingSpec => []NoneIsOrphaned
<1>1. ASSUME HistoryInv PROVE NoneIsOrphaned
  <2> SUFFICES ASSUME at \in Looping PROVE NoneIsOrphaned
    BY DEF NoneIsOrphaned
  <2>1. running \cup toStart = inFlight /\ running \cap toStart = {}
    BY <1>1 DEF HistoryInv, Base, Cursors
  <2>2. ASSUME NEW s \in running
        PROVE  Is(s, "running") \/ Is(s, "broken") \/ Is(s, "failed") \/ Unread(s) \/ Forgotten(s)
    <3>1. /\ Base /\ Heard /\ s \in Steps /\ s \notin success \cup failed
          /\ read \in 0 .. Len(log) /\ Len(log) \in Nat /\ log \in Seq(Events)
      BY <1>1, <2>1, LogEvents
         DEF HistoryInv, Base, Shape, PlanInv, Apart, Terminal, EndedWell, EndedBadly
    <3>2. Current(s) \in DOMAIN worker /\ worker \in [DOMAIN worker -> {"running", "reported", "broken", "failed"}]
      BY <1>1, <2>2 DEF HistoryInv, Staffed, Base, Shape
    <3>3. SUFFICES ASSUME worker[Current(s)] = "reported" PROVE Unread(s) \/ Forgotten(s)
      BY <3>2 DEF Is
    <3>4. /\ Current(s).step = s /\ Current(s).attempt = attempts[s]
          /\ Reports(log, s, read) = attempts[s]
      BY <3>1, CurrentAttempt
    <3>5. CASE attempts[s] < Reports(log, s, Len(log))
      <4>1. \E i \in read + 1 .. Len(log) : log[i][1] \in Endings /\ log[i][2] = s
        BY <3>1, <3>4, <3>5, CountGrows DEF Reports
      <4>2. PICK i \in read + 1 .. Len(log) : log[i][1] \in Endings /\ log[i][2] = s
        BY <4>1
      <4>3. log[i] \in Events
        BY <3>1, LogEvents
      <4>4. log[i] \in Ends(s)
        BY <4>2, <4>3, EventShape
      <4> QED BY <4>2, <4>4 DEF Unread
    <3>6. CASE ~ (attempts[s] < Reports(log, s, Len(log)))
      <4>1. PICK i \in 1 .. Len(log) : /\ log[i][1] = "init" /\ log[i][2] = s
                                       /\ at \in Looping /\ ~ resumed => i > read
        BY <1>1, <3>2, <3>3, <3>4, <3>6 DEF HistoryInv, Behind, Finished
      <4>2. log[i] = <<"init", s>>
        <5>1. log[i] \in Events
          BY <3>1, LogEvents
        <5>2. \A t, k : k # "retry" /\ k # "output" =>
                (log[i] = <<k, t>> <=> log[i][1] = k /\ log[i][2] = t)
          BY <5>1, EventShape
        <5> QED BY <4>1, <5>2
      <4>3. CASE resumed
        <5>1. <<"init", s>> \in ToSet(log)
          BY <3>1, <4>2, LogEvents DEF ToSet
        <5> QED BY <3>2, <3>3, <4>3, <5>1 DEF Forgotten, Is
      <4>4. CASE ~ resumed
        <5>1. i \in read + 1 .. Len(log)
          BY <1>1, <2>1, <3>1, <4>1, <4>4
        <5>2. log[i] \in Ends(s) \cup {<<"init", s>>}
          BY <4>2
        <5> QED BY <5>1, <5>2 DEF Unread
      <4> QED BY <4>3, <4>4
    <3> QED BY <3>5, <3>6
  <2> QED BY <2>1, <2>2 DEF NoneIsOrphaned
<1> QED BY <1>1, History, PTL

\* However reports, exits, health checks, deaths and replays interleave, a step ends once, unless a
\* check has failed or relaunched it while the end that its worker had reported was still unread, or
\* the loop of a resumed executor has launched one of the workers again; and without either no event
\* of a run that was not resumed comes unexpected.
THEOREM StepsEndOnce == DelegatingSpec => []EndsOnce
<1>1. ASSUME HistoryInv PROVE EndsOnce
  <2>1. log \in Seq(Events) /\ resumed \in BOOLEAN
    BY <1>1 DEF HistoryInv, Base, Shape
  <2>2. (at = "raised" => resumed \/ crossed # {}) /\ (doubtful => resumed)
    BY <1>1 DEF HistoryInv, FirstRun
  <2>3. ASSUME ~ doubtful, NEW s \in Steps \ crossed
        PROVE  TimesEnded(s) <= 1
    <3>1. {i \in DOMAIN log : log[i] \in {<<"success", s>>, <<"failure", s>>}}
            = Marks(log, {"success", "failure"}, s, Len(log))
      <4>1. \A i \in 1 .. Len(log) :
              log[i] \in {<<"success", s>>, <<"failure", s>>} <=>
                log[i][1] \in {"success", "failure"} /\ log[i][2] = s
        BY <2>1, LogEvents, EventShape
      <4>2. DOMAIN log = 1 .. Len(log)
        BY <2>1, LogEvents
      <4> QED BY <4>1, <4>2 DEF Marks
    <3>2. Finals(log, s, Len(log)) <= 1
      BY <1>1, <2>3 DEF HistoryInv, Once
    <3> QED BY <3>1, <3>2 DEF Finals, Count, TimesEnded
  <2> QED BY <2>2, <2>3 DEF EndsOnce
<1> QED BY <1>1, History, PTL

LEMMA FoundedKept ==
  ASSUME HistoryInv, Moved, Founded
  PROVE  Founded'
<1> USE DEF Looping, Replays
<1>1. /\ Base /\ Heard /\ Len(log) \in Nat /\ Len(log') \in Nat /\ Len(log) <= Len(log')
      /\ \A i \in 1 .. Len(log) : log'[i] = log[i] /\ i \in 1 .. Len(log')
      /\ \A i \in 1 .. Len(log') : i \in 1 .. Len(log) \/ i \in New
      /\ read \in 0 .. Len(log)
  <2>1. Base /\ Heard /\ Moved
    BY DEF HistoryInv
  <2>2. log \in Seq(Events) /\ read \in 0 .. Len(log) /\ \E S, K : Writes(S, K)
    BY <2>1, LogMoves DEF Base, Shape
  <2>3. /\ Len(log) \in Nat /\ Len(log') \in Nat /\ Len(log) <= Len(log')
        /\ \A i \in 1 .. Len(log) : log'[i] = log[i]
        /\ \A i \in 1 .. Len(log') : i \in 1 .. Len(log) \/ (i \in New /\ i > Len(log))
    BY <2>2, WrittenGrows
  <2> QED BY <2>1, <2>2, <2>3
<1>2. LoggedWell(log) \subseteq LoggedWell(log') /\ LoggedOuts(log) \subseteq LoggedOuts(log')
  BY <1>1 DEF LoggedWell, LoggedOuts
<1>3. ASSUME NEW s \in Steps, s \in inFlight, at \in Looping \cup Replays
      PROVE  Supplied(s, LoggedWell(log), LoggedOuts(log))
  <2>1. Supplied(s, EndedWell, stepOutputs) /\ success \subseteq Steps /\ skipped \subseteq Steps /\ stepOutputs \subseteq Handles
    BY <1>1, <1>3 DEF Base, PlanInv, StepSets, OtherTypes
  <2>2. Noted /\ \A t \in skipped : \E i \in 1 .. Len(log) : log[i][1] = "skip" /\ log[i][2] = t
    BY <1>1, <1>3 DEF Heard
  <2>3. \A i \in 1 .. read : i \in 1 .. Len(log)
    BY <1>1
  <2>4. EndedWell \subseteq LoggedWell(log)
    BY <2>1, <2>2, <2>3 DEF EndedWell, LoggedWell, Noted
  <2>5. stepOutputs \subseteq LoggedOuts(log)
    BY <2>1, <2>2, <2>3 DEF LoggedOuts, Noted
  <2> QED BY <2>1, <2>4, <2>5, SuppliedMore
<1>4. ASSUME NEW w \in DOMAIN worker' PROVE Supplied(w.step, LoggedWell(log'), LoggedOuts(log'))
  <2>1. CASE w \in DOMAIN worker
    <3>1. Supplied(w.step, LoggedWell(log), LoggedOuts(log))
      BY <2>1 DEF Founded
    <3> QED BY <1>2, <3>1, SuppliedMore
  <2>2. CASE w \notin DOMAIN worker
    <3>1. w.step \in Steps /\ (Starts(w.step) \/ (Rechecks /\ w.step \in Relaunched))
      BY <1>1, <2>2, WorkerMoves
    <3>2. w.step \in inFlight /\ at \in Looping \cup Replays
      BY <1>1, <3>1 DEF Starts, Rechecks, Relaunched, Base, Cursors
    <3> QED BY <1>2, <1>3, <3>1, <3>2, SuppliedMore
  <2> QED BY <2>1, <2>2
<1>5. ASSUME NEW i \in 1 .. Len(log'), log'[i][1] = "output"
      PROVE  \E w \in DOMAIN worker' : w.step = log'[i][2]
  <2>1. DOMAIN worker \subseteq DOMAIN worker'
    BY <1>1, WorkerMoves
  <2>2. CASE i \in 1 .. Len(log)
    <3>1. \E w \in DOMAIN worker : w.step = log[i][2]
      BY <1>1, <1>5, <2>2 DEF Founded
    <3> QED BY <1>1, <2>1, <2>2, <3>1
  <2>3. CASE i \in New
    BY <1>1, <1>5, <2>1, <2>3, NewOutputs
  <2> QED BY <1>1, <2>2, <2>3
<1> QED BY <1>4, <1>5 DEF Founded

\* The executor decides on the plan with all that its workers were launched for before it.
LEMMA NotDropped ==
  ASSUME HistoryInv, ~ doubtful, crossed = {}, Founded, at \in Looping \/ (at \in Replays /\ NoSkips),
         \A w \in DOMAIN worker : w.step \notin Dropped, NEW v \in DOMAIN worker
  PROVE  v.step \notin ToSkip \cup ToAbandon
<1> USE DEF Looping, Replays
<1> DEFINE s == v.step
<1>1. /\ Base /\ Heard /\ Behind /\ Orderly /\ Once /\ PlanInv /\ Noted /\ Counted
      /\ log \in Seq(Events) /\ read \in 0 .. Len(log) /\ Len(log) \in Nat
  BY LogEvents DEF HistoryInv, Base, Shape, Heard
<1>2. /\ success \subseteq Steps /\ failed \subseteq Steps /\ skipped \subseteq Steps /\ abandoned \subseteq Steps
      /\ failed \cap (skipped \cup abandoned) = {} /\ skipped \cap abandoned = {}
      /\ ReadyOutputs \subseteq stepOutputs
  BY <1>1 DEF PlanInv, StepSets, Apart
<1>3. s \in Steps /\ Supplied(s, LoggedWell(log), LoggedOuts(log))
  BY <1>1 DEF Base, Shape, Founded
<1>4. ASSUME NEW h \in LoggedOuts(log), h \notin stepOutputs
      PROVE  Output[h].source \notin Terminal
  <2>1. PICK i \in 1 .. Len(log) : log[i][1] = "output" /\ log[i][3] = h
    BY <1>2, <1>4 DEF LoggedOuts
  <2>2. log[i][2] = Output[h].source
    BY <1>1, <2>1, LogEvents, EventShape
  <2>3. Output[h].source \notin skipped \cup abandoned
    BY <2>1, <2>2 DEF Founded, Dropped
  <2>4. ASSUME Output[h].source \in success \cup failed PROVE FALSE
    <3>1. PICK k \in 1 .. read : log[k][1] \in {"success", "failure"} /\ log[k][2] = Output[h].source
      BY <1>1, <2>4 DEF Noted
    <3>2. i < k
      BY <1>1, <2>1, <2>2, <3>1 DEF Once
    <3>3. i \in 1 .. read
      BY <1>1, <3>2
    <3> QED BY <1>1, <1>4, <2>1, <3>3 DEF Noted
  <2> QED BY <2>3, <2>4 DEF Terminal, EndedWell, EndedBadly
<1>5. s \notin ToSkip
  <2> SUFFICES ASSUME s \in ToSkip PROVE FALSE
    OBVIOUS
  <2>1. PICK i \in Step[s].inputs :
              /\ \E h \in Gated(i) : Output[h].source \in EndedWell /\ h \notin stepOutputs
              /\ i.fanIn => \A h \in Gated(i) : Output[h].source \in EndedWell /\ h \notin stepOutputs
    BY <1>1, Deciding
  <2>2. EndedWell \subseteq Terminal /\ EndedWell \subseteq Steps
    BY <1>2 DEF Terminal, EndedWell
  <2>3. PICK h \in Gated(i) : Output[h].source \in EndedWell /\ h \notin stepOutputs /\ h \notin Lacking(i, LoggedOuts(log))
    <3>1. CASE Lacking(i, LoggedOuts(log)) = {}
      BY <2>1, <3>1
    <3>2. CASE Lacking(i, LoggedOuts(log)) # {}
      <4>1. i.fanIn /\ Lacking(i, LoggedOuts(log)) # Gated(i)
        BY <1>3, <3>2 DEF Supplied
      <4> QED BY <2>1, <4>1 DEF Lacking
    <3> QED BY <3>1, <3>2
  <2>4. h \in LoggedOuts(log)
    BY <2>2, <2>3 DEF Lacking
  <2> QED BY <1>4, <2>2, <2>3, <2>4
<1>6. s \notin ToAbandon
  <2> SUFFICES ASSUME s \in ToAbandon PROVE FALSE
    OBVIOUS
  <2>1. PICK h \in Needs(s) : Output[h].source \in EndedBadly /\ (RequireUpstreamSuccess \/ h \notin stepOutputs)
    BY <1>1, Deciding
  <2> DEFINE t == Output[h].source
  <2>2. t \in Steps /\ t \in Terminal /\ t \in failed \cup abandoned
    BY <1>2, <2>1 DEF Terminal, EndedBadly
  <2>3. IF RequireUpstreamSuccess THEN t \in LoggedWell(log) ELSE h \in LoggedOuts(log)
    BY <1>3, <2>2 DEF Supplied
  <2>4. CASE ~ RequireUpstreamSuccess
    BY <1>4, <2>1, <2>2, <2>3, <2>4
  <2>5. CASE RequireUpstreamSuccess
    <3>1. PICK i \in 1 .. Len(log) : log[i][1] \in {"success", "skip"} /\ log[i][2] = t
      BY <2>3, <2>5 DEF LoggedWell
    <3>2. CASE log[i][1] = "skip"
      <4>1. t \in skipped
        BY <1>1, <3>1, <3>2 DEF NoSkips, Base, LogRules
      <4> QED BY <1>2, <2>2, <4>1
    <3>3. CASE log[i][1] = "success" /\ t \in failed
      <4>1. PICK k \in 1 .. read : log[k][1] = "failure" /\ log[k][2] = t
        BY <1>1, <3>3 DEF Noted
      <4>2. k \in 1 .. Len(log)
        BY <1>1, <4>1
      <4>3. /\ i \in Marks(log, {"success", "failure"}, t, Len(log))
            /\ k \in Marks(log, {"success", "failure"}, t, Len(log))
        BY <3>1, <3>3, <4>1, <4>2 DEF Marks
      <4>4. Count(log, {"success", "failure"}, t, Len(log)) <= 1
        BY <1>1, <2>2 DEF Once, Finals
      <4>5. i = k
        BY <1>1, <4>3, <4>4, CountOnce
      <4> QED BY <3>3, <4>1, <4>5
    <3>4. CASE log[i][1] = "success" /\ t \in abandoned
      <4>1. Reports(log, t, 0) < Reports(log, t, Len(log)) /\ Reports(log, t, 0) = 0
        <5>1. i \in 0 + 1 .. Len(log) /\ log[i][1] \in Endings /\ log[i][2] = t
          BY <1>1, <3>1, <3>4 DEF Endings
        <5> QED BY <1>1, <5>1, CountGrows, CountNone DEF Reports
      <4>2. [step |-> t, attempt |-> 0] \in DOMAIN worker
        BY <1>1, <2>2, <4>1 DEF Orderly
      <4>3. t \notin Dropped
        BY <4>2
      <4> QED BY <3>4, <4>3 DEF Dropped
    <3> QED BY <2>2, <3>1, <3>2, <3>3, <3>4
  <2> QED BY <2>4, <2>5
<1> QED BY <1>5, <1>6

\* What is dropped grows by what was decided, and otherwise with a new executor.
LEMMA Dropping ==
  ASSUME Base, Moved, ~ Resumes
  PROVE  Dropped' \subseteq Dropped \cup ToSkip \cup ToAbandon
<1>1. ASSUME UNCHANGED vars PROVE Dropped' = Dropped
  BY <1>1, SamePlan DEF Dropped
<1>2. CASE Stops \/ Passes \/ Examines \/ (\E s \in Steps : Starts(s)) \/ Rechecks \/ \E w \in DOMAIN worker : Toils(w)
  <2>1. UNCHANGED vars
    BY <1>2 DEF Stops, Passes, Examines, Starts, Rechecks, Toils
  <2> QED BY <1>1, <2>1
<1>3. CASE Hears \/ ReplaysNext
  BY <1>3 DEF Hears, ReplaysNext, Takes, Dropped
<1>4. CASE Selects \/ Refreshes
  BY <1>4 DEF Selects, Refreshes, Vends, Dropped
<1>5. CASE Skips
  BY <1>5 DEF Skips, Dropped, SkipVended, AbandonVended
<1>6. CASE Abandons
  BY <1>6 DEF Abandons, Dropped, SkipVended, AbandonVended
<1> QED BY <1>2, <1>3, <1>4, <1>5, <1>6 DEF Moved

LEMMA SparedKept ==
  ASSUME HistoryInv, Moved, Founded, ~ doubtful, crossed = {}, Spared
  PROVE  Spared'
<1> USE DEF Looping, Replays, Over
<1>1. Base /\ log \in Seq(Events) /\ at \in Looping \cup Replays \cup Over \cup {"down"}
  BY DEF HistoryInv, Base, Shape
<1>2. NoSkips' => NoSkips
  <2>1. PICK S, K : Writes(S, K)
    BY <1>1, LogMoves
  <2> QED BY <1>1, <2>1, WrittenGrows DEF NoSkips
<1> SUFFICES ASSUME at' \in Looping \/ (at' \in Replays /\ NoSkips'), NEW w \in DOMAIN worker'
             PROVE  w.step \notin Dropped'
  BY DEF Spared
<1>3. CASE Resumes
  <2>1. Dropped' = {}
    BY <1>3 DEF Resumes, Fresh, Dropped
  <2> QED BY <2>1
<1>4. CASE ~ Resumes
  <2>1. at \in Looping \/ (at \in Replays /\ NoSkips)
    <3>1. CASE Rechecks
      <4>1. at \in Replays /\ read = fetched /\ read \in 0 .. Len(log)
        BY <1>1, <3>1 DEF Rechecks, Base, Shape
      <4>2. NoSkips
        BY <1>1, <4>1 DEF NoSkips, Base, LogRules
      <4> QED BY <4>1, <4>2
    <3>2. CASE ~ Rechecks
      <4>1. /\ at' \in Looping => at \in Looping
            /\ at' \in Replays => at \in Replays
        BY <1>4, <3>2 DEF Moved, Stops, Passes, Hears, Skips, Abandons, Examines, Selects, Starts, Refreshes,
               ReplaysNext, Toils
      <4> QED BY <1>2, <4>1
    <3> QED BY <3>1, <3>2
  <2>2. \A v \in DOMAIN worker : v.step \notin Dropped
    BY <2>1 DEF Spared
  <2>3. Dropped' \subseteq Dropped \cup ToSkip \cup ToAbandon
    BY <1>1, <1>4, Dropping
  <2>4. CASE w \in DOMAIN worker
    BY <2>1, <2>2, <2>3, <2>4, NotDropped
  <2>5. CASE w \notin DOMAIN worker
    <3>1. w.step \in Steps /\ (Starts(w.step) \/ (Rechecks /\ w.step \in Relaunched))
      BY <1>1, <2>5, WorkerMoves
    <3>2. w.step \in inFlight /\ UNCHANGED vars
      BY <1>1, <3>1 DEF Starts, Rechecks, Relaunched, Base, Cursors
    <3>3. w.step \notin Dropped
      BY <1>1, <3>2 DEF Base, PlanInv, Apart, Undone, Terminal, EndedWell, EndedBadly, Dropped
    <3>4. Dropped' = Dropped
      BY <3>2, SamePlan DEF Dropped
    <3> QED BY <3>3, <3>4
  <2> QED BY <2>4, <2>5
<1> QED BY <1>3, <1>4

LEMMA EndsDecidedKept ==
  ASSUME HistoryInv, Moved, ~ doubtful /\ crossed = {} => Spared, EndsDecided
  PROVE  EndsDecided'
<1> USE DEF Looping, Replays, Over
<1> SUFFICES ASSUME at' = "done"
             PROVE  Terminal' = Steps /\ (doubtful' \/ crossed' # {} \/ \A w \in DOMAIN worker' : ~ Works(w)')
  BY DEF EndsDecided
<1>1. (Stops /\ at = "check" /\ Complete) \/ (at = "done" /\ (Passes \/ \E w \in DOMAIN worker : Toils(w)))
  BY DEF Moved, Stops, Passes, Hears, Skips, Abandons, Examines, Selects, Starts, Resumes, Refreshes,
         ReplaysNext, Rechecks, Toils
<1>2. UNCHANGED vars /\ doubtful' = doubtful /\ crossed' = crossed /\ DOMAIN worker' = DOMAIN worker
  BY <1>1 DEF Stops, Passes, Toils
<1>3. Terminal' = Terminal
  BY <1>2, SamePlan DEF Terminal, EndedWell, EndedBadly
<1>4. CASE Stops /\ at = "check" /\ Complete
  <2>1. Terminal = Steps /\ Base /\ Heard
    BY <1>4 DEF Complete, HistoryInv, Base, PlanInv, Apart, Undone
  <2>2. ASSUME ~ doubtful, crossed = {}, NEW w \in DOMAIN worker, worker'[w] = "running" PROVE FALSE
    <3>1. worker[w] = "running" /\ w \in [step : Steps, attempt : Nat]
      BY <1>4, <2>2 DEF Stops, HistoryInv, Base, Shape
    <3>2. Behind /\ Orderly /\ w.attempt = Reports(log, w.step, Len(log))
      BY <2>2, <3>1 DEF HistoryInv, Orderly
    <3>3. w = Answer(w.step)
      BY <3>1, <3>2 DEF Answer
    <3>4. Finals(log, w.step, Len(log)) = 0
      BY <2>1, <2>2, <3>2, <3>3, NoneYet
    <3>5. w.step \in success \cup failed
      <4>1. w.step \notin skipped \cup abandoned
        BY <1>4, <2>2 DEF Spared, Dropped
      <4> QED BY <2>1, <3>1, <4>1 DEF Terminal, EndedWell, EndedBadly
    <3>6. Finals(log, w.step, read) = 1
      BY <1>4, <2>1, <3>1, <3>5 DEF Heard, Counted
    <3>7. read \in Nat /\ Len(log) \in Nat /\ read <= Len(log)
      BY <2>1, LogEvents DEF Base, Shape
    <3> QED BY <3>4, <3>6, <3>7, CountsFit
  <2> QED BY <1>2, <1>3, <2>1, <2>2 DEF Works
<1>5. CASE at = "done" /\ (Passes \/ \E w \in DOMAIN worker : Toils(w))
  <2>1. Terminal = Steps /\ (doubtful \/ crossed # {} \/ \A w \in DOMAIN worker : worker[w] # "running")
    BY <1>5 DEF EndsDecided, Works
  <2>2. doubtful \/ crossed # {} \/ \A w \in DOMAIN worker : worker'[w] # "running"
    BY <1>5, <2>1 DEF Passes, Toils
  <2> QED BY <1>2, <1>3, <2>1, <2>2 DEF Works
<1> QED BY <1>1, <1>4, <1>5

\* When the loop ends, all steps are decided, and no worker executes, with the same exceptions: a
\* resumed executor decides on the plan as the one that has launched the workers did.
THEOREM DecidedWhenDone == DelegatingSpec => []EndsDecided
<1> DEFINE Inv == HistoryInv /\ Founded /\ (~ doubtful /\ crossed = {} => Spared) /\ EndsDecided
<1>1. DelegatingInit => Inv
  <2> SUFFICES ASSUME DelegatingInit PROVE Inv
    OBVIOUS
  <2>1. DOMAIN worker = {} /\ at = "check" /\ Len(log) = 0
    BY EmptySeq DEF DelegatingInit
  <2> QED BY <2>1, InitHistory DEF Founded, Spared, EndsDecided
<1>2. Inv /\ [DelegatingNext]_delegatingVars => Inv'
  <2> SUFFICES ASSUME Inv, [DelegatingNext]_delegatingVars PROVE Inv'
    OBVIOUS
  <2>1. HistoryInv' /\ Moved /\ Base
    BY HistoryKept DEF HistoryInv
  <2>2. ~ doubtful' => ~ doubtful
    BY <2>1 DEF Moved, Stops, Passes, Hears, Skips, Abandons, Examines, Selects, Starts, Resumes,
           Refreshes, ReplaysNext, Rechecks, Toils
  <2>3. crossed' = {} => crossed = {}
    BY <2>1, CrossedGrows
  <2> QED BY <2>1, <2>2, <2>3, FoundedKept, SparedKept, EndsDecidedKept
<1>3. Inv => EndsDecided
  OBVIOUS
<1> QED BY <1>1, <1>2, <1>3, PTL DEF DelegatingSpec
=============================================================================
