----------------------------- MODULE OrderProofs -----------------------------
(***************************************************************************)
(* What the cycle search and the three computations of an order guarantee  *)
(* for every dependency graph, repeated entries included: no answer breaks *)
(* a dependency, only cycles are refused by the search, and all answers    *)
(* are the one least order.                                                *)
(***************************************************************************)
EXTENDS TopologicalOrder, FiniteSetTheorems, SequenceTheorems, TLAPS

(* Of the common lemmas only LeastNatural is needed here, which holds      *)
(* whatever Tasks, retired Tasks and times a request has.                  *)
Lemmas == INSTANCE RequestLemmas WITH Retired <- {}, MaxTime <- 0

(***************************************************************************)
(* The first n positive naturals are n.                                    *)
(***************************************************************************)
LEMMA FirstNumbers ==
  ASSUME NEW n \in Nat
  PROVE  IsFiniteSet(1 .. n) /\ Cardinality(1 .. n) = n
BY FS_Interval

(***************************************************************************)
(* A list of n entries names at most n Tasks, and exactly n when it        *)
(* repeats none.                                                           *)
(***************************************************************************)
LEMMA DependencyCount ==
  ASSUME NEW t \in Tasks, depends \in [Tasks -> Seq(Tasks)]
  PROVE  /\ Dependencies(t) \in SUBSET Tasks
         /\ IsFiniteSet(Dependencies(t))
         /\ Len(depends[t]) \in Nat /\ Cardinality(Dependencies(t)) \in Nat
         /\ Cardinality(Dependencies(t)) <= Len(depends[t])
         /\ ~Repeats => Cardinality(Dependencies(t)) = Len(depends[t])
<1> DEFINE s == depends[t]
           n == Len(depends[t])
<1>1. s \in Seq(Tasks) /\ n \in Nat /\ DOMAIN s = 1 .. n /\ s \in [1 .. n -> Tasks]
  BY LenProperties
<1>2. s \in Surjection(1 .. n, Dependencies(t))
  BY <1>1 DEF Surjection, Dependencies
<1>3. IsFiniteSet(1 .. n) /\ Cardinality(1 .. n) = n
  BY <1>1, FirstNumbers
<1>4. /\ IsFiniteSet(Dependencies(t))
      /\ Cardinality(Dependencies(t)) <= n
      /\ (Cardinality(Dependencies(t)) = n) <=> s \in Injection(1 .. n, Dependencies(t))
  <2> HIDE DEF s, n
  <2> QED BY <1>2, <1>3, FS_Surjection
<1>5. ~Repeats => s \in Injection(1 .. n, Dependencies(t))
  BY <1>1, <1>2 DEF Repeats, Injection, IsInjective, Surjection
<1>6. Dependencies(t) \in SUBSET Tasks
  BY <1>1 DEF Dependencies
<1>7. Cardinality(Dependencies(t)) \in Nat
  BY <1>4, FS_CardinalityType
<1> QED BY <1>1, <1>4, <1>5, <1>6, <1>7

(***************************************************************************)
(* A list that passes the first checks covers every Task.                  *)
(***************************************************************************)
LEMMA ListCovers ==
  ASSUME NEW s \in Seq(Nat), ListsEveryTask(s), NEW t \in Tasks
  PROVE  \E i \in DOMAIN s : s[i] = t
<1> DEFINE n == Len(s)
           Named == {s[i] : i \in 1 .. n}
<1>1. n \in Nat /\ DOMAIN s = 1 .. n /\ s \in [1 .. n -> Named]
  BY LenProperties
<1>2. s \in Bijection(1 .. n, Named)
  BY <1>1 DEF Bijection, Injection, Surjection, IsInjective, ListsEveryTask
<1>3. IsFiniteSet(1 .. n) /\ Cardinality(1 .. n) = n
  BY <1>1, FirstNumbers
<1>4. Cardinality(Named) = n
  <2> HIDE DEF n, Named
  <2> QED BY <1>2, <1>3, FS_Bijection DEF ExistsBijection
<1>5. Named \in SUBSET Tasks /\ Cardinality(Tasks) = n
  BY <1>1 DEF ListsEveryTask
<1>6. Named = Tasks
  <2> HIDE DEF n, Named
  <2> QED BY <1>4, <1>5, TasksAssumption, FS_Subset
<1> QED BY <1>1, <1>6

(***************************************************************************)
(* Every nonempty set of Tasks has a least one.                            *)
(***************************************************************************)
LEMMA FirstExists ==
  ASSUME NEW S \in SUBSET Tasks, S # {}
  PROVE  First(S) \in S /\ \A u \in S : First(S) <= u
<1>1. \E m \in S : \A k \in S : m <= k
  BY TasksAssumption, Lemmas!LeastNatural
<1> QED BY <1>1 DEF First

-----------------------------------------------------------------------------
(***************************************************************************)
(* The planner's loop: every count is the number of listed dependencies    *)
(* not yet ordered, and the ready Tasks are those with none left.          *)
(***************************************************************************)
Listed == {order[i] : i \in DOMAIN order}

Counted ==
  \A t \in Tasks : indegree[t] + Cardinality(Dependencies(t) \cap Listed) = Len(depends[t])

DependenciesFirst ==
  \A i \in DOMAIN order : \A d \in Dependencies(order[i]) :
    \E j \in DOMAIN order : j < i /\ order[j] = d

Once == \A i, j \in DOMAIN order : order[i] = order[j] => i = j

ReadyExactly == ready = {t \in Tasks \ Listed : indegree[t] = 0}

KahnInv ==
  /\ phase \in {"validate", "rejected"} => order = <<>>
  /\ phase \notin {"validate", "rejected"} => Counted /\ DependenciesFirst /\ Once /\ ReadyExactly
  /\ AnswerHolds

LEMMA OrderFacts ==
  ASSUME TypeOK
  PROVE  /\ depends \in [Tasks -> Seq(Tasks)]
         /\ provided \in Seq(Nat)
         /\ order \in Seq(Tasks) /\ Len(order) \in Nat /\ DOMAIN order = 1 .. Len(order)
         /\ order \in Seq(Nat)
         /\ Listed \subseteq Tasks
<1>1. depends \in [Tasks -> Seq(Tasks)] /\ provided \in Seq(Nat) /\ order \in Seq(Tasks)
  BY GraphsAssumption, ProvidedAssumption DEF TypeOK
<1>2. Len(order) \in Nat /\ DOMAIN order = 1 .. Len(order) /\ order \in [1 .. Len(order) -> Tasks]
  BY <1>1, LenProperties
<1>3. order \in Seq(Nat)
  BY <1>1, SeqMonotonic, TasksAssumption
<1> QED BY <1>1, <1>2, <1>3 DEF Listed

(* What one turn of the planner's loop does. *)
LEMMA PopFacts ==
  ASSUME TypeOK, KahnInv, Pop, NEW t, t = First(ready)
  PROVE  /\ t \in Tasks /\ t \notin Listed /\ indegree[t] = 0
         /\ Dependencies(t) \subseteq Listed
         /\ order' = Append(order, t) /\ order' \in Seq(Tasks)
         /\ DOMAIN order' = 1 .. Len(order) + 1
         /\ \A i \in 1 .. Len(order) : order'[i] = order[i]
         /\ order'[Len(order) + 1] = t
         /\ Listed' = Listed \cup {t}
         /\ UNCHANGED <<depends, provided, cpu, phase>>
<1>1. Counted /\ ReadyExactly /\ ready # {} /\ order' = Append(order, t)
      /\ UNCHANGED <<depends, provided, cpu, phase>>
  BY DEF Pop, KahnInv
<1>2. t \in ready
  BY <1>1, FirstExists DEF TypeOK
<1>3. t \in Tasks /\ t \notin Listed /\ indegree[t] = 0
  BY <1>1, <1>2 DEF ReadyExactly
<1>4. Dependencies(t) \subseteq Listed
  <2> DEFINE D == Dependencies(t)
             L == D \cap Listed
  <2>1. IsFiniteSet(D) /\ Cardinality(D) \in Nat /\ Cardinality(D) <= Len(depends[t])
        /\ Len(depends[t]) \in Nat
    BY <1>3, OrderFacts, DependencyCount
  <2>2. 0 + Cardinality(L) = Len(depends[t])
    BY <1>1, <1>3 DEF Counted
  <2>3. L \in SUBSET D
    OBVIOUS
  <2> HIDE DEF D, L
  <2>4. Cardinality(L) \in Nat /\ Cardinality(L) <= Cardinality(D)
        /\ (Cardinality(D) = Cardinality(L) => D = L)
    BY <2>1, <2>3, FS_Subset, FS_CardinalityType
  <2>5. D = L
    BY <2>1, <2>2, <2>4
  <2> QED BY <2>5 DEF D, L
<1>5. /\ order' \in Seq(Tasks) /\ Len(order') = Len(order) + 1
      /\ \A i \in 1 .. Len(order) : order'[i] = order[i]
      /\ order'[Len(order) + 1] = t
  BY <1>1, <1>3, OrderFacts, AppendProperties
<1>6. DOMAIN order' = 1 .. Len(order) + 1
  BY <1>5, LenProperties
<1>7. Listed' = Listed \cup {t}
  <2>1. DOMAIN order = 1 .. Len(order) /\ Len(order) \in Nat
    BY OrderFacts
  <2>2. DOMAIN order' = DOMAIN order \cup {Len(order) + 1}
    BY <1>6, <2>1
  <2> QED BY <1>5, <2>1, <2>2 DEF Listed
<1> QED BY <1>1, <1>3, <1>4, <1>5, <1>6, <1>7

(* Counts stay exact, so none goes below zero. *)
LEMMA PopCounts ==
  ASSUME TypeOK, KahnInv, Pop, NEW t, t = First(ready), NEW u \in Tasks
  PROVE  /\ indegree'[u] = (IF t \in Dependencies(u) THEN indegree[u] - 1 ELSE indegree[u])
         /\ indegree'[u] + Cardinality(Dependencies(u) \cap (Listed \cup {t})) = Len(depends[u])
         /\ indegree'[u] \in Nat
<1> DEFINE D == Dependencies(u)
           L == D \cap Listed
<1>1. IsFiniteSet(D) /\ Cardinality(D) \in Nat /\ Cardinality(D) <= Len(depends[u])
      /\ Len(depends[u]) \in Nat
  BY OrderFacts, DependencyCount
<1>2. indegree[u] + Cardinality(L) = Len(depends[u]) /\ indegree[u] \in Nat
  BY DEF Pop, KahnInv, Counted, TypeOK
<1>3. t \in Tasks /\ t \notin Listed
  BY PopFacts
<1>4. indegree'[u] = (IF t \in D THEN indegree[u] - 1 ELSE indegree[u])
  BY <1>3 DEF Pop, Children
<1>5. IsFiniteSet(L) /\ Cardinality(L) \in Nat
  <2> HIDE DEF D
  <2> QED BY <1>1, FS_Subset, FS_CardinalityType
<1>6. CASE t \in D
  <2>1. D \cap (Listed \cup {t}) = L \cup {t} /\ t \notin L
    BY <1>3, <1>6
  <2> HIDE DEF L, D
  <2>2. Cardinality(L \cup {t}) = Cardinality(L) + 1
    BY <1>5, <2>1, FS_AddElement
  <2>3. Cardinality(L \cup {t}) <= Cardinality(D)
    <3>1. L \cup {t} \in SUBSET D
      BY <1>6 DEF L
    <3> QED BY <1>1, <3>1, FS_Subset
  <2>4. indegree'[u] = indegree[u] - 1
    BY <1>4, <1>6
  <2>5. Cardinality(D \cap (Listed \cup {t})) = Cardinality(L) + 1
    BY <2>1, <2>2
  <2>6. Cardinality(L) + 1 <= Cardinality(D)
    BY <2>2, <2>3
  <2>7. /\ indegree'[u] + Cardinality(D \cap (Listed \cup {t})) = Len(depends[u])
        /\ indegree'[u] \in Nat
    BY <1>1, <1>2, <1>5, <2>4, <2>5, <2>6
  <2> QED BY <1>4, <2>7 DEF D
<1>7. CASE t \notin D
  <2>1. D \cap (Listed \cup {t}) = L
    BY <1>7
  <2> HIDE DEF L, D
  <2> QED BY <1>2, <1>4, <1>7, <2>1 DEF D
<1> QED BY <1>6, <1>7

(* What waits is what is left: the ready Tasks after a turn.               *)
LEMMA PopReady ==
  ASSUME TypeOK, KahnInv, Pop
  PROVE  ReadyExactly'
<1> DEFINE t == First(ready)
<1>1. /\ t \in Tasks /\ t \notin Listed /\ indegree[t] = 0
      /\ Listed' = Listed \cup {t}
  BY PopFacts
<1>2. ready' = (ready \ {t}) \cup {u \in Tasks : t \in Dependencies(u) /\ indegree[u] = 1}
  BY DEF Pop, Released, Children
<1>3. \A u \in Tasks : u \in ready <=> u \notin Listed /\ indegree[u] = 0
  BY DEF Pop, KahnInv, ReadyExactly
<1>4. \A u \in Listed : t \notin Dependencies(u)
  BY <1>1 DEF Pop, KahnInv, DependenciesFirst, Listed
<1>5. \A u \in Tasks : indegree[u] \in Nat /\ indegree'[u] \in Nat
        /\ indegree'[u] = (IF t \in Dependencies(u) THEN indegree[u] - 1 ELSE indegree[u])
  BY PopCounts DEF TypeOK
<1> HIDE DEF t
<1>6. ASSUME NEW u \in Tasks
      PROVE  u \in ready' <=> u \notin Listed' /\ indegree'[u] = 0
  <2>1. CASE t \in Dependencies(u)
    <3>1. indegree[u] \in Nat /\ indegree'[u] = indegree[u] - 1 /\ indegree'[u] \in Nat
      BY <1>5, <2>1
    <3>2. u \notin Listed /\ indegree[u] # 0
      BY <1>4, <2>1, <3>1
    <3> QED BY <1>1, <1>2, <1>3, <2>1, <3>1, <3>2
  <2>2. CASE t \notin Dependencies(u)
    <3>1. indegree'[u] = indegree[u]
      BY <1>5, <2>2
    <3>2. u \in ready' <=> u \in ready /\ u # t
      BY <1>2, <2>2
    <3> QED BY <1>1, <1>3, <3>1, <3>2
  <2> QED BY <2>1, <2>2
<1>7. ready' \subseteq Tasks
  BY <1>2 DEF TypeOK
<1> QED BY <1>6, <1>7 DEF ReadyExactly

LEMMA PopStep ==
  ASSUME TypeOK, KahnInv, Pop
  PROVE  KahnInv'
<1> DEFINE t == First(ready)
           n == Len(order)
<1>1. /\ t \in Tasks /\ t \notin Listed /\ Dependencies(t) \subseteq Listed
      /\ DOMAIN order' = 1 .. n + 1
      /\ \A i \in 1 .. n : order'[i] = order[i]
      /\ order'[n + 1] = t
      /\ Listed' = Listed \cup {t}
      /\ UNCHANGED <<depends, provided, cpu, phase>>
  BY PopFacts
<1>2. n \in Nat /\ DOMAIN order = 1 .. n
  BY OrderFacts
<1>3. \A u : Dependencies(u)' = Dependencies(u)
  BY <1>1 DEF Dependencies
<1>4. DependenciesFirst /\ Once /\ phase = "order"
  BY DEF Pop, KahnInv
<1> HIDE DEF t, n
<1>5. Counted'
  <2>1. \A u \in Tasks : indegree'[u] + Cardinality(Dependencies(u) \cap (Listed \cup {t})) = Len(depends[u])
    BY PopCounts DEF t
  <2> QED BY <1>1, <1>3, <2>1 DEF Counted
<1>6. DependenciesFirst'
  <2> SUFFICES ASSUME NEW i \in 1 .. n + 1, NEW d \in Dependencies(order'[i])
               PROVE  \E j \in 1 .. n + 1 : j < i /\ order'[j] = d
    BY <1>1, <1>3 DEF DependenciesFirst
  <2>1. CASE i = n + 1
    <3>1. d \in Listed
      BY <1>1, <2>1
    <3>2. PICK j \in 1 .. n : order[j] = d
      BY <1>2, <3>1 DEF Listed
    <3> QED BY <1>1, <1>2, <2>1, <3>2
  <2>2. CASE i \in 1 .. n
    <3>1. PICK j \in 1 .. n : j < i /\ order[j] = d
      BY <1>1, <1>2, <1>4, <2>2 DEF DependenciesFirst
    <3> QED BY <1>1, <1>2, <3>1
  <2> QED BY <1>2, <2>1, <2>2
<1>7. Once'
  <2>1. \A i \in 1 .. n : order'[i] # t
    BY <1>1, <1>2 DEF Listed
  <2> QED BY <1>1, <1>2, <1>4, <2>1 DEF Once
<1>8. ReadyExactly'
  BY PopReady
<1>9. AnswerHolds'
  BY <1>1, <1>3 DEF KahnInv, AnswerHolds, OrderHolds, ListsEveryTask
<1> QED BY <1>1, <1>4, <1>5, <1>6, <1>7, <1>8, <1>9 DEF KahnInv

(* A complete list is an order. *)
LEMMA ListedOrderHolds ==
  ASSUME TypeOK, DependenciesFirst, Once, Len(order) = Cardinality(Tasks)
  PROVE  OrderHolds(order)
<1>1. /\ DOMAIN order = 1 .. Len(order) /\ Len(order) \in Nat
      /\ \A i \in DOMAIN order : order[i] \in Tasks
  BY OrderFacts DEF Listed
<1>2. ListsEveryTask(order)
  BY <1>1 DEF ListsEveryTask, Once
<1>3. ASSUME NEW i \in DOMAIN order, NEW j \in DOMAIN order, order[i] \in Dependencies(order[j])
      PROVE  i < j
  <2>1. PICK k \in DOMAIN order : k < j /\ order[k] = order[i]
    BY <1>3 DEF DependenciesFirst
  <2> QED BY <2>1 DEF Once
<1> QED BY <1>2, <1>3 DEF OrderHolds

-----------------------------------------------------------------------------
(***************************************************************************)
(* Every reachable state is well typed: the search's stack, and counts     *)
(* that never wrap.                                                        *)
(***************************************************************************)
Frames == [task : Tasks, todo : SUBSET Tasks]

LEMMA BelowFacts ==
  ASSUME TypeOK, stack # <<>>
  PROVE  /\ Len(stack) \in Nat /\ Len(stack) >= 1 /\ DOMAIN stack = 1 .. Len(stack)
         /\ Top \in Frames
         /\ Below \in Seq(Frames) /\ Len(Below) = Len(stack) - 1
         /\ \A i \in 1 .. Len(stack) - 1 : Below[i] = stack[i]
<1> DEFINE n == Len(stack)
<1>1. stack \in Seq(Frames)
  BY DEF TypeOK, Frames
<1>2. n \in Nat /\ n >= 1 /\ DOMAIN stack = 1 .. n /\ stack \in [1 .. n -> Frames]
  BY <1>1, LenProperties, EmptySeq
<1>3. \A i \in 1 .. n - 1 : stack[i] \in Frames
  BY <1>2
<1>4. /\ Below \in Seq(Frames) /\ Len(Below) = (IF 1 <= n - 1 THEN n - 1 - 1 + 1 ELSE 0)
      /\ \A i \in 1 .. n - 1 - 1 + 1 : Below[i] = stack[1 + i - 1]
  <2>1. 1 \in Int /\ n - 1 \in Int
    BY <1>2
  <2> HIDE DEF n
  <2> QED BY <1>3, <2>1, SubSeqProperties DEF Below, n
<1>5. Len(Below) = n - 1 /\ \A i \in 1 .. n - 1 : Below[i] = stack[i]
  <2>1. n - 1 - 1 + 1 = n - 1 /\ \A i \in 1 .. n - 1 : 1 + i - 1 = i
    BY <1>2
  <2>2. ~(1 <= n - 1) => n - 1 = 0
    BY <1>2
  <2> HIDE DEF n
  <2> QED BY <1>4, <2>1, <2>2
<1>6. Top \in Frames
  BY <1>2 DEF Top
<1> QED BY <1>2, <1>4, <1>5, <1>6

LEMMA TypeStep ==
  ASSUME TypeOK, KahnInv, [Next]_vars
  PROVE  TypeOK'
<1> USE DEF Frames
<1>g. depends \in [Tasks -> Seq(Tasks)] /\ \A t \in Tasks : Dependencies(t) \in SUBSET Tasks
  BY OrderFacts, DependencyCount
<1>1. ASSUME NEW t \in Tasks, VisitRoot(t) PROVE TypeOK'
  <2>1. <<Activation(t)>> \in Seq(Frames)
    BY DEF Activation, Children
  <2> QED BY <1>1, <2>1 DEF VisitRoot, TypeOK, cpuVars, stageVars
<1>2. ASSUME NEW t \in Tasks, VisitChild(t) PROVE TypeOK'
  <2> DEFINE rest == Append(Below, [Top EXCEPT !.todo = @ \ {t}])
  <2>1. Below \in Seq(Frames) /\ Top \in Frames
    BY <1>2, BelowFacts DEF VisitChild
  <2>2. [Top EXCEPT !.todo = @ \ {t}] \in Frames
    BY <2>1
  <2>3. rest \in Seq(Frames)
    BY <2>1, <2>2, AppendProperties
  <2>4. Activation(t) \in Frames
    BY DEF Activation, Children
  <2>5. Append(rest, Activation(t)) \in Seq(Frames)
    <3> HIDE DEF rest
    <3> QED BY <2>3, <2>4, AppendProperties
  <2>6. stack' \in Seq(Frames) /\ marks' \in [Tasks -> {"unseen", "visiting", "visited"}]
        /\ phase' \in {phase, "rejected"}
    BY <1>2, <2>3, <2>5 DEF VisitChild, TypeOK, searchVars
  <2> QED BY <1>2, <2>6 DEF VisitChild, TypeOK, cpuVars, stageVars
<1>3. CASE Leave
  <2>1. Below \in Seq(Frames)
    BY <1>3, BelowFacts DEF Leave
  <2> QED BY <1>3, <2>1 DEF Leave, TypeOK, cpuVars, stageVars
<1>4. CASE Accept
  <2>1. \A t \in Tasks : Unmet(t) \in Nat
    BY <1>g, DependencyCount DEF Unmet
  <2> QED BY <1>4, <2>1 DEF Accept, TypeOK, searchVars, stageVars
<1>5. CASE Pop
  <2>1. order' \in Seq(Tasks)
    BY <1>5, PopFacts
  <2>2. indegree' \in [Tasks -> Nat]
    <3>1. \A u \in Tasks : indegree'[u] \in Nat
      BY <1>5, PopCounts
    <3> QED BY <1>5, <3>1 DEF Pop
  <2>3. ready' \subseteq Tasks
    BY <1>5 DEF Pop, TypeOK, Released, Children
  <2> QED BY <1>5, <2>1, <2>2, <2>3 DEF Pop, TypeOK, searchVars, stageVars
<1>6. CASE OrderDone
  <2>1. cpu' \in Answer
    BY <1>6, OrderFacts DEF OrderDone, Answer, Failed, Ordered
  <2>2. DOMAIN remaining' \subseteq Tasks /\ \A t \in DOMAIN remaining' : remaining'[t] \subseteq Tasks
    BY <1>6, <1>g DEF OrderDone
  <2>3. staged' \in Seq(Nat)
    BY <1>6, OrderFacts DEF OrderDone
  <2> QED BY <1>6, <2>1, <2>2, <2>3 DEF OrderDone, TypeOK, searchVars
<1>7. CASE Take
  <2> DEFINE key == First(Unblocked)
  <2>1. key \in DOMAIN remaining /\ key \in Tasks /\ key \in Nat
    <3>1. Unblocked \in SUBSET Tasks /\ Unblocked # {}
      BY <1>7 DEF Take, Unblocked, TypeOK
    <3> QED BY <3>1, FirstExists, TasksAssumption DEF Unblocked
  <2>2. staged' \in Seq(Nat)
    BY <1>7, <2>1, AppendProperties DEF Take, TypeOK
  <2>3. DOMAIN remaining' \subseteq Tasks /\ \A t \in DOMAIN remaining' : remaining'[t] \subseteq Tasks
    BY <1>7 DEF Take, TypeOK
  <2> QED BY <1>7, <2>2, <2>3 DEF Take, TypeOK, searchVars, cpuVars
<1>8. CASE SendStage
  BY <1>8 DEF SendStage, TypeOK, searchVars, cpuVars, stageVars
<1>9. CASE Layer
  BY <1>9 DEF Layer, TypeOK, searchVars, cpuVars, NextLayer
<1>10. CASE LayersDone
  <2>1. stage' \in Answer
    BY <1>10 DEF LayersDone, Answer, Failed, Ordered, TypeOK
  <2> QED BY <1>10, <2>1 DEF LayersDone, TypeOK, searchVars, cpuVars
<1>11. CASE UNCHANGED vars
  BY <1>11 DEF vars, TypeOK, searchVars, cpuVars, stageVars
<1> QED BY <1>1, <1>2, <1>3, <1>4, <1>5, <1>6, <1>7, <1>8, <1>9, <1>10, <1>11 DEF Next

LEMMA KahnStep ==
  ASSUME TypeOK, KahnInv, [Next]_vars
  PROVE  KahnInv'
<1>u. ASSUME UNCHANGED <<depends, cpu, order, indegree, ready>>,
             phase \in {"validate", "rejected"} <=> phase' \in {"validate", "rejected"}
      PROVE  KahnInv'
  <2>1. UNCHANGED <<Counted, DependenciesFirst, Once, ReadyExactly, AnswerHolds>>
    BY <1>u DEF Counted, DependenciesFirst, Once, ReadyExactly, AnswerHolds, Listed, Dependencies,
                OrderHolds, ListsEveryTask
  <2> QED BY <1>u, <2>1 DEF KahnInv
<1>1. CASE Accept
  <2>1. /\ order = <<>> /\ phase' = "order"
        /\ indegree' = [t \in Tasks |-> Len(depends[t])]
        /\ ready' = {t \in Tasks : Len(depends[t]) = 0}
        /\ UNCHANGED <<depends, cpu, order>>
    BY <1>1 DEF Accept, KahnInv, Unmet
  <2>2. DOMAIN order = {} /\ Listed = {} /\ Listed' = {}
    BY <2>1 DEF Listed
  <2>3. \A t \in Tasks : Len(depends[t]) \in Nat
    BY OrderFacts, DependencyCount
  <2>4. \A t : Dependencies(t)' = Dependencies(t)
    BY <2>1 DEF Dependencies
  <2>5. Counted'
    <3>1. \A t : Dependencies(t)' \cap Listed' = {}
      BY <2>2
    <3>2. Cardinality({}) = 0
      BY FS_EmptySet
    <3>3. \A t \in Tasks : Cardinality((Dependencies(t) \cap Listed)') = 0
      BY <3>1, <3>2
    <3>4. \A t \in Tasks : indegree'[t] + 0 = Len(depends'[t])
      BY <2>1, <2>3
    <3> QED BY <3>3, <3>4 DEF Counted
  <2>6. DependenciesFirst' /\ Once' /\ ReadyExactly'
    BY <2>1, <2>2 DEF DependenciesFirst, Once, ReadyExactly
  <2>7. AnswerHolds'
    BY <2>1, <2>4 DEF KahnInv, AnswerHolds, OrderHolds, ListsEveryTask
  <2> QED BY <2>1, <2>5, <2>6, <2>7 DEF KahnInv
<1>2. CASE Pop
  BY <1>2, PopStep
<1>3. CASE OrderDone
  <2>1. phase = "order" /\ phase' = "stage" /\ UNCHANGED <<depends, order, indegree, ready>>
    BY <1>3 DEF OrderDone
  <2>2. UNCHANGED <<Counted, DependenciesFirst, Once, ReadyExactly>> /\ \A s : OrderHolds(s)' = OrderHolds(s)
    BY <2>1 DEF Counted, DependenciesFirst, Once, ReadyExactly, Listed, Dependencies,
                OrderHolds, ListsEveryTask
  <2>3. cpu'.ok => OrderHolds(cpu'.order)
    BY <1>3, <2>1, ListedOrderHolds DEF OrderDone, Failed, Ordered, KahnInv
  <2> QED BY <2>1, <2>2, <2>3 DEF KahnInv, AnswerHolds
<1>4. CASE Leave \/ \E t \in Tasks : VisitRoot(t) \/ VisitChild(t)
  BY <1>4, <1>u DEF Leave, VisitRoot, VisitChild, cpuVars
<1>5. CASE Take \/ SendStage \/ Layer \/ LayersDone
  BY <1>5, <1>u DEF Take, SendStage, Layer, LayersDone, cpuVars
<1>6. CASE UNCHANGED vars
  BY <1>6, <1>u DEF vars, cpuVars
<1> QED BY <1>1, <1>2, <1>3, <1>4, <1>5, <1>6 DEF Next

LEMMA KahnInvariant == Spec => [](TypeOK /\ KahnInv)
<1>1. Init => TypeOK /\ KahnInv
  <2> SUFFICES ASSUME Init PROVE TypeOK /\ KahnInv
    OBVIOUS
  <2>1. TypeOK
    BY DEF Init, TypeOK, Answer, Failed
  <2>2. KahnInv
    BY DEF Init, KahnInv, AnswerHolds, Failed
  <2> QED BY <2>1, <2>2
<1> QED BY <1>1, TypeStep, KahnStep, PTL DEF Spec

(***************************************************************************)
(* Every state is well typed, and no unsigned count wraps.                 *)
(***************************************************************************)
THEOREM CountsNeverWrap == Spec => []TypeOK
BY KahnInvariant, PTL

(***************************************************************************)
(* Whatever the graph and whatever order is provided, the planner never    *)
(* walks the Tasks in an order that misses one or breaks a dependency.     *)
(***************************************************************************)
THEOREM OrdersAreTopological == Spec => []AnswerHolds
BY KahnInvariant, PTL DEF KahnInv

-----------------------------------------------------------------------------
(***************************************************************************)
(* The search: its stack is a path of Tasks marked visiting, each a child  *)
(* of the one before; what it has left is closed under children, and no    *)
(* set of Tasks it has left only waits for itself.                         *)
(***************************************************************************)
PathHolds ==
  /\ \A i \in DOMAIN stack, t \in Tasks : stack[i].task = t =>
       /\ marks[t] = "visiting"
       /\ stack[i].todo \subseteq Children(t)
       /\ i < Len(stack) => stack[i + 1].task \in Children(t)
       /\ \A c \in Children(t) \ stack[i].todo :
            marks[c] = "visited" \/ (i < Len(stack) /\ c = stack[i + 1].task)
  /\ \A i, j \in DOMAIN stack : stack[i].task = stack[j].task => i = j
  /\ \A t \in Tasks : marks[t] = "visiting" => \E i \in DOMAIN stack : stack[i].task = t

WaitsForItself(S) == S # {} /\ \A t \in S : Dependencies(t) \cap S # {}

LeftHolds ==
  /\ \A t \in Tasks : marks[t] = "visited" => \A c \in Children(t) : marks[c] = "visited"
  /\ \A S \in SUBSET Tasks : (\A t \in S : marks[t] = "visited") => ~WaitsForItself(S)

SearchInv ==
  /\ phase = "validate" => PathHolds /\ LeftHolds
  /\ CycleVerdict

(* A Task met again while it is on the path closes a cycle.                *)
LEMMA MeetingClosesCycle ==
  ASSUME TypeOK, PathHolds, stack # <<>>, NEW t \in Top.todo, marks[t] = "visiting"
  PROVE  HasCycle
<1> DEFINE n == Len(stack)
<1>1. /\ n \in Nat /\ n >= 1 /\ DOMAIN stack = 1 .. n /\ Top \in Frames /\ Top = stack[n]
      /\ \A i \in 1 .. n : stack[i].task \in Tasks
  <2>1. /\ n \in Nat /\ n >= 1 /\ DOMAIN stack = 1 .. n /\ Top \in Frames /\ Top = stack[n]
    BY BelowFacts DEF Top
  <2>2. stack \in [1 .. n -> Frames]
    BY <2>1, LenProperties DEF TypeOK, Frames
  <2> QED BY <2>1, <2>2 DEF Frames
<1>2. t \in Tasks /\ t \in Children(stack[n].task)
  BY <1>1 DEF PathHolds, Frames
<1>3. PICK k \in 1 .. n : stack[k].task = t
  BY <1>1, <1>2 DEF PathHolds
<1> DEFINE S == {stack[i].task : i \in k .. n}
<1>4. S \in SUBSET Tasks /\ S # {}
  BY <1>1, <1>3
<1>5. ASSUME NEW i \in k .. n PROVE Dependencies(stack[i].task) \cap S # {}
  <2>1. CASE i = k
    <3>1. stack[n].task \in Dependencies(t) /\ stack[n].task \in S
      BY <1>1, <1>2, <1>3 DEF Children
    <3> QED BY <1>3, <2>1, <3>1
  <2>2. CASE i # k
    <3>1. i - 1 \in 1 .. n /\ i - 1 \in k .. n /\ i - 1 < n /\ i - 1 + 1 = i
      BY <1>1, <1>3, <2>2
    <3>2. stack[i].task \in Children(stack[i - 1].task)
      BY <1>1, <3>1 DEF PathHolds
    <3> QED BY <3>1, <3>2 DEF Children
  <2> QED BY <2>1, <2>2
<1>6. \A u \in S : Dependencies(u) \cap S # {}
  BY <1>5
<1> HIDE DEF S
<1> QED BY <1>4, <1>6 DEF HasCycle

(* A Task whose children have all been left joins no cycle.                *)
LEMMA LeavingClosesNothing ==
  ASSUME LeftHolds, NEW t \in Tasks, marks[t] # "visited",
         \A c \in Children(t) : marks[c] = "visited",
         NEW S \in SUBSET Tasks, \A u \in S : marks[u] = "visited" \/ u = t
  PROVE  ~WaitsForItself(S)
<1> SUFFICES ASSUME WaitsForItself(S) PROVE FALSE
  OBVIOUS
<1>1. t \in S
  BY DEF LeftHolds
<1>2. PICK d \in S : d \in Dependencies(t)
  BY <1>1 DEF WaitsForItself
<1>3. t \in Children(d)
  BY <1>2 DEF Children
<1>4. d # t
  BY <1>3
<1> QED BY <1>2, <1>3, <1>4 DEF LeftHolds

(* The stack after a step that replaces what it holds on top.              *)
LEMMA StackFacts ==
  ASSUME TypeOK, stack # <<>>
  PROVE  /\ Len(stack) \in Nat /\ Len(stack) >= 1 /\ DOMAIN stack = 1 .. Len(stack)
         /\ Top = stack[Len(stack)] /\ Top \in Frames /\ Top.task \in Tasks
         /\ \A i \in 1 .. Len(stack) : stack[i] \in Frames /\ stack[i].task \in Tasks
         /\ Len(Below) = Len(stack) - 1 /\ DOMAIN Below = 1 .. Len(stack) - 1
         /\ \A i \in 1 .. Len(stack) - 1 : Below[i] = stack[i]
         /\ \A f \in Frames :
              /\ Append(Below, f) \in Seq(Frames) /\ DOMAIN Append(Below, f) = 1 .. Len(stack)
              /\ Len(Append(Below, f)) = Len(stack)
              /\ Append(Below, f)[Len(stack)] = f
              /\ \A i \in 1 .. Len(stack) - 1 : Append(Below, f)[i] = stack[i]
<1> DEFINE n == Len(stack)
<1>1. /\ n \in Nat /\ n >= 1 /\ DOMAIN stack = 1 .. n /\ Top = stack[n]
      /\ Below \in Seq(Frames) /\ Len(Below) = n - 1 /\ \A i \in 1 .. n - 1 : Below[i] = stack[i]
  BY BelowFacts DEF Top
<1>2. \A i \in 1 .. n : stack[i] \in Frames /\ stack[i].task \in Tasks
  <2>1. stack \in Seq(Frames)
    BY DEF TypeOK, Frames
  <2>2. stack \in [1 .. n -> Frames]
    BY <1>1, <2>1, LenProperties
  <2> QED BY <2>2 DEF Frames
<1>3. DOMAIN Below = 1 .. n - 1
  BY <1>1, LenProperties
<1>4. ASSUME NEW f \in Frames
      PROVE  /\ Append(Below, f) \in Seq(Frames) /\ DOMAIN Append(Below, f) = 1 .. n
             /\ Len(Append(Below, f)) = n
             /\ Append(Below, f)[n] = f
             /\ \A i \in 1 .. n - 1 : Append(Below, f)[i] = stack[i]
  <2> DEFINE q == Append(Below, f)
  <2>1. /\ q \in Seq(Frames) /\ Len(q) = Len(Below) + 1
        /\ \A i \in 1 .. Len(Below) : q[i] = Below[i]
        /\ q[Len(Below) + 1] = f
    <3> HIDE DEF n
    <3> QED BY <1>1, AppendProperties
  <2>2. Len(Below) + 1 = n
    BY <1>1
  <2> HIDE DEF q, n
  <2>3. DOMAIN q = 1 .. Len(q)
    BY <2>1, LenProperties
  <2> QED BY <1>1, <2>1, <2>2, <2>3 DEF q
<1>5. Top \in Frames /\ Top.task \in Tasks
  BY BelowFacts DEF Frames
<1> QED BY <1>1, <1>2, <1>3, <1>4, <1>5

(* Going down: a Task not seen yet becomes the end of the path.            *)
LEMMA DescendKeepsPath ==
  ASSUME TypeOK, PathHolds, LeftHolds, NEW t \in Tasks, marks[t] = "unseen",
         marks' = [marks EXCEPT ![t] = "visiting"], UNCHANGED depends,
         NEW n \in Nat, n = Len(stack), DOMAIN stack = 1 .. n,
         \A i \in 1 .. n : stack[i].task \in Tasks,
         Len(stack') = n + 1, DOMAIN stack' = 1 .. n + 1,
         stack'[n + 1].task = t, stack'[n + 1].todo = Children(t),
         \A i \in 1 .. n : stack'[i].task = stack[i].task,
         \A i \in 1 .. n : i < n => stack'[i].todo = stack[i].todo,
         n >= 1 => t \in stack[n].todo /\ stack'[n].todo = stack[n].todo \ {t}
  PROVE  PathHolds' /\ LeftHolds'
<1>1. /\ \A u : Children(u)' = Children(u) /\ Children(u) \subseteq Tasks
      /\ \A u : Dependencies(u)' = Dependencies(u)
      /\ \A S : WaitsForItself(S)' <=> WaitsForItself(S)
  BY DEF Children, Dependencies, WaitsForItself
<1>2. /\ marks'[t] = "visiting" /\ \A u \in Tasks : u # t => marks'[u] = marks[u]
      /\ \A u \in Tasks : marks'[u] = "visited" <=> marks[u] = "visited"
  BY DEF TypeOK
<1>3. \A i \in 1 .. n : stack[i].task # t
  BY DEF PathHolds
<1>4. ASSUME NEW i \in 1 .. n + 1, NEW u \in Tasks, stack'[i].task = u
      PROVE  /\ marks'[u] = "visiting"
             /\ stack'[i].todo \subseteq Children(u)
             /\ i < n + 1 => stack'[i + 1].task \in Children(u)
             /\ \A c \in Children(u) \ stack'[i].todo :
                  marks'[c] = "visited" \/ (i < n + 1 /\ c = stack'[i + 1].task)
  <2>1. CASE i = n + 1
    BY <1>2, <1>4, <2>1
  <2>2. CASE i = n /\ n >= 1
    <3>1. /\ stack[n].task = u /\ marks[u] = "visiting" /\ stack[n].todo \subseteq Children(u)
          /\ \A c \in Children(u) \ stack[n].todo : marks[c] = "visited"
      BY <1>4, <2>2 DEF PathHolds
    <3> QED BY <1>1, <1>2, <1>3, <2>2, <3>1
  <2>3. CASE i \in 1 .. n - 1
    <3>1. /\ i < n /\ i + 1 \in 1 .. n /\ i \in 1 .. n /\ i < n + 1
      BY <2>3
    <3>2. /\ stack[i].task = u /\ marks[u] = "visiting" /\ stack[i].todo \subseteq Children(u)
          /\ stack[i + 1].task \in Children(u)
          /\ \A c \in Children(u) \ stack[i].todo : marks[c] = "visited" \/ c = stack[i + 1].task
      BY <1>4, <3>1 DEF PathHolds
    <3> QED BY <1>1, <1>2, <1>3, <3>1, <3>2
  <2> QED BY <2>1, <2>2, <2>3
<1>5. ASSUME NEW i \in 1 .. n + 1, NEW j \in 1 .. n + 1, stack'[i].task = stack'[j].task PROVE i = j
  <2>1. i \in 1 .. n \/ i = n + 1
    OBVIOUS
  <2>2. j \in 1 .. n \/ j = n + 1
    OBVIOUS
  <2> QED BY <1>3, <1>5, <2>1, <2>2 DEF PathHolds
<1>6. ASSUME NEW u \in Tasks, marks'[u] = "visiting" PROVE \E i \in 1 .. n + 1 : stack'[i].task = u
  <2>1. CASE u = t
    <3>1. n + 1 \in 1 .. n + 1
      OBVIOUS
    <3> QED BY <2>1, <3>1
  <2>2. CASE u # t
    <3>1. PICK i \in 1 .. n : stack[i].task = u
      BY <1>2, <1>6, <2>2 DEF PathHolds
    <3>2. i \in 1 .. n + 1
      OBVIOUS
    <3> QED BY <3>1, <3>2
  <2> QED BY <2>1, <2>2
<1>7. PathHolds'
  <2>1. \A i \in DOMAIN stack', u \in Tasks : stack'[i].task = u =>
          /\ marks'[u] = "visiting"
          /\ stack'[i].todo \subseteq Children(u)'
          /\ i < Len(stack') => stack'[i + 1].task \in Children(u)'
          /\ \A c \in Children(u)' \ stack'[i].todo :
               marks'[c] = "visited" \/ (i < Len(stack') /\ c = stack'[i + 1].task)
    BY <1>1, <1>4
  <2>2. \A i, j \in DOMAIN stack' : stack'[i].task = stack'[j].task => i = j
    BY <1>5
  <2>3. \A u \in Tasks : marks'[u] = "visiting" => \E i \in DOMAIN stack' : stack'[i].task = u
    BY <1>6
  <2> QED BY <2>1, <2>2, <2>3 DEF PathHolds
<1>8. LeftHolds'
  BY <1>1, <1>2 DEF LeftHolds
<1> QED BY <1>7, <1>8

(* Passing over a child already left changes the end of the path only.     *)
LEMMA PassKeepsPath ==
  ASSUME PathHolds, LeftHolds, UNCHANGED <<depends, marks>>,
         NEW n \in Nat, n >= 1, n = Len(stack), DOMAIN stack = 1 .. n,
         Len(stack') = n, DOMAIN stack' = 1 .. n,
         \A i \in 1 .. n : stack'[i].task = stack[i].task,
         \A i \in 1 .. n - 1 : stack'[i].todo = stack[i].todo,
         NEW t, marks[t] = "visited", stack'[n].todo = stack[n].todo \ {t}
  PROVE  PathHolds' /\ LeftHolds'
<1>1. /\ \A u : Children(u)' = Children(u)
      /\ \A S : WaitsForItself(S)' <=> WaitsForItself(S)
  BY DEF Children, Dependencies, WaitsForItself
<1>2. ASSUME NEW i \in 1 .. n, NEW u \in Tasks, stack'[i].task = u
      PROVE  /\ marks[u] = "visiting"
             /\ stack'[i].todo \subseteq Children(u)
             /\ i < n => stack'[i + 1].task \in Children(u)
             /\ \A c \in Children(u) \ stack'[i].todo :
                  marks[c] = "visited" \/ (i < n /\ c = stack'[i + 1].task)
  <2>1. /\ stack[i].task = u /\ marks[u] = "visiting" /\ stack[i].todo \subseteq Children(u)
        /\ i < n => stack[i + 1].task \in Children(u)
        /\ \A c \in Children(u) \ stack[i].todo :
             marks[c] = "visited" \/ (i < n /\ c = stack[i + 1].task)
    BY <1>2 DEF PathHolds
  <2>2. i < n => i + 1 \in 1 .. n /\ i \in 1 .. n - 1
    OBVIOUS
  <2>3. i < n => stack'[i + 1].task = stack[i + 1].task /\ stack'[i].todo = stack[i].todo
    BY <2>2
  <2>4. i = n \/ i < n
    OBVIOUS
  <2> QED BY <2>1, <2>3, <2>4
<1>3. \A i, j \in 1 .. n : stack'[i].task = stack'[j].task => i = j
  BY DEF PathHolds
<1>4. \A u \in Tasks : marks[u] = "visiting" => \E i \in 1 .. n : stack'[i].task = u
  BY DEF PathHolds
<1>5. PathHolds'
  <2>1. \A i \in DOMAIN stack', u \in Tasks : stack'[i].task = u =>
          /\ marks'[u] = "visiting"
          /\ stack'[i].todo \subseteq Children(u)'
          /\ i < Len(stack') => stack'[i + 1].task \in Children(u)'
          /\ \A c \in Children(u)' \ stack'[i].todo :
               marks'[c] = "visited" \/ (i < Len(stack') /\ c = stack'[i + 1].task)
    BY <1>1, <1>2
  <2> QED BY <1>3, <1>4, <2>1 DEF PathHolds
<1>6. LeftHolds'
  BY <1>1 DEF LeftHolds
<1> QED BY <1>5, <1>6

(* Going back up: the end of the path is left, with all its children.      *)
LEMMA AscendKeepsPath ==
  ASSUME TypeOK, PathHolds, LeftHolds, UNCHANGED depends,
         NEW n \in Nat, n >= 1, n = Len(stack), DOMAIN stack = 1 .. n,
         NEW t \in Tasks, stack[n].task = t, stack[n].todo = {},
         marks' = [marks EXCEPT ![t] = "visited"],
         \A i \in 1 .. n : stack[i].task \in Tasks,
         Len(stack') = n - 1, DOMAIN stack' = 1 .. n - 1,
         \A i \in 1 .. n - 1 : stack'[i] = stack[i]
  PROVE  PathHolds' /\ LeftHolds'
<1>1. /\ \A u : Children(u)' = Children(u) /\ Children(u) \subseteq Tasks
      /\ \A S : WaitsForItself(S)' <=> WaitsForItself(S)
  BY DEF Children, Dependencies, WaitsForItself
<1>2. /\ marks'[t] = "visited" /\ \A u \in Tasks : u # t => marks'[u] = marks[u]
      /\ \A u \in Tasks : marks'[u] = "visited" <=> marks[u] = "visited" \/ u = t
  BY DEF TypeOK
<1>3. marks[t] = "visiting" /\ \A c \in Children(t) : marks[c] = "visited"
  BY DEF PathHolds
<1>4. \A i \in 1 .. n - 1 : stack[i].task # t /\ i \in 1 .. n
  <2>1. n \in 1 .. n /\ \A i \in 1 .. n - 1 : i \in 1 .. n /\ i # n
    OBVIOUS
  <2> QED BY <2>1 DEF PathHolds
<1>5. ASSUME NEW i \in 1 .. n - 1, NEW u \in Tasks, stack'[i].task = u
      PROVE  /\ marks'[u] = "visiting"
             /\ stack'[i].todo \subseteq Children(u)
             /\ i < n - 1 => stack'[i + 1].task \in Children(u)
             /\ \A c \in Children(u) \ stack'[i].todo :
                  marks'[c] = "visited" \/ (i < n - 1 /\ c = stack'[i + 1].task)
  <2>1. i < n /\ i \in 1 .. n /\ (i < n - 1 \/ i + 1 = n) /\ (i < n - 1 => i + 1 \in 1 .. n - 1)
    OBVIOUS
  <2>2. /\ stack[i].task = u /\ marks[u] = "visiting" /\ stack[i].todo \subseteq Children(u)
        /\ stack[i + 1].task \in Children(u)
        /\ \A c \in Children(u) \ stack[i].todo : marks[c] = "visited" \/ c = stack[i + 1].task
    BY <1>5, <2>1 DEF PathHolds
  <2>3. marks'[u] = "visiting"
    BY <1>2, <1>4, <2>2
  <2>4. i < n - 1 => stack'[i + 1].task = stack[i + 1].task
    BY <2>1
  <2>5. i + 1 = n => stack[i + 1].task = t
    OBVIOUS
  <2>6. stack'[i].todo = stack[i].todo
    OBVIOUS
  <2> QED BY <1>1, <1>2, <2>1, <2>2, <2>3, <2>4, <2>5, <2>6
<1>6. \A i, j \in 1 .. n - 1 : stack'[i].task = stack'[j].task => i = j
  <2>1. \A i, j \in 1 .. n : stack[i].task = stack[j].task => i = j
    BY DEF PathHolds
  <2>2. \A i \in 1 .. n - 1 : i \in 1 .. n /\ stack'[i].task = stack[i].task
    OBVIOUS
  <2> QED BY <2>1, <2>2
<1>7. ASSUME NEW u \in Tasks, marks'[u] = "visiting" PROVE \E i \in 1 .. n - 1 : stack'[i].task = u
  <2>1. u # t /\ marks[u] = "visiting"
    BY <1>2, <1>7
  <2>2. PICK i \in 1 .. n : stack[i].task = u
    BY <2>1 DEF PathHolds
  <2>3. i \in 1 .. n - 1
    BY <2>1, <2>2
  <2> QED BY <2>2, <2>3
<1>8. PathHolds'
  <2>1. \A i \in DOMAIN stack', u \in Tasks : stack'[i].task = u =>
          /\ marks'[u] = "visiting"
          /\ stack'[i].todo \subseteq Children(u)'
          /\ i < Len(stack') => stack'[i + 1].task \in Children(u)'
          /\ \A c \in Children(u)' \ stack'[i].todo :
               marks'[c] = "visited" \/ (i < Len(stack') /\ c = stack'[i + 1].task)
    BY <1>1, <1>5
  <2>2. \A u \in Tasks : marks'[u] = "visiting" => \E i \in DOMAIN stack' : stack'[i].task = u
    BY <1>7
  <2> QED BY <1>6, <2>1, <2>2 DEF PathHolds
<1>9. LeftHolds'
  <2>1. \A u \in Tasks : marks'[u] = "visited" => \A c \in Children(u)' : marks'[c] = "visited"
    BY <1>1, <1>2, <1>3 DEF LeftHolds
  <2>2. ASSUME NEW S \in SUBSET Tasks, \A u \in S : marks'[u] = "visited" PROVE ~WaitsForItself(S)
    <3>1. \A u \in S : marks[u] = "visited" \/ u = t
      BY <1>2, <2>2
    <3>2. marks[t] # "visited"
      BY <1>3
    <3> QED BY <1>3, <3>1, <3>2, LeavingClosesNothing
  <2> QED BY <1>1, <2>1, <2>2 DEF LeftHolds
<1> QED BY <1>8, <1>9

LEMMA SearchStep ==
  ASSUME TypeOK, SearchInv, [Next]_vars
  PROVE  SearchInv'
<1> DEFINE n == Len(stack)
<1>u. ASSUME UNCHANGED <<depends, marks, stack>> PROVE (PathHolds' <=> PathHolds) /\ (LeftHolds' <=> LeftHolds)
  BY <1>u DEF PathHolds, LeftHolds, Children, WaitsForItself, Dependencies
<1>c. UNCHANGED depends => (HasCycle' <=> HasCycle)
  BY DEF HasCycle, Dependencies
<1>1. ASSUME NEW t \in Tasks, VisitRoot(t) PROVE SearchInv'
  <2>1. /\ phase = "validate" /\ stack = <<>> /\ marks[t] = "unseen" /\ stack' = <<Activation(t)>>
        /\ marks' = [marks EXCEPT ![t] = "visiting"] /\ UNCHANGED <<depends, phase>>
    BY <1>1 DEF VisitRoot
  <2>2. Len(stack) = 0 /\ DOMAIN stack = 1 .. 0
    BY <2>1
  <2>3. /\ Len(stack') = 0 + 1 /\ DOMAIN stack' = 1 .. 0 + 1
        /\ stack'[0 + 1].task = t /\ stack'[0 + 1].todo = Children(t)
    BY <2>1 DEF Activation
  <2>4. PathHolds' /\ LeftHolds'
    <3>1. PathHolds /\ LeftHolds /\ 0 \in Nat /\ ~(0 >= 1)
      BY <2>1 DEF SearchInv
    <3>2. \A i \in 1 .. 0 : FALSE
      OBVIOUS
    <3> QED BY <2>1, <2>2, <2>3, <3>1, <3>2, DescendKeepsPath
  <2> QED BY <2>1, <2>4, <1>c DEF SearchInv, CycleVerdict
<1>2. ASSUME NEW t \in Tasks, VisitChild(t) PROVE SearchInv'
  <2> DEFINE f == [Top EXCEPT !.todo = @ \ {t}]
             rest == Append(Below, f)
  <2>1. phase = "validate" /\ stack # <<>> /\ t \in Top.todo /\ UNCHANGED depends
    BY <1>2 DEF VisitChild
  <2>2. PathHolds /\ LeftHolds
    BY <2>1 DEF SearchInv
  <2>3. /\ n \in Nat /\ n >= 1 /\ DOMAIN stack = 1 .. n /\ Top = stack[n] /\ Top \in Frames
        /\ \A i \in 1 .. n : stack[i].task \in Tasks
    BY <2>1, StackFacts
  <2>4. f \in Frames /\ f.task = stack[n].task /\ f.todo = stack[n].todo \ {t}
    BY <2>3 DEF Frames
  <2> HIDE DEF f
  <2>5. /\ rest \in Seq(Frames) /\ DOMAIN rest = 1 .. n /\ Len(rest) = n /\ rest[n] = f
        /\ \A i \in 1 .. n - 1 : rest[i] = stack[i]
    BY <2>1, <2>4, StackFacts
  <2> HIDE DEF n, rest
  <2>6. /\ \A i \in 1 .. n : rest[i].task = stack[i].task
        /\ \A i \in 1 .. n - 1 : rest[i].todo = stack[i].todo
        /\ rest[n].todo = stack[n].todo \ {t}
    <3>1. \A i \in 1 .. n : i = n \/ i \in 1 .. n - 1
      BY <2>3
    <3> QED BY <2>4, <2>5, <3>1
  <2>7. CASE /\ marks[t] = "unseen" /\ marks' = [marks EXCEPT ![t] = "visiting"]
             /\ stack' = Append(rest, Activation(t)) /\ UNCHANGED phase
    <3>1. Activation(t) \in Frames /\ Activation(t).task = t /\ Activation(t).todo = Children(t)
      BY DEF Activation, Frames, Children
    <3>2. /\ Len(stack') = n + 1 /\ stack' \in Seq(Frames)
          /\ \A i \in 1 .. n : stack'[i] = rest[i]
          /\ stack'[n + 1] = Activation(t)
      BY <2>5, <2>7, <3>1, AppendProperties
    <3>3. DOMAIN stack' = 1 .. n + 1
      BY <3>2, LenProperties
    <3>4. \A i \in 1 .. n : stack'[i].task = stack[i].task
      BY <2>6, <3>2
    <3>5. \A i \in 1 .. n : i < n => stack'[i].todo = stack[i].todo
      <4>1. \A i \in 1 .. n : i < n => i \in 1 .. n - 1
        BY <2>3
      <4> QED BY <2>6, <3>2, <4>1
    <3>6. t \in stack[n].todo /\ stack'[n].todo = stack[n].todo \ {t}
      <4>1. n \in 1 .. n
        BY <2>3
      <4> QED BY <2>1, <2>3, <2>6, <3>2, <4>1
    <3>7. n = Len(stack) /\ stack'[n + 1].task = t /\ stack'[n + 1].todo = Children(t)
      BY <3>1, <3>2 DEF n
    <3>8. PathHolds' /\ LeftHolds'
      BY <2>1, <2>2, <2>3, <2>7, <3>2, <3>3, <3>4, <3>5, <3>6, <3>7, DescendKeepsPath
    <3> QED BY <2>1, <2>7, <3>8, <1>c DEF SearchInv, CycleVerdict
  <2>8. CASE marks[t] = "visited" /\ stack' = rest /\ UNCHANGED <<marks, phase>>
    <3>1. /\ n = Len(stack) /\ Len(stack') = n /\ DOMAIN stack' = 1 .. n
          /\ \A i \in 1 .. n : stack'[i].task = stack[i].task
          /\ \A i \in 1 .. n - 1 : stack'[i].todo = stack[i].todo
          /\ stack'[n].todo = stack[n].todo \ {t}
      BY <2>5, <2>6, <2>8 DEF n
    <3>2. PathHolds' /\ LeftHolds'
      BY <2>1, <2>2, <2>3, <2>8, <3>1, PassKeepsPath
    <3> QED BY <2>1, <2>8, <3>2, <1>c DEF SearchInv, CycleVerdict
  <2>9. CASE marks[t] = "visiting" /\ phase' = "rejected"
    <3>1. HasCycle
      BY <2>1, <2>2, <2>9, MeetingClosesCycle
    <3> QED BY <2>1, <2>9, <3>1, <1>c DEF SearchInv, CycleVerdict
  <2> QED BY <1>2, <2>7, <2>8, <2>9 DEF VisitChild, rest, f
<1>3. CASE Leave
  <2>1. /\ phase = "validate" /\ stack # <<>> /\ Top.todo = {} /\ stack' = Below
        /\ marks' = [marks EXCEPT ![Top.task] = "visited"] /\ UNCHANGED <<depends, phase>>
    BY <1>3 DEF Leave
  <2>2. /\ n \in Nat /\ n >= 1 /\ DOMAIN stack = 1 .. n /\ Top = stack[n] /\ Top.task \in Tasks
        /\ \A i \in 1 .. n : stack[i].task \in Tasks
        /\ Len(stack') = n - 1 /\ DOMAIN stack' = 1 .. n - 1
        /\ \A i \in 1 .. n - 1 : stack'[i] = stack[i]
    BY <2>1, StackFacts DEF Frames
  <2>3. PathHolds /\ LeftHolds
    BY <2>1 DEF SearchInv
  <2>4. PathHolds' /\ LeftHolds'
    BY <2>1, <2>2, <2>3, AscendKeepsPath
  <2> QED BY <2>1, <2>4, <1>c DEF SearchInv, CycleVerdict
<1>4. CASE Accept
  <2>1. /\ phase = "validate" /\ stack = <<>> /\ \A t \in Tasks : marks[t] # "unseen"
        /\ phase' = "order" /\ UNCHANGED depends
    BY <1>4 DEF Accept
  <2>2. \A t \in Tasks : marks[t] = "visited"
    BY <2>1 DEF SearchInv, PathHolds, TypeOK
  <2>3. ~HasCycle
    BY <2>1, <2>2 DEF SearchInv, LeftHolds, WaitsForItself, HasCycle
  <2> QED BY <2>1, <2>3, <1>c DEF SearchInv, CycleVerdict
<1>5. CASE Pop \/ OrderDone \/ Take \/ SendStage \/ Layer \/ LayersDone
  <2>1. /\ phase \notin {"validate", "rejected"} /\ phase' \notin {"validate", "rejected"}
        /\ UNCHANGED depends
    BY <1>5 DEF Pop, OrderDone, Take, SendStage, Layer, LayersDone
  <2> QED BY <2>1, <1>c DEF SearchInv, CycleVerdict
<1>6. CASE UNCHANGED vars
  <2>1. UNCHANGED <<depends, marks, stack, phase>>
    BY <1>6 DEF vars, searchVars
  <2> QED BY <2>1, <1>c, <1>u DEF SearchInv, CycleVerdict
<1> QED BY <1>1, <1>2, <1>3, <1>4, <1>5, <1>6 DEF Next

(***************************************************************************)
(* The choice both planners make: at every place the first of the Tasks    *)
(* not yet listed whose dependencies all are.                              *)
(***************************************************************************)
Ready(d, done) == {t \in Tasks \ done : \A i \in DOMAIN d[t] : d[t][i] \in done}

Prefix(s, i) == {s[k] : k \in 1 .. i - 1}

Greedy(d, s) ==
  \A i \in DOMAIN s : s[i] \in Ready(d, Prefix(s, i)) /\ s[i] = First(Ready(d, Prefix(s, i)))

Verdict ==
  IF Len(order) # Cardinality(Tasks) THEN Failed
  ELSE IF provided = <<>> THEN Ordered(order)
  ELSE IF OrderHolds(provided) THEN Ordered(provided)
  ELSE Failed

PlannerInv ==
  /\ phase \notin {"stage", "layers", "done"} => cpu = Failed
  /\ phase \notin {"validate", "rejected"} =>
       /\ \A t \in Tasks : t \in Listed => indegree[t] = 0
       /\ ~Repeats => Greedy(depends, order)
  /\ phase \in {"stage", "layers", "done"} =>
       /\ cpu = Verdict
       /\ Len(order) = Cardinality(Tasks) <=> ~Repeats

StageInv ==
  /\ phase \in {"stage", "layers", "done"} =>
       IF provided # <<>> THEN staged = provided
       ELSE staged \in Seq(Tasks) /\ Greedy(depends, staged)
  /\ phase = "stage" /\ provided = <<>> =>
       \A t \in Tasks :
         /\ t \in DOMAIN remaining <=> t \notin Prefix(staged, Len(staged) + 1)
         /\ t \in DOMAIN remaining => remaining[t] = Dependencies(t) \ Prefix(staged, Len(staged) + 1)
  /\ phase \in {"layers", "done"} /\ provided = <<>> => Len(staged) = Cardinality(Tasks)
  /\ phase = "done" => stage = IF OrderHolds(staged) THEN Ordered(staged) ELSE Failed

LEMMA PrefixOfAppend ==
  ASSUME NEW s \in Seq(Tasks), NEW t \in Tasks
  PROVE  /\ Len(s) \in Nat /\ Append(s, t) \in Seq(Tasks)
         /\ Len(Append(s, t)) = Len(s) + 1
         /\ DOMAIN s = 1 .. Len(s) /\ DOMAIN Append(s, t) = 1 .. Len(s) + 1
         /\ Append(s, t)[Len(s) + 1] = t
         /\ \A i \in 1 .. Len(s) : Append(s, t)[i] = s[i] /\ s[i] \in Tasks
         /\ \A i \in 1 .. Len(s) + 1 : Prefix(Append(s, t), i) = Prefix(s, i)
         /\ Prefix(Append(s, t), Len(s) + 2) = Prefix(s, Len(s) + 1) \cup {t}
<1> DEFINE n == Len(s)
           q == Append(s, t)
<1>1. n \in Nat /\ DOMAIN s = 1 .. n /\ s \in [1 .. n -> Tasks]
  BY LenProperties
<1>2. /\ q \in Seq(Tasks) /\ Len(q) = n + 1 /\ q[n + 1] = t
      /\ \A i \in 1 .. n : q[i] = s[i]
  BY AppendProperties
<1>3. DOMAIN q = 1 .. n + 1
  BY <1>2, LenProperties
<1> HIDE DEF n, q
<1>4. ASSUME NEW i \in 1 .. n + 1 PROVE Prefix(q, i) = Prefix(s, i)
  <2>1. \A k \in 1 .. i - 1 : k \in 1 .. n
    BY <1>1
  <2> QED BY <1>2, <2>1 DEF Prefix
<1>5. Prefix(q, n + 2) = Prefix(s, n + 1) \cup {t}
  <2> DEFINE A == 1 .. n + 1
             B == 1 .. n
  <2>1. 1 .. (n + 2) - 1 = A /\ 1 .. (n + 1) - 1 = B
    <3>1. (n + 2) - 1 = n + 1 /\ (n + 1) - 1 = n
      BY <1>1
    <3> QED BY <3>1
  <2>2. A = B \cup {n + 1}
    BY <1>1
  <2>3. Prefix(q, n + 2) = {q[k] : k \in A} /\ Prefix(s, n + 1) = {s[k] : k \in B}
    <3> HIDE DEF A, B
    <3> QED BY <2>1 DEF Prefix
  <2>4. q[n + 1] = t /\ \A k \in B : q[k] = s[k]
    BY <1>2
  <2> HIDE DEF A, B
  <2> QED BY <2>2, <2>3, <2>4
<1>6. \A i \in 1 .. n : s[i] \in Tasks
  BY <1>1
<1> QED BY <1>1, <1>2, <1>3, <1>4, <1>5, <1>6 DEF n, q

(* One more choice of the same kind.                                       *)
LEMMA GreedyAppend ==
  ASSUME NEW d, NEW s \in Seq(Tasks), Greedy(d, s), NEW t \in Ready(d, Prefix(s, Len(s) + 1)),
         t = First(Ready(d, Prefix(s, Len(s) + 1)))
  PROVE  Greedy(d, Append(s, t))
<1> DEFINE n == Len(s)
           q == Append(s, t)
<1>1. t \in Tasks
  BY DEF Ready
<1>2. /\ n \in Nat /\ DOMAIN s = 1 .. n /\ DOMAIN q = 1 .. n + 1 /\ q[n + 1] = t
      /\ \A i \in 1 .. n : q[i] = s[i]
      /\ \A i \in 1 .. n + 1 : Prefix(q, i) = Prefix(s, i)
  BY <1>1, PrefixOfAppend
<1>3. t \in Ready(d, Prefix(s, n + 1)) /\ t = First(Ready(d, Prefix(s, n + 1)))
  OBVIOUS
<1> HIDE DEF n, q
<1>4. ASSUME NEW i \in 1 .. n + 1
      PROVE  q[i] \in Ready(d, Prefix(q, i)) /\ q[i] = First(Ready(d, Prefix(q, i)))
  <2>1. CASE i \in 1 .. n
    BY <1>2, <2>1 DEF Greedy
  <2>2. CASE i = n + 1
    BY <1>2, <1>3, <2>2
  <2> QED BY <1>2, <2>1, <2>2
<1> QED BY <1>2, <1>4 DEF Greedy, q

(* Choices of that kind leave nothing open.                                *)
LEMMA GreedyUnique ==
  ASSUME NEW d, NEW s \in Seq(Tasks), NEW r \in Seq(Tasks), Greedy(d, s), Greedy(d, r),
         Len(s) = Len(r)
  PROVE  s = r
<1> DEFINE n == Len(s)
           D == {i \in 1 .. n : s[i] # r[i]}
<1>1. /\ n \in Nat /\ DOMAIN s = 1 .. n /\ DOMAIN r = 1 .. n
      /\ s \in [1 .. n -> Tasks] /\ r \in [1 .. n -> Tasks]
  BY LenProperties
<1> HIDE DEF n
<1>2. ASSUME D # {} PROVE FALSE
  <2>1. D \in SUBSET Nat
    OBVIOUS
  <2>2. PICK m \in D : \A k \in D : m <= k
    <3> HIDE DEF D
    <3> QED BY <1>2, <2>1, Lemmas!LeastNatural
  <2>3. m \in 1 .. n /\ s[m] # r[m]
    OBVIOUS
  <2>4. \A k \in 1 .. m - 1 : k \in 1 .. n /\ ~(m <= k)
    BY <1>1, <2>3
  <2>5. \A k \in 1 .. m - 1 : s[k] = r[k]
    BY <2>2, <2>4
  <2>6. Prefix(s, m) = Prefix(r, m)
    BY <2>5 DEF Prefix
  <2> QED BY <1>1, <2>3, <2>6 DEF Greedy
<1>3. \A i \in 1 .. n : s[i] = r[i]
  BY <1>2
<1> QED BY <1>1, <1>3

(* No Task is chosen twice, and a list that has them all is as long.       *)
LEMMA GreedyOnce ==
  ASSUME NEW d, NEW s \in Seq(Tasks), Greedy(d, s)
  PROVE  \A i, j \in DOMAIN s : s[i] = s[j] => i = j
<1>1. Len(s) \in Nat /\ DOMAIN s = 1 .. Len(s)
  BY LenProperties
<1>2. ASSUME NEW i \in DOMAIN s, NEW j \in DOMAIN s, i < j PROVE s[i] # s[j]
  <2>1. i \in 1 .. j - 1
    BY <1>1, <1>2
  <2>2. s[i] \in Prefix(s, j)
    BY <2>1 DEF Prefix
  <2> QED BY <2>2 DEF Greedy, Ready
<1>3. \A i, j \in DOMAIN s : i < j \/ j < i \/ i = j
  BY <1>1
<1> QED BY <1>2, <1>3

LEMMA FullLength ==
  ASSUME NEW s \in Seq(Tasks), \A i, j \in DOMAIN s : s[i] = s[j] => i = j,
         \A t \in Tasks : \E i \in DOMAIN s : s[i] = t
  PROVE  Len(s) = Cardinality(Tasks)
<1> DEFINE n == Len(s)
<1>1. n \in Nat /\ DOMAIN s = 1 .. n /\ s \in [1 .. n -> Tasks]
  BY LenProperties
<1>2. s \in Bijection(1 .. n, Tasks)
  BY <1>1 DEF Bijection, Injection, Surjection, IsInjective
<1>3. IsFiniteSet(1 .. n) /\ Cardinality(1 .. n) = n
  BY <1>1, FirstNumbers
<1> HIDE DEF n
<1>4. Cardinality(Tasks) = n
  BY <1>2, <1>3, FS_Bijection DEF ExistsBijection
<1> QED BY <1>4 DEF n

(* Whatever else is chosen at some place leads to a larger order.          *)
LEMMA GreedyLeast ==
  ASSUME TypeOK, NEW s \in Seq(Tasks), Len(s) = Cardinality(Tasks), Greedy(depends, s),
         NEW r \in [1 .. Cardinality(Tasks) -> Tasks], OrderHolds(r)
  PROVE  r = s \/ Before(s, r)
<1> DEFINE N == Cardinality(Tasks)
           D == {i \in 1 .. N : s[i] # r[i]}
<1>1. /\ N \in Nat /\ DOMAIN s = 1 .. N /\ s \in [1 .. N -> Tasks] /\ DOMAIN r = 1 .. N
  BY LenProperties
<1>2. r \in Seq(Nat) /\ ListsEveryTask(r)
  <2>1. r \in [1 .. N -> Nat]
    BY TasksAssumption
  <2> HIDE DEF N
  <2> QED BY <1>1, <2>1 DEF OrderHolds
<1> SUFFICES ASSUME r # s PROVE Before(s, r)
  OBVIOUS
<1> HIDE DEF N
<1>3. D # {} /\ D \in SUBSET Nat
  <2>1. \E i \in 1 .. N : s[i] # r[i]
    BY <1>1 DEF N
  <2> QED BY <2>1
<1>4. PICK m \in D : \A k \in D : m <= k
  <2> HIDE DEF D
  <2> QED BY <1>3, Lemmas!LeastNatural
<1>5. /\ m \in 1 .. N /\ s[m] # r[m] /\ m \in Nat
      /\ \A k \in 1 .. m - 1 : k \in 1 .. N /\ s[k] = r[k]
  <2>1. m \in 1 .. N /\ s[m] # r[m] /\ m \in Nat
    OBVIOUS
  <2>2. \A k \in 1 .. m - 1 : k \in 1 .. N /\ ~(m <= k)
    BY <1>1, <2>1
  <2> QED BY <1>4, <2>1, <2>2
<1>6. Prefix(s, m) = Prefix(r, m)
  BY <1>5 DEF Prefix
<1>7. r[m] \in Ready(depends, Prefix(s, m))
  <2>1. r[m] \in Tasks
    BY <1>5 DEF N
  <2>2. r[m] \notin Prefix(r, m)
    <3>1. \A k \in 1 .. m - 1 : k \in 1 .. N /\ k # m
      BY <1>5
    <3> QED BY <1>1, <1>2, <1>5, <3>1 DEF Prefix, ListsEveryTask
  <2>3. ASSUME NEW i \in DOMAIN depends[r[m]] PROVE depends[r[m]][i] \in Prefix(r, m)
    <3> DEFINE x == depends[r[m]][i]
    <3>1. x \in Dependencies(r[m]) /\ Dependencies(r[m]) \subseteq Tasks
      BY <2>1, OrderFacts, DependencyCount DEF Dependencies
    <3> HIDE DEF x
    <3>2. PICK j \in DOMAIN r : r[j] = x
      BY <1>2, <3>1, ListCovers
    <3>3. j < m
      BY <1>1, <1>5, <3>1, <3>2 DEF OrderHolds
    <3>4. j \in 1 .. m - 1
      BY <1>1, <1>5, <3>2, <3>3
    <3> QED BY <3>2, <3>4 DEF Prefix, x
  <2> QED BY <1>6, <2>1, <2>2, <2>3 DEF Ready
<1>8. s[m] < r[m]
  <2>1. s[m] = First(Ready(depends, Prefix(s, m)))
    BY <1>1, <1>5 DEF Greedy
  <2>2. Ready(depends, Prefix(s, m)) \in SUBSET Tasks
    BY DEF Ready
  <2>3. s[m] <= r[m]
    BY <1>7, <2>1, <2>2, FirstExists
  <2>4. s[m] \in Nat /\ r[m] \in Nat
    BY <1>1, <1>5, TasksAssumption DEF N
  <2> QED BY <1>5, <2>3, <2>4
<1> QED BY <1>1, <1>5, <1>8 DEF Before

(* Exactly the lists without repeats are counted down to zero.             *)
LEMMA NoRepeatIn ==
  ASSUME NEW t \in Tasks, depends \in [Tasks -> Seq(Tasks)],
         Cardinality(Dependencies(t)) = Len(depends[t])
  PROVE  \A i, j \in DOMAIN depends[t] : depends[t][i] = depends[t][j] => i = j
<1> DEFINE s == depends[t]
           n == Len(depends[t])
<1>1. n \in Nat /\ DOMAIN s = 1 .. n /\ s \in [1 .. n -> Tasks]
  BY LenProperties
<1>2. s \in Surjection(1 .. n, Dependencies(t))
  BY <1>1 DEF Surjection, Dependencies
<1>3. IsFiniteSet(1 .. n) /\ Cardinality(1 .. n) = n
  BY <1>1, FirstNumbers
<1>4. s \in Injection(1 .. n, Dependencies(t))
  <2>1. Cardinality(Dependencies(t)) = n
    OBVIOUS
  <2> HIDE DEF s, n
  <2> QED BY <1>2, <1>3, <2>1, FS_Surjection
<1> QED BY <1>1, <1>4 DEF Injection, IsInjective

(* What is ready is what the choice is made from.                          *)
LEMMA ReadyIs ==
  ASSUME TypeOK, KahnInv, phase \notin {"validate", "rejected"}, ~Repeats
  PROVE  ready = Ready(depends, Listed)
<1>1. ASSUME NEW t \in Tasks PROVE indegree[t] = 0 <=> Dependencies(t) \subseteq Listed
  <2> DEFINE D == Dependencies(t)
             L == D \cap Listed
  <2>1. /\ IsFiniteSet(D) /\ Cardinality(D) \in Nat /\ Cardinality(D) = Len(depends[t])
        /\ indegree[t] \in Nat /\ indegree[t] + Cardinality(L) = Len(depends[t])
    BY OrderFacts, DependencyCount DEF TypeOK, KahnInv, Counted
  <2>2. L \in SUBSET D
    OBVIOUS
  <2> HIDE DEF D, L
  <2>3. Cardinality(L) \in Nat /\ (Cardinality(L) = Cardinality(D) => L = D)
    BY <2>1, <2>2, FS_Subset, FS_CardinalityType
  <2>4. indegree[t] = 0 <=> Cardinality(L) = Cardinality(D)
    BY <2>1, <2>3
  <2>5. indegree[t] = 0 <=> L = D
    BY <2>3, <2>4
  <2> QED BY <2>5 DEF L, D
<1>2. \A t \in Tasks : Dependencies(t) \subseteq Listed <=> \A i \in DOMAIN depends[t] : depends[t][i] \in Listed
  BY DEF Dependencies
<1> QED BY <1>1, <1>2 DEF KahnInv, ReadyExactly, Ready

LEMMA ListedIsPrefix ==
  ASSUME TypeOK
  PROVE  Listed = Prefix(order, Len(order) + 1)
<1>1. DOMAIN order = 1 .. Len(order) /\ Len(order) \in Nat
  BY OrderFacts
<1>2. 1 .. (Len(order) + 1) - 1 = DOMAIN order
  <2>1. (Len(order) + 1) - 1 = Len(order)
    BY <1>1
  <2> QED BY <1>1, <2>1
<1> QED BY <1>2 DEF Listed, Prefix

-----------------------------------------------------------------------------
(***************************************************************************)
(* Steps of the planner and of Stage 1.                                    *)
(***************************************************************************)
LEMMA VerdictKept ==
  ASSUME UNCHANGED <<depends, provided, order>>
  PROVE  /\ Verdict' = Verdict /\ Listed' = Listed /\ (Repeats' <=> Repeats)
         /\ Greedy(depends, order)' = Greedy(depends, order)
BY DEF Verdict, OrderHolds, ListsEveryTask, Dependencies, Listed, Repeats

(* The loop ends with every Task unless a list repeats an entry.           *)
LEMMA LoopCompletes ==
  ASSUME TypeOK, KahnInv, PlannerInv, CycleVerdict, phase = "order", ready = {}
  PROVE  Len(order) = Cardinality(Tasks) <=> ~Repeats
<1>1. /\ Counted /\ Once /\ \A t \in Tasks : t \in Listed => indegree[t] = 0
      /\ ~HasCycle /\ Listed \subseteq Tasks
  BY OrderFacts DEF KahnInv, PlannerInv, CycleVerdict
<1>2. ASSUME Len(order) = Cardinality(Tasks) PROVE ~Repeats
  <2>1. ListsEveryTask(order) /\ order \in Seq(Nat)
    BY <1>1, <1>2, OrderFacts DEF ListsEveryTask, Once, Listed
  <2>2. \A t \in Tasks : t \in Listed
    BY <2>1, ListCovers DEF Listed
  <2>3. ASSUME NEW t \in Tasks PROVE Cardinality(Dependencies(t)) = Len(depends[t])
    <3> DEFINE D == Dependencies(t)
    <3>1. /\ D \subseteq Listed /\ Cardinality(D) \in Nat /\ Len(depends[t]) \in Nat
          /\ 0 + Cardinality(D \cap Listed) = Len(depends[t])
      BY <1>1, <2>2, OrderFacts, DependencyCount DEF Counted
    <3> HIDE DEF D
    <3>2. D \cap Listed = D
      BY <3>1
    <3>3. Cardinality(D \cap Listed) = Cardinality(D)
      BY <3>2
    <3>4. 0 + Cardinality(D) = Len(depends[t])
      BY <3>1, <3>3
    <3>5. Cardinality(D) = Len(depends[t])
      BY <3>1, <3>4
    <3> QED BY <3>5 DEF D
  <2> QED BY <2>3, OrderFacts, NoRepeatIn DEF Repeats
<1>3. ASSUME ~Repeats PROVE Len(order) = Cardinality(Tasks)
  <2>1. Ready(depends, Listed) = {}
    BY <1>3, ReadyIs
  <2>2. ASSUME NEW t \in Tasks \ Listed PROVE Dependencies(t) \cap (Tasks \ Listed) # {}
    <3>1. PICK i \in DOMAIN depends[t] : depends[t][i] \notin Listed
      BY <2>1 DEF Ready
    <3>2. depends[t][i] \in Dependencies(t) /\ Dependencies(t) \subseteq Tasks
      BY OrderFacts, DependencyCount DEF Dependencies
    <3> QED BY <3>1, <3>2
  <2>3. Tasks \ Listed = {}
    BY <1>1, <2>2 DEF HasCycle
  <2> QED BY <1>1, <2>3, OrderFacts, FullLength DEF Listed, Once
<1> QED BY <1>2, <1>3

LEMMA PlannerStep ==
  ASSUME TypeOK, KahnInv, SearchInv, PlannerInv, [Next]_vars
  PROVE  PlannerInv'
<1>1. CASE Accept
  <2>1. /\ phase = "validate" /\ order = <<>> /\ phase' = "order" /\ order' = order
    BY <1>1 DEF Accept, KahnInv
  <2>2. DOMAIN order' = {} /\ Listed' = {}
    BY <2>1 DEF Listed
  <2>3. cpu' = Failed
    BY <1>1, <2>1 DEF Accept, PlannerInv
  <2> QED BY <2>1, <2>2, <2>3 DEF PlannerInv, Greedy
<1>2. CASE Pop
  <2> DEFINE t == First(ready)
  <2>1. /\ phase = "order" /\ phase' = "order" /\ order' = Append(order, t) /\ depends' = depends
        /\ t \in Tasks /\ t \notin Listed /\ indegree[t] = 0 /\ Dependencies(t) \subseteq Listed
        /\ Listed' = Listed \cup {t} /\ ready # {}
    BY <1>2, PopFacts DEF Pop
  <2>2. \A u \in Tasks : indegree'[u] = (IF t \in Dependencies(u) THEN indegree[u] - 1 ELSE indegree[u])
    BY <1>2, PopCounts
  <2>3. \A u \in Listed : Dependencies(u) \subseteq Listed
    BY <2>1 DEF KahnInv, DependenciesFirst, Listed
  <2>4. t \in ready
    BY <2>1, FirstExists DEF TypeOK
  <2>9. t = First(ready)
    OBVIOUS
  <2> HIDE DEF t
  <2>5. \A u \in Tasks : u \in Listed' => indegree'[u] = 0
    <3>1. ASSUME NEW u \in Tasks, u \in Listed \cup {t} PROVE t \notin Dependencies(u) /\ indegree[u] = 0
      BY <2>1, <2>3, <3>1 DEF PlannerInv
    <3> QED BY <2>1, <2>2, <3>1
  <2>6. ASSUME ~Repeats PROVE Greedy(depends, Append(order, t))
    <3>1. Greedy(depends, order) /\ order \in Seq(Tasks)
      BY <2>1, <2>6, OrderFacts DEF PlannerInv
    <3>2. ready = Ready(depends, Prefix(order, Len(order) + 1))
      BY <2>1, <2>6, ReadyIs, ListedIsPrefix
    <3> QED BY <2>4, <2>9, <3>1, <3>2, GreedyAppend
  <2>7. Repeats' <=> Repeats
    BY <2>1 DEF Repeats
  <2>8. cpu' = Failed
    BY <1>2, <2>1 DEF Pop, PlannerInv
  <2> QED BY <2>1, <2>5, <2>6, <2>7, <2>8 DEF PlannerInv
<1>3. CASE OrderDone
  <2>1. /\ phase = "order" /\ ready = {} /\ phase' = "stage" /\ cpu' = Verdict
        /\ UNCHANGED <<depends, provided, order, indegree>>
    BY <1>3 DEF OrderDone, Verdict
  <2>2. Len(order) = Cardinality(Tasks) <=> ~Repeats
    BY <2>1, LoopCompletes DEF SearchInv
  <2>3. /\ Verdict' = Verdict /\ Listed' = Listed /\ (Repeats' <=> Repeats)
        /\ Greedy(depends, order)' = Greedy(depends, order)
    BY <2>1, VerdictKept
  <2> QED BY <2>1, <2>2, <2>3 DEF PlannerInv
<1>4. CASE \/ Leave \/ Take \/ SendStage \/ Layer \/ LayersDone \/ UNCHANGED vars
           \/ \E t \in Tasks : VisitRoot(t) \/ VisitChild(t)
  <2>1. /\ UNCHANGED <<depends, provided, order, indegree, cpu>>
        /\ phase' \notin {"validate", "rejected"} => phase \notin {"validate", "rejected"}
        /\ phase' \in {"stage", "layers", "done"} <=> phase \in {"stage", "layers", "done"}
    BY <1>4 DEF Leave, Take, SendStage, Layer, LayersDone, VisitRoot, VisitChild, vars, cpuVars
  <2>2. /\ Verdict' = Verdict /\ Listed' = Listed /\ (Repeats' <=> Repeats)
        /\ Greedy(depends, order)' = Greedy(depends, order)
    BY <2>1, VerdictKept
  <2> QED BY <2>1, <2>2 DEF PlannerInv
<1> QED BY <1>1, <1>2, <1>3, <1>4 DEF Next

(* What Stage 1 can take next is what the choice is made from.             *)
LEMMA UnblockedIs ==
  ASSUME TypeOK, StageInv, phase = "stage", provided = <<>>
  PROVE  Unblocked = Ready(depends, Prefix(staged, Len(staged) + 1))
<1> DEFINE P == Prefix(staged, Len(staged) + 1)
<1>1. \A t \in Tasks : /\ t \in DOMAIN remaining <=> t \notin P
                       /\ t \in DOMAIN remaining => remaining[t] = Dependencies(t) \ P
  BY DEF StageInv
<1>2. DOMAIN remaining \subseteq Tasks
  BY DEF TypeOK
<1> HIDE DEF P
<1>3. \A t \in Tasks : Dependencies(t) \ P = {} <=> \A i \in DOMAIN depends[t] : depends[t][i] \in P
  BY DEF Dependencies
<1>4. Unblocked = Ready(depends, P)
  BY <1>1, <1>2, <1>3 DEF Unblocked, Ready
<1> QED BY <1>4 DEF P

(* In a graph without a cycle, some Task can always be chosen.             *)
LEMMA SomethingIsReady ==
  ASSUME TypeOK, ~HasCycle, NEW done, \A t \in Tasks \ done : ~(Dependencies(t) \subseteq done)
  PROVE  Tasks \subseteq done
<1>1. ASSUME NEW t \in Tasks \ done PROVE Dependencies(t) \cap (Tasks \ done) # {}
  <2>1. Dependencies(t) \subseteq Tasks /\ ~(Dependencies(t) \subseteq done)
    BY OrderFacts, DependencyCount
  <2> QED BY <2>1
<1>2. Tasks \ done = {}
  BY <1>1 DEF HasCycle
<1> QED BY <1>2

LEMMA StageStep ==
  ASSUME TypeOK, SearchInv, StageInv, [Next]_vars
  PROVE  StageInv'
<1> DEFINE P == Prefix(staged, Len(staged) + 1)
<1>1. CASE OrderDone
  <2>1. /\ phase' = "stage" /\ staged' = provided /\ provided' = provided /\ depends' = depends
        /\ remaining' = [t \in Tasks |-> Dependencies(t)]
    BY <1>1 DEF OrderDone
  <2>2. \A t : Dependencies(t)' = Dependencies(t)
    BY <2>1 DEF Dependencies
  <2>3. CASE provided = <<>>
    <3>1. Len(staged') + 1 = 1 /\ staged' \in Seq(Tasks) /\ DOMAIN staged' = {}
      BY <2>1, <2>3
    <3>2. Prefix(staged', Len(staged') + 1) = {}
      <4>1. \A k \in 1 .. 1 - 1 : FALSE
        OBVIOUS
      <4> QED BY <3>1, <4>1 DEF Prefix
    <3>3. Greedy(depends', staged')
      BY <3>1 DEF Greedy
    <3> QED BY <2>1, <2>2, <2>3, <3>1, <3>2, <3>3 DEF StageInv
  <2> QED BY <2>1, <2>3 DEF StageInv
<1>2. CASE Take
  <2> DEFINE key == First(Unblocked)
  <2>1. /\ phase = "stage" /\ provided = <<>> /\ Unblocked # {} /\ staged' = Append(staged, key)
        /\ UNCHANGED <<phase, provided, depends>>
        /\ remaining' = [t \in DOMAIN remaining \ {key} |-> remaining[t] \ {key}]
    BY <1>2 DEF Take
  <2>2. staged \in Seq(Tasks) /\ Greedy(depends, staged)
    BY <2>1 DEF StageInv
  <2>3. Unblocked = Ready(depends, P)
    BY <2>1, UnblockedIs
  <2>4. key \in Ready(depends, P) /\ key \in Tasks
    <3>1. Unblocked \in SUBSET Tasks
      BY <2>3 DEF Ready
    <3> QED BY <2>1, <2>3, <3>1, FirstExists DEF Ready
  <2>5. key = First(Ready(depends, P))
    BY <2>3
  <2>6. Greedy(depends, Append(staged, key))
    <3> HIDE DEF key
    <3> QED BY <2>2, <2>4, <2>5, GreedyAppend
  <2> HIDE DEF key
  <2>7. /\ Append(staged, key) \in Seq(Tasks)
        /\ Prefix(Append(staged, key), Len(staged) + 2) = P \cup {key}
        /\ Len(Append(staged, key)) = Len(staged) + 1 /\ Len(staged) \in Nat
    BY <2>2, <2>4, PrefixOfAppend
  <2>8. Prefix(staged', Len(staged') + 1) = P \cup {key}
    <3>1. Len(staged') + 1 = Len(staged) + 2
      BY <2>1, <2>7
    <3> HIDE DEF P
    <3> QED BY <2>1, <2>7, <3>1
  <2>9. \A t : Dependencies(t)' = Dependencies(t)
    BY <2>1 DEF Dependencies
  <2>10. \A t \in Tasks :
           /\ t \in DOMAIN remaining <=> t \notin P
           /\ t \in DOMAIN remaining => remaining[t] = Dependencies(t) \ P
    BY <2>1 DEF StageInv
  <2>11. \A t \in Tasks :
           /\ t \in DOMAIN remaining' <=> t \notin Prefix(staged', Len(staged') + 1)
           /\ t \in DOMAIN remaining' => remaining'[t] = Dependencies(t)' \ Prefix(staged', Len(staged') + 1)
    <3> HIDE DEF P
    <3> QED BY <2>1, <2>8, <2>9, <2>10
  <2> QED BY <2>1, <2>6, <2>7, <2>11 DEF StageInv
<1>3. CASE SendStage
  <2>1. /\ phase = "stage" /\ (provided # <<>> \/ Unblocked = {}) /\ phase' = "layers"
        /\ UNCHANGED <<depends, provided, remaining, staged, stage>>
    BY <1>3 DEF SendStage, stageVars
  <2>2. ASSUME provided = <<>> PROVE Len(staged) = Cardinality(Tasks)
    <3>1. Ready(depends, P) = {} /\ staged \in Seq(Tasks) /\ Greedy(depends, staged)
      BY <2>1, <2>2, UnblockedIs DEF StageInv
    <3>2. ~HasCycle
      BY <2>1 DEF SearchInv, CycleVerdict
    <3>3. \A t \in Tasks \ P : ~(Dependencies(t) \subseteq P)
      <4> HIDE DEF P
      <4> QED BY <3>1 DEF Ready, Dependencies
    <3>4. Tasks \subseteq P
      <4> HIDE DEF P
      <4> QED BY <3>2, <3>3, SomethingIsReady
    <3>5. Len(staged) \in Nat /\ DOMAIN staged = 1 .. Len(staged) /\ (Len(staged) + 1) - 1 = Len(staged)
      BY <3>1, LenProperties
    <3>6. \A t \in Tasks : \E i \in DOMAIN staged : staged[i] = t
      BY <3>4, <3>5 DEF Prefix
    <3> QED BY <3>1, <3>6, GreedyOnce, FullLength
  <2> QED BY <2>1, <2>2 DEF StageInv
<1>4. CASE Layer
  <2>1. phase = "layers" /\ UNCHANGED <<phase, depends, provided, staged>>
    BY <1>4 DEF Layer
  <2> QED BY <2>1 DEF StageInv
<1>5. CASE LayersDone
  <2>1. /\ phase = "layers" /\ phase' = "done" /\ UNCHANGED <<depends, provided, staged>>
        /\ (resolved = Tasks \/ NextLayer = {})
        /\ stage' = IF resolved = Tasks /\ OrderHolds(staged) THEN Ordered(staged) ELSE Failed
    BY <1>5 DEF LayersDone
  <2>2. resolved = Tasks
    <3>1. ~HasCycle
      BY <2>1 DEF SearchInv, CycleVerdict
    <3>2. CASE NextLayer = {}
      <4>1. \A t \in Tasks \ resolved : ~(Dependencies(t) \subseteq resolved)
        BY <3>2 DEF NextLayer
      <4>2. Tasks \subseteq resolved
        BY <3>1, <4>1, SomethingIsReady
      <4> QED BY <4>2 DEF TypeOK
    <3> QED BY <2>1, <3>2
  <2>3. stage' = IF OrderHolds(staged) THEN Ordered(staged) ELSE Failed
    BY <2>1, <2>2
  <2>4. OrderHolds(staged)' <=> OrderHolds(staged)
    BY <2>1 DEF OrderHolds, ListsEveryTask, Dependencies
  <2> QED BY <2>1, <2>3, <2>4 DEF StageInv
<1>6. CASE Leave \/ Accept \/ Pop \/ \E t \in Tasks : VisitRoot(t) \/ VisitChild(t)
  <2>1. phase' \in {"validate", "rejected", "order"}
    BY <1>6 DEF Leave, Accept, Pop, VisitRoot, VisitChild
  <2> QED BY <2>1 DEF StageInv
<1>7. CASE UNCHANGED vars
  <2>1. UNCHANGED <<phase, depends, provided, remaining, staged, stage>>
    BY <1>7 DEF vars, stageVars
  <2>2. OrderHolds(staged)' <=> OrderHolds(staged)
    BY <2>1 DEF OrderHolds, ListsEveryTask, Dependencies
  <2>3. \A t : Dependencies(t)' = Dependencies(t)
    BY <2>1 DEF Dependencies
  <2> QED BY <2>1, <2>2, <2>3 DEF StageInv
<1> QED BY <1>1, <1>2, <1>3, <1>4, <1>5, <1>6, <1>7 DEF Next

-----------------------------------------------------------------------------
LEMMA OrderInvariant == Spec => [](TypeOK /\ KahnInv /\ SearchInv /\ PlannerInv /\ StageInv)
<1>1. Init => SearchInv
  <2> SUFFICES ASSUME Init PROVE SearchInv
    OBVIOUS
  <2>1. /\ marks = [t \in Tasks |-> "unseen"] /\ stack = <<>> /\ phase = "validate"
    BY DEF Init
  <2>2. PathHolds
    BY <2>1 DEF PathHolds
  <2>3. LeftHolds
    BY <2>1 DEF LeftHolds, WaitsForItself
  <2> QED BY <2>1, <2>2, <2>3 DEF SearchInv, CycleVerdict
<1>2. Init => PlannerInv /\ StageInv
  BY DEF Init, PlannerInv, StageInv
<1>3. TypeOK /\ KahnInv /\ SearchInv /\ PlannerInv /\ StageInv /\ [Next]_vars
        => SearchInv' /\ PlannerInv' /\ StageInv'
  BY SearchStep, PlannerStep, StageStep
<1> QED BY <1>1, <1>2, <1>3, KahnInvariant, PTL DEF Spec

(***************************************************************************)
(* The pipeline's search refuses a request exactly when its graph has a    *)
(* cycle, in whatever order it meets roots, children and repeats; and the  *)
(* planner then fails only on a repeated entry or on a provided order that *)
(* is wrong.                                                               *)
(***************************************************************************)
THEOREM RefusalsAreExact == Spec => []RefusalsExact
<1>1. TypeOK /\ SearchInv /\ PlannerInv => RefusalsExact
  <2> SUFFICES ASSUME SearchInv, PlannerInv PROVE RefusalsExact
    OBVIOUS
  <2>1. CycleVerdict
    BY DEF SearchInv
  <2>2. ASSUME phase = "stage", ~cpu.ok, ~Repeats PROVE provided # <<>> /\ ~OrderHolds(provided)
    <3>1. cpu = Verdict /\ Len(order) = Cardinality(Tasks)
      BY <2>2 DEF PlannerInv
    <3> QED BY <2>2, <3>1 DEF Verdict, Ordered
  <2> QED BY <2>1, <2>2 DEF RefusalsExact, RefusedOnlyWhen
<1> QED BY <1>1, OrderInvariant, PTL

(***************************************************************************)
(* There is one right order: the least that respects the dependencies.     *)
(* The planner computes it, and unless a list repeats an entry Stage 1     *)
(* computes the same and its child accepts and refuses the same orders.    *)
(***************************************************************************)
THEOREM OrderIsCanonical == Spec => []OrderCanonical
<1>1. TypeOK /\ KahnInv /\ PlannerInv /\ StageInv => OrderCanonical
  <2> SUFFICES ASSUME TypeOK, KahnInv, PlannerInv, StageInv PROVE OrderCanonical
    OBVIOUS
  <2>1. order \in Seq(Tasks) /\ Len(order) = Len(order)
    BY OrderFacts
  <2>2. ASSUME cpu.ok, provided = <<>>,
               NEW s \in [1 .. Cardinality(Tasks) -> Tasks], OrderHolds(s)
        PROVE  s = cpu.order \/ Before(cpu.order, s)
    <3>1. phase \in {"stage", "layers", "done"}
      BY <2>2 DEF PlannerInv, Failed
    <3>2. cpu = Verdict /\ Len(order) = Cardinality(Tasks)
      BY <2>2, <3>1 DEF PlannerInv, Verdict, Failed
    <3>3. cpu.order = order
      BY <2>2, <3>2 DEF Verdict, Ordered
    <3>4. phase \notin {"validate", "rejected"} /\ ~Repeats
      BY <3>1, <3>2 DEF PlannerInv
    <3>5. Greedy(depends, order)
      BY <3>4 DEF PlannerInv
    <3> QED BY <2>1, <2>2, <3>2, <3>3, <3>5, GreedyLeast
  <2>3. ASSUME phase = "done", ~Repeats PROVE stage = cpu
    <3>1. /\ cpu = Verdict /\ Len(order) = Cardinality(Tasks) /\ Greedy(depends, order)
          /\ stage = IF OrderHolds(staged) THEN Ordered(staged) ELSE Failed
      BY <2>3 DEF PlannerInv, StageInv
    <3>2. CASE provided # <<>>
      BY <2>3, <3>1, <3>2 DEF StageInv, Verdict
    <3>3. CASE provided = <<>>
      <4>1. cpu = Ordered(order)
        BY <3>1, <3>3 DEF Verdict
      <4>2. OrderHolds(order)
        BY <4>1 DEF KahnInv, AnswerHolds, Ordered
      <4>3. staged \in Seq(Tasks) /\ Greedy(depends, staged) /\ Len(staged) = Cardinality(Tasks)
        BY <2>3, <3>3 DEF StageInv
      <4>4. staged = order
        BY <2>1, <3>1, <4>3, GreedyUnique
      <4> QED BY <3>1, <4>1, <4>2, <4>4
    <3> QED BY <3>2, <3>3
  <2> QED BY <2>2, <2>3 DEF OrderCanonical, LeastOrder, StageAgrees
<1> QED BY <1>1, OrderInvariant, PTL

=============================================================================
