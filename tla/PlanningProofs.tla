--------------------------- MODULE PlanningProofs ---------------------------
(***************************************************************************)
(* What holds of the planning pipeline and of Stage 1 for every set of     *)
(* calls, every CPU strategy that keeps the contract, every draw of the    *)
(* rollouts, and whatever a worker replies.                                *)
(***************************************************************************)
EXTENDS Stage1, RequestLemmas, SequenceTheorems

(***************************************************************************)
(* Selection: the best of finitely many candidates exists, and the ranking *)
(* by compare_candidates lists them all.                                   *)
(***************************************************************************)
LEMMA WinnerOf ==
  ASSUME NEW S \in SUBSET Nat, IsFiniteSet(S), S # {}, NEW m, \A i \in S : m[i] \in Int
  PROVE  Winner(S, m) \in S /\ \A j \in S : m[j] <= m[Winner(S, m)]
<1> DEFINE R == {p \in S \X S : m[p[2]] < m[p[1]] \/ (m[p[2]] = m[p[1]] /\ p[1] < p[2])}
<1>1. \A i, j \in S : <<i, j>> \in R <=> m[j] < m[i] \/ (m[j] = m[i] /\ i < j)
  OBVIOUS
<1> HIDE DEF R
<1>2. StrictlyOrders(R, S)
  <2>1. \A i \in S : <<i, i>> \notin R
    BY <1>1
  <2>2. ASSUME NEW i \in S, NEW j \in S, i # j PROVE <<i, j>> \in R \/ <<j, i>> \in R
    <3>1. m[i] \in Int /\ m[j] \in Int /\ i \in Int /\ j \in Int
      OBVIOUS
    <3>2. m[j] < m[i] \/ m[i] < m[j] \/ (m[i] = m[j] /\ (i < j \/ j < i))
      BY <2>2, <3>1
    <3> QED BY <1>1, <3>2
  <2>3. ASSUME NEW i \in S, NEW j \in S, NEW k \in S, <<i, j>> \in R, <<j, k>> \in R
        PROVE  <<i, k>> \in R
    <3>1. m[i] \in Int /\ m[j] \in Int /\ m[k] \in Int /\ i \in Int /\ j \in Int /\ k \in Int
      OBVIOUS
    <3>2. m[j] < m[i] \/ (m[j] = m[i] /\ i < j)
      BY <1>1, <2>3
    <3>3. m[k] < m[j] \/ (m[k] = m[j] /\ j < k)
      BY <1>1, <2>3
    <3>4. m[k] < m[i] \/ (m[k] = m[i] /\ i < k)
      BY <3>1, <3>2, <3>3
    <3> QED BY <1>1, <3>4
  <2> QED BY <2>1, <2>2, <2>3 DEF StrictlyOrders
<1> DEFINE e == Enumeration(R, S)
           N == Cardinality(S)
<1>3. /\ N \in Nat /\ e \in [1 .. N -> S] /\ \A i \in S : \E n \in 1 .. N : e[n] = i
      /\ \A n, l \in 1 .. N : n < l => <<e[n], e[l]>> \in R
  BY <1>2, EnumerationOf
<1> HIDE DEF e, N
<1>4. 1 \in 1 .. N /\ e[1] \in S
  <2>1. PICK i \in S : TRUE
    OBVIOUS
  <2>2. PICK n \in 1 .. N : e[n] = i
    BY <1>3
  <2>3. 1 \in 1 .. N
    BY <1>3, <2>2
  <2> QED BY <1>3, <2>3
<1>5. \A j \in S : m[j] < m[e[1]] \/ (m[j] = m[e[1]] /\ e[1] <= j)
  <2>1. TAKE j \in S
  <2>2. PICK l \in 1 .. N : e[l] = j
    BY <1>3
  <2>3. CASE l = 1
    BY <1>4, <2>2, <2>3
  <2>4. CASE l # 1
    <3>1. <<e[1], e[l]>> \in R
      BY <1>3, <1>4, <2>4
    <3>2. m[j] < m[e[1]] \/ (m[j] = m[e[1]] /\ e[1] < j)
      BY <1>1, <1>4, <2>2, <3>1
    <3>3. \A i, k \in S : i < k => i <= k
      OBVIOUS
    <3> QED BY <1>4, <3>2, <3>3
  <2> QED BY <2>3, <2>4
<1>6. /\ Winner(S, m) \in S
      /\ \A j \in S : m[j] < m[Winner(S, m)] \/ (m[j] = m[Winner(S, m)] /\ Winner(S, m) <= j)
  BY <1>4, <1>5 DEF Winner
<1>7. \A i, j \in S : m[j] < m[i] \/ m[j] = m[i] => m[j] <= m[i]
  OBVIOUS
<1> QED BY <1>6, <1>7

Scores ==
  [utility : Int, robustness : Int, margin : Int, diversity : Int, total : Int]

(* compare_candidates, unfolded: five scores, then the plan id.            *)
LEMMA PrecedesMeans ==
  ASSUME NEW scores, NEW i, NEW j
  PROVE  LET x == scores[i]
             y == scores[j]
         IN  Precedes(scores, i, j) <=>
               \/ x.total > y.total
               \/ x.total = y.total /\ x.utility > y.utility
               \/ x.total = y.total /\ x.utility = y.utility /\ x.robustness > y.robustness
               \/ /\ x.total = y.total /\ x.utility = y.utility /\ x.robustness = y.robustness
                  /\ x.margin > y.margin
               \/ /\ x.total = y.total /\ x.utility = y.utility /\ x.robustness = y.robustness
                  /\ x.margin = y.margin /\ x.diversity > y.diversity
               \/ /\ x.total = y.total /\ x.utility = y.utility /\ x.robustness = y.robustness
                  /\ x.margin = y.margin /\ x.diversity = y.diversity /\ i < j
<1> DEFINE x == Ranks(scores[i])
           y == Ranks(scores[j])
           before(n) == x[n] > y[n] /\ \A m \in 1 .. n - 1 : x[m] = y[m]
<1>1. /\ x[1] = scores[i].total /\ x[2] = scores[i].utility /\ x[3] = scores[i].robustness
      /\ x[4] = scores[i].margin /\ x[5] = scores[i].diversity
      /\ y[1] = scores[j].total /\ y[2] = scores[j].utility /\ y[3] = scores[j].robustness
      /\ y[4] = scores[j].margin /\ y[5] = scores[j].diversity
      /\ DOMAIN x = 1 .. 5
      /\ x = y <=> x[1] = y[1] /\ x[2] = y[2] /\ x[3] = y[3] /\ x[4] = y[4] /\ x[5] = y[5]
  BY DEF Ranks
<1>2. Precedes(scores, i, j) <=> (\E n \in DOMAIN x : before(n)) \/ (x = y /\ i < j)
  BY DEF Precedes
<1> HIDE DEF x, y
<1>3. /\ before(1) <=> x[1] > y[1]
      /\ before(2) <=> x[2] > y[2] /\ x[1] = y[1]
      /\ before(3) <=> x[3] > y[3] /\ x[1] = y[1] /\ x[2] = y[2]
      /\ before(4) <=> x[4] > y[4] /\ x[1] = y[1] /\ x[2] = y[2] /\ x[3] = y[3]
      /\ before(5) <=> x[5] > y[5] /\ x[1] = y[1] /\ x[2] = y[2] /\ x[3] = y[3] /\ x[4] = y[4]
  OBVIOUS
<1>4. (\E n \in DOMAIN x : before(n)) <=> before(1) \/ before(2) \/ before(3) \/ before(4) \/ before(5)
  <2> HIDE DEF before
  <2>1. 1 .. 5 = {1, 2, 3, 4, 5}
    OBVIOUS
  <2> QED BY <1>1, <2>1
<1> HIDE DEF before
<1> QED BY <1>1, <1>2, <1>3, <1>4

LEMMA PrecedesOrders ==
  ASSUME NEW S \in SUBSET Nat, NEW scores, \A i \in S : scores[i] \in Scores
  PROVE  StrictlyOrders({p \in S \X S : Precedes(scores, p[1], p[2])}, S)
<1> DEFINE R == {p \in S \X S : Precedes(scores, p[1], p[2])}
<1>1. \A i, j \in S : <<i, j>> \in R <=> Precedes(scores, i, j)
  OBVIOUS
<1> HIDE DEF R
<1>2. ASSUME NEW i \in S
      PROVE  /\ i \in Int /\ scores[i].total \in Int /\ scores[i].utility \in Int
             /\ scores[i].robustness \in Int /\ scores[i].margin \in Int
             /\ scores[i].diversity \in Int
  BY DEF Scores
<1>3. ASSUME NEW i \in S PROVE <<i, i>> \notin R
  <2>1. ~Precedes(scores, i, i)
    BY <1>2, PrecedesMeans
  <2> QED BY <1>1, <2>1
<1>4. ASSUME NEW i \in S, NEW j \in S, i # j PROVE <<i, j>> \in R \/ <<j, i>> \in R
  <2>1. Precedes(scores, i, j) \/ Precedes(scores, j, i)
    BY <1>2, <1>4, PrecedesMeans
  <2> QED BY <1>1, <2>1
<1>5. ASSUME NEW i \in S, NEW j \in S, NEW k \in S, <<i, j>> \in R, <<j, k>> \in R
      PROVE  <<i, k>> \in R
  <2>1. Precedes(scores, i, j) /\ Precedes(scores, j, k)
    BY <1>1, <1>5
  <2>2. Precedes(scores, i, k)
    BY <1>2, <2>1, PrecedesMeans
  <2> QED BY <1>1, <2>2
<1>6. StrictlyOrders(R, S)
  BY <1>3, <1>4, <1>5 DEF StrictlyOrders
<1> QED BY <1>6 DEF R

LEMMA RankedOf ==
  ASSUME NEW S \in SUBSET Nat, IsFiniteSet(S), NEW scores, \A i \in S : scores[i] \in Scores
  PROVE  /\ Cardinality(S) \in Nat /\ Ranked(scores, S) \in [1 .. Cardinality(S) -> S]
         /\ \A i \in S : \E n \in 1 .. Cardinality(S) : Ranked(scores, S)[n] = i
         /\ \A n, l \in 1 .. Cardinality(S) :
              n < l => Precedes(scores, Ranked(scores, S)[n], Ranked(scores, S)[l])
<1> DEFINE R == {p \in S \X S : Precedes(scores, p[1], p[2])}
<1>1. StrictlyOrders(R, S)
  BY PrecedesOrders
<1>2. \A i \in S : Preceding(R, S, i) = {j \in S : Precedes(scores, j, i)}
  BY DEF Preceding
<1>3. Ranked(scores, S) = Enumeration(R, S)
  <2> HIDE DEF R
  <2> DEFINE ranked(n) == CHOOSE i \in S : Cardinality({j \in S : Precedes(scores, j, i)}) = n - 1
             listed(n) == CHOOSE i \in S : Cardinality(Preceding(R, S, i)) = n - 1
  <2>1. \A n : ranked(n) = listed(n)
    BY <1>2
  <2>2. /\ Ranked(scores, S) = [n \in 1 .. Cardinality(S) |-> ranked(n)]
        /\ Enumeration(R, S) = [n \in 1 .. Cardinality(S) |-> listed(n)]
    BY DEF Ranked, Enumeration
  <2> HIDE DEF ranked, listed
  <2> QED BY <2>1, <2>2
<1>4. \A i, j : <<i, j>> \in R => Precedes(scores, i, j)
  OBVIOUS
<1> HIDE DEF R
<1>5. /\ Cardinality(S) \in Nat
      /\ Enumeration(R, S) \in [1 .. Cardinality(S) -> S]
      /\ \A i \in S : \E n \in 1 .. Cardinality(S) : Enumeration(R, S)[n] = i
      /\ \A n, l \in 1 .. Cardinality(S) :
           n < l => <<Enumeration(R, S)[n], Enumeration(R, S)[l]>> \in R
  BY <1>1, EnumerationOf
<1> QED BY <1>3, <1>4, <1>5


-----------------------------------------------------------------------------
(***************************************************************************)
(* Scores are whole numbers, so that the comparisons above apply.          *)
(***************************************************************************)
IsAsk(a) ==
  /\ IsRequest(a.request)
  /\ a.worth \in [Tasks -> Int] /\ a.weights \in Weights /\ a.topK \in Nat
  /\ a.correlation \in CorrelationQualities

LEMMA Comparisons ==
  ASSUME NEW x \in Int, NEW y \in Int
  PROVE  Later(x, y) \in Int /\ Sooner(x, y) \in Int /\ Distance(x, y) \in Int
BY DEF Later, Sooner, Distance

LEMMA PlanFacts ==
  ASSUME NEW p, IsPlan(p)
  PROVE  /\ DOMAIN p \in SUBSET Tasks /\ IsFiniteSet(DOMAIN p)
         /\ \A t \in DOMAIN p : p[t].start \in Int /\ p[t].end \in Int
<1>1. DOMAIN p \in SUBSET Tasks /\ IsFiniteSet(DOMAIN p)
  BY FormsAssumption, FS_Subset DEF IsPlan
<1>2. ASSUME NEW t \in DOMAIN p PROVE p[t].start \in Int /\ p[t].end \in Int
  BY DEF IsPlan, Step, Time
<1> QED BY <1>1, <1>2

LEMMA MeasuredType ==
  ASSUME NEW a, NEW value \in Int
  PROVE  Measured(a, value) \in Int
BY DEF Measured

LEMMA LengthType ==
  ASSUME NEW r, IsRequest(r)
  PROVE  Length(r) \in Int /\ r.window.start \in Int /\ r.window.end \in Int
<1>1. r.window.start \in Int /\ r.window.end \in Int
  BY DEF IsRequest, Window, Time
<1>2. r.window.end - r.window.start \in Int
  BY <1>1
<1>3. Later(1, r.window.end - r.window.start) \in Int
  BY <1>2 DEF Later
<1> QED BY <1>1, <1>3 DEF Length

LEMMA UtilityType ==
  ASSUME NEW a, IsAsk(a), NEW p, IsPlan(p)
  PROVE  Utility(a, p) \in Int
<1> DEFINE r == a.request
           Earned(t) ==
             a.worth[t] * (Length(r) - Sooner(Length(r), Later(0, p[t].end - r.window.start)))
           w == [t \in DOMAIN p |-> Earned(t)]
<1>1. ASSUME NEW t \in DOMAIN p PROVE Earned(t) \in Int
  <2>1. a.worth[t] \in Int /\ p[t].end \in Int /\ Length(r) \in Int /\ r.window.start \in Int
    BY PlanFacts, LengthType DEF IsAsk
  <2>2. Later(0, p[t].end - r.window.start) \in Int
    <3>1. p[t].end - r.window.start \in Int
      BY <2>1
    <3> QED BY <3>1, Comparisons
  <2>3. Sooner(Length(r), Later(0, p[t].end - r.window.start)) \in Int
    BY <2>1, <2>2, Comparisons
  <2> QED BY <2>1, <2>3
<1>2. w \in [DOMAIN p -> Int] /\ IsFiniteSet(DOMAIN p)
  BY <1>1, PlanFacts
<1>3. Utility(a, p) = Measured(a, SumFunction(w))
  BY DEF Utility
<1> HIDE DEF w
<1>4. SumFunction(w) \in Int
  BY <1>2, SumIsInteger
<1> QED BY <1>3, <1>4, MeasuredType

LEMMA SlackType ==
  ASSUME NEW a, IsAsk(a), NEW p, IsPlan(p)
  PROVE  Slack(a, p) \in Int
<1> DEFINE r == a.request
           placed == DOMAIN p
           edges == {e \in Tasks \X Tasks : e[1] \in r.deps[e[2]]}
           Between(e) == Later(0, p[e[2]].start - p[e[1]].end)
           Behind(t) == Later(0, r.window.end - p[t].end)
           behind == [t \in placed |-> Behind(t)]
           between == [e \in edges \cap (placed \X placed) |-> Between(e)]
           sum == IF edges = {} THEN SumFunction(behind) ELSE SumFunction(between)
<1>1. IsFiniteSet(placed) /\ IsFiniteSet(edges) /\ IsFiniteSet(edges \cap (placed \X placed))
  <2>1. IsFiniteSet(Tasks \X Tasks)
    BY FormsAssumption, FS_Product
  <2>2. edges \in SUBSET (Tasks \X Tasks)
    OBVIOUS
  <2> HIDE DEF edges
  <2>3. IsFiniteSet(edges)
    BY <2>1, <2>2, FS_Subset
  <2>4. IsFiniteSet(edges \cap (placed \X placed))
    BY <2>3, FS_Intersection
  <2> QED BY <2>3, <2>4, PlanFacts
<1>2. behind \in [placed -> Int]
  <2>1. ASSUME NEW t \in placed PROVE Behind(t) \in Int
    <3>1. r.window.end - p[t].end \in Int
      BY PlanFacts, LengthType DEF IsAsk
    <3> QED BY <3>1, Comparisons
  <2> QED BY <2>1
<1>3. between \in [edges \cap (placed \X placed) -> Int]
  <2>1. ASSUME NEW e \in edges \cap (placed \X placed) PROVE Between(e) \in Int
    <3>1. e[1] \in placed /\ e[2] \in placed
      OBVIOUS
    <3>2. p[e[2]].start - p[e[1]].end \in Int
      BY <3>1, PlanFacts
    <3> QED BY <3>2, Comparisons
  <2> HIDE DEF Between, edges
  <2> QED BY <2>1
<1>4. Length(r) \in Int
  BY LengthType DEF IsAsk
<1>5. Slack(a, p) = Measured(a, Sooner(sum, Length(r) * Cardinality(IF edges = {} THEN placed ELSE edges)))
  BY DEF Slack
<1> HIDE DEF behind, between
<1>6. SumFunction(behind) \in Int /\ SumFunction(between) \in Int
  <2> HIDE DEF edges, placed
  <2> QED BY <1>1, <1>2, <1>3, SumIsInteger
<1> HIDE DEF edges
<1>7. Cardinality(IF edges = {} THEN placed ELSE edges) \in Int
  BY <1>1, FS_CardinalityType
<1>8. sum \in Int
  BY <1>6
<1>9. Length(r) * Cardinality(IF edges = {} THEN placed ELSE edges) \in Int
  BY <1>4, <1>7
<1> QED BY <1>5, <1>8, <1>9, Comparisons, MeasuredType

LEMMA DiversityType ==
  ASSUME NEW a, IsAsk(a), NEW p, IsPlan(p), NEW q, IsPlan(q)
  PROVE  Diversity(a, p, q) \in Int
<1> DEFINE common == DOMAIN p \cap DOMAIN q
           Apart(t) == Distance(p[t].start, q[t].start)
           apart == [t \in common |-> Apart(t)]
<1>1. IsFiniteSet(common) /\ Cardinality(common) \in Int
  <2>1. IsFiniteSet(DOMAIN p)
    BY PlanFacts
  <2>2. IsFiniteSet(common)
    BY <2>1, FS_Intersection
  <2> HIDE DEF common
  <2>3. Cardinality(common) \in Nat
    BY <2>2, FS_CardinalityType
  <2> QED BY <2>2, <2>3
<1>2. apart \in [common -> Int]
  BY PlanFacts, Comparisons
<1>3. Diversity(a, p, q) =
        Measured(a, Sooner(SumFunction(apart), Cardinality(common) * Length(a.request)))
  BY DEF Diversity
<1> HIDE DEF apart, common
<1>4. SumFunction(apart) \in Int
  BY <1>1, <1>2, SumIsInteger
<1>5. Length(a.request) \in Int
  BY LengthType DEF IsAsk
<1>6. Cardinality(common) * Length(a.request) \in Int
  BY <1>1, <1>5
<1> QED BY <1>3, <1>4, <1>6, Comparisons, MeasuredType

LEMMA TotalType ==
  ASSUME NEW a, IsAsk(a), NEW score \in Scores, NEW grounded \in Int
  PROVE  Total(a, score, grounded) \in Int
BY DEF IsAsk, Weights, Scores, Total

LEMMA ScoredType ==
  ASSUME NEW a, IsAsk(a), NEW plans, NEW S \in SUBSET Nat, IsFiniteSet(S), S # {},
         \A i \in S : IsPlan(plans[i])
  PROVE  Scored(a, plans, S) \in [S -> Scores]
<1> DEFINE m == [i \in S |-> Utility(a, plans[i])]
           winner == plans[Winner(S, m)]
           Plain(i) == [utility |-> Utility(a, plans[i]), robustness |-> Slack(a, plans[i]),
                        margin |-> Margin(a), diversity |-> Diversity(a, plans[i], winner),
                        total |-> 0]
<1>1. \A i \in S : m[i] \in Int
  BY UtilityType
<1>2. IsPlan(winner)
  <2> HIDE DEF m
  <2>1. Winner(S, m) \in S
    BY <1>1, WinnerOf
  <2> QED BY <2>1
<1>3. Scored(a, plans, S) =
        [i \in S |-> [Plain(i) EXCEPT !.total = Total(a, Plain(i), 2 * Plain(i).robustness)]]
  BY DEF Scored
<1> HIDE DEF winner
<1>4. ASSUME NEW i \in S PROVE Plain(i) \in Scores /\ 2 * Plain(i).robustness \in Int
  BY <1>2, UtilityType, SlackType, DiversityType DEF Margin, Scores
<1> HIDE DEF Plain
<1>5. ASSUME NEW i \in S
      PROVE  [Plain(i) EXCEPT !.total = Total(a, Plain(i), 2 * Plain(i).robustness)] \in Scores
  <2>1. Total(a, Plain(i), 2 * Plain(i).robustness) \in Int
    BY <1>4, TotalType
  <2> QED BY <1>4, <2>1 DEF Scores
<1> QED BY <1>3, <1>5


RoleNames == {"highest_utility", "most_robust", "most_schedule_diverse", "other"}

(* Each role but "other" goes to one candidate, the best in its score.     *)
LEMMA RolesOf ==
  ASSUME NEW S \in SUBSET Nat, IsFiniteSet(S), S # {}, NEW scores \in [S -> Scores]
  PROVE  /\ DOMAIN Roles(scores) = S
         /\ \E i \in S : Roles(scores)[i] = "highest_utility"
         /\ \A i \in S : Roles(scores)[i] \in RoleNames
         /\ \A i, j \in S :
              /\ Roles(scores)[i] = "highest_utility" => scores[j].utility <= scores[i].utility
              /\ Roles(scores)[i] = "most_robust" => scores[j].robustness <= scores[i].robustness
              /\ Roles(scores)[i] = "most_schedule_diverse" =>
                   scores[j].diversity <= scores[i].diversity
              /\ i # j /\ Roles(scores)[i] # "other" => Roles(scores)[i] # Roles(scores)[j]
<1> DEFINE m(field) == [i \in S |-> scores[i][field]]
           best(field) == Winner(S, m(field))
<1>1. ASSUME NEW field \in {"utility", "robustness", "diversity"}
      PROVE  best(field) \in S /\ \A j \in S : scores[j][field] <= scores[best(field)][field]
  <2>1. \A i \in S : m(field)[i] \in Int
    BY DEF Scores
  <2>2. \A i \in S : m(field)[i] = scores[i][field]
    OBVIOUS
  <2> HIDE DEF m
  <2>3. Winner(S, m(field)) \in S /\ \A j \in S : m(field)[j] <= m(field)[Winner(S, m(field))]
    BY <2>1, WinnerOf
  <2> QED BY <2>2, <2>3
<1>2. Roles(scores) =
        [i \in S |-> CASE i = best("utility") -> "highest_utility"
                       [] i = best("robustness") /\ i # best("utility") -> "most_robust"
                       [] i = best("diversity") /\ i \notin {best("utility"), best("robustness")}
                            -> "most_schedule_diverse"
                       [] OTHER -> "other"]
  BY DEF Roles
<1> HIDE DEF best
<1>3. ASSUME NEW i \in S
      PROVE  /\ Roles(scores)[i] = "highest_utility" <=> i = best("utility")
             /\ Roles(scores)[i] = "most_robust" => i = best("robustness")
             /\ Roles(scores)[i] = "most_schedule_diverse" => i = best("diversity")
             /\ Roles(scores)[i] \in RoleNames
  <2>1. CASE i = best("utility")
    BY <1>2, <2>1 DEF RoleNames
  <2>2. CASE i # best("utility") /\ i = best("robustness")
    BY <1>2, <2>2 DEF RoleNames
  <2>3. CASE i # best("utility") /\ i # best("robustness") /\ i = best("diversity")
    BY <1>2, <2>3 DEF RoleNames
  <2>4. CASE i # best("utility") /\ i # best("robustness") /\ i # best("diversity")
    BY <1>2, <2>4 DEF RoleNames
  <2> QED BY <2>1, <2>2, <2>3, <2>4
<1>4. DOMAIN Roles(scores) = S
  BY <1>2
<1>5. /\ best("utility") \in S /\ \A j \in S : scores[j].utility <= scores[best("utility")].utility
      /\ \A j \in S : scores[j].robustness <= scores[best("robustness")].robustness
      /\ \A j \in S : scores[j].diversity <= scores[best("diversity")].diversity
  BY <1>1
<1>6. ASSUME NEW i \in S, NEW j \in S, i # j, Roles(scores)[i] # "other"
      PROVE  Roles(scores)[i] # Roles(scores)[j]
  <2>1. \/ Roles(scores)[i] = "highest_utility" \/ Roles(scores)[i] = "most_robust"
        \/ Roles(scores)[i] = "most_schedule_diverse"
    BY <1>3, <1>6 DEF RoleNames
  <2> QED BY <1>3, <1>6, <2>1
<1>7. \E i \in S : Roles(scores)[i] = "highest_utility"
  BY <1>3, <1>5
<1>8. \A i, j \in S :
        /\ Roles(scores)[i] = "highest_utility" => scores[j].utility <= scores[i].utility
        /\ Roles(scores)[i] = "most_robust" => scores[j].robustness <= scores[i].robustness
        /\ Roles(scores)[i] = "most_schedule_diverse" =>
             scores[j].diversity <= scores[i].diversity
  BY <1>3, <1>5
<1> QED BY <1>3, <1>4, <1>6, <1>7, <1>8


-----------------------------------------------------------------------------
(***************************************************************************)
(* The inductive invariant of the pipeline.  Up to the strategy's answer   *)
(* nothing is known but the call; from then on what was kept is what the   *)
(* candidates looked at so far allow, and once there is a ranking it and   *)
(* the roles are those of the scores as they are.                          *)
(***************************************************************************)
Untouched == {"idle", "called", "built", "accepted"}
Underway == {"accepted", "offered", "scored", "reranked"}

CallInv ==
  /\ pc = "idle" => ask = NoAsk
  /\ pc = "called" => ask \in Asks
  /\ pc = "built" =>
       \E a \in Asks : a.entry = "repair" /\ ~ValidStepSequence(a.candidate) /\ ask = Built(a)
  /\ pc \in Underway =>
       /\ IsAsk(ask)
       /\ ask.entry = "repair" => ask.request.mode = "repair"
       /\ KeepsContract(ask.request, oracle)
  /\ pc \in Untouched \cup Underway => response = NoResponse
  /\ pc \in {"idle", "called", "built"} => oracle = NoSet
  /\ pc \in Untouched => offer = NoSet /\ next = 1 /\ kept = {} /\ codes = {}
  /\ pc \in Untouched \cup {"offered"} => cards = <<>> /\ stage3 = <<>> /\ order = <<>>

KeptInv ==
  pc \in Underway \ {"accepted"} =>
    /\ offer = oracle
    /\ kept \subseteq 1 .. next - 1
    /\ \A i \in kept : ValidatePlan(ask.request, offer.plans[i])
                         /\ PreservesSlack(ask.request, offer.plans[i])
    /\ kept # {} => AffectAdmits(ask)
    /\ ask.request.mode = "fresh" /\ AffectAdmits(ask) => kept = 1 .. next - 1

Card == [score : Scores, role : RoleNames, quality : CorrelationQualities \cup {"not_estimated"}]

RanksAll(ranking, scores, S) ==
  /\ ranking \in [1 .. Cardinality(S) -> S]
  /\ {ranking[n] : n \in DOMAIN ranking} = S
  /\ \A n, l \in DOMAIN ranking : n < l => Precedes(scores, ranking[n], ranking[l])

BestInRole ==
  LET best(i, field) == \A j \in kept : cards[j].score[field] <= cards[i].score[field] IN
  /\ \E i \in kept : cards[i].role = "highest_utility"
  /\ \A i \in kept :
       /\ cards[i].role = "highest_utility" => best(i, "utility")
       /\ cards[i].role = "most_robust" => best(i, "robustness")
       /\ cards[i].role = "most_schedule_diverse" => best(i, "diversity")
  /\ \A i, j \in kept : i # j /\ cards[i].role # "other" => cards[i].role # cards[j].role

EstimatedFirst(m) ==
  /\ order \in Seq(kept) /\ Len(order) = Cardinality(kept) /\ {order[n] : n \in DOMAIN order} = kept
  /\ {i \in kept : Estimated(i)} = {stage3[n] : n \in 1 .. m}
  /\ \A n, l \in DOMAIN order : n < l =>
       /\ Estimated(order[l]) => Estimated(order[n])
       /\ Estimated(order[l]) = Estimated(order[n]) =>
            Precedes(ScoresOf(cards), order[n], order[l])

RankedInv ==
  /\ pc \in {"scored", "reranked"} =>
       /\ kept # {} /\ next = Len(offer.plans) + 1
       /\ cards \in [kept -> Card]
       /\ BestInRole
  /\ pc = "scored" =>
       /\ RanksAll(stage3, ScoresOf(cards), kept) /\ order = stage3
       /\ \A i \in kept : ~Estimated(i)
  /\ pc = "reranked" => EstimatedFirst(IF NoRollout THEN 0 ELSE TopK)

PipelineInv ==
  /\ PlanningTypeOK /\ CallInv /\ KeptInv /\ RankedInv
  /\ StatusMeans /\ NothingLost /\ RankingHolds


-----------------------------------------------------------------------------
LEMMA FormsOfAsks ==
  ASSUME NEW a \in Asks
  PROVE  /\ a # NoAsk
         /\ Built(a) # NoAsk /\ Built(a).entry = a.entry /\ Built(a).request.mode = "repair"
         /\ Built(a).topK = DefaultTopK /\ Built(a).correlation = a.correlation
         /\ Built(a).worth = a.worth /\ Built(a).weights \in Weights
<1>1. /\ a.entry \in {"plan", "repair", "stage1", "transport"}
      /\ {"entry", "request", "context", "rollouts", "topK", "strict", "weights", "worth",
          "correlation"} \subseteq DOMAIN a
      /\ {"mode", "prior", "window", "scope", "diverged"} \subseteq DOMAIN a.request
  BY FormsAssumption
<1>2. NoAsk.entry = "none"
  BY DEF NoAsk
<1>3. a # NoAsk
  BY <1>1, <1>2
<1>4. /\ Built(a).entry = a.entry /\ Built(a).topK = DefaultTopK
      /\ Built(a).correlation = a.correlation /\ Built(a).worth = a.worth
  BY <1>1 DEF Built
<1>5. Built(a).weights = [utility |-> 1, robustness |-> 1, margin |-> 1, diversity |-> 1]
  BY <1>1 DEF Built
<1>6. Built(a).request.mode = "repair"
  <2> DEFINE q == [a.request EXCEPT
                     !.mode = "repair", !.prior = a.candidate,
                     !.window = IF a.request.window = NoWindow THEN SpanOf(a.candidate)
                                ELSE a.request.window,
                     !.scope = IF a.context THEN a.request.scope ELSE "remaining_window",
                     !.diverged = IF a.context THEN a.request.diverged ELSE {}]
  <2>1. Built(a).request = q
    BY <1>1 DEF Built
  <2>2. q.mode = "repair"
    BY <1>1
  <2> QED BY <2>1, <2>2
<1>7. Built(a).weights \in Weights
  BY <1>5 DEF Weights
<1> QED BY <1>1, <1>2, <1>3, <1>4, <1>6, <1>7

(* What plan() plans is a valid request, and the strategy answers it.      *)
LEMMA SettledAsk ==
  ASSUME CallInv, AtPlan, Diagnoses(ask) = {}
  PROVE  /\ IsAsk(ask) /\ (ask.entry = "repair" => ask.request.mode = "repair")
         /\ \A set \in CpuSets(ask.request) : KeepsContract(ask.request, set)
<1>1. CASE pc = "called" /\ ask.entry # "repair"
  <2>1. ask \in Asks
    BY <1>1 DEF CallInv
  <2>2. IsRequest(ask.request) /\ \A set \in CpuSets(ask.request) : KeepsContract(ask.request, set)
    BY <2>1, <1>1, AsksAssumption DEF Plannable
  <2> QED BY <1>1, <2>1, <2>2, FormsAssumption DEF IsAsk
<1>2. CASE pc = "built"
  <2>1. PICK a \in Asks : a.entry = "repair" /\ ~ValidStepSequence(a.candidate) /\ ask = Built(a)
    BY <1>2 DEF CallInv
  <2>2. IsRequest(ask.request) /\ \A set \in CpuSets(ask.request) : KeepsContract(ask.request, set)
    BY <2>1, AsksAssumption DEF Plannable
  <2>3. IsAsk(ask)
    BY <2>1, <2>2, FormsOfAsks, FormsAssumption DEF IsAsk
  <2> QED BY <2>1, <2>2, <2>3, FormsOfAsks
<1> QED BY <1>1, <1>2 DEF AtPlan

LEMMA CallInit == PlanningInit => CallInv
BY DEF PlanningInit, CallInv, Untouched, Underway

LEMMA CallStep == CallInv /\ [PlanningNext]_planningVars => CallInv'
<1> SUFFICES ASSUME CallInv, [PlanningNext]_planningVars PROVE CallInv'
  OBVIOUS
<1> USE DEF Untouched, Underway
<1>1. CASE pc = "idle" /\ \E a \in Asks : Begin(a)
  BY <1>1 DEF CallInv, Begin
<1>2. CASE RepairRefused
  BY <1>2 DEF RepairRefused, Reject, Respond, CallInv
<1>3. CASE RepairUnchanged
  BY <1>3 DEF RepairUnchanged, Respond, CallInv
<1>4. CASE RepairBuilt
  BY <1>4 DEF RepairBuilt, CallInv
<1>5. CASE Refuse
  BY <1>5 DEF Refuse, Reject, Respond, CallInv
<1>6. CASE Accept
  <2>1. /\ IsAsk(ask) /\ (ask.entry = "repair" => ask.request.mode = "repair")
        /\ KeepsContract(ask.request, oracle')
    BY <1>6, SettledAsk DEF Accept
  <2> QED BY <1>6, <2>1 DEF Accept, CallInv, AtPlan
<1>7. CASE Generate
  BY <1>7 DEF Generate, Take, CallInv
<1>8. CASE GenerationFailed
  BY <1>8 DEF GenerationFailed, Reject, Respond, CallInv
<1>9. CASE RefuseInvalid \/ RefuseAffect \/ RefuseObvious \/ Keep
  BY <1>9 DEF RefuseInvalid, RefuseAffect, RefuseObvious, Keep, Looking, Looked, CallInv
<1>10. CASE NothingKept
  BY <1>10 DEF NothingKept, AllLooked, Reject, Respond, CallInv
<1>11. CASE Score
  BY <1>11 DEF Score, AllLooked, CallInv
<1>12. CASE SkipRollout
  BY <1>12 DEF SkipRollout, CallInv
<1>13. CASE RolloutFails
  BY <1>13 DEF RolloutFails, Reject, Respond, CallInv
<1>14. CASE Rollout
  BY <1>14 DEF Rollout, CallInv
<1>15. CASE Deliver
  BY <1>15 DEF Deliver, Respond, CallInv
<1>16. CASE Return
  BY <1>16 DEF Return, CallInv
<1>17. CASE UNCHANGED planningVars
  BY <1>17 DEF planningVars, CallInv
<1> QED BY <1>1, <1>2, <1>3, <1>4, <1>5, <1>6, <1>7, <1>8, <1>9, <1>10, <1>11, <1>12,
           <1>13, <1>14, <1>15, <1>16, <1>17 DEF PlanningNext, BeforeOffer, AfterOffer


-----------------------------------------------------------------------------
(* The contract, unfolded: the instance's operators are the request's own. *)
LEMMA ContractMeans ==
  ASSUME NEW r, NEW p, NEW u, Contract!Acceptable(r, p, u)
  PROVE  /\ DOMAIN p # {} /\ u = Tasks \ DOMAIN p
         /\ ProtectedTasks(r, {}) \cap u = {}
         /\ r.mode = "fresh" => ValidatePlan(r, p) /\ PreservesSlack(r, p)
<1>1. Contract!ProtectedTasks(r, {}) = ProtectedTasks(r, {})
  BY DEF Contract!ProtectedTasks, ProtectedTasks, Contract!Prerequisites, Prerequisites,
         Contract!ClosedUnderDeps, ClosedUnderDeps
<1>2. Contract!ValidatePlan(r, p) <=> ValidatePlan(r, p)
  BY DEF Contract!ValidatePlan, ValidatePlan, Contract!Position, Position
<1>3. Contract!PreservesSlack(r, p) <=> PreservesSlack(r, p)
  BY DEF Contract!PreservesSlack, PreservesSlack, Contract!StepAdmissible, StepAdmissible,
         Contract!InPlanWindow, InPlanWindow
<1> QED BY <1>1, <1>2, <1>3 DEF Contract!Acceptable

(* What the strategy offers is its answer to a request.                    *)
LEMMA OfferFacts ==
  ASSUME CallInv, KeptInv, pc \in Underway \ {"accepted"}
  PROVE  /\ IsAsk(ask) /\ KeepsContract(ask.request, offer)
         /\ Len(offer.plans) \in Nat /\ DOMAIN offer.plans = 1 .. Len(offer.plans)
         /\ \A i \in DOMAIN offer.plans :
              /\ IsPlan(offer.plans[i])
              /\ Contract!Acceptable(ask.request, offer.plans[i], DOMAIN offer.left)
<1>1. IsAsk(ask) /\ KeepsContract(ask.request, offer)
  BY DEF CallInv, KeptInv
<1>2. /\ offer.plans \in Seq({offer.plans[i] : i \in DOMAIN offer.plans})
      /\ \A i \in DOMAIN offer.plans : IsPlan(offer.plans[i])
  BY <1>1 DEF KeepsContract, IsCandidateSet
<1>3. Len(offer.plans) \in Nat /\ DOMAIN offer.plans = 1 .. Len(offer.plans)
  BY <1>2
<1>4. ASSUME NEW i \in DOMAIN offer.plans
      PROVE  Contract!Acceptable(ask.request, offer.plans[i], DOMAIN offer.left)
  <2>1. offer.plans # <<>>
    OBVIOUS
  <2> QED BY <1>1, <2>1 DEF KeepsContract
<1> QED BY <1>1, <1>2, <1>3, <1>4

LEMMA TypeInit == PlanningInit => PlanningTypeOK
BY DEF PlanningInit, PlanningTypeOK, AskForms, NoSet, NoResponse, Statuses

LEMMA TypeStep ==
  PlanningTypeOK /\ CallInv /\ KeptInv /\ [PlanningNext]_planningVars => PlanningTypeOK'
<1> SUFFICES ASSUME PlanningTypeOK, CallInv, KeptInv, [PlanningNext]_planningVars
             PROVE  PlanningTypeOK'
  OBVIOUS
<1>1. CASE pc = "idle" /\ \E a \in Asks : Begin(a)
  BY <1>1, FormsOfAsks DEF PlanningTypeOK, Begin, AskForms
<1>2. ASSUME NEW status \in {"ok", "partial", "rejected"}, NEW plans, NEW left, NEW cs,
             pc # "idle", Respond(status, plans, left, cs)
      PROVE  PlanningTypeOK'
  BY <1>2 DEF Respond, PlanningTypeOK, Statuses
<1>3. CASE RepairRefused \/ RepairUnchanged \/ Refuse \/ GenerationFailed \/ NothingKept
             \/ RolloutFails \/ Deliver
  BY <1>2, <1>3 DEF RepairRefused, RepairUnchanged, Refuse, GenerationFailed, NothingKept,
                    RolloutFails, Deliver, Reject, AtPlan, AllLooked, StatusOf
<1>4. CASE RepairBuilt
  <2>1. ask \in Asks /\ ask.entry = "repair"
    BY <1>4 DEF RepairBuilt, CallInv
  <2> QED BY <1>4, <2>1, FormsOfAsks DEF PlanningTypeOK, RepairBuilt, AskForms
<1>5. CASE Accept
  BY <1>5 DEF Accept, AtPlan, PlanningTypeOK
<1>6. CASE Generate
  <2>1. KeepsContract(ask.request, oracle) /\ next = 1 /\ kept = {} /\ cards = <<>>
    BY <1>6 DEF Generate, CallInv, Underway, Untouched
  <2>2. Len(oracle.plans) \in Nat
    BY <2>1 DEF KeepsContract, IsCandidateSet
  <2> QED BY <1>6, <2>1, <2>2 DEF Generate, Take, PlanningTypeOK
<1>7. CASE RefuseInvalid \/ RefuseAffect \/ RefuseObvious \/ Keep
  <2>1. Len(offer.plans) \in Nat /\ DOMAIN offer.plans = 1 .. Len(offer.plans)
    BY <1>7, OfferFacts DEF RefuseInvalid, RefuseAffect, RefuseObvious, Keep, Looking, Underway
  <2>2. cards = <<>>
    BY <1>7 DEF RefuseInvalid, RefuseAffect, RefuseObvious, Keep, Looking, CallInv
  <2>3. next + 1 \in 1 .. Len(offer.plans) + 1
    BY <1>7, <2>1 DEF RefuseInvalid, RefuseAffect, RefuseObvious, Keep, Looking
  <2> QED BY <1>7, <2>1, <2>2, <2>3
          DEF RefuseInvalid, RefuseAffect, RefuseObvious, Keep, Looking, Looked, PlanningTypeOK
<1>8. CASE Score
  <2>1. DOMAIN cards' = kept
    BY <1>8 DEF Score, WithRoles, Scored
  <2> QED BY <1>8, <2>1 DEF Score, AllLooked, PlanningTypeOK
<1>9. CASE SkipRollout
  BY <1>9 DEF SkipRollout, PlanningTypeOK
<1>10. CASE Rollout
  <2>1. DOMAIN cards' = kept
    BY <1>10 DEF Rollout, Reassigned, WithRoles, Rolled
  <2> QED BY <1>10, <2>1 DEF Rollout, PlanningTypeOK
<1>11. CASE Return
  BY <1>11 DEF Return, PlanningTypeOK, AskForms, NoSet, NoResponse, Statuses
<1>12. CASE UNCHANGED planningVars
  BY <1>12 DEF planningVars, PlanningTypeOK
<1> QED BY <1>1, <1>3, <1>4, <1>5, <1>6, <1>7, <1>8, <1>9, <1>10, <1>11, <1>12
        DEF PlanningNext, BeforeOffer, AfterOffer

LEMMA KeptStep ==
  PlanningTypeOK /\ CallInv /\ KeptInv /\ [PlanningNext]_planningVars => KeptInv'
<1> SUFFICES ASSUME PlanningTypeOK, CallInv, KeptInv, [PlanningNext]_planningVars
             PROVE  KeptInv'
  OBVIOUS
<1> USE DEF Underway
<1>1. CASE pc = "idle" /\ \E a \in Asks : Begin(a)
  BY <1>1 DEF KeptInv, Begin
<1>2. CASE RepairRefused \/ RepairUnchanged \/ Refuse \/ GenerationFailed \/ NothingKept
             \/ RolloutFails \/ Deliver \/ Return
  BY <1>2 DEF KeptInv, RepairRefused, RepairUnchanged, Refuse, GenerationFailed, NothingKept,
              RolloutFails, Deliver, Return, Reject, Respond
<1>3. CASE RepairBuilt \/ Accept
  BY <1>3 DEF KeptInv, RepairBuilt, Accept
<1>4. CASE Generate
  <2>1. next = 1 /\ kept = {}
    BY <1>4 DEF Generate, CallInv, Untouched
  <2> QED BY <1>4, <2>1 DEF Generate, Take, KeptInv, AffectAdmits, AffectPassed
<1>5. CASE RefuseInvalid \/ RefuseAffect \/ RefuseObvious \/ Keep
  <2>1. /\ Looking /\ pc = "offered" /\ next \in DOMAIN offer.plans
        /\ next \in Nat /\ Len(offer.plans) \in Nat
    BY <1>5, OfferFacts DEF RefuseInvalid, RefuseAffect, RefuseObvious, Keep, Looking
  <2>2. /\ pc' = pc /\ ask' = ask /\ offer' = offer /\ oracle' = oracle /\ next' = next + 1
        /\ kept' \in {kept, kept \cup {next}}
    BY <1>5 DEF RefuseInvalid, RefuseAffect, RefuseObvious, Keep, Looked
  <2>3. kept' = IF Keep THEN kept \cup {next} ELSE kept
    BY <1>5 DEF RefuseInvalid, RefuseAffect, RefuseObvious, Keep, Looked
  <2>4. ask.request.mode = "fresh" =>
          ValidatePlan(ask.request, offer.plans[next]) /\ PreservesSlack(ask.request, offer.plans[next])
    <3>1. Contract!Acceptable(ask.request, offer.plans[next], DOMAIN offer.left)
      BY <2>1, OfferFacts
    <3> QED BY <3>1, ContractMeans
  <2>5. kept \subseteq 1 .. next - 1 /\ 1 .. next = (1 .. next - 1) \cup {next}
    BY <2>1 DEF KeptInv
  <2>6. kept' \subseteq 1 .. next' - 1
    BY <2>1, <2>2, <2>5
  <2>7. \A i \in kept' : ValidatePlan(ask.request, offer.plans[i])
                           /\ PreservesSlack(ask.request, offer.plans[i])
    BY <2>1, <2>3 DEF Keep, KeptInv
  <2>8. kept' # {} => AffectAdmits(ask)
    BY <2>1, <2>3 DEF Keep, KeptInv
  <2>9. ASSUME ask.request.mode = "fresh", AffectAdmits(ask) PROVE kept' = 1 .. next' - 1
    <3>1. Keep
      BY <1>5, <2>4, <2>9 DEF RefuseInvalid, RefuseAffect, RefuseObvious
    <3>2. kept = 1 .. next - 1
      BY <2>1, <2>9 DEF KeptInv
    <3> QED BY <2>1, <2>2, <2>3, <2>5, <3>1, <3>2
  <2> HIDE DEF Looking
  <2>10. AffectAdmits(ask)' = AffectAdmits(ask)
    BY <2>2 DEF AffectAdmits, AffectPassed
  <2> QED BY <2>1, <2>2, <2>6, <2>7, <2>8, <2>9, <2>10 DEF KeptInv
<1>6. CASE Score \/ SkipRollout \/ Rollout
  <2>1. /\ UNCHANGED <<ask, oracle, offer, next, kept>> /\ pc \in Underway \ {"accepted"}
    BY <1>6 DEF Score, AllLooked, SkipRollout, Rollout
  <2> QED BY <2>1 DEF KeptInv, AffectAdmits, AffectPassed
<1>7. CASE UNCHANGED planningVars
  BY <1>7 DEF planningVars, KeptInv, AffectAdmits, AffectPassed
<1> QED BY <1>1, <1>2, <1>3, <1>4, <1>5, <1>6, <1>7 DEF PlanningNext, BeforeOffer, AfterOffer


-----------------------------------------------------------------------------
LEMMA JoinOf ==
  ASSUME NEW S, NEW m \in Nat, NEW k \in Nat, NEW u \in [1 .. m -> S], NEW v \in [1 .. k -> S]
  PROVE  /\ u \o v \in Seq(S) /\ Len(u \o v) = m + k /\ DOMAIN (u \o v) = 1 .. m + k
         /\ \A n \in 1 .. m + k : (u \o v)[n] = IF n <= m THEN u[n] ELSE v[n - m]
<1>1. u \in Seq(S) /\ Len(u) = m /\ v \in Seq(S) /\ Len(v) = k
  OBVIOUS
<1>2. u \o v \in Seq(S) /\ Len(u \o v) = Len(u) + Len(v)
  BY <1>1, ConcatProperties
<1>3. \A n \in 1 .. Len(u) + Len(v) :
        (u \o v)[n] = IF n <= Len(u) THEN u[n] ELSE v[n - Len(u)]
  BY <1>1, ConcatProperties
<1>4. DOMAIN (u \o v) = 1 .. Len(u \o v)
  BY <1>2
<1> QED BY <1>1, <1>2, <1>3, <1>4

(* A ranking in two cohorts: the first precedes the second as a whole, and *)
(* either is in the order of the scores (rollout.rs, 142-160).             *)
LEMMA CohortsRank ==
  ASSUME NEW S \in SUBSET Nat, IsFiniteSet(S), NEW F \in SUBSET S,
         NEW scores \in [S -> Scores]
  PROVE  LET o == Ranked(scores, F) \o Ranked(scores, S \ F) IN
         /\ o \in Seq(S) /\ Len(o) = Cardinality(S) /\ {o[n] : n \in DOMAIN o} = S
         /\ \A n, l \in DOMAIN o : n < l =>
              /\ o[l] \in F => o[n] \in F
              /\ (o[l] \in F <=> o[n] \in F) => Precedes(scores, o[n], o[l])
<1> DEFINE u == Ranked(scores, F)
           v == Ranked(scores, S \ F)
           m == Cardinality(F)
           k == Cardinality(S \ F)
           o == u \o v
<1>1. IsFiniteSet(F) /\ IsFiniteSet(S \ F) /\ F \in SUBSET Nat /\ S \ F \in SUBSET Nat
  BY FS_Subset, FS_Difference
<1>2. /\ m \in Nat /\ u \in [1 .. m -> F] /\ \A i \in F : \E n \in 1 .. m : u[n] = i
      /\ \A n, l \in 1 .. m : n < l => Precedes(scores, u[n], u[l])
  BY <1>1, RankedOf
<1>3. /\ k \in Nat /\ v \in [1 .. k -> S \ F] /\ \A i \in S \ F : \E n \in 1 .. k : v[n] = i
      /\ \A n, l \in 1 .. k : n < l => Precedes(scores, v[n], v[l])
  BY <1>1, RankedOf
<1>4. m + k = Cardinality(S)
  <2>1. Cardinality(S) = Cardinality(F) + Cardinality(S \ F) - Cardinality(F \cap (S \ F))
    <3>1. F \cup (S \ F) = S
      OBVIOUS
    <3> QED BY <3>1, <1>1, FS_Union
  <2>2. F \cap (S \ F) = {} /\ Cardinality({}) = 0
    BY FS_EmptySet
  <2>3. Cardinality(S) = Cardinality(F) + Cardinality(S \ F) - 0
    BY <2>1, <2>2
  <2>4. m \in Nat /\ k \in Nat /\ Cardinality(S) = m + k - 0
    BY <1>1, <2>3, FS_CardinalityType
  <2> HIDE DEF m, k
  <2> QED BY <2>4
<1> HIDE DEF u, v, m, k
<1>5. u \in [1 .. m -> S] /\ v \in [1 .. k -> S]
  BY <1>2, <1>3
<1>6. /\ u \o v \in Seq(S) /\ Len(u \o v) = m + k /\ DOMAIN (u \o v) = 1 .. m + k
      /\ \A n \in 1 .. m + k : (u \o v)[n] = IF n <= m THEN u[n] ELSE v[n - m]
  BY <1>2, <1>3, <1>5, JoinOf
<1>7. /\ o \in Seq(S) /\ Len(o) = m + k /\ DOMAIN o = 1 .. m + k
      /\ \A n \in 1 .. m + k : o[n] = IF n <= m THEN u[n] ELSE v[n - m]
  BY <1>6
<1> HIDE DEF o
<1>8. ASSUME NEW n \in 1 .. m + k
      PROVE  /\ n \in Nat
             /\ n <= m => n \in 1 .. m /\ o[n] = u[n] /\ o[n] \in F
             /\ ~(n <= m) => n - m \in 1 .. k /\ o[n] = v[n - m] /\ o[n] \in S \ F
  <2>1. n \in Nat /\ m \in Nat /\ k \in Nat /\ 1 <= n /\ n <= m + k
    BY <1>2, <1>3
  <2>2. CASE n <= m
    <3>1. n \in 1 .. m
      BY <2>1, <2>2
    <3> QED BY <3>1, <2>1, <2>2, <1>2, <1>7
  <2>3. CASE ~(n <= m)
    <3>1. n - m \in 1 .. k
      BY <2>1, <2>3
    <3> QED BY <3>1, <2>1, <2>3, <1>3, <1>7
  <2> QED BY <2>1, <2>2, <2>3
<1>9. {o[n] : n \in DOMAIN o} = S
  <2>1. ASSUME NEW i \in S PROVE \E n \in 1 .. m + k : o[n] = i
    <3>1. CASE i \in F
      <4>1. PICK n \in 1 .. m : u[n] = i
        BY <1>2, <3>1
      <4>2. m \in Nat /\ k \in Nat
        BY <1>2, <1>3
      <4>3. n \in 1 .. m + k /\ n <= m
        BY <4>2
      <4> QED BY <4>1, <4>3, <1>7
    <3>2. CASE i \notin F
      <4>1. PICK n \in 1 .. k : v[n] = i
        BY <1>3, <3>2
      <4>2. m \in Nat /\ k \in Nat
        BY <1>2, <1>3
      <4>3. n + m \in 1 .. m + k /\ ~(n + m <= m) /\ (n + m) - m = n
        BY <4>2
      <4>4. o[n + m] = v[n]
        BY <4>3, <1>7
      <4> QED BY <4>1, <4>3, <4>4
    <3> QED BY <3>1, <3>2
  <2>2. DOMAIN o = 1 .. m + k /\ \A n \in 1 .. m + k : o[n] \in S
    BY <1>7, <1>8
  <2> HIDE DEF o
  <2> QED BY <2>1, <2>2
<1>10. ASSUME NEW n \in DOMAIN o, NEW l \in DOMAIN o, n < l
       PROVE  /\ o[l] \in F => o[n] \in F
              /\ (o[l] \in F <=> o[n] \in F) => Precedes(scores, o[n], o[l])
  <2>1. n \in 1 .. m + k /\ l \in 1 .. m + k
    BY <1>7
  <2>2. CASE l <= m
    <3>1. n <= m
      BY <1>2, <1>3, <1>10, <2>1, <2>2
    <3>2. n \in 1 .. m /\ l \in 1 .. m /\ o[n] = u[n] /\ o[l] = u[l] /\ o[n] \in F
      BY <1>8, <2>1, <2>2, <3>1
    <3> QED BY <1>2, <1>10, <3>2
  <2>3. CASE ~(l <= m) /\ n <= m
    BY <1>8, <2>1, <2>3
  <2>4. CASE ~(l <= m) /\ ~(n <= m)
    <3>1. /\ n - m \in 1 .. k /\ l - m \in 1 .. k /\ o[n] = v[n - m] /\ o[l] = v[l - m]
          /\ o[n] \in S \ F
      BY <1>8, <2>1, <2>4
    <3>2. n - m < l - m
      BY <1>2, <1>3, <1>10, <2>1
    <3> QED BY <1>3, <3>1, <3>2
  <2> QED BY <2>2, <2>3, <2>4
<1> QED BY <1>4, <1>7, <1>9, <1>10 DEF o, u, v

(* Scores come back from the cards as they went in.                        *)
LEMMA CardsOf ==
  ASSUME NEW S \in SUBSET Nat, IsFiniteSet(S), S # {}, NEW scores \in [S -> Scores],
         NEW qualities \in [S -> CorrelationQualities \cup {"not_estimated"}]
  PROVE  /\ WithRoles(scores, qualities) \in [S -> Card]
         /\ ScoresOf(WithRoles(scores, qualities)) = scores
         /\ \A i \in S : /\ WithRoles(scores, qualities)[i].score = scores[i]
                         /\ WithRoles(scores, qualities)[i].role = Roles(scores)[i]
                         /\ WithRoles(scores, qualities)[i].quality = qualities[i]
<1> DEFINE c == WithRoles(scores, qualities)
<1>1. /\ DOMAIN c = S
      /\ c = [i \in S |-> [score |-> scores[i], role |-> Roles(scores)[i], quality |-> qualities[i]]]
  BY DEF WithRoles
<1> HIDE DEF c
<1>2. \A i \in S : /\ c[i].score = scores[i] /\ c[i].role = Roles(scores)[i]
                   /\ c[i].quality = qualities[i]
  BY <1>1
<1>3. \A i \in S : Roles(scores)[i] \in RoleNames
  BY RolesOf
<1>4. c \in [S -> Card]
  BY <1>1, <1>3 DEF Card
<1>5. ScoresOf(c) = scores
  BY <1>1, <1>2 DEF ScoresOf
<1> QED BY <1>2, <1>4, <1>5 DEF c

LEMMA KeptFacts ==
  ASSUME PlanningTypeOK, CallInv, KeptInv, pc \in Underway \ {"accepted"}
  PROVE  /\ kept \in SUBSET Nat /\ IsFiniteSet(kept) /\ Cardinality(kept) \in Nat
         /\ \A i \in kept : IsPlan(offer.plans[i])
<1>1. /\ Len(offer.plans) \in Nat /\ DOMAIN offer.plans = 1 .. Len(offer.plans)
      /\ \A i \in DOMAIN offer.plans : IsPlan(offer.plans[i])
  BY OfferFacts
<1>2. kept \in SUBSET (1 .. Len(offer.plans))
  BY <1>1 DEF PlanningTypeOK
<1>3. IsFiniteSet(kept)
  <2>1. IsFiniteSet(1 .. Len(offer.plans))
    BY <1>1, CountInterval
  <2> QED BY <1>2, <2>1, FS_Subset
<1>4. kept \in SUBSET Nat /\ \A i \in kept : i \in DOMAIN offer.plans
  BY <1>1, <1>2
<1>5. Cardinality(kept) \in Nat
  BY <1>3, FS_CardinalityType
<1> QED BY <1>1, <1>3, <1>4, <1>5


-----------------------------------------------------------------------------
(* Cards made anew of some scores give every role to the best.             *)
LEMMA RolesAreBest ==
  ASSUME kept' \in SUBSET Nat, IsFiniteSet(kept'), kept' # {}, NEW scores \in [kept' -> Scores],
         NEW qualities \in [kept' -> CorrelationQualities \cup {"not_estimated"}],
         cards' = WithRoles(scores, qualities)
  PROVE  /\ cards' \in [kept' -> Card] /\ ScoresOf(cards') = scores /\ BestInRole'
         /\ \A i \in kept' : cards'[i].quality = qualities[i]
<1> DEFINE S == kept'
<1> HIDE DEF S
<1>1. S \in SUBSET Nat /\ IsFiniteSet(S) /\ S # {} /\ scores \in [S -> Scores]
      /\ qualities \in [S -> CorrelationQualities \cup {"not_estimated"}]
  BY DEF S
<1>2. /\ WithRoles(scores, qualities) \in [S -> Card]
      /\ ScoresOf(WithRoles(scores, qualities)) = scores
      /\ \A i \in S : /\ WithRoles(scores, qualities)[i].score = scores[i]
                      /\ WithRoles(scores, qualities)[i].role = Roles(scores)[i]
                      /\ WithRoles(scores, qualities)[i].quality = qualities[i]
  BY <1>1, CardsOf
<1>3. /\ cards' \in [S -> Card] /\ ScoresOf(cards') = scores
      /\ \A i \in S : cards'[i].score = scores[i] /\ cards'[i].role = Roles(scores)[i]
                        /\ cards'[i].quality = qualities[i]
  BY <1>2
<1>4. /\ \E i \in S : Roles(scores)[i] = "highest_utility"
      /\ \A i, j \in S :
           /\ Roles(scores)[i] = "highest_utility" => scores[j].utility <= scores[i].utility
           /\ Roles(scores)[i] = "most_robust" => scores[j].robustness <= scores[i].robustness
           /\ Roles(scores)[i] = "most_schedule_diverse" =>
                scores[j].diversity <= scores[i].diversity
           /\ i # j /\ Roles(scores)[i] # "other" => Roles(scores)[i] # Roles(scores)[j]
  BY <1>1, RolesOf
<1>5. /\ \E i \in S : cards'[i].role = "highest_utility"
      /\ \A i, j \in S :
           /\ cards'[i].role = "highest_utility" =>
                cards'[j].score.utility <= cards'[i].score.utility
           /\ cards'[i].role = "most_robust" =>
                cards'[j].score.robustness <= cards'[i].score.robustness
           /\ cards'[i].role = "most_schedule_diverse" =>
                cards'[j].score.diversity <= cards'[i].score.diversity
           /\ i # j /\ cards'[i].role # "other" => cards'[i].role # cards'[j].role
  BY <1>3, <1>4
<1>6. BestInRole'
  BY <1>5 DEF S, BestInRole
<1> QED BY <1>3, <1>6 DEF S

LEMMA TopKType ==
  ASSUME IsAsk(ask), Cardinality(kept) \in Nat
  PROVE  TopK \in Nat /\ TopK <= Cardinality(kept)
<1>1. ask.topK \in Nat /\ MaxTopK \in Nat
  BY FormsAssumption DEF IsAsk
<1>2. Sooner(ask.topK, MaxTopK) \in Nat
  BY <1>1 DEF Sooner
<1> QED BY <1>2 DEF TopK, Sooner

LEMMA ScoreRanks ==
  ASSUME PlanningTypeOK, CallInv, KeptInv, Score
  PROVE  RankedInv'
<1>1. /\ pc = "offered" /\ pc' = "scored" /\ kept # {} /\ kept' = kept /\ ask' = ask
      /\ offer' = offer /\ next' = next /\ next \notin DOMAIN offer.plans
  BY DEF Score, AllLooked
<1>2. /\ kept \in SUBSET Nat /\ IsFiniteSet(kept) /\ Cardinality(kept) \in Nat
      /\ \A i \in kept : IsPlan(offer.plans[i])
  BY <1>1, KeptFacts DEF Underway
<1>3. IsAsk(ask) /\ Len(offer.plans) \in Nat /\ DOMAIN offer.plans = 1 .. Len(offer.plans)
  BY <1>1, OfferFacts DEF Underway
<1> DEFINE scores == Scored(ask, offer.plans, kept)
<1>4. scores \in [kept -> Scores]
  BY <1>1, <1>2, <1>3, ScoredType
<1>5. /\ cards' = WithRoles(scores, [i \in kept |-> "not_estimated"])
      /\ stage3' = Ranked(scores, kept) /\ order' = stage3'
  BY DEF Score
<1> HIDE DEF scores
<1>6. /\ cards' \in [kept' -> Card] /\ ScoresOf(cards') = scores /\ BestInRole'
      /\ \A i \in kept' : cards'[i].quality = "not_estimated"
  <2> DEFINE q == [i \in kept |-> "not_estimated"]
  <2>1. /\ q \in [kept' -> CorrelationQualities \cup {"not_estimated"}]
        /\ \A i \in kept' : q[i] = "not_estimated" /\ cards' = WithRoles(scores, q)
    BY <1>1, <1>5
  <2>2. cards' = WithRoles(scores, q)
    BY <1>5
  <2> HIDE DEF q
  <2>3. /\ cards' \in [kept' -> Card] /\ ScoresOf(cards') = scores /\ BestInRole'
        /\ \A i \in kept' : cards'[i].quality = q[i]
    BY <1>1, <1>2, <1>4, <2>1, <2>2, RolesAreBest
  <2> QED BY <2>1, <2>3
<1>7. /\ Ranked(scores, kept) \in [1 .. Cardinality(kept) -> kept]
      /\ \A i \in kept : \E n \in 1 .. Cardinality(kept) : Ranked(scores, kept)[n] = i
      /\ \A n, l \in 1 .. Cardinality(kept) :
           n < l => Precedes(scores, Ranked(scores, kept)[n], Ranked(scores, kept)[l])
  BY <1>2, <1>4, RankedOf
<1>8. RanksAll(Ranked(scores, kept), scores, kept)
  BY <1>7 DEF RanksAll
<1>9. RanksAll(stage3, ScoresOf(cards), kept)'
  <2>1. RanksAll(stage3', ScoresOf(cards'), kept')
    BY <1>1, <1>5, <1>6, <1>8
  <2> QED BY <2>1 DEF RanksAll, ScoresOf, Precedes, Ranks
<1>10. next' = Len(offer'.plans) + 1
  BY <1>1, <1>3 DEF PlanningTypeOK
<1>11. \A i \in kept' : ~Estimated(i)'
  BY <1>6 DEF Estimated
<1> QED BY <1>1, <1>5, <1>6, <1>9, <1>10, <1>11 DEF RankedInv

LEMMA SkipRanks ==
  ASSUME PlanningTypeOK, CallInv, KeptInv, RankedInv, SkipRollout
  PROVE  RankedInv'
<1>1. /\ pc = "scored" /\ pc' = "reranked" /\ NoRollout
      /\ UNCHANGED <<ask, oracle, offer, next, kept, cards, stage3, order, response>>
  BY DEF SkipRollout
<1>2. Cardinality(kept) \in Nat
  BY <1>1, KeptFacts DEF Underway
<1>3. /\ RanksAll(stage3, ScoresOf(cards), kept) /\ order = stage3
      /\ \A i \in kept : ~Estimated(i)
  BY <1>1 DEF RankedInv
<1>4. EstimatedFirst(0)
  <2>1. order \in Seq(kept) /\ Len(order) = Cardinality(kept) /\ {order[n] : n \in DOMAIN order} = kept
    BY <1>2, <1>3 DEF RanksAll
  <2>2. {i \in kept : Estimated(i)} = {stage3[n] : n \in 1 .. 0}
    BY <1>3
  <2>3. \A n \in DOMAIN order : order[n] \in kept
    BY <2>1
  <2> QED BY <1>3, <2>1, <2>2, <2>3 DEF EstimatedFirst, RanksAll
<1>5. EstimatedFirst(0)'
  BY <1>1, <1>4 DEF EstimatedFirst, Estimated
<1>6. NoRollout'
  BY <1>1 DEF NoRollout, TopK
<1>7. /\ kept # {} /\ next = Len(offer.plans) + 1 /\ cards \in [kept -> Card] /\ BestInRole
  BY <1>1 DEF RankedInv
<1>8. BestInRole'
  BY <1>1, <1>7 DEF BestInRole
<1> QED BY <1>1, <1>5, <1>6, <1>7, <1>8 DEF RankedInv


LEMMA RolloutRanks ==
  ASSUME PlanningTypeOK, CallInv, KeptInv, RankedInv, Rollout
  PROVE  RankedInv'
<1> DEFINE F == Finalists
<1>1. /\ pc = "scored" /\ pc' = "reranked" /\ ~NoRollout
      /\ ask' = ask /\ offer' = offer /\ next' = next /\ kept' = kept /\ stage3' = stage3
  BY DEF Rollout
<1>2. PICK draws \in [Finalists -> Draws] :
        cards' = Reassigned(Rolled(draws)) /\ order' = Cohorts(Rolled(draws))
  BY DEF Rollout
<1>3. /\ kept # {} /\ next = Len(offer.plans) + 1 /\ cards \in [kept -> Card]
      /\ RanksAll(stage3, ScoresOf(cards), kept)
  BY <1>1 DEF RankedInv
<1>4. kept \in SUBSET Nat /\ IsFiniteSet(kept) /\ Cardinality(kept) \in Nat /\ IsAsk(ask)
  BY <1>1, KeptFacts, OfferFacts DEF Underway
<1>5. F \in SUBSET kept
  <2>1. TopK \in Nat /\ TopK <= Cardinality(kept)
    BY <1>4, TopKType
  <2>2. ASSUME NEW n \in 1 .. TopK PROVE stage3[n] \in kept
    <3>1. n \in 1 .. Cardinality(kept)
      BY <1>4, <2>1
    <3> QED BY <1>3, <3>1 DEF RanksAll
  <2> QED BY <2>2 DEF Finalists
<1> DEFINE scores == Rolled(draws)
           q == Qualities
<1>6. scores \in [kept -> Scores]
  <2>1. ASSUME NEW i \in kept PROVE cards[i].score \in Scores
    BY <1>3 DEF Card
  <2>2. ASSUME NEW i \in F PROVE Grounded(cards[i].score, draws[i]) \in Scores
    <3>1. draws[i] \in [robustness : Int, probability : Int]
      BY FormsAssumption
    <3>2. draws[i].robustness \in Int /\ draws[i].robustness + draws[i].probability \in Int
      BY <3>1
    <3>3. cards[i].score \in Scores
      BY <1>5, <2>1
    <3>4. Total(ask, cards[i].score, draws[i].robustness + draws[i].probability) \in Int
      BY <1>4, <3>2, <3>3, TotalType
    <3> QED BY <3>2, <3>3, <3>4 DEF Grounded, Scores
  <2>3. scores = [i \in kept |-> IF i \in F THEN Grounded(cards[i].score, draws[i]) ELSE cards[i].score]
    BY DEF Rolled
  <2> HIDE DEF scores, F
  <2> QED BY <2>1, <2>2, <2>3
<1>7. q \in [kept -> CorrelationQualities \cup {"not_estimated"}]
      /\ \A i \in kept : q[i] # "not_estimated" <=> i \in F
  <2>1. ask.correlation \in CorrelationQualities /\ ask.correlation # "not_estimated"
    BY <1>4 DEF IsAsk, CorrelationQualities
  <2> QED BY <2>1 DEF Qualities
<1>8. cards' = WithRoles(scores, q) /\ order' = Ranked(scores, F) \o Ranked(scores, kept \ F)
  BY <1>2 DEF Reassigned, Cohorts
<1> HIDE DEF scores, q, F
<1>9. /\ cards' \in [kept' -> Card] /\ ScoresOf(cards') = scores /\ BestInRole'
      /\ \A i \in kept' : cards'[i].quality = q[i]
  BY <1>1, <1>3, <1>4, <1>6, <1>7, <1>8, RolesAreBest
<1>10. /\ order' \in Seq(kept) /\ Len(order') = Cardinality(kept)
       /\ {order'[n] : n \in DOMAIN order'} = kept
       /\ \A n, l \in DOMAIN order' : n < l =>
            /\ order'[l] \in F => order'[n] \in F
            /\ (order'[l] \in F <=> order'[n] \in F) => Precedes(scores, order'[n], order'[l])
  <2>1. LET o == Ranked(scores, F) \o Ranked(scores, kept \ F) IN
        /\ o \in Seq(kept) /\ Len(o) = Cardinality(kept) /\ {o[n] : n \in DOMAIN o} = kept
        /\ \A n, l \in DOMAIN o : n < l =>
             /\ o[l] \in F => o[n] \in F
             /\ (o[l] \in F <=> o[n] \in F) => Precedes(scores, o[n], o[l])
    BY <1>4, <1>5, <1>6, CohortsRank
  <2> QED BY <1>8, <2>1
<1>11. \A i \in kept : Estimated(i)' <=> i \in F
  BY <1>1, <1>7, <1>9 DEF Estimated
<1>12. EstimatedFirst(TopK)'
  <2>1. {i \in kept' : Estimated(i)'} = {stage3'[n] : n \in 1 .. TopK'}
    <3>1. F = {stage3'[n] : n \in 1 .. TopK'}
      BY <1>1 DEF F, Finalists, TopK
    <3> QED BY <1>1, <1>5, <1>11, <3>1
  <2>2. ASSUME NEW n \in DOMAIN order', NEW l \in DOMAIN order', n < l
        PROVE  /\ Estimated(order[l])' => Estimated(order[n])'
               /\ Estimated(order[l])' = Estimated(order[n])' =>
                    Precedes(ScoresOf(cards'), order'[n], order'[l])
    <3>1. order'[n] \in kept /\ order'[l] \in kept
      BY <1>10
    <3>2. /\ Estimated(order[l])' <=> order'[l] \in F
          /\ Estimated(order[n])' <=> order'[n] \in F
      <4>1. \A i \in kept : cards'[i].quality # "not_estimated" <=> i \in F
        BY <1>11 DEF Estimated
      <4> QED BY <3>1, <4>1 DEF Estimated
    <3>3. /\ order'[l] \in F => order'[n] \in F
          /\ (order'[l] \in F <=> order'[n] \in F) => Precedes(scores, order'[n], order'[l])
      BY <1>10, <2>2
    <3> QED BY <1>9, <3>2, <3>3
  <2> QED BY <1>1, <1>10, <2>1, <2>2 DEF EstimatedFirst
<1>13. ~NoRollout'
  BY <1>1 DEF NoRollout, TopK
<1> QED BY <1>1, <1>3, <1>9, <1>12, <1>13 DEF RankedInv

LEMMA RankedStep ==
  PlanningTypeOK /\ CallInv /\ KeptInv /\ RankedInv /\ [PlanningNext]_planningVars => RankedInv'
<1> SUFFICES ASSUME PlanningTypeOK, CallInv, KeptInv, RankedInv, [PlanningNext]_planningVars
             PROVE  RankedInv'
  OBVIOUS
<1>1. CASE pc' \notin {"scored", "reranked"}
  BY <1>1 DEF RankedInv
<1>2. CASE Score
  BY <1>2, ScoreRanks
<1>3. CASE SkipRollout
  BY <1>3, SkipRanks
<1>4. CASE Rollout
  BY <1>4, RolloutRanks
<1>5. CASE UNCHANGED planningVars
  BY <1>5 DEF planningVars, RankedInv, RanksAll, EstimatedFirst, Estimated, BestInRole,
              NoRollout, TopK
<1>6. CASE \/ pc = "idle" /\ \E a \in Asks : Begin(a)
           \/ BeforeOffer \/ Generate \/ Return
  BY <1>1, <1>6 DEF Begin, BeforeOffer, RepairRefused, RepairUnchanged, RepairBuilt, Refuse,
                    Accept, Reject, Respond, Generate, Take, Return
<1>7. CASE GenerationFailed \/ NothingKept \/ RolloutFails \/ Deliver
  BY <1>1, <1>7 DEF GenerationFailed, NothingKept, RolloutFails, Deliver, Reject, Respond
<1>8. CASE RefuseInvalid \/ RefuseAffect \/ RefuseObvious \/ Keep
  BY <1>1, <1>8 DEF RefuseInvalid, RefuseAffect, RefuseObvious, Keep, Looking, Looked
<1> QED BY <1>2, <1>3, <1>4, <1>5, <1>6, <1>7, <1>8 DEF PlanningNext, AfterOffer


-----------------------------------------------------------------------------
(* What is listed are candidates that were kept, and all of them but where *)
(* repair() hands on the first alone.                                      *)
LEMMA ListedOf ==
  ASSUME PlanningTypeOK, CallInv, KeptInv, RankedInv, pc = "reranked"
  PROVE  /\ order \in Seq(kept) /\ Len(order) = Cardinality(kept) /\ 1 \in DOMAIN order
         /\ Listed # <<>>
         /\ \A n \in DOMAIN Listed : \E i \in kept : Listed[n] = offer.plans[i]
         /\ ask.entry # "repair" => Len(Listed) = Cardinality(kept)
<1>1. kept # {} /\ order \in Seq(kept) /\ Len(order) = Cardinality(kept)
      /\ {order[n] : n \in DOMAIN order} = kept
  BY DEF RankedInv, EstimatedFirst
<1>2. Len(order) \in Nat /\ DOMAIN order = 1 .. Len(order) /\ \A n \in DOMAIN order : order[n] \in kept
  BY <1>1
<1>3. 1 \in DOMAIN order
  <2>1. PICK n \in DOMAIN order : TRUE
    BY <1>1
  <2> QED BY <1>2, <2>1
<1> DEFINE plans == [n \in DOMAIN order |-> offer.plans[order[n]]]
<1>4. /\ DOMAIN plans = 1 .. Len(order)
      /\ \A n \in DOMAIN plans : \E i \in kept : plans[n] = offer.plans[i]
  BY <1>2
<1>5. plans \in Seq({plans[n] : n \in 1 .. Len(order)}) /\ Len(plans) = Len(order)
  <2>1. plans \in [1 .. Len(order) -> {plans[n] : n \in 1 .. Len(order)}]
    BY <1>2
  <2> HIDE DEF plans
  <2> QED BY <1>2, <2>1
<1>6. Listed = IF ask.entry = "repair" THEN <<plans[1]>> ELSE plans
  BY DEF Listed
<1> HIDE DEF plans
<1>7. CASE ask.entry = "repair"
  <2>1. Listed = <<plans[1]>> /\ 1 \in DOMAIN plans
    BY <1>2, <1>3, <1>4, <1>6, <1>7
  <2>2. DOMAIN Listed = {1} /\ Listed[1] = plans[1] /\ Listed # <<>>
    BY <2>1
  <2> QED BY <1>1, <1>3, <1>4, <1>7, <2>1, <2>2
<1>8. CASE ask.entry # "repair"
  <2>1. Listed = plans
    BY <1>6, <1>8
  <2>2. 1 \in DOMAIN plans /\ DOMAIN (<<>>) = {}
    BY <1>2, <1>3, <1>4
  <2> QED BY <1>1, <1>3, <1>4, <1>5, <2>1, <2>2
<1> QED BY <1>7, <1>8

LEMMA DeliverMeans ==
  ASSUME PlanningTypeOK, CallInv, KeptInv, RankedInv, Deliver
  PROVE  StatusMeans' /\ NothingLost' /\ RankingHolds'
<1>1. /\ pc = "reranked" /\ pc' = "answered"
      /\ response' = [status |-> StatusOf(offer.left), plans |-> Listed, left |-> offer.left,
                      codes |-> codes]
      /\ UNCHANGED <<ask, oracle, offer, next, kept, codes, cards, stage3, order>>
  BY DEF Deliver, Respond
<1>2. /\ order \in Seq(kept) /\ Len(order) = Cardinality(kept) /\ 1 \in DOMAIN order
      /\ Listed # <<>>
      /\ \A n \in DOMAIN Listed : \E i \in kept : Listed[n] = offer.plans[i]
      /\ ask.entry # "repair" => Len(Listed) = Cardinality(kept)
  BY <1>1, ListedOf
<1>3. /\ kept # {} /\ next = Len(offer.plans) + 1 /\ BestInRole
      /\ EstimatedFirst(IF NoRollout THEN 0 ELSE TopK)
  BY <1>1 DEF RankedInv
<1>4. /\ Len(offer.plans) \in Nat /\ DOMAIN offer.plans = 1 .. Len(offer.plans)
      /\ \A i \in DOMAIN offer.plans :
           /\ IsPlan(offer.plans[i])
           /\ Contract!Acceptable(ask.request, offer.plans[i], DOMAIN offer.left)
  BY <1>1, OfferFacts DEF Underway
<1>5. kept \subseteq DOMAIN offer.plans
  BY DEF PlanningTypeOK
<1>6. ASSUME NEW i \in kept
      PROVE  /\ DOMAIN offer.plans[i] = Tasks \ DOMAIN offer.left
             /\ ProtectedTasks(ask.request, {}) \cap DOMAIN offer.left = {}
             /\ ValidatePlan(ask.request, offer.plans[i]) /\ PreservesSlack(ask.request, offer.plans[i])
  <2>1. /\ IsPlan(offer.plans[i])
        /\ Contract!Acceptable(ask.request, offer.plans[i], DOMAIN offer.left)
    BY <1>4, <1>5
  <2>2. /\ DOMAIN offer.left = Tasks \ DOMAIN offer.plans[i]
        /\ ProtectedTasks(ask.request, {}) \cap DOMAIN offer.left = {}
    BY <2>1, ContractMeans
  <2>3. DOMAIN offer.plans[i] \subseteq Tasks
    BY <2>1 DEF IsPlan
  <2>4. ValidatePlan(ask.request, offer.plans[i]) /\ PreservesSlack(ask.request, offer.plans[i])
    BY <1>1 DEF KeptInv, Underway
  <2> QED BY <2>2, <2>3, <2>4
<1>7. StatusMeans'
  <2>1. \A n \in DOMAIN Listed :
          /\ DOMAIN Listed[n] = Tasks \ DOMAIN offer.left
          /\ ValidatePlan(ask.request, Listed[n]) /\ PreservesSlack(ask.request, Listed[n])
    BY <1>2, <1>6
  <2>2. ProtectedTasks(ask.request, {}) \cap DOMAIN offer.left = {}
    BY <1>3, <1>6
  <2>3. response'.status = "ok" <=> DOMAIN offer.left = {}
    BY <1>1 DEF StatusOf
  <2>4. response'.status # "rejected" /\ response'.plans = Listed /\ response'.left = offer.left
    BY <1>1 DEF StatusOf
  <2> QED BY <1>1, <1>2, <2>1, <2>2, <2>3, <2>4 DEF StatusMeans
<1>8. NothingLost'
  <2>1. SUFFICES ASSUME ask.request.mode = "fresh" PROVE Len(Listed) = Len(offer.plans)
    BY <1>1 DEF NothingLost
  <2>2. ask.entry # "repair"
    BY <1>1, <2>1 DEF CallInv, Underway
  <2>3. kept = 1 .. next - 1
    BY <1>1, <1>3, <2>1 DEF KeptInv, Underway
  <2>4. kept = 1 .. Len(offer.plans)
    BY <1>3, <1>4, <2>3
  <2>5. Cardinality(kept) = Len(offer.plans)
    BY <1>4, <2>4, CountInterval
  <2> QED BY <1>2, <2>2, <2>5
<1>9. RankingHolds'
  <2>1. RankingWhole'
    <3>1. NoRollout' = NoRollout /\ TopK' = TopK
      BY <1>1 DEF NoRollout, TopK
    <3>2. EstimatedFirst(IF NoRollout THEN 0 ELSE TopK)'
      BY <1>1, <1>3, <3>1 DEF EstimatedFirst, Estimated
    <3> QED BY <3>2 DEF RankingWhole, EstimatedFirst
  <2>2. RolesCurrent'
    <3>1. BestInRole'
      BY <1>1, <1>3 DEF BestInRole
    <3> QED BY <3>1 DEF RolesCurrent, BestInRole
  <2> QED BY <2>1, <2>2 DEF RankingHolds
<1> QED BY <1>7, <1>8, <1>9

LEMMA AnswersStep ==
  /\ PlanningTypeOK /\ CallInv /\ KeptInv /\ RankedInv
  /\ StatusMeans /\ NothingLost /\ RankingHolds
  /\ [PlanningNext]_planningVars
  => StatusMeans' /\ NothingLost' /\ RankingHolds'
<1> SUFFICES ASSUME PlanningTypeOK, CallInv, KeptInv, RankedInv, StatusMeans, NothingLost,
                    RankingHolds, [PlanningNext]_planningVars
             PROVE  StatusMeans' /\ NothingLost' /\ RankingHolds'
  OBVIOUS
<1>1. CASE pc' # "answered"
  BY <1>1 DEF StatusMeans, NothingLost, RankingHolds, RankingWhole, RolesCurrent, Ranking
<1>2. ASSUME NEW cs, Reject(cs),
             offer.plans # <<>> /\ ask.request.mode = "fresh" =>
               \/ /\ ask.affect.mode = "enforce"
                  /\ \E d \in DOMAIN ask.affect.dims : ask.affect.dims[d].standing # "met"
               \/ /\ ask.rollouts # "none"
                  /\ ask.correlation \in {"invalid", "degraded_independence"}
      PROVE  StatusMeans' /\ NothingLost' /\ RankingHolds'
  <2>1. /\ response'.status = "rejected" /\ response'.plans = <<>> /\ response'.left = <<>>
        /\ ask' = ask /\ offer' = offer
    BY <1>2 DEF Reject, Respond
  <2>2. StatusMeans'
    BY <2>1 DEF StatusMeans
  <2>3. NothingLost'
    BY <1>2, <2>1 DEF NothingLost
  <2>4. RankingHolds'
    BY <2>1 DEF RankingHolds, RankingWhole, RolesCurrent, Ranking
  <2> QED BY <2>2, <2>3, <2>4
<1>3. CASE RepairRefused
  <2>1. offer.plans = <<>>
    BY <1>3 DEF RepairRefused, CallInv, Untouched, NoSet
  <2> QED BY <1>2, <1>3, <2>1 DEF RepairRefused
<1>4. CASE Refuse
  <2>1. offer.plans = <<>>
    BY <1>4 DEF Refuse, AtPlan, CallInv, Untouched, NoSet
  <2> QED BY <1>2, <1>4, <2>1 DEF Refuse
<1>5. CASE RepairUnchanged
  <2>1. /\ offer' = offer /\ order' = order /\ offer.plans = <<>> /\ order = <<>>
        /\ response'.status = "ok"
    BY <1>5 DEF RepairUnchanged, Respond, CallInv, Untouched, NoSet
  <2> QED BY <2>1 DEF StatusMeans, NothingLost, RankingHolds, RankingWhole, RolesCurrent, Ranking
<1>6. CASE GenerationFailed
  BY <1>2, <1>6 DEF GenerationFailed
<1>7. CASE NothingKept
  <2>1. ASSUME offer.plans # <<>>, ask.request.mode = "fresh" PROVE ~AffectAdmits(ask)
    <3>1. Len(offer.plans) \in Nat /\ DOMAIN offer.plans = 1 .. Len(offer.plans)
      BY <1>7, OfferFacts DEF NothingKept, AllLooked, Underway
    <3>2. next = Len(offer.plans) + 1
      BY <1>7, <3>1 DEF NothingKept, AllLooked, PlanningTypeOK
    <3>3. Len(offer.plans) # 0
      <4>1. offer.plans \in Seq({offer.plans[i] : i \in DOMAIN offer.plans})
        BY <1>7, OfferFacts DEF NothingKept, AllLooked, Underway, KeepsContract, IsCandidateSet
      <4> QED BY <2>1, <4>1
    <3>4. 1 \in 1 .. next - 1
      BY <3>1, <3>2, <3>3
    <3> QED BY <1>7, <2>1, <3>4 DEF NothingKept, AllLooked, KeptInv, Underway
  <2> QED BY <1>2, <1>7, <2>1 DEF NothingKept, AffectAdmits, AffectPassed
<1>8. CASE RolloutFails
  BY <1>2, <1>8 DEF RolloutFails, NoRollout, NoFactor
<1>9. CASE Deliver
  BY <1>9, DeliverMeans
<1>10. CASE UNCHANGED planningVars
  BY <1>10 DEF planningVars, StatusMeans, NothingLost, RankingHolds, RankingWhole, RolesCurrent,
               Ranking, Estimated, NoRollout, TopK
<1>11. CASE \/ pc = "idle" /\ \E a \in Asks : Begin(a)
            \/ RepairBuilt \/ Accept \/ Generate \/ Score \/ SkipRollout \/ Rollout \/ Return
  BY <1>1, <1>11 DEF Begin, RepairBuilt, Accept, Generate, Take, Score, SkipRollout, Rollout, Return
<1>12. CASE RefuseInvalid \/ RefuseAffect \/ RefuseObvious \/ Keep
  BY <1>1, <1>12 DEF RefuseInvalid, RefuseAffect, RefuseObvious, Keep, Looking, Looked
<1> QED BY <1>3, <1>4, <1>5, <1>6, <1>7, <1>8, <1>9, <1>10, <1>11, <1>12
        DEF PlanningNext, BeforeOffer, AfterOffer

-----------------------------------------------------------------------------
LEMMA PipelineInit == PlanningInit => PipelineInv
<1> SUFFICES ASSUME PlanningInit PROVE PipelineInv
  OBVIOUS
<1>1. pc = "idle"
  BY DEF PlanningInit
<1> QED BY <1>1, CallInit, TypeInit
        DEF PipelineInv, KeptInv, RankedInv, StatusMeans, NothingLost, RankingHolds, RankingWhole,
            RolesCurrent, Ranking, Underway

LEMMA PipelineStep == PipelineInv /\ [PlanningNext]_planningVars => PipelineInv'
<1> SUFFICES ASSUME PipelineInv, [PlanningNext]_planningVars PROVE PipelineInv'
  OBVIOUS
<1>1. /\ PlanningTypeOK /\ CallInv /\ KeptInv /\ RankedInv
      /\ StatusMeans /\ NothingLost /\ RankingHolds
  BY DEF PipelineInv
<1>2. PlanningTypeOK'
  BY <1>1, TypeStep
<1>3. CallInv'
  BY <1>1, CallStep
<1>4. KeptInv'
  BY <1>1, KeptStep
<1>5. RankedInv'
  BY <1>1, RankedStep
<1>6. StatusMeans' /\ NothingLost' /\ RankingHolds'
  BY <1>1, AnswersStep
<1> QED BY <1>2, <1>3, <1>4, <1>5, <1>6 DEF PipelineInv

(* The pipeline over any strategy that keeps the contract.                 *)
LEMMA PipelineHolds == PlanningSpec => []PipelineInv
BY PipelineInit, PipelineStep, PTL DEF PlanningSpec


-----------------------------------------------------------------------------
(***************************************************************************)
(* The wire: a candidate set encoded and assembled again is the same set.  *)
(***************************************************************************)
StepAt(r, set, c, s) == set.plans[c][InOrder(r, set.plans[c])[s]]

Filled(set, c, s) == c \in DOMAIN set.plans /\ s <= Cardinality(DOMAIN set.plans[c])

LEMMA EncodeOf ==
  ASSUME NEW r, NEW set
  PROVE  LET E == Encode(r, set) IN
         /\ \A c \in Rows, s \in Slots :
              /\ E.slot_mask[c][s] = IF Filled(set, c, s) THEN TRUE ELSE FALSE
              /\ Filled(set, c, s) =>
                   /\ E.task_index[c][s] = Listed1(StepAt(r, set, c, s).task) - 1
                   /\ E.start_time_offsets[c][s] = StepAt(r, set, c, s).start - r.window.start
                   /\ E.duration_samples[c][s] =
                        StepAt(r, set, c, s).end - StepAt(r, set, c, s).start
<1> DEFINE E == Encode(r, set)
<1>1. /\ E.task_index =
           [c \in Rows |-> [s \in Slots |->
              IF Filled(set, c, s) THEN Listed1(StepAt(r, set, c, s).task) - 1 ELSE -1]]
      /\ E.slot_mask =
           [c \in Rows |-> [s \in Slots |-> IF Filled(set, c, s) THEN TRUE ELSE FALSE]]
      /\ E.start_time_offsets =
           [c \in Rows |-> [s \in Slots |->
              IF Filled(set, c, s) THEN StepAt(r, set, c, s).start - r.window.start ELSE 0]]
      /\ E.duration_samples =
           [c \in Rows |-> [s \in Slots |->
              IF Filled(set, c, s) THEN StepAt(r, set, c, s).end - StepAt(r, set, c, s).start
              ELSE 0]]
  BY DEF Encode, Filled, StepAt
<1> HIDE DEF E
<1>2. ASSUME NEW c \in Rows, NEW s \in Slots
      PROVE  /\ E.slot_mask[c][s] = IF Filled(set, c, s) THEN TRUE ELSE FALSE
             /\ Filled(set, c, s) =>
                  /\ E.task_index[c][s] = Listed1(StepAt(r, set, c, s).task) - 1
                  /\ E.start_time_offsets[c][s] = StepAt(r, set, c, s).start - r.window.start
                  /\ E.duration_samples[c][s] =
                       StepAt(r, set, c, s).end - StepAt(r, set, c, s).start
  BY <1>1
<1> QED BY <1>2 DEF E

LEMMA EncodeRows ==
  ASSUME NEW r, NEW set
  PROVE  LET E == Encode(r, set) IN
         /\ \A c \in Rows : E.validity_mask[c] = IF c \in DOMAIN set.plans THEN TRUE ELSE FALSE
         /\ E.omissions = [t \in DOMAIN set.left |-> set.left[t].reason]
         /\ E.failure = set.failure
BY DEF Encode

LEMMA PositionOf ==
  ASSUME NEW r, IsRequest(r), NEW t \in Tasks
  PROVE  Position(r, t) \in Nat /\ r.order[Position(r, t)] = t
<1>1. r.order \in Seq(Tasks) /\ \E i \in DOMAIN r.order : r.order[i] = t
  BY DEF IsRequest, IsTopological
<1>2. Position(r, t) \in DOMAIN r.order /\ r.order[Position(r, t)] = t
  BY <1>1 DEF Position
<1> QED BY <1>1, <1>2

LEMMA InOrderOf ==
  ASSUME Cardinality(Tasks) <= MaxPlanningTasks, NEW r, IsRequest(r), NEW p, IsPlan(p)
  PROVE  LET k == Cardinality(DOMAIN p) IN
         /\ k \in Nat /\ k <= MaxPlanningTasks
         /\ InOrder(r, p) \in [1 .. k -> DOMAIN p]
         /\ \A t \in DOMAIN p : \E n \in 1 .. k : InOrder(r, p)[n] = t
<1> DEFINE S == DOMAIN p
           R == {e \in S \X S : Position(r, e[1]) < Position(r, e[2])}
<1>1. S \in SUBSET Tasks /\ IsFiniteSet(S)
  BY PlanFacts
<1>2. \A t, u \in S : <<t, u>> \in R <=> Position(r, t) < Position(r, u)
  OBVIOUS
<1>3. \A t, u : <<t, u>> \in R => t \in S /\ u \in S
  OBVIOUS
<1>4. \A t \in S : Preceding(R, S, t) = {u \in S : Position(r, u) < Position(r, t)}
  BY DEF Preceding
<1> HIDE DEF R
<1>5. \A t \in S : Position(r, t) \in Nat /\ r.order[Position(r, t)] = t
  BY <1>1, PositionOf
<1>6. StrictlyOrders(R, S)
  <2>1. \A t \in S : <<t, t>> \notin R
    BY <1>2, <1>5
  <2>2. ASSUME NEW t \in S, NEW u \in S, t # u PROVE <<t, u>> \in R \/ <<u, t>> \in R
    <3>1. Position(r, t) \in Nat /\ Position(r, u) \in Nat /\ Position(r, t) # Position(r, u)
      BY <1>5, <2>2
    <3>2. Position(r, t) < Position(r, u) \/ Position(r, u) < Position(r, t)
      BY <3>1
    <3> QED BY <1>2, <3>2
  <2>3. ASSUME NEW t \in S, NEW u \in S, NEW v \in S, <<t, u>> \in R, <<u, v>> \in R
        PROVE  <<t, v>> \in R
    <3>1. Position(r, t) < Position(r, u) /\ Position(r, u) < Position(r, v)
      BY <1>2, <2>3
    <3>2. Position(r, t) \in Nat /\ Position(r, u) \in Nat /\ Position(r, v) \in Nat
      BY <1>5
    <3>3. Position(r, t) < Position(r, v)
      BY <3>1, <3>2
    <3> QED BY <1>2, <3>3
  <2> QED BY <2>1, <2>2, <2>3 DEF StrictlyOrders
<1>7. InOrder(r, p) = Enumeration(R, S)
  <2> DEFINE listed(n) == CHOOSE t \in DOMAIN p :
               Cardinality({u \in DOMAIN p : Position(r, u) < Position(r, t)}) = n - 1
             counted(n) == CHOOSE t \in S : Cardinality(Preceding(R, S, t)) = n - 1
  <2>1. \A n : listed(n) = counted(n)
    BY <1>4
  <2>2. /\ InOrder(r, p) = [n \in 1 .. Cardinality(S) |-> listed(n)]
        /\ Enumeration(R, S) = [n \in 1 .. Cardinality(S) |-> counted(n)]
    BY DEF InOrder, Enumeration
  <2> HIDE DEF listed, counted
  <2> QED BY <2>1, <2>2
<1>8. /\ Cardinality(S) \in Nat
      /\ Enumeration(R, S) \in [1 .. Cardinality(S) -> S]
      /\ \A t \in S : \E n \in 1 .. Cardinality(S) : Enumeration(R, S)[n] = t
  BY <1>1, <1>6, EnumerationOf
<1>9. Cardinality(S) <= MaxPlanningTasks
  <2>1. Cardinality(S) <= Cardinality(Tasks)
    BY <1>1, FormsAssumption, FS_Subset
  <2>2. Cardinality(Tasks) \in Nat /\ MaxPlanningTasks \in Nat
    BY FormsAssumption, ListingAssumption, FS_CardinalityType
  <2> HIDE DEF S
  <2> QED BY <1>8, <2>1, <2>2
<1> QED BY <1>7, <1>8, <1>9

LEMMA Listed1Of ==
  ASSUME NEW t \in Tasks
  PROVE  Listed1(t) \in Int /\ Listing[Listed1(t)] = t
<1>1. Listing \in Seq(Tasks) /\ \E i \in DOMAIN Listing : Listing[i] = t
  BY ListingAssumption
<1>2. Listed1(t) \in DOMAIN Listing /\ Listing[Listed1(t)] = t
  BY <1>1 DEF Listed1
<1> QED BY <1>1, <1>2

(* A Plan's row, read back.                                                *)
LEMMA PlanAtOf ==
  ASSUME Cardinality(Tasks) <= MaxPlanningTasks, NEW r, IsRequest(r), NEW p, IsPlan(p),
         \A t \in DOMAIN p : p[t] = PlanStep(r, t, p[t].start),
         NEW set, NEW c \in Rows, c \in DOMAIN set.plans, set.plans[c] = p
  PROVE  PlanAt(r, Encode(r, set), c) = p
<1> DEFINE E == Encode(r, set)
           k == Cardinality(DOMAIN p)
           e == InOrder(r, p)
           used == {s \in Slots : E.slot_mask[c][s]}
           task(s) == Listing[E.task_index[c][s] + 1]
           start(s) == r.window.start + E.start_time_offsets[c][s]
           read(t) == LET s == CHOOSE x \in used : task(x) = t
                      IN  [task |-> t, start |-> start(s), end |-> start(s) + E.duration_samples[c][s],
                           deps |-> r.deps[t], static |-> t \in DOMAIN r.anchor]
<1>1. /\ k \in Nat /\ k <= MaxPlanningTasks /\ MaxPlanningTasks \in Nat
      /\ e \in [1 .. k -> DOMAIN p] /\ \A t \in DOMAIN p : \E n \in 1 .. k : e[n] = t
  BY InOrderOf, ListingAssumption
<1>2. \A s \in Slots :
        /\ E.slot_mask[c][s] = IF Filled(set, c, s) THEN TRUE ELSE FALSE
        /\ Filled(set, c, s) =>
             /\ E.task_index[c][s] = Listed1(StepAt(r, set, c, s).task) - 1
             /\ E.start_time_offsets[c][s] = StepAt(r, set, c, s).start - r.window.start
             /\ E.duration_samples[c][s] = StepAt(r, set, c, s).end - StepAt(r, set, c, s).start
  BY EncodeOf
<1>3. \A s \in Slots : Filled(set, c, s) <=> s <= k
  BY DEF Filled
<1>4. \A s : StepAt(r, set, c, s) = p[e[s]]
  BY DEF StepAt
<1>5. PlanAt(r, E, c) = [t \in {task(s) : s \in used} |-> read(t)]
  BY DEF PlanAt
<1> HIDE DEF E, k, e
<1>6. ASSUME NEW s \in 1 .. k
      PROVE  /\ s \in Slots /\ E.slot_mask[c][s] = TRUE
             /\ E.task_index[c][s] = Listed1(p[e[s]].task) - 1
             /\ E.start_time_offsets[c][s] = p[e[s]].start - r.window.start
             /\ E.duration_samples[c][s] = p[e[s]].end - p[e[s]].start
  <2>1. s \in Slots /\ s <= k
    BY <1>1 DEF Slots
  <2> QED BY <2>1, <1>2, <1>3, <1>4
<1>7. used = 1 .. k
  <2>1. ASSUME NEW s \in used PROVE s \in 1 .. k
    <3>1. s \in Slots /\ s <= k
      BY <1>2, <1>3
    <3> QED BY <1>1, <3>1 DEF Slots
  <2>2. \A s \in 1 .. k : s \in used
    BY <1>6
  <2> QED BY <2>1, <2>2
<1>8. ASSUME NEW t \in DOMAIN p
      PROVE  /\ t \in Tasks /\ p[t].task = t /\ p[t].start \in Int /\ p[t].end \in Int
             /\ p[t] = [task |-> t, start |-> p[t].start, end |-> p[t].end,
                        deps |-> r.deps[t], static |-> t \in DOMAIN r.anchor]
  <2>1. p[t] = [task |-> t, start |-> p[t].start, end |-> p[t].start + r.duration[t],
                deps |-> r.deps[t], static |-> t \in DOMAIN r.anchor]
    BY DEF PlanStep
  <2>2. p[t].end = p[t].start + r.duration[t] /\ p[t].task = t
    BY <2>1
  <2>3. t \in Tasks /\ p[t].start \in Int /\ p[t].end \in Int
    BY PlanFacts
  <2> QED BY <2>1, <2>2, <2>3
<1>9. ASSUME NEW s \in 1 .. k
      PROVE  /\ task(s) = e[s] /\ start(s) = p[e[s]].start
             /\ start(s) + E.duration_samples[c][s] = p[e[s]].end
  <2>1. e[s] \in DOMAIN p
    BY <1>1
  <2>2. e[s] \in Tasks /\ p[e[s]].task = e[s] /\ p[e[s]].start \in Int /\ p[e[s]].end \in Int
    BY <1>8, <2>1
  <2>3. Listed1(e[s]) \in Int /\ Listing[Listed1(e[s])] = e[s]
    BY <2>2, Listed1Of
  <2>4. E.task_index[c][s] + 1 = Listed1(e[s])
    <3>1. E.task_index[c][s] = Listed1(p[e[s]].task) - 1
      BY <1>6
    <3>2. E.task_index[c][s] = Listed1(e[s]) - 1
      BY <2>2, <3>1
    <3> QED BY <2>3, <3>2
  <2>5. r.window.start \in Int
    BY LengthType
  <2>6. start(s) = p[e[s]].start
    <3>1. E.start_time_offsets[c][s] = p[e[s]].start - r.window.start
      BY <1>6
    <3>2. \A x, y \in Int : x + (y - x) = y
      OBVIOUS
    <3> QED BY <2>2, <2>5, <3>1, <3>2
  <2> HIDE DEF start
  <2>7. start(s) + E.duration_samples[c][s] = p[e[s]].end
    <3>1. E.duration_samples[c][s] = p[e[s]].end - p[e[s]].start
      BY <1>6
    <3>2. \A x, y \in Int : x + (y - x) = y
      OBVIOUS
    <3> QED BY <2>2, <2>6, <3>1, <3>2
  <2> QED BY <2>3, <2>4, <2>6, <2>7
<1> HIDE DEF start, task, used
<1>10. {task(s) : s \in used} = DOMAIN p
  <2>1. ASSUME NEW s \in used PROVE task(s) \in DOMAIN p
    BY <1>1, <1>7, <1>9
  <2>2. ASSUME NEW t \in DOMAIN p PROVE \E s \in used : task(s) = t
    <3>1. PICK n \in 1 .. k : e[n] = t
      BY <1>1
    <3> QED BY <1>7, <1>9, <3>1
  <2> QED BY <2>1, <2>2
<1>11. ASSUME NEW t \in DOMAIN p PROVE read(t) = p[t]
  <2> DEFINE s == CHOOSE x \in used : task(x) = t
  <2>1. \E x \in used : task(x) = t
    BY <1>10
  <2>2. s \in used /\ task(s) = t
    BY <2>1
  <2>3. read(t) = [task |-> t, start |-> start(s), end |-> start(s) + E.duration_samples[c][s],
                   deps |-> r.deps[t], static |-> t \in DOMAIN r.anchor]
    OBVIOUS
  <2> HIDE DEF s, read
  <2>4. e[s] = t /\ start(s) = p[t].start /\ start(s) + E.duration_samples[c][s] = p[t].end
    BY <1>7, <1>9, <2>2
  <2>5. p[t] = [task |-> t, start |-> p[t].start, end |-> p[t].end,
                deps |-> r.deps[t], static |-> t \in DOMAIN r.anchor]
    BY <1>8
  <2> QED BY <2>3, <2>4, <2>5
<1>12. p = [t \in DOMAIN p |-> p[t]]
  BY DEF IsPlan
<1> HIDE DEF read
<1>13. [t \in DOMAIN p |-> read(t)] = p
  BY <1>11, <1>12
<1> QED BY <1>5, <1>10, <1>13 DEF E


(* The comparison, unfolded as far as the assembly reads fields again.     *)
LEMMA CertifiedFields ==
  ASSUME NEW x, NEW y, Diverging(x, y) = {}
  PROVE  /\ x.task_index = y.task_index /\ x.slot_mask = y.slot_mask
         /\ x.start_time_offsets = y.start_time_offsets
         /\ x.duration_samples = y.duration_samples /\ x.validity_mask = y.validity_mask
         /\ x.omissions = y.omissions /\ x.failure = y.failure
<1>1. /\ DOMAIN Fields = 1 .. 13
      /\ Fields[1] = "task_index" /\ Fields[2] = "slot_mask" /\ Fields[3] = "start_time_offsets"
      /\ Fields[4] = "duration_samples" /\ Fields[7] = "validity_mask"
      /\ Fields[12] = "omissions" /\ Fields[13] = "failure"
  BY DEF Fields
<1>2. \A n \in 1 .. 13 : x[Fields[n]] = y[Fields[n]]
  BY <1>1 DEF Diverging
<1>3. /\ x[Fields[1]] = y[Fields[1]] /\ x[Fields[2]] = y[Fields[2]] /\ x[Fields[3]] = y[Fields[3]]
      /\ x[Fields[4]] = y[Fields[4]] /\ x[Fields[7]] = y[Fields[7]]
      /\ x[Fields[12]] = y[Fields[12]] /\ x[Fields[13]] = y[Fields[13]]
  BY <1>2
<1> QED BY <1>1, <1>3

LEMMA RoundTrip ==
  ASSUME Cardinality(Tasks) <= MaxPlanningTasks,
         NEW r, IsRequest(r), r.mode = "fresh", NEW set, KeepsContract(r, set),
         Len(set.plans) <= MaxCandidates, NEW x, Diverging(x, Encode(r, set)) = {}
  PROVE  Assemble(r, x) = set
<1> DEFINE E == Encode(r, set)
           L == Len(set.plans)
           valid == {c \in Rows : x.validity_mask[c]}
           nth(n) == CHOOSE c \in valid : Cardinality({d \in valid : d <= c}) = n
<1>1. /\ set = [plans |-> set.plans, left |-> set.left, failure |-> set.failure]
      /\ set.plans \in Seq({set.plans[i] : i \in DOMAIN set.plans})
      /\ \A i \in DOMAIN set.plans : IsPlan(set.plans[i])
      /\ IsReport(set.left)
  BY DEF KeepsContract, IsCandidateSet
<1>2. L \in Nat /\ DOMAIN set.plans = 1 .. L /\ L <= MaxCandidates /\ MaxCandidates \in Nat
  BY <1>1, RowsAssumption
<1>3. /\ x.task_index = E.task_index /\ x.slot_mask = E.slot_mask
      /\ x.start_time_offsets = E.start_time_offsets
      /\ x.duration_samples = E.duration_samples /\ x.validity_mask = E.validity_mask
      /\ x.omissions = E.omissions /\ x.failure = E.failure
  BY CertifiedFields
<1>4. /\ \A c \in Rows : E.validity_mask[c] = IF c \in DOMAIN set.plans THEN TRUE ELSE FALSE
      /\ E.omissions = [t \in DOMAIN set.left |-> set.left[t].reason]
      /\ E.failure = set.failure
  BY EncodeRows
<1>5. \A c : PlanAt(r, x, c) = PlanAt(r, E, c)
  BY <1>3 DEF PlanAt
<1> HIDE DEF E, L
<1>6. valid = 1 .. L
  <2>1. \A c \in 1 .. L : c \in Rows
    BY <1>2 DEF Rows
  <2>2. \A c \in Rows : x.validity_mask[c] <=> c \in 1 .. L
    BY <1>2, <1>3, <1>4
  <2> QED BY <2>1, <2>2
<1>7. ASSUME NEW n \in 1 .. L PROVE nth(n) = n
  <2>1. ASSUME NEW c \in 1 .. L PROVE Cardinality({d \in 1 .. L : d <= c}) = c
    <3>1. {d \in 1 .. L : d <= c} = 1 .. c /\ c \in Nat
      BY <1>2
    <3> QED BY <3>1, CountInterval
  <2> HIDE DEF valid
  <2>2. nth(n) \in 1 .. L /\ Cardinality({d \in 1 .. L : d <= nth(n)}) = n
    BY <1>6, <2>1
  <2> HIDE DEF nth
  <2> QED BY <2>1, <2>2
<1>8. Cardinality(valid) = L
  BY <1>2, <1>6, CountInterval
<1>9. Assemble(r, x) =
        [plans   |-> [n \in 1 .. Cardinality(valid) |-> PlanAt(r, x, nth(n))],
         left    |-> [t \in DOMAIN x.omissions |-> Entry(r, DOMAIN x.omissions, t, x.omissions[t])],
         failure |-> x.failure]
  BY DEF Assemble
<1> HIDE DEF valid, nth
<1>10. ASSUME NEW n \in 1 .. L PROVE PlanAt(r, x, nth(n)) = set.plans[n]
  <2>1. n \in DOMAIN set.plans /\ n \in Rows /\ set.plans # <<>>
    BY <1>2 DEF Rows
  <2>2. IsPlan(set.plans[n])
    BY <1>1, <2>1
  <2>3. \A t \in DOMAIN set.plans[n] :
          set.plans[n][t] = PlanStep(r, t, set.plans[n][t].start)
    BY <2>1 DEF KeepsContract
  <2>4. PlanAt(r, Encode(r, set), n) = set.plans[n]
    BY <2>1, <2>2, <2>3, PlanAtOf
  <2> QED BY <1>5, <1>7, <2>4 DEF E
<1>11. [n \in 1 .. Cardinality(valid) |-> PlanAt(r, x, nth(n))] = set.plans
  <2>1. [n \in 1 .. Cardinality(valid) |-> PlanAt(r, x, nth(n))] = [n \in 1 .. L |-> set.plans[n]]
    BY <1>8, <1>10
  <2>2. set.plans = [n \in 1 .. L |-> set.plans[n]]
    BY <1>1, <1>2
  <2> QED BY <2>1, <2>2
<1>12. x.omissions = [t \in DOMAIN set.left |-> set.left[t].reason] /\ x.failure = set.failure
  BY <1>3, <1>4
<1>13. \A t \in DOMAIN set.left :
         set.left[t] = Entry(r, DOMAIN set.left, t, set.left[t].reason)
  BY DEF KeepsContract
<1>14. [t \in DOMAIN x.omissions |-> Entry(r, DOMAIN x.omissions, t, x.omissions[t])] = set.left
  <2>1. DOMAIN x.omissions = DOMAIN set.left
        /\ \A t \in DOMAIN set.left : x.omissions[t] = set.left[t].reason
    BY <1>12
  <2>2. set.left = [t \in DOMAIN set.left |-> set.left[t]]
    BY <1>1 DEF IsReport
  <2> QED BY <1>13, <2>1, <2>2
<1> QED BY <1>1, <1>9, <1>11, <1>12, <1>14


-----------------------------------------------------------------------------
(***************************************************************************)
(* The inductive invariant of Stage 1.  While a call is under way, the     *)
(* cells are clear until the generation ends; then they tell how it ended. *)
(***************************************************************************)
Clear == reason = "none" /\ version = "none" /\ difference = <<>>

Entered(exchange) == [entered |-> TRUE, busy |-> FALSE, exchange |-> exchange, taken |-> FALSE]

StageInv ==
  /\ setup \in Setups
  /\ session \in BOOLEAN /\ others \in BOOLEAN /\ ~(session /\ others)
  /\ stage \in {"idle", "entered", "looked", "replied", "referenced"}
  /\ stage # "idle" => pc = "accepted" /\ setup.kind = "stage1"
  /\ pc = "accepted" /\ ask.entry # "repair" => Len(oracle.plans) <= MaxCandidates
  /\ pc \in {"called", "accepted"} /\ ask.entry # "repair" => ask \in AsksOf(setup)
  /\ pc = "accepted" => Plannable(ask) /\ oracle \in CpuSets(ask.request)
  /\ stage \in {"replied", "referenced"} => Supported /\ IsStageOutput(reply.result)
  /\ stage = "referenced" => Expected /\ reference = Encode(ask.request, oracle)

WrapInv ==
  /\ wrapped \in BOOLEAN /\ provenance \in {"cpu", "gpu_worker"}
  /\ version \in {"none", "pinned"} /\ echo.status \in {"none", "ok", "engine_error"}
  /\ wrapped => pc = "answered"
  /\ ~wrapped => provenance = "cpu"

Told ==
  /\ reason = "none" <=> done.taken \/ ~done.entered
  /\ reason = "compute_lock_unavailable" <=> done.busy
  /\ reason = "transport_failed" <=> done.exchange = "failed"
  /\ reason \in {"reply_mismatch", "certification_failed"} <=>
       done.exchange = "replied" /\ ~done.taken
  /\ reason = "certification_failed" <=> difference # <<>>
  /\ version # "none" <=> setup.tensor /\ Genuine
  /\ difference # <<>> => PointsAt(difference)

CellsInv ==
  /\ pc \in Untouched /\ stage = "idle" =>
       done = Nothing /\ reply = NoReply /\ (pc # "idle" /\ ask.entry = "stage1" => Clear)
  /\ stage \in {"entered", "looked"} => done = Entered("none") /\ reply = NoReply /\ Clear
  /\ stage \in {"replied", "referenced"} => done = Entered("replied") /\ Clear
  /\ pc \notin Untouched /\ (ask.entry = "stage1" \/ done.entered) => Told

Stage1Inv ==
  /\ PipelineInv /\ StageInv /\ WrapInv /\ CellsInv
  /\ ProvenanceEarned /\ EchoHonest


-----------------------------------------------------------------------------
(***************************************************************************)
(* Whatever the worker does, a step of Stage 1 is one of the pipeline over *)
(* the CPU strategy, or no step of it.                                     *)
(***************************************************************************)
LEMMA CertifiedTakesOracle ==
  ASSUME PipelineInv, StageInv, Certified
  PROVE  Assemble(ask.request, reply.result) = oracle
<1>1. pc = "accepted" /\ stage = "referenced" /\ Diverging(reply.result, reference) = {}
  BY DEF Certified, StageInv
<1>2. /\ reference = Encode(ask.request, oracle) /\ ask.request.mode = "fresh"
      /\ IsRequest(ask.request) /\ KeepsContract(ask.request, oracle)
      /\ ask.entry # "repair" /\ Len(oracle.plans) <= MaxCandidates
  BY <1>1 DEF StageInv, PipelineInv, CallInv, Underway, IsAsk, Supported
<1>3. Cardinality(Tasks) <= MaxPlanningTasks
  <2>1. ask.wire /\ ask \in AsksOf(setup) /\ setup \in Setups
    BY <1>1, <1>2 DEF StageInv, Supported
  <2> QED BY <2>1, SetupAssumption, ListingAssumption
<1> QED BY <1>1, <1>2, <1>3, RoundTrip

LEMMA StageRefines ==
  ASSUME PipelineInv, StageInv, [Stage1Next]_stage1Vars
  PROVE  [PlanningNext]_planningVars
<1>1. CASE Call
  <2>1. PICK a \in AsksOf(setup) : Begin(a)
    BY <1>1 DEF Call
  <2>2. a \in Asks /\ pc = "idle"
    BY <2>1, SetupAssumption DEF StageInv, Begin
  <2> QED BY <2>1, <2>2 DEF PlanningNext
<1>2. CASE InPlanning
  BY <1>2 DEF InPlanning, PlanningNext
<1>3. CASE GenerateCpu
  BY <1>3 DEF GenerateCpu, PlanningNext
<1>4. CASE Enter \/ LockFree \/ ExchangeReplies \/ Recompute \/ Stamp \/ Echo \/ OthersTake
           \/ OthersRelease
  BY <1>4 DEF Enter, LockFree, ExchangeReplies, Recompute, Stamp, Echo, OthersTake, OthersRelease
<1>5. CASE Gate \/ LockTaken \/ Unsupported \/ ExchangeFails \/ ReplyMismatch \/ CertificationFails
  <2>1. pc = "accepted" /\ Take(oracle)
    BY <1>5 DEF Gate, LockTaken, LooksAtLock, Unsupported, ExchangeFails, ReplyMismatch,
                CertificationFails, Fallback, StageInv
  <2> QED BY <2>1 DEF Generate, PlanningNext
<1>6. CASE Certified
  <2>1. pc = "accepted" /\ Take(oracle)
    BY <1>6, CertifiedTakesOracle DEF Certified, StageInv
  <2> QED BY <2>1 DEF Generate, PlanningNext
<1>7. CASE GiveBack
  BY <1>7 DEF GiveBack, PlanningNext
<1>8. CASE UNCHANGED stage1Vars
  BY <1>8 DEF stage1Vars
<1> QED BY <1>1, <1>2, <1>3, <1>4, <1>5, <1>6, <1>7, <1>8
        DEF Stage1Next, PlannerStep, GenerateStage1

LEMMA EncodedIsOutput ==
  ASSUME NEW r, NEW set
  PROVE  IsStageOutput(Encode(r, set))
<1> DEFINE E == Encode(r, set)
           N == {Fields[n] : n \in DOMAIN Fields}
<1>1. MaxCandidates \in Nat /\ MaxPlanningTasks \in Nat
  BY RowsAssumption, ListingAssumption
<1>2. /\ DOMAIN Fields = 1 .. 13
      /\ Fields[1] = "task_index" /\ Fields[2] = "slot_mask" /\ Fields[3] = "start_time_offsets"
      /\ Fields[4] = "duration_samples" /\ Fields[5] = "piece_index" /\ Fields[6] = "piece_count"
      /\ Fields[7] = "validity_mask" /\ Fields[8] = "dependency_slack"
      /\ Fields[9] = "dependency_feasibility" /\ Fields[10] = "hard_constraint_feasibility"
      /\ Fields[11] = "rejection_codes" /\ Fields[12] = "omissions" /\ Fields[13] = "failure"
  BY DEF Fields
<1>3. N = {"task_index", "slot_mask", "start_time_offsets", "duration_samples", "piece_index",
           "piece_count", "validity_mask", "dependency_slack", "dependency_feasibility",
           "hard_constraint_feasibility", "rejection_codes", "omissions", "failure"}
  <2>1. 1 .. 13 = {1, 2, 3, 4, 5, 6, 7, 8, 9, 10, 11, 12, 13}
    OBVIOUS
  <2>2. \A f : f \in N <=> \E n \in {1, 2, 3, 4, 5, 6, 7, 8, 9, 10, 11, 12, 13} : f = Fields[n]
    BY <1>2, <2>1
  <2> HIDE DEF N
  <2> QED BY <1>2, <2>2
<1>4. E = [f \in N |-> E[f]]
  <2> HIDE DEF N
  <2> QED BY <1>3 DEF Encode
<1>5. ASSUME NEW x, NEW S, NEW n \in Nat, S = 1 .. n, x = [c \in S |-> x[c]]
      PROVE  Rowed(x)
  <2>1. x \in [1 .. n -> {x[c] : c \in 1 .. n}]
    BY <1>5
  <2>2. x \in Seq({x[c] : c \in 1 .. n})
    BY <2>1
  <2> QED BY <2>2 DEF Rowed
<1>6. Rows = 1 .. MaxCandidates /\ Slots = 1 .. MaxPlanningTasks
  BY DEF Rows, Slots
<1>7. /\ E.task_index = [c \in Rows |-> E.task_index[c]]
      /\ E.slot_mask = [c \in Rows |-> E.slot_mask[c]]
      /\ E.start_time_offsets = [c \in Rows |-> E.start_time_offsets[c]]
      /\ E.duration_samples = [c \in Rows |-> E.duration_samples[c]]
      /\ E.piece_index = [c \in Rows |-> E.piece_index[c]]
      /\ E.piece_count = [c \in Rows |-> E.piece_count[c]]
      /\ E.validity_mask = [c \in Rows |-> E.validity_mask[c]]
      /\ E.dependency_slack = [c \in Rows |-> E.dependency_slack[c]]
      /\ E.dependency_feasibility = [c \in Rows |-> E.dependency_feasibility[c]]
      /\ E.hard_constraint_feasibility = [c \in Rows |-> E.hard_constraint_feasibility[c]]
      /\ E.rejection_codes = [c \in Rows |-> E.rejection_codes[c]]
  BY DEF Encode
<1>8. ASSUME NEW c \in Rows
      PROVE  /\ E.task_index[c] = [s \in Slots |-> E.task_index[c][s]]
             /\ E.slot_mask[c] = [s \in Slots |-> E.slot_mask[c][s]]
             /\ E.start_time_offsets[c] = [s \in Slots |-> E.start_time_offsets[c][s]]
             /\ E.duration_samples[c] = [s \in Slots |-> E.duration_samples[c][s]]
             /\ E.piece_index[c] = [s \in Slots |-> E.piece_index[c][s]]
             /\ E.piece_count[c] = [s \in Slots |-> E.piece_count[c][s]]
  BY DEF Encode
<1> HIDE DEF E, N
<1>9. /\ Rowed(E.task_index)
      /\ Rowed(E.slot_mask)
      /\ Rowed(E.start_time_offsets)
      /\ Rowed(E.duration_samples)
      /\ Rowed(E.piece_index)
      /\ Rowed(E.piece_count)
      /\ Rowed(E.validity_mask)
      /\ Rowed(E.dependency_slack)
      /\ Rowed(E.dependency_feasibility)
      /\ Rowed(E.hard_constraint_feasibility)
      /\ Rowed(E.rejection_codes)
  BY <1>1, <1>5, <1>6, <1>7
<1>10. ASSUME NEW c \in Rows
       PROVE  /\ Rowed(E.task_index[c])
              /\ Rowed(E.slot_mask[c])
              /\ Rowed(E.start_time_offsets[c])
              /\ Rowed(E.duration_samples[c])
              /\ Rowed(E.piece_index[c])
              /\ Rowed(E.piece_count[c])
  BY <1>1, <1>5, <1>6, <1>8
<1>11. ASSUME NEW n \in 1 .. 11 PROVE Rowed(E[Fields[n]])
  <2>1. n \in {1, 2, 3, 4, 5, 6, 7, 8, 9, 10, 11}
    OBVIOUS
  <2> QED BY <1>2, <1>9, <2>1
<1>12. ASSUME NEW n \in 1 .. 6, NEW c \in DOMAIN E[Fields[n]] PROVE Rowed(E[Fields[n]][c])
  <2>1. n \in {1, 2, 3, 4, 5, 6}
    OBVIOUS
  <2>2. E[Fields[n]] = [d \in Rows |-> E[Fields[n]][d]]
    BY <1>2, <1>7, <2>1
  <2>3. c \in Rows
    BY <2>2
  <2> QED BY <1>2, <1>10, <2>1, <2>3
<1>13. IsStageOutput(E)
  BY <1>4, <1>11, <1>12 DEF IsStageOutput, N
<1> QED BY <1>13 DEF E


-----------------------------------------------------------------------------
(* Between two generations the planner's own steps leave the strategy be.  *)
LEMMA PlanningIsIdle ==
  ASSUME PipelineInv, StageInv, InPlanning
  PROVE  /\ stage = "idle" /\ pc \notin {"idle", "accepted"} /\ pc' # "called"
         /\ pc' \in Untouched => ask'.entry = ask.entry /\ pc \in Untouched \ {"idle"}
         /\ pc' \notin Untouched => ask' = ask
         /\ pc' = "accepted" => Accept
         /\ UNCHANGED stageVars
<1>1. UNCHANGED stageVars
  BY DEF InPlanning
<1>2. CASE RepairRefused \/ RepairUnchanged \/ Refuse
  BY <1>1, <1>2 DEF RepairRefused, RepairUnchanged, Refuse, AtPlan, Reject, Respond, StageInv, Untouched
<1>3. CASE RepairBuilt
  <2>1. ask'.entry = ask.entry
    <3>1. ask \in Asks /\ ask' = Built(ask)
      BY <1>3 DEF RepairBuilt, PipelineInv, CallInv
    <3> QED BY <3>1, FormsOfAsks
  <2> QED BY <1>1, <1>3, <2>1 DEF RepairBuilt, StageInv, Untouched
<1>4. CASE Accept
  BY <1>1, <1>4 DEF Accept, AtPlan, StageInv, Untouched
<1>5. CASE AfterOffer
  BY <1>1, <1>5 DEF AfterOffer, GenerationFailed, RefuseInvalid, RefuseAffect, RefuseObvious, Keep,
       Looking, Looked, NothingKept, AllLooked, Score, SkipRollout, RolloutFails, Rollout, Deliver,
       Reject, Respond, StageInv, Untouched
<1> QED BY <1>2, <1>3, <1>4, <1>5 DEF InPlanning, BeforeOffer

LEMMA StageStep ==
  ASSUME PipelineInv, StageInv, [Stage1Next]_stage1Vars
  PROVE  StageInv'
<1>1. CASE Call
  BY <1>1 DEF Call, Begin, StageInv
<1>2. CASE InPlanning
  <2>1. /\ stage = "idle" /\ pc # "accepted" /\ pc' # "called" /\ (pc' = "accepted" => Accept)
        /\ UNCHANGED stageVars
    BY <1>2, PlanningIsIdle
  <2>2. CASE Accept
    <3>1. /\ pc' = "accepted" /\ oracle' \in CpuSets(ask.request) /\ ask' = ask /\ Plannable(ask)
      BY <2>2 DEF Accept, Plannable
    <3>2. ASSUME ask.entry # "repair"
          PROVE  ask \in AsksOf(setup) /\ Len(oracle'.plans) <= MaxCandidates
      <4>1. pc = "called"
        <5>1. ASSUME pc = "built" PROVE FALSE
          <6>1. PICK a \in Asks : a.entry = "repair" /\ ask = Built(a)
            BY <5>1 DEF PipelineInv, CallInv
          <6> QED BY <6>1, <3>2, FormsOfAsks
        <5> QED BY <2>2, <5>1 DEF Accept, AtPlan
      <4>2. ask \in AsksOf(setup) /\ ask \in Asks
        BY <3>2, <4>1, SetupAssumption DEF StageInv
      <4> QED BY <3>1, <3>2, <4>2, RowsAssumption
    <3> QED BY <2>1, <3>1, <3>2 DEF StageInv, stageVars, Plannable
  <2>3. CASE pc' # "accepted"
    BY <2>1, <2>3 DEF StageInv, stageVars
  <2> QED BY <2>1, <2>2, <2>3
<1>3. CASE GenerateCpu
  BY <1>3 DEF GenerateCpu, Generate, Take, StageInv, stageVars
<1>4. CASE Enter
  BY <1>4 DEF Enter, StageInv, planningVars, Plannable
<1>5. CASE Gate \/ LockTaken \/ Unsupported \/ ExchangeFails \/ ReplyMismatch \/ CertificationFails
  <2>1. /\ stage' = "idle" /\ pc' = "offered" /\ setup' = setup /\ others' = others
        /\ session' \in {FALSE, session}
    BY <1>5 DEF Gate, LockTaken, LooksAtLock, Unsupported, ExchangeFails, ReplyMismatch,
                CertificationFails, Fallback, Take
  <2>2. session' \in BOOLEAN /\ others' \in BOOLEAN /\ ~(session' /\ others')
    <3>1. CASE session' = FALSE
      BY <2>1, <3>1 DEF StageInv
    <3>2. CASE session' = session
      BY <2>1, <3>2 DEF StageInv
    <3> QED BY <2>1, <3>1, <3>2
  <2> QED BY <2>1, <2>2 DEF StageInv
<1>6. CASE LockFree
  BY <1>6 DEF LockFree, StageInv, planningVars, Plannable
<1>7. CASE ExchangeReplies
  <2>1. /\ pc = "accepted" /\ Supported /\ setup \in Setups /\ setup.tensor \in BOOLEAN
        /\ setup.kind = "stage1" /\ IsAsk(ask) /\ ask.entry # "repair"
    BY <1>7, SetupAssumption DEF ExchangeReplies, StageInv, PipelineInv, CallInv, Underway, Supported
  <2>2. IsStageOutput(reply'.result)
    <3>1. CASE setup.tensor
      <4>1. reply' \in Replies(ask.request, oracle)
        BY <1>7, <3>1 DEF ExchangeReplies, Answers
      <4>2. /\ ask \in AsksOf(setup) /\ Plannable(ask) /\ oracle \in CpuSets(ask.request)
            /\ ask.request.mode = "fresh"
        BY <2>1 DEF StageInv, Supported
      <4> QED BY <2>1, <3>1, <4>1, <4>2, ReplyAssumption
    <3>2. CASE ~setup.tensor
      <4>1. reply'.result = Encode(ask.request, oracle)
        BY <1>7, <3>2 DEF ExchangeReplies, Answers
      <4> QED BY <4>1, EncodedIsOutput
    <3> QED BY <3>1, <3>2
  <2>3. session' = setup.tensor /\ (setup.tensor => ~others)
    BY <1>7 DEF ExchangeReplies, LockGranted, StageInv
  <2>4. /\ stage = "looked" /\ stage' = "replied"
        /\ UNCHANGED <<planningVars, setup, others, reference, cells, outer>>
    BY <1>7 DEF ExchangeReplies
  <2>5. Supported'
    BY <2>1, <2>4 DEF Supported, planningVars
  <2> QED BY <2>1, <2>2, <2>3, <2>4, <2>5 DEF StageInv, planningVars, Plannable
<1>8. CASE Recompute
  <2>1. /\ stage = "replied" /\ Expected /\ stage' = "referenced"
        /\ reference' = Encode(ask.request, oracle)
        /\ UNCHANGED <<planningVars, setup, session, others, reply, cells, outer, done>>
    BY <1>8 DEF Recompute
  <2>2. Expected' /\ reference' = Encode(ask.request, oracle)'
    BY <2>1 DEF Expected, planningVars
  <2> QED BY <2>1, <2>2 DEF StageInv, Supported, planningVars, Plannable
<1>9. CASE Certified
  BY <1>9 DEF Certified, Take, StageInv
<1>10. CASE Stamp \/ Echo
  BY <1>10 DEF Stamp, Echo, StageInv, planningVars
<1>11. CASE GiveBack
  BY <1>11 DEF GiveBack, Return, StageInv
<1>12. CASE OthersTake \/ OthersRelease
  <2>1. /\ stage \in {"entered", "looked"}
        /\ UNCHANGED <<planningVars, setup, session, stage, reply, reference, cells, outer, done>>
    BY <1>12 DEF OthersTake, OthersRelease, LockMatters
  <2>2. session' \in BOOLEAN /\ others' \in BOOLEAN /\ ~(session' /\ others')
    <3>1. CASE OthersTake
      BY <3>1 DEF OthersTake, StageInv
    <3>2. CASE OthersRelease
      BY <3>2 DEF OthersRelease, StageInv
    <3> QED BY <1>12, <3>1, <3>2
  <2> QED BY <2>1, <2>2 DEF StageInv, planningVars, Plannable
<1>13. CASE UNCHANGED stage1Vars
  BY <1>13 DEF stage1Vars, planningVars, stageVars, StageInv, Supported, Expected, Plannable
<1> QED BY <1>1, <1>2, <1>3, <1>4, <1>5, <1>6, <1>7, <1>8, <1>9, <1>10, <1>11, <1>12, <1>13
        DEF Stage1Next, PlannerStep, GenerateStage1


-----------------------------------------------------------------------------
LEMMA WrapStep ==
  ASSUME PipelineInv, StageInv, WrapInv, [Stage1Next]_stage1Vars
  PROVE  WrapInv'
<1>1. CASE Call
  BY <1>1 DEF Call, Begin, ClearCells, cells, outer, WrapInv
<1>2. CASE InPlanning
  <2>1. pc # "answered" /\ UNCHANGED <<wrapped, provenance, version, echo>>
    BY <1>2 DEF InPlanning, stageVars, cells, outer, BeforeOffer, AfterOffer, RepairRefused,
         RepairUnchanged, RepairBuilt, Refuse, Accept, AtPlan, GenerationFailed, RefuseInvalid,
         RefuseAffect, RefuseObvious, Keep, Looking, NothingKept, AllLooked, Score, SkipRollout,
         RolloutFails, Rollout, Deliver
  <2> QED BY <2>1 DEF WrapInv
<1>3. CASE GenerateCpu
  BY <1>3 DEF GenerateCpu, Generate, Take, stageVars, cells, outer, WrapInv
<1>4. CASE GenerateStage1
  <2>1. pc = "accepted" /\ UNCHANGED <<wrapped, provenance, echo>> /\ version' \in {version, "none", "pinned"}
    BY <1>4 DEF GenerateStage1, Enter, ClearCells, Gate, LockTaken, LooksAtLock, LockFree,
         Unsupported, ExchangeFails, ExchangeReplies, ReplyMismatch, Recompute,
         CertificationFails, Certified, Fallback, cells, outer, StageInv
  <2> QED BY <2>1 DEF WrapInv
<1>5. CASE Stamp
  BY <1>5 DEF Stamp, planningVars, cells, WrapInv
<1>6. CASE Echo
  <2>1. echo'.status \in {"ok", "engine_error"}
    BY <1>6 DEF Echo
  <2> QED BY <1>6, <2>1 DEF Echo, planningVars, cells, WrapInv
<1>7. CASE GiveBack
  BY <1>7 DEF GiveBack, Return, cells, NoEcho, WrapInv
<1>8. CASE OthersTake \/ OthersRelease
  BY <1>8 DEF OthersTake, OthersRelease, planningVars, cells, outer, WrapInv
<1>9. CASE UNCHANGED stage1Vars
  BY <1>9 DEF stage1Vars, planningVars, stageVars, cells, outer, WrapInv
<1> QED BY <1>1, <1>2, <1>3, <1>4, <1>5, <1>6, <1>7, <1>8, <1>9 DEF Stage1Next, PlannerStep

LEMMA MinOf ==
  ASSUME NEW S \in SUBSET Nat, S # {}
  PROVE  Min(S) \in S /\ \A k \in S : Min(S) <= k
BY LeastNatural DEF Min

LEMMA FirstDifferenceOf ==
  ASSUME NEW x, NEW y, Rowed(x), Rowed(y)
  PROVE  LET n == FirstDifference(x, y) IN
         /\ n \in Nat
         /\ n \notin DOMAIN x \cap DOMAIN y \/ x[n] # y[n]
         /\ \A m \in 1 .. n - 1 : m \in DOMAIN x \cap DOMAIN y /\ x[m] = y[m]
<1> DEFINE common == Sooner(Len(x), Len(y))
           T == {n \in 1 .. common : x[n] # y[n]} \cup {common + 1}
<1>1. /\ Len(x) \in Nat /\ Len(y) \in Nat /\ DOMAIN x = 1 .. Len(x) /\ DOMAIN y = 1 .. Len(y)
      /\ common \in Nat /\ 1 .. common = DOMAIN x \cap DOMAIN y
      /\ common + 1 \notin DOMAIN x \cap DOMAIN y
  BY DEF Rowed, Sooner
<1> HIDE DEF common
<1>2. T \in SUBSET Nat /\ T # {} /\ common + 1 \in T /\ \A k \in T : 1 <= k
  BY <1>1
<1>3. FirstDifference(x, y) = Min(T)
  BY DEF FirstDifference, common
<1>4. Min(T) \in T /\ \A k \in T : Min(T) <= k
  <2> HIDE DEF T
  <2> QED BY <1>2, MinOf
<1> DEFINE n == Min(T)
<1>5. n \in Nat /\ (n \notin DOMAIN x \cap DOMAIN y \/ x[n] # y[n])
  BY <1>1, <1>2, <1>4
<1>6. ASSUME NEW m \in 1 .. n - 1 PROVE m \in DOMAIN x \cap DOMAIN y /\ x[m] = y[m]
  <2>1. n <= common + 1 /\ m \in Nat /\ 1 <= m /\ m < n
    BY <1>2, <1>4, <1>5
  <2>2. m \notin T
    <3>1. ~(n <= m)
      BY <1>5, <2>1
    <3> HIDE DEF T
    <3> QED BY <1>4, <3>1
  <2>3. m \in 1 .. common
    BY <1>1, <1>5, <2>1
  <2> QED BY <1>1, <2>2, <2>3
<1> QED BY <1>3, <1>5, <1>6

LEMMA DifferencePoints ==
  ASSUME IsStageOutput(reply.result), IsStageOutput(reference),
         Diverging(reply.result, reference) # {}
  PROVE  PointsAt(Difference(reply.result, reference))
<1> DEFINE x == reply.result
           y == reference
           n == Min(Diverging(x, y))
           f == Fields[n]
           row == FirstDifference(x[f], y[f])
           both == row \in DOMAIN x[f] /\ row \in DOMAIN y[f]
           d == Difference(x, y)
<1>1. DOMAIN Fields = 1 .. 13
  BY DEF Fields
<1>2. n \in Diverging(x, y) /\ \A k \in Diverging(x, y) : n <= k
  <2>1. Diverging(x, y) \in SUBSET Nat
    BY <1>1 DEF Diverging
  <2> QED BY <2>1, MinOf
<1>3. n \in 1 .. 13 /\ x[f] # y[f]
  BY <1>1, <1>2 DEF Diverging
<1>4. /\ d.field = f
      /\ d.candidate = IF n <= 11 THEN row ELSE 0
      /\ d.slot = IF n <= 6 /\ both THEN FirstDifference(x[f][row], y[f][row]) ELSE 0
  BY DEF Difference
<1>5. \A k \in DOMAIN Fields : x[Fields[k]] # y[Fields[k]] => \E m \in 1 .. k : Fields[m] = d.field
  <2>1. TAKE k \in DOMAIN Fields
  <2>2. HAVE x[Fields[k]] # y[Fields[k]]
  <2>3. k \in Diverging(x, y)
    BY <2>2 DEF Diverging
  <2>4. n \in 1 .. k
    BY <1>1, <1>2, <1>3, <2>3
  <2> QED BY <1>4, <2>4
<1> HIDE DEF d, n
<1>6. ASSUME n <= 11
      PROVE  /\ row \notin DOMAIN x[f] \cap DOMAIN y[f] \/ x[f][row] # y[f][row]
             /\ \A m \in 1 .. row - 1 : m \in DOMAIN x[f] \cap DOMAIN y[f] /\ x[f][m] = y[f][m]
  <2>1. n \in 1 .. 11
    BY <1>3, <1>6
  <2> DEFINE u == x[f]
             v == y[f]
  <2>2. Rowed(u) /\ Rowed(v)
    BY <2>1 DEF IsStageOutput
  <2> HIDE DEF u, v
  <2>3. LET k == FirstDifference(u, v) IN
        /\ k \notin DOMAIN u \cap DOMAIN v \/ u[k] # v[k]
        /\ \A m \in 1 .. k - 1 : m \in DOMAIN u \cap DOMAIN v /\ u[m] = v[m]
    BY <2>2, FirstDifferenceOf
  <2> QED BY <2>3 DEF u, v
<1>7. ASSUME n <= 6, both
      PROVE  LET slot == FirstDifference(x[f][row], y[f][row]) IN
             slot \notin DOMAIN x[f][row] \cap DOMAIN y[f][row] \/ x[f][row][slot] # y[f][row][slot]
  <2>1. n \in 1 .. 6
    BY <1>3, <1>7
  <2> DEFINE u == x[f][row]
             v == y[f][row]
             slot == FirstDifference(u, v)
  <2>2. Rowed(u) /\ Rowed(v)
    BY <1>7, <2>1 DEF IsStageOutput
  <2> HIDE DEF u, v
  <2>3. slot \notin DOMAIN u \cap DOMAIN v \/ u[slot] # v[slot]
    BY <2>2, FirstDifferenceOf
  <2> QED BY <2>3 DEF u, v
<1>8. d.slot # 0 => d.candidate = row /\ n <= 6 /\ both
  BY <1>3, <1>4
<1> HIDE DEF x, y, f, row
<1>9. d.candidate # 0 =>
        /\ d.candidate \notin DOMAIN x[f] \cap DOMAIN y[f] \/ x[f][d.candidate] # y[f][d.candidate]
        /\ \A m \in 1 .. d.candidate - 1 : m \in DOMAIN x[f] \cap DOMAIN y[f] /\ x[f][m] = y[f][m]
  BY <1>4, <1>6
<1>10. d.slot # 0 =>
         \/ d.slot \notin DOMAIN x[f][d.candidate] \cap DOMAIN y[f][d.candidate]
         \/ x[f][d.candidate][d.slot] # y[f][d.candidate][d.slot]
  BY <1>4, <1>7, <1>8
<1>11. PointsAt(d)
  BY <1>3, <1>4, <1>5, <1>9, <1>10 DEF PointsAt, x, y
<1> QED BY <1>11 DEF d, x, y

LEMMA FirstOfValue ==
  ASSUME NEW list, NEW otherwise, DOMAIN list \in SUBSET Nat
  PROVE  \/ FirstOf(list, otherwise) = otherwise
         \/ \E n \in DOMAIN list : list[n][1] /\ FirstOf(list, otherwise) = list[n][2]
<1> DEFINE hits == {n \in DOMAIN list : list[n][1]}
<1>1. FirstOf(list, otherwise) = IF hits = {} THEN otherwise ELSE list[Min(hits)][2]
  BY DEF FirstOf
<1>2. hits \in SUBSET Nat /\ \A n \in hits : n \in DOMAIN list /\ list[n][1]
  OBVIOUS
<1> HIDE DEF hits
<1>3. hits # {} => Min(hits) \in hits
  BY <1>2, MinOf
<1> QED BY <1>1, <1>2, <1>3

GateReasons == ProbeFailures \cup {"policy_disabled", "budget_unjustified", "stage_unimplemented"}

LEMMA GateReasonOf ==
  ASSUME StageInv, GateReason # "none"
  PROVE  GateReason \in GateReasons
<1> DEFINE list == << <<~setup.policy, "policy_disabled">>,
                      <<~setup.budget, "budget_unjustified">>,
                      <<setup.env.failure # "none", setup.env.failure>>,
                      <<~setup.env.python, "python_unavailable">>,
                      <<~setup.env.implemented, "stage_unimplemented">>,
                      <<~setup.env.importable, "torch_unavailable">> >>
<1>1. DOMAIN list = 1 .. 6
  OBVIOUS
<1>2. /\ list[1][2] = "policy_disabled" /\ list[2][2] = "budget_unjustified"
      /\ list[3] = <<setup.env.failure # "none", setup.env.failure>>
      /\ list[4][2] = "python_unavailable" /\ list[5][2] = "stage_unimplemented"
      /\ list[6][2] = "torch_unavailable"
  OBVIOUS
<1>3. GateReason = FirstOf(list, "none")
  BY DEF GateReason
<1>4. setup.env.failure \in ProbeFailures \cup {"none"}
  BY SetupAssumption DEF StageInv
<1> HIDE DEF list
<1>5. PICK n \in 1 .. 6 : list[n][1] /\ GateReason = list[n][2]
  <2>1. DOMAIN list \in SUBSET Nat
    BY <1>1
  <2>2. \/ FirstOf(list, "none") = "none"
        \/ \E n \in DOMAIN list : list[n][1] /\ FirstOf(list, "none") = list[n][2]
    BY <2>1, FirstOfValue
  <2> QED BY <1>1, <1>3, <2>2
<1>6. n \in {1, 2, 3, 4, 5, 6}
  OBVIOUS
<1>7. CASE n = 3
  <2>1. list[3][2] = setup.env.failure /\ GateReason = setup.env.failure
    BY <1>2, <1>5, <1>7
  <2> QED BY <1>4, <2>1 DEF GateReasons
<1>8. CASE n # 3
  BY <1>2, <1>5, <1>6, <1>8 DEF GateReasons, ProbeFailures
<1> QED BY <1>7, <1>8


-----------------------------------------------------------------------------
(* What the cells tell when a generation has ended.                        *)
LEMMA ToldOfNothing ==
  ASSUME done = Nothing, reply = NoReply, Clear
  PROVE  Told
<1>1. ~Genuine
  BY DEF NoReply, Genuine, Expected
<1>2. /\ done.entered = FALSE /\ done.busy = FALSE /\ done.exchange = "none"
      /\ done.taken = FALSE
  BY DEF Nothing
<1> QED BY <1>1, <1>2 DEF Told, Clear

LEMMA ToldStays == Told /\ UNCHANGED stageVars => Told'
BY DEF Told, stageVars, cells, Genuine, Expected, PointsAt

LEMMA ToldOfFallback ==
  ASSUME done'.entered, ~done'.taken,
         reason' # "none", version' = "none", ~Genuine',
         reason' = "compute_lock_unavailable" <=> done'.busy,
         reason' = "transport_failed" <=> done'.exchange = "failed",
         reason' \in {"reply_mismatch", "certification_failed"} <=> done'.exchange = "replied",
         reason' = "certification_failed" <=> difference' # <<>>,
         difference' # <<>> => PointsAt(difference)'
  PROVE  Told'
BY DEF Told

LEMMA CellsStep ==
  ASSUME PipelineInv, StageInv, CellsInv, [Stage1Next]_stage1Vars
  PROVE  CellsInv'
<1>1. CASE Call
  <2>1. pc = "idle" /\ pc' = "called" /\ stage = "idle" /\ done = Nothing /\ reply = NoReply
    BY <1>1 DEF Call, Begin, StageInv, CellsInv, Untouched
  <2>2. stage' = "idle" /\ done' = Nothing /\ reply' = NoReply /\ (ask'.entry = "stage1" => Clear')
    BY <1>1, <2>1 DEF Call, Begin, ClearCells, Clear
  <2> QED BY <2>1, <2>2 DEF CellsInv, Untouched
<1>2. CASE InPlanning
  <2>1. /\ stage = "idle" /\ stage' = "idle" /\ pc # "idle" /\ UNCHANGED stageVars
        /\ pc' \in Untouched => ask'.entry = ask.entry /\ pc \in Untouched
        /\ pc' \notin Untouched => ask' = ask
    BY <1>2, PlanningIsIdle DEF stageVars
  <2>2. UNCHANGED <<reason, version, difference, reply, done>>
    BY <2>1 DEF stageVars, cells
  <2>3. CASE pc' \in Untouched
    <3>1. done' = Nothing /\ reply' = NoReply /\ (ask'.entry = "stage1" => Clear')
      BY <2>1, <2>2, <2>3 DEF CellsInv, Clear
    <3> QED BY <2>1, <2>3, <3>1 DEF CellsInv
  <2>4. CASE pc' \notin Untouched
    <3>1. ask.entry = "stage1" \/ done.entered => Told
      <4>1. CASE pc \in Untouched
        <5>1. done = Nothing /\ reply = NoReply /\ (ask.entry = "stage1" => Clear)
          BY <2>1, <4>1 DEF CellsInv
        <5>2. ~done.entered
          BY <5>1 DEF Nothing
        <5> QED BY <5>1, <5>2, ToldOfNothing
      <4>2. CASE pc \notin Untouched
        BY <4>2 DEF CellsInv
      <4> QED BY <4>1, <4>2
    <3>2. ask'.entry = "stage1" \/ done'.entered => Told'
      BY <2>1, <2>2, <2>4, <3>1, ToldStays
    <3> QED BY <2>1, <2>4, <3>2 DEF CellsInv
  <2> QED BY <2>3, <2>4
<1>3. CASE GenerateCpu
  <2>1. /\ pc = "accepted" /\ pc' = "offered" /\ stage = "idle" /\ stage' = "idle"
        /\ ask' = ask /\ done' = done /\ UNCHANGED stageVars
    BY <1>3 DEF GenerateCpu, Generate, Take, StageInv, stageVars
  <2>2. done = Nothing /\ reply = NoReply /\ (ask.entry = "stage1" => Clear)
    BY <2>1 DEF CellsInv, Untouched
  <2>3. ~done.entered
    BY <2>2 DEF Nothing
  <2>4. ask'.entry = "stage1" \/ done'.entered => Told'
    BY <2>1, <2>2, <2>3, ToldOfNothing, ToldStays
  <2> QED BY <2>1, <2>4 DEF CellsInv, Untouched
<1>4. CASE Enter
  <2>1. pc' = "accepted" /\ stage' = "entered" /\ done = Nothing /\ reply' = NoReply /\ Clear'
    BY <1>4 DEF Enter, planningVars, ClearCells, Clear, CellsInv, Untouched
  <2>2. done' = Entered("none")
    BY <1>4, <2>1 DEF Enter, Nothing, Entered
  <2> QED BY <2>1, <2>2 DEF CellsInv, Untouched
<1>5. CASE Gate \/ LockTaken \/ Unsupported \/ ExchangeFails
  <2>1. /\ stage \in {"entered", "looked"} /\ pc' = "offered" /\ stage' = "idle"
        /\ version' = version /\ reply' = reply /\ difference' = difference
    BY <1>5 DEF Gate, LockTaken, LooksAtLock, Unsupported, ExchangeFails, Fallback, Take
  <2>2. done = Entered("none") /\ reply = NoReply /\ Clear
    BY <2>1 DEF CellsInv
  <2>3. ~Genuine' /\ version' = "none" /\ difference' = <<>>
    BY <2>1, <2>2 DEF NoReply, Genuine, Expected, Clear
  <2>4. CASE Gate
    <3>1. reason' \in GateReasons /\ done' = Entered("none")
      BY <2>2, <2>4, GateReasonOf DEF Gate, Fallback
    <3>2. /\ reason' \notin {"none", "compute_lock_unavailable", "transport_failed",
                             "reply_mismatch", "certification_failed"}
      BY <3>1 DEF GateReasons, ProbeFailures
    <3>3. done'.entered /\ ~done'.busy /\ done'.exchange = "none" /\ ~done'.taken
      BY <3>1 DEF Entered
    <3>4. Told'
      BY <2>3, <3>2, <3>3, ToldOfFallback
    <3> QED BY <2>1, <3>4 DEF CellsInv, Untouched
  <2>5. CASE LockTaken
    <3>1. /\ reason' = "compute_lock_unavailable"
          /\ done'.entered /\ done'.busy /\ done'.exchange = "none" /\ ~done'.taken
      BY <2>2, <2>5 DEF LockTaken, Fallback, Entered
    <3>2. Told'
      BY <2>3, <3>1, ToldOfFallback
    <3> QED BY <2>1, <3>2 DEF CellsInv, Untouched
  <2>6. CASE Unsupported
    <3>1. /\ reason' = "input_unsupported"
          /\ done'.entered /\ ~done'.busy /\ done'.exchange = "none" /\ ~done'.taken
      BY <2>2, <2>6 DEF Unsupported, Fallback, Entered
    <3>2. Told'
      BY <2>3, <3>1, ToldOfFallback
    <3> QED BY <2>1, <3>2 DEF CellsInv, Untouched
  <2>7. CASE ExchangeFails
    <3>1. /\ reason' = "transport_failed"
          /\ done'.entered /\ ~done'.busy /\ done'.exchange = "failed" /\ ~done'.taken
      BY <2>2, <2>7 DEF ExchangeFails, Fallback, Entered
    <3>2. Told'
      BY <2>3, <3>1, ToldOfFallback
    <3> QED BY <2>1, <3>2 DEF CellsInv, Untouched
  <2> QED BY <1>5, <2>4, <2>5, <2>6, <2>7
<1>6. CASE LockFree
  BY <1>6 DEF LockFree, cells, Clear, CellsInv, planningVars, StageInv, Untouched
<1>7. CASE ExchangeReplies
  <2>1. /\ stage = "looked" /\ stage' = "replied" /\ pc' = "accepted"
        /\ UNCHANGED <<reason, version, difference>>
    BY <1>7 DEF ExchangeReplies, cells, planningVars, StageInv
  <2>2. done = Entered("none") /\ Clear
    BY <2>1 DEF CellsInv
  <2>3. done' = Entered("replied")
    BY <1>7, <2>2 DEF ExchangeReplies, Entered
  <2>4. Clear'
    BY <2>1, <2>2 DEF Clear
  <2> QED BY <2>1, <2>3, <2>4 DEF CellsInv, Untouched
<1>8. CASE ReplyMismatch \/ CertificationFails
  <2>1. /\ stage \in {"replied", "referenced"} /\ pc' = "offered" /\ stage' = "idle"
        /\ UNCHANGED <<version, reply, reference, done>>
    BY <1>8 DEF ReplyMismatch, CertificationFails, Fallback, Take
  <2>2. done = Entered("replied") /\ Clear
    BY <2>1 DEF CellsInv
  <2>3. /\ done'.entered /\ ~done'.busy /\ done'.exchange = "replied" /\ ~done'.taken
        /\ version' = "none"
    BY <2>1, <2>2 DEF Entered, Clear
  <2>4. CASE ReplyMismatch
    <3>1. reason' = "reply_mismatch" /\ difference' = <<>> /\ ~Genuine'
      BY <2>1, <2>2, <2>4 DEF ReplyMismatch, Fallback, Clear, Genuine, Expected
    <3>2. Told'
      BY <2>3, <3>1, ToldOfFallback
    <3> QED BY <2>1, <3>2 DEF CellsInv, Untouched
  <2>5. CASE CertificationFails
    <3>1. /\ reason' = "certification_failed" /\ stage = "referenced"
          /\ difference' = Difference(reply.result, reference)
          /\ Diverging(reply.result, reference) # {}
      BY <2>5 DEF CertificationFails, Fallback
    <3>2. difference' # <<>>
      <4>1. 0 \notin DOMAIN difference' \/ "field" \in DOMAIN difference'
        BY <3>1 DEF Difference
      <4>2. difference'.field = Fields[Min(Diverging(reply.result, reference))]
        BY <3>1 DEF Difference
      <4>3. "field" \in DOMAIN difference'
        BY <3>1 DEF Difference
      <4> QED BY <4>3
    <3>3. ~Genuine'
      BY <2>1, <3>1 DEF Diverging, Genuine
    <3>4. PointsAt(difference)'
      <4>1. IsStageOutput(reply.result) /\ IsStageOutput(reference)
        BY <3>1, EncodedIsOutput DEF StageInv
      <4>2. PointsAt(Difference(reply.result, reference))
        BY <3>1, <4>1, DifferencePoints
      <4> QED BY <2>1, <3>1, <4>2 DEF PointsAt
    <3>5. Told'
      BY <2>3, <3>1, <3>2, <3>3, <3>4, ToldOfFallback
    <3> QED BY <2>1, <3>5 DEF CellsInv, Untouched
  <2> QED BY <1>8, <2>4, <2>5
<1>9. CASE Recompute
  BY <1>9 DEF Recompute, cells, Clear, CellsInv, planningVars, StageInv, Untouched
<1>10. CASE Certified
  <2>1. /\ stage = "referenced" /\ Diverging(reply.result, reference) = {}
        /\ pc' = "offered" /\ stage' = "idle"
        /\ UNCHANGED <<setup, reply, reference, reason, difference>>
        /\ done' = [done EXCEPT !.taken = TRUE]
        /\ version' = IF setup.tensor THEN "pinned" ELSE "none"
    BY <1>10 DEF Certified, Take
  <2>2. done = Entered("replied") /\ Clear /\ Expected /\ reference = Encode(ask.request, oracle)
    BY <2>1 DEF CellsInv, StageInv
  <2>3. done' = [entered |-> TRUE, busy |-> FALSE, exchange |-> "replied", taken |-> TRUE]
    BY <2>1, <2>2 DEF Entered
  <2>4. reply.result = reference
    <3>1. IsStageOutput(reply.result) /\ IsStageOutput(reference)
      BY <2>1, <2>2, EncodedIsOutput DEF StageInv
    <3>2. \A n \in DOMAIN Fields : reply.result[Fields[n]] = reference[Fields[n]]
      BY <2>1 DEF Diverging
    <3>3. [f \in {Fields[n] : n \in DOMAIN Fields} |-> reply.result[f]]
            = [f \in {Fields[n] : n \in DOMAIN Fields} |-> reference[f]]
      BY <3>2
    <3> QED BY <3>1, <3>3 DEF IsStageOutput
  <2>5. Genuine'
    BY <2>1, <2>2, <2>4 DEF Genuine, Expected
  <2>6. reason' = "none" /\ difference' = <<>>
    BY <2>1, <2>2 DEF Clear
  <2>7. version' # "none" <=> setup'.tensor
    <3>1. CASE setup.tensor
      BY <2>1, <3>1
    <3>2. CASE ~setup.tensor
      BY <2>1, <3>2
    <3> QED BY <3>1, <3>2
  <2>8. Told'
    <3>1. done'.entered = TRUE /\ done'.busy = FALSE /\ done'.exchange = "replied"
          /\ done'.taken = TRUE
      BY <2>3
    <3>2. (reason = "none" <=> done.taken \/ ~done.entered)'
      BY <2>6, <3>1
    <3>3. (reason = "compute_lock_unavailable" <=> done.busy)'
      BY <2>6, <3>1
    <3>4. (reason = "transport_failed" <=> done.exchange = "failed")'
      BY <2>6, <3>1
    <3>5. (reason \in {"reply_mismatch", "certification_failed"} <=>
             done.exchange = "replied" /\ ~done.taken)'
      BY <2>6, <3>1
    <3>6. (reason = "certification_failed" <=> difference # <<>>)'
      BY <2>6
    <3>7. (version # "none" <=> setup.tensor /\ Genuine)'
      BY <2>5, <2>7
    <3> QED BY <2>6, <3>2, <3>3, <3>4, <3>5, <3>6, <3>7 DEF Told
  <2> QED BY <2>1, <2>8 DEF CellsInv, Untouched
<1>11. CASE Stamp \/ Echo
  <2>1. /\ pc = "answered" /\ pc' = "answered" /\ ask' = ask /\ done' = done
        /\ UNCHANGED <<setup, stage, reason, version, difference, reply, reference>>
    BY <1>11 DEF Stamp, Echo, planningVars, cells
  <2>2. stage = "idle"
    BY <2>1 DEF StageInv
  <2>3. ask'.entry = "stage1" \/ done'.entered => Told'
    BY <2>1 DEF CellsInv, Untouched, Told, Genuine, Expected, PointsAt
  <2> QED BY <2>1, <2>2, <2>3 DEF CellsInv, Untouched
<1>12. CASE GiveBack
  <2>1. /\ pc = "answered" /\ pc' = "idle" /\ stage' = stage /\ done' = Nothing /\ reply' = NoReply
    BY <1>12 DEF GiveBack, Return
  <2>2. stage' = "idle"
    BY <2>1 DEF StageInv
  <2> QED BY <2>1, <2>2 DEF CellsInv, Untouched
<1>13. CASE OthersTake \/ OthersRelease
  <2>1. /\ stage \in {"entered", "looked"} /\ pc' = pc /\ ask' = ask /\ done' = done
        /\ UNCHANGED <<stage, reason, version, difference, reply>>
    BY <1>13 DEF OthersTake, OthersRelease, LockMatters, planningVars, cells
  <2>2. pc = "accepted" /\ done = Entered("none") /\ reply = NoReply /\ Clear
    BY <2>1 DEF StageInv, CellsInv
  <2>3. Clear'
    BY <2>1, <2>2 DEF Clear
  <2> QED BY <2>1, <2>2, <2>3 DEF CellsInv, Untouched
<1>14. CASE UNCHANGED stage1Vars
  BY <1>14 DEF stage1Vars, planningVars, stageVars, cells, CellsInv, Clear, Told, Genuine,
               Expected, PointsAt
<1> QED BY <1>1, <1>2, <1>3, <1>4, <1>5, <1>6, <1>7, <1>8, <1>9, <1>10, <1>11, <1>12, <1>13, <1>14
        DEF Stage1Next, PlannerStep, GenerateStage1


-----------------------------------------------------------------------------
(* An answer is stamped, or echoed, once.                                  *)
LEMMA WrapsOnce ==
  ASSUME PipelineInv, StageInv, WrapInv, [Stage1Next]_stage1Vars, wrapped'
  PROVE  Stamp \/ Echo \/ UNCHANGED stage1Vars
<1>1. CASE Call
  BY <1>1 DEF Call, Begin, outer, WrapInv
<1>2. CASE InPlanning
  <2>1. pc # "answered" /\ wrapped' = wrapped
    BY <1>2 DEF InPlanning, stageVars, outer, BeforeOffer, AfterOffer, RepairRefused,
         RepairUnchanged, RepairBuilt, Refuse, Accept, AtPlan, GenerationFailed, RefuseInvalid,
         RefuseAffect, RefuseObvious, Keep, Looking, NothingKept, AllLooked, Score, SkipRollout,
         RolloutFails, Rollout, Deliver
  <2> QED BY <2>1 DEF WrapInv
<1>3. CASE GenerateCpu \/ GenerateStage1
  <2>1. pc = "accepted" /\ wrapped' = wrapped
    BY <1>3 DEF GenerateCpu, Generate, stageVars, GenerateStage1, Enter, ClearCells, Gate,
         LockTaken, LooksAtLock, LockFree, Unsupported, ExchangeFails, ExchangeReplies,
         ReplyMismatch, Recompute, CertificationFails, Certified, Fallback, outer, StageInv
  <2> QED BY <2>1 DEF WrapInv
<1>4. CASE GiveBack
  BY <1>4 DEF GiveBack
<1>5. CASE OthersTake \/ OthersRelease
  BY <1>5 DEF OthersTake, OthersRelease, LockMatters, outer, StageInv, WrapInv
<1> QED BY <1>1, <1>2, <1>3, <1>4, <1>5 DEF Stage1Next, PlannerStep

LEMMA ProvenanceStep ==
  ASSUME PipelineInv, StageInv, WrapInv, CellsInv, ProvenanceEarned, [Stage1Next]_stage1Vars
  PROVE  ProvenanceEarned'
<1> SUFFICES ASSUME wrapped'
             PROVE  (provenance = "gpu_worker" <=> ask.entry = "stage1" /\ setup.tensor /\ Genuine)'
  BY DEF ProvenanceEarned
<1>1. CASE Stamp
  <2>1. /\ pc = "answered" /\ ask.entry = "stage1"
        /\ UNCHANGED <<ask, setup, reply, reference>>
        /\ provenance' = IF version # "none" THEN "gpu_worker" ELSE "cpu"
    BY <1>1 DEF Stamp, planningVars
  <2>2. version # "none" <=> setup.tensor /\ Genuine
    BY <2>1 DEF CellsInv, Told, Untouched
  <2>3. (setup.tensor /\ Genuine)' <=> setup.tensor /\ Genuine
    BY <2>1 DEF Genuine, Expected
  <2>4. provenance' = "gpu_worker" <=> version # "none"
    BY <2>1
  <2> QED BY <2>1, <2>2, <2>3, <2>4
<1>2. CASE Echo
  BY <1>2 DEF Echo, planningVars, WrapInv
<1>3. CASE UNCHANGED stage1Vars
  BY <1>3 DEF stage1Vars, planningVars, stageVars, outer, ProvenanceEarned, Genuine, Expected
<1> QED BY <1>1, <1>2, <1>3, WrapsOnce

LEMMA OutcomeOf ==
  ASSUME NEW f \in Frames
  PROVE  /\ Checked(f) => f.mine /\ f.type = "final_response" /\ f.response = response
                            /\ Outcome(f) = NoFrame
         /\ ~Checked(f) =>
              /\ Outcome(f).mine /\ Outcome(f).valid
              /\ Outcome(f).type \in {"cancelled", "engine_error"}
              /\ Outcome(f).type = "cancelled" => Outcome(f) = f
<1>1. CASE Checked(f)
  <2>1. f.mine /\ f.type = "final_response" /\ f.response = response
    BY <1>1 DEF Checked
  <2>2. ~Passed(f)
    BY <2>1 DEF Passed
  <2>3. Outcome(f) = NoFrame
    BY <1>1, <2>2 DEF Outcome
  <2> QED BY <1>1, <2>1, <2>3
<1>2. CASE ~Checked(f) /\ Passed(f)
  BY <1>2 DEF Passed, Outcome
<1>3. CASE ~Checked(f) /\ ~Passed(f)
  <2>1. Outcome(f) = [got |-> TRUE, valid |-> TRUE, mine |-> TRUE, type |-> "engine_error",
                      response |-> NoResponse]
    BY <1>3 DEF Outcome
  <2> QED BY <1>3, <2>1
<1> QED BY <1>1, <1>2, <1>3

LEMMA EchoStep ==
  ASSUME PipelineInv, StageInv, WrapInv, EchoHonest, [Stage1Next]_stage1Vars
  PROVE  EchoHonest'
<1> SUFFICES ASSUME wrapped', ask'.entry = "transport"
             PROVE  (/\ echo.status = "ok" =>
                         /\ echo.frame.mine /\ echo.frame.type = "final_response"
                         /\ echo.frame.response = response /\ echo.outcome = NoFrame
                     /\ echo.status # "ok" =>
                         /\ echo.outcome.mine /\ echo.outcome.valid
                         /\ echo.outcome.type \in {"cancelled", "engine_error"}
                         /\ echo.outcome.type = "cancelled" => echo.outcome = echo.frame)'
  BY DEF EchoHonest
<1>1. CASE Stamp
  BY <1>1 DEF Stamp, planningVars
<1>2. CASE Echo
  <2>1. PICK f \in Frames :
          echo' = [frame |-> f, status |-> IF Checked(f) THEN "ok" ELSE "engine_error",
                   outcome |-> Outcome(f)]
    BY <1>2 DEF Echo
  <2>2. response' = response
    BY <1>2 DEF Echo, planningVars
  <2>3. /\ echo'.frame = f /\ echo'.outcome = Outcome(f)
        /\ echo'.status = IF Checked(f) THEN "ok" ELSE "engine_error"
    BY <2>1
  <2>4. CASE Checked(f)
    BY <2>2, <2>3, <2>4, OutcomeOf
  <2>5. CASE ~Checked(f)
    BY <2>2, <2>3, <2>5, OutcomeOf
  <2> QED BY <2>4, <2>5
<1>3. CASE UNCHANGED stage1Vars
  BY <1>3 DEF stage1Vars, planningVars, stageVars, outer, EchoHonest
<1> QED BY <1>1, <1>2, <1>3, WrapsOnce

-----------------------------------------------------------------------------
LEMMA Stage1Start == Stage1Init => Stage1Inv
<1> SUFFICES ASSUME Stage1Init PROVE Stage1Inv
  OBVIOUS
<1>1. PipelineInv
  BY PipelineInit DEF Stage1Init
<1>2. pc = "idle"
  BY DEF Stage1Init, PlanningInit
<1>3. StageInv
  BY <1>2 DEF Stage1Init, StageInv
<1>4. WrapInv
  BY <1>2 DEF Stage1Init, NoEcho, WrapInv
<1>5. CellsInv
  BY <1>2 DEF Stage1Init, CellsInv, Untouched
<1>6. ProvenanceEarned /\ EchoHonest
  BY DEF Stage1Init, ProvenanceEarned, EchoHonest
<1> QED BY <1>1, <1>3, <1>4, <1>5, <1>6 DEF Stage1Inv

LEMMA Stage1Step == Stage1Inv /\ [Stage1Next]_stage1Vars => Stage1Inv'
<1> SUFFICES ASSUME Stage1Inv, [Stage1Next]_stage1Vars PROVE Stage1Inv'
  OBVIOUS
<1>1. PipelineInv /\ StageInv /\ WrapInv /\ CellsInv /\ ProvenanceEarned /\ EchoHonest
  BY DEF Stage1Inv
<1>2. PipelineInv'
  BY <1>1, StageRefines, PipelineStep
<1>3. StageInv' /\ WrapInv' /\ CellsInv'
  BY <1>1, StageStep, WrapStep, CellsStep
<1>4. ProvenanceEarned' /\ EchoHonest'
  BY <1>1, ProvenanceStep, EchoStep
<1> QED BY <1>2, <1>3, <1>4 DEF Stage1Inv

LEMMA Stage1Holds == Stage1Spec => []Stage1Inv
BY Stage1Start, Stage1Step, PTL DEF Stage1Spec

(* Whatever a worker answers, or does not, and whoever holds the compute   *)
(* lock, what the planner does is what it does with the CPU strategy       *)
(* alone: stage1.rs takes a reply only where it is, once put together,     *)
(* the CPU strategy's own candidates, report and failure.                  *)
THEOREM StageImplementsCpu == Stage1Spec => ImplementsCpu
<1>1. Stage1Inv /\ [Stage1Next]_stage1Vars => [PlanningNext]_planningVars
  BY StageRefines DEF Stage1Inv
<1> QED BY <1>1, Stage1Holds, PTL DEF Stage1Spec, ImplementsCpu

(* The pipeline with Stage 1's strategy, hidden cells and all, is a        *)
(* pipeline over the CPU strategy from its first state on.                 *)
THEOREM StageRefinesPipeline == Stage1Spec => PlanningSpec
<1>1. Stage1Init => PlanningInit
  BY DEF Stage1Init
<1>2. Stage1Inv /\ [Stage1Next]_stage1Vars => [PlanningNext]_planningVars
  BY StageRefines DEF Stage1Inv
<1> QED BY <1>1, <1>2, Stage1Holds, PTL DEF Stage1Spec, PlanningSpec

(* The states of planner, strategy and session are the ones the types of   *)
(* the code admit, the compute lock has one owner at most, and the         *)
(* strategy is under way only while the planner waits for it.              *)
THEOREM StageTypes == Stage1Spec => []Stage1TypeOK
<1>1. Stage1Inv => Stage1TypeOK
  BY DEF Stage1Inv, PipelineInv, StageInv, WrapInv, Stage1TypeOK
<1> QED BY <1>1, Stage1Holds, PTL

(* lib.rs, line 121, and response.rs, line 117: what "ok", "partial" and   *)
(* "rejected" say is true of every candidate of the answer, in the         *)
(* pipeline over CpuStrategy and over Stage1Strategy.                      *)
THEOREM StatusIsHonest == Stage1Spec => []StatusMeans
<1>1. Stage1Inv => StatusMeans
  BY DEF Stage1Inv, PipelineInv
<1> QED BY <1>1, Stage1Holds, PTL

(* rollout.rs, line 26, and scoring.rs: the answer lists every candidate   *)
(* that passed, those that were tried out first, in the order of the       *)
(* scores it shows, with the roles those scores give.                      *)
THEOREM RankingIsWhole == Stage1Spec => []RankingHolds
<1>1. Stage1Inv => RankingHolds
  BY DEF Stage1Inv, PipelineInv
<1> QED BY <1>1, Stage1Holds, PTL

(* lib.rs, lines 90 and 113: a fresh request's candidates are all in the   *)
(* answer or all refused, for a reason the request itself gives.           *)
THEOREM NoCandidateLost == Stage1Spec => []NothingLost
<1>1. Stage1Inv => NothingLost
  BY DEF Stage1Inv, PipelineInv
<1> QED BY <1>1, Stage1Holds, PTL

(* stage1.rs, lines 771 and 776: an answer is stamped as a tensor worker's *)
(* exactly if such a worker answered this very call with what the CPU      *)
(* strategy computes.                                                      *)
THEOREM ProvenanceIsEarned == Stage1Spec => []ProvenanceEarned
<1>1. Stage1Inv => ProvenanceEarned
  BY DEF Stage1Inv
<1> QED BY <1>1, Stage1Holds, PTL

(* stage1.rs, line 457: the reason a strategy keeps, and the place of the  *)
(* first difference, are true of the call they are read after.             *)
THEOREM ReasonIsTrue == Stage1Spec => []ReasonTrue
<1>1. Stage1Inv => ReasonTrue
  BY DEF Stage1Inv, CellsInv, Untouched, Told, ReasonTrue
<1> QED BY <1>1, Stage1Holds, PTL

(* worker lib.rs, line 20: an echo counts only as this request's own       *)
(* answer come back unchanged, a cancellation only as one that came.       *)
THEOREM EchoIsHonest == Stage1Spec => []EchoHonest
<1>1. Stage1Inv => EchoHonest
  BY DEF Stage1Inv
<1> QED BY <1>1, Stage1Holds, PTL

=============================================================================
