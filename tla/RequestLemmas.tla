--------------------------- MODULE RequestLemmas ---------------------------
(***************************************************************************)
(* Facts that the proofs about more than one component rest on: first      *)
(* about numbers and finite sets, then about the operators of              *)
(* PlanningRequest: the two closures, effective windows, and the order.    *)
(***************************************************************************)
EXTENDS PlanningRequest, FiniteSets, FiniteSetTheorems, TLAPS

(***************************************************************************)
(* Every nonempty set of naturals has a least element.  The library states *)
(* induction over operators; this takes it from the well-foundedness of    *)
(* strict inclusion, which is stated over sets.                            *)
(***************************************************************************)
LEMMA LeastNatural ==
  ASSUME NEW S \in SUBSET Nat, S # {}
  PROVE  \E m \in S : \A k \in S : m <= k
<1> DEFINE T == {1 .. k : k \in S}
<1>1. T \subseteq FiniteSubsetsOf(Nat) /\ T # {}
  <2>1. ASSUME NEW k \in S PROVE IsFiniteSet(1 .. k) /\ (1 .. k) \in SUBSET Nat
    BY FS_Interval
  <2> QED BY <2>1, Zenon DEF FiniteSubsetsOf
<1>2. \E x \in T : \A y \in T : <<y, x>> \notin StrictSubsetOrdering(Nat)
  <2> HIDE DEF T
  <2> QED BY <1>1, WFMin, FS_StrictSubsetOrderingWellFounded
<1>3. PICK m \in S : \A k \in S : <<1 .. k, 1 .. m>> \notin StrictSubsetOrdering(Nat)
  BY <1>2
<1>4. ASSUME NEW k \in S, k < m PROVE FALSE
  <2>1. 1 .. k \subseteq 1 .. m /\ m \in 1 .. m /\ m \notin 1 .. k
    BY <1>4
  <2>2. (1 .. k) \in SUBSET Nat /\ (1 .. m) \in SUBSET Nat
    OBVIOUS
  <2> QED BY <2>1, <2>2, <1>3, Zenon DEF StrictSubsetOrdering
<1> QED BY <1>4

(***************************************************************************)
(* The first n positive naturals are n.                                    *)
(***************************************************************************)
LEMMA CountInterval ==
  ASSUME NEW n \in Nat
  PROVE  IsFiniteSet(1 .. n) /\ Cardinality(1 .. n) = n
BY FS_Interval

-----------------------------------------------------------------------------
(***************************************************************************)
(* Listing a finite set by a strict order: in the n-th place stands the    *)
(* member that n - 1 others precede.                                       *)
(***************************************************************************)
StrictlyOrders(R, S) ==
  /\ \A i \in S : <<i, i>> \notin R
  /\ \A i, j \in S : i = j \/ <<i, j>> \in R \/ <<j, i>> \in R
  /\ \A i, j, k \in S : <<i, j>> \in R /\ <<j, k>> \in R => <<i, k>> \in R

Preceding(R, S, i) == {j \in S : <<j, i>> \in R}

Enumeration(R, S) ==
  [n \in 1 .. Cardinality(S) |-> CHOOSE i \in S : Cardinality(Preceding(R, S, i)) = n - 1]

LEMMA PrecedingGrow ==
  ASSUME NEW S, IsFiniteSet(S), NEW R, StrictlyOrders(R, S), NEW i \in S, NEW j \in S,
         <<i, j>> \in R
  PROVE  Cardinality(Preceding(R, S, i)) < Cardinality(Preceding(R, S, j))
<1> DEFINE A == Preceding(R, S, i)
           B == Preceding(R, S, j)
<1>1. A \subseteq B /\ i \in B /\ i \notin A /\ A \in SUBSET S /\ B \in SUBSET S
  BY DEF Preceding, StrictlyOrders
<1> HIDE DEF A, B
<1>2. IsFiniteSet(A) /\ IsFiniteSet(B)
  BY <1>1, FS_Subset
<1>3. Cardinality(A) <= Cardinality(B) /\ Cardinality(A) # Cardinality(B)
  BY <1>1, <1>2, FS_Subset
<1>4. Cardinality(A) \in Nat /\ Cardinality(B) \in Nat
  BY <1>2, FS_CardinalityType
<1>5. Cardinality(A) < Cardinality(B)
  BY <1>3, <1>4
<1> QED BY <1>5 DEF A, B

(***************************************************************************)
(* Every member has a place of its own, every place a member.              *)
(***************************************************************************)
LEMMA PrecedingCounts ==
  ASSUME NEW S, IsFiniteSet(S), NEW R, StrictlyOrders(R, S)
  PROVE  /\ Cardinality(S) \in Nat
         /\ \A i \in S : Cardinality(Preceding(R, S, i)) \in 0 .. Cardinality(S) - 1
         /\ \A m \in 0 .. Cardinality(S) - 1 : \E i \in S : Cardinality(Preceding(R, S, i)) = m
<1> DEFINE N == Cardinality(S)
           place == [i \in S |-> Cardinality(Preceding(R, S, i))]
           T == 0 .. N - 1
<1>1. N \in Nat
  BY FS_CardinalityType
<1>2. ASSUME NEW i \in S PROVE Cardinality(Preceding(R, S, i)) \in T
  <2> DEFINE B == Preceding(R, S, i)
  <2>1. B \in SUBSET S /\ B # S
    BY DEF Preceding, StrictlyOrders
  <2> HIDE DEF B
  <2>2. IsFiniteSet(B) /\ Cardinality(B) <= N /\ Cardinality(B) # N
    BY <2>1, FS_Subset
  <2>3. Cardinality(B) \in Nat
    BY <2>2, FS_CardinalityType
  <2>4. Cardinality(B) \in T
    BY <1>1, <2>2, <2>3
  <2> QED BY <2>4 DEF B
<1>3. IsFiniteSet(T) /\ Cardinality(T) = N
  <2> HIDE DEF N
  <2>1. IsFiniteSet(0 .. N - 1) /\ Cardinality(0 .. N - 1) = IF 0 > N - 1 THEN 0 ELSE N - 1 - 0 + 1
    BY <1>1, FS_Interval
  <2> QED BY <1>1, <2>1
<1>4. place \in Injection(S, T)
  <2>1. place \in [S -> T]
    BY <1>2
  <2>2. ASSUME NEW i \in S, NEW j \in S, place[i] = place[j] PROVE i = j
    <3>1. Cardinality(Preceding(R, S, i)) = Cardinality(Preceding(R, S, j))
      BY <2>2
    <3>2. Cardinality(Preceding(R, S, i)) \in Int /\ Cardinality(Preceding(R, S, j)) \in Int
      BY <1>1, <1>2
    <3>3. <<i, j>> \notin R
      BY <3>1, <3>2, PrecedingGrow
    <3>4. <<j, i>> \notin R
      BY <3>1, <3>2, PrecedingGrow
    <3> QED BY <3>3, <3>4 DEF StrictlyOrders
  <2> HIDE DEF place, T
  <2> QED BY <2>1, <2>2 DEF Injection, IsInjective
<1>5. place \in Surjection(S, T)
  <2> HIDE DEF place, T, N
  <2>1. Cardinality(S) = Cardinality(T) <=> place \in Surjection(S, T)
    BY <1>3, <1>4, FS_Injection
  <2> QED BY <1>3, <2>1 DEF N
<1>6. \A m \in T : \E i \in S : place[i] = m
  <2> HIDE DEF place, T
  <2> QED BY <1>5 DEF Surjection
<1> QED BY <1>1, <1>2, <1>6

LEMMA EnumerationOf ==
  ASSUME NEW S, IsFiniteSet(S), NEW R, StrictlyOrders(R, S)
  PROVE  /\ Cardinality(S) \in Nat
         /\ Enumeration(R, S) \in [1 .. Cardinality(S) -> S]
         /\ \A n \in 1 .. Cardinality(S) :
              Cardinality(Preceding(R, S, Enumeration(R, S)[n])) = n - 1
         /\ \A i \in S : \E n \in 1 .. Cardinality(S) : Enumeration(R, S)[n] = i
         /\ \A n, l \in 1 .. Cardinality(S) :
              n < l => <<Enumeration(R, S)[n], Enumeration(R, S)[l]>> \in R
<1> DEFINE N == Cardinality(S)
           e == Enumeration(R, S)
           count(i) == Cardinality(Preceding(R, S, i))
<1>1. /\ N \in Nat /\ \A i \in S : count(i) \in 0 .. N - 1
      /\ \A m \in 0 .. N - 1 : \E i \in S : count(i) = m
  BY PrecedingCounts
<1>2. \A i, j \in S : <<i, j>> \in R => count(i) < count(j)
  BY PrecedingGrow
<1>3. DOMAIN e = 1 .. N /\ \A n \in 1 .. N : e[n] = CHOOSE i \in S : count(i) = n - 1
  BY DEF Enumeration
<1>4. e = [n \in DOMAIN e |-> e[n]]
  BY DEF Enumeration
<1> HIDE DEF N, e, count
<1>5. ASSUME NEW n \in 1 .. N PROVE e[n] \in S /\ count(e[n]) = n - 1
  <2>1. n - 1 \in 0 .. N - 1
    BY <1>1
  <2>2. PICK i \in S : count(i) = n - 1
    BY <1>1, <2>1
  <2> QED BY <1>3, <2>2
<1>6. e \in [1 .. N -> S]
  BY <1>3, <1>4, <1>5
<1>7. ASSUME NEW n \in 1 .. N, NEW l \in 1 .. N, n < l PROVE <<e[n], e[l]>> \in R
  <2>1. /\ e[n] \in S /\ e[l] \in S /\ count(e[n]) = n - 1 /\ count(e[l]) = l - 1
        /\ n \in Int /\ l \in Int
    BY <1>1, <1>5
  <2>2. e[n] # e[l]
    BY <1>7, <2>1
  <2>3. <<e[l], e[n]>> \notin R
    <3>1. ~(count(e[l]) < count(e[n]))
      BY <1>7, <2>1
    <3> QED BY <1>2, <2>1, <3>1
  <2> QED BY <2>1, <2>2, <2>3 DEF StrictlyOrders
<1>8. ASSUME NEW i \in S PROVE \E n \in 1 .. N : e[n] = i
  <2>1. count(i) + 1 \in 1 .. N /\ count(i) \in Int
    BY <1>1
  <2>2. e[count(i) + 1] \in S /\ count(e[count(i) + 1]) = count(i)
    BY <1>5, <2>1
  <2>3. <<i, e[count(i) + 1]>> \notin R /\ <<e[count(i) + 1], i>> \notin R
    <3>1. ~(count(i) < count(e[count(i) + 1])) /\ ~(count(e[count(i) + 1]) < count(i))
      BY <2>1, <2>2
    <3> QED BY <1>2, <2>2, <3>1
  <2>4. e[count(i) + 1] = i
    BY <2>2, <2>3 DEF StrictlyOrders
  <2> QED BY <2>1, <2>4
<1> QED BY <1>1, <1>5, <1>6, <1>7, <1>8 DEF N, e, count

-----------------------------------------------------------------------------
(***************************************************************************)
(* A sum over a finite set is a number.  The library defines a sum by a    *)
(* recursive function on the subsets; there is one, because a function     *)
(* that obeys the recursion on the subsets of n members can be extended to *)
(* those of n + 1.                                                         *)
(***************************************************************************)
SumStep(w, g, s) ==
  IF s = {} THEN 0 ELSE w[CHOOSE x \in s : TRUE] + g[s \ {CHOOSE x \in s : TRUE}]

SumsUpTo(w, S, n, g) ==
  /\ g \in [SUBSET S -> Int]
  /\ \A s \in SUBSET S : Cardinality(s) <= n => g[s] = SumStep(w, g, s)

LEMMA SmallerSubset ==
  ASSUME NEW S, IsFiniteSet(S), NEW s \in SUBSET S, s # {}
  PROVE  /\ (CHOOSE x \in s : TRUE) \in s /\ s \ {CHOOSE x \in s : TRUE} \in SUBSET S
         /\ Cardinality(s) \in Nat \ {0}
         /\ Cardinality(s \ {CHOOSE x \in s : TRUE}) = Cardinality(s) - 1
<1>1. (CHOOSE x \in s : TRUE) \in s
  OBVIOUS
<1>2. IsFiniteSet(s)
  BY FS_Subset
<1>3. Cardinality(s) \in Nat /\ Cardinality(s) # 0
  BY <1>2, FS_CardinalityType, FS_EmptySet
<1>4. Cardinality(s \ {CHOOSE x \in s : TRUE}) = Cardinality(s) - 1
  BY <1>1, <1>2, FS_RemoveElement
<1> QED BY <1>1, <1>3, <1>4

LEMMA SumsExtend ==
  ASSUME NEW S, IsFiniteSet(S), NEW w \in [S -> Int], NEW n \in Nat, NEW g, SumsUpTo(w, S, n, g)
  PROVE  SumsUpTo(w, S, n + 1, [s \in SUBSET S |-> SumStep(w, g, s)])
<1> DEFINE h == [s \in SUBSET S |-> SumStep(w, g, s)]
<1>1. ASSUME NEW s \in SUBSET S PROVE SumStep(w, g, s) \in Int
  <2>1. CASE s = {}
    BY <2>1 DEF SumStep
  <2>2. CASE s # {}
    <3>1. (CHOOSE x \in s : TRUE) \in S /\ s \ {CHOOSE x \in s : TRUE} \in SUBSET S
      BY <2>2, SmallerSubset
    <3>2. w[CHOOSE x \in s : TRUE] \in Int /\ g[s \ {CHOOSE x \in s : TRUE}] \in Int
      BY <3>1 DEF SumsUpTo
    <3> QED BY <2>2, <3>2 DEF SumStep
  <2> QED BY <2>1, <2>2
<1>2. h \in [SUBSET S -> Int] /\ \A s \in SUBSET S : h[s] = SumStep(w, g, s)
  BY <1>1
<1> HIDE DEF h
<1>3. ASSUME NEW s \in SUBSET S, Cardinality(s) <= n + 1 PROVE h[s] = SumStep(w, h, s)
  <2>1. CASE s = {}
    BY <1>2, <2>1 DEF SumStep
  <2>2. CASE s # {}
    <3> DEFINE rest == s \ {CHOOSE x \in s : TRUE}
    <3>1. /\ rest \in SUBSET S /\ Cardinality(s) \in Nat \ {0}
          /\ Cardinality(rest) = Cardinality(s) - 1
      BY <2>2, SmallerSubset
    <3> HIDE DEF rest
    <3>2. Cardinality(rest) <= n
      BY <1>3, <3>1
    <3>3. g[rest] = h[rest]
      BY <1>2, <3>1, <3>2 DEF SumsUpTo
    <3> QED BY <1>2, <2>2, <3>3 DEF SumStep, rest
  <2> QED BY <2>1, <2>2
<1>4. SumsUpTo(w, S, n + 1, h)
  BY <1>2, <1>3 DEF SumsUpTo
<1> QED BY <1>4 DEF h

LEMMA SumsExist ==
  ASSUME NEW S, IsFiniteSet(S), NEW w \in [S -> Int], NEW n \in Nat
  PROVE  \E g : SumsUpTo(w, S, n, g)
<1> DEFINE missing == {m \in Nat : ~\E g : SumsUpTo(w, S, m, g)}
<1>1. \E g : SumsUpTo(w, S, 0, g)
  <2> DEFINE zero == [s \in SUBSET S |-> 0]
  <2>1. ASSUME NEW s \in SUBSET S, Cardinality(s) <= 0 PROVE s = {}
    <3>1. s # {} => Cardinality(s) \in Nat \ {0}
      BY SmallerSubset
    <3> QED BY <2>1, <3>1
  <2>2. SumsUpTo(w, S, 0, zero)
    BY <2>1 DEF SumsUpTo, SumStep
  <2> QED BY <2>2
<1>2. ASSUME missing # {} PROVE FALSE
  <2>1. missing \in SUBSET Nat
    OBVIOUS
  <2>2. PICK m \in missing : \A k \in missing : m <= k
    <3> HIDE DEF missing
    <3> QED BY <1>2, <2>1, LeastNatural
  <2>3. m \in Nat /\ m # 0 /\ ~\E g : SumsUpTo(w, S, m, g)
    BY <1>1
  <2>4. m - 1 \in Nat /\ m - 1 \notin missing
    <3> HIDE DEF missing
    <3> QED BY <2>2, <2>3
  <2>5. PICK g : SumsUpTo(w, S, m - 1, g)
    BY <2>4
  <2>6. SumsUpTo(w, S, (m - 1) + 1, [s \in SUBSET S |-> SumStep(w, g, s)])
    <3> HIDE DEF missing
    <3> QED BY <2>4, <2>5, SumsExtend
  <2>7. (m - 1) + 1 = m
    BY <2>3
  <2> QED BY <2>3, <2>6, <2>7
<1> QED BY <1>2

Adds(w, S, g) == g \in [SUBSET S -> Int] /\ \A s \in SUBSET S : g[s] = SumStep(w, g, s)

LEMMA SumIsASum ==
  ASSUME NEW S, IsFiniteSet(S), NEW w \in [S -> Int]
  PROVE  \E g : Adds(w, S, g) /\ SumFunction(w) = g[S]
<1> DEFINE IsSum(f) == f = [s \in SUBSET S |-> SumStep(w, f, s)]
<1>1. Cardinality(S) \in Nat /\ DOMAIN w = S
  BY FS_CardinalityType
<1>2. PICK g : SumsUpTo(w, S, Cardinality(S), g)
  BY <1>1, SumsExist
<1>3. \A s \in SUBSET S : g[s] = SumStep(w, g, s)
  BY <1>2, FS_Subset DEF SumsUpTo
<1>4. IsSum(g)
  BY <1>2, <1>3 DEF SumsUpTo
<1> DEFINE iter == CHOOSE f : IsSum(f)
<1>5. IsSum(iter)
  BY <1>4
<1>6. SumFunction(w) = iter[S]
  BY <1>1 DEF SumFunction, SumFunctionOnSet, FoldFunctionOnSet, MapThenFoldSet, SumStep
<1>7. \A s \in SUBSET S : iter[s] = SumStep(w, iter, s)
  BY <1>5
<1>g. iter = [s \in SUBSET S |-> iter[s]]
  BY <1>5
<1> HIDE DEF iter, IsSum
<1> DEFINE wrong == {Cardinality(s) : s \in {u \in SUBSET S : iter[u] \notin Int}}
<1>8. wrong \in SUBSET Nat
  BY FS_Subset, FS_CardinalityType
<1>9. ASSUME wrong # {} PROVE FALSE
  <2>1. PICK m \in wrong : \A k \in wrong : m <= k
    <3> HIDE DEF wrong
    <3> QED BY <1>8, <1>9, LeastNatural
  <2>2. PICK s \in SUBSET S : iter[s] \notin Int /\ m = Cardinality(s)
    OBVIOUS
  <2>3. s # {}
    BY <1>7, <2>2 DEF SumStep
  <2> DEFINE rest == s \ {CHOOSE x \in s : TRUE}
  <2>4. /\ (CHOOSE x \in s : TRUE) \in S /\ rest \in SUBSET S
        /\ Cardinality(s) \in Nat \ {0} /\ Cardinality(rest) = Cardinality(s) - 1
    BY <2>3, SmallerSubset
  <2>5. iter[s] = w[CHOOSE x \in s : TRUE] + iter[rest]
    BY <1>7, <2>3 DEF SumStep
  <2>6. w[CHOOSE x \in s : TRUE] \in Int
    BY <2>4
  <2> HIDE DEF rest
  <2>7. iter[rest] \notin Int
    BY <2>2, <2>5, <2>6
  <2>8. Cardinality(rest) \in wrong
    BY <2>4, <2>7
  <2>9. m <= Cardinality(rest)
    BY <2>1, <2>8
  <2> HIDE DEF wrong
  <2> QED BY <2>2, <2>4, <2>9
<1>10. \A s \in SUBSET S : iter[s] \in Int
  BY <1>9
<1>11. Adds(w, S, iter)
  BY <1>7, <1>g, <1>10 DEF Adds
<1> QED BY <1>6, <1>11

LEMMA SumIsInteger ==
  ASSUME NEW S, IsFiniteSet(S), NEW w \in [S -> Int]
  PROVE  SumFunction(w) \in Int
<1>1. PICK g : Adds(w, S, g) /\ SumFunction(w) = g[S]
  BY SumIsASum
<1> QED BY <1>1 DEF Adds

(***************************************************************************)
(* Whichever member is added first, the sum is the same.                   *)
(***************************************************************************)
OrderFree(w, S, g) == \A T \in SUBSET S : \A y \in T : g[T] = w[y] + g[T \ {y}]

LEMMA SumAnyOrder ==
  ASSUME NEW S, IsFiniteSet(S), NEW w \in [S -> Int], NEW g, Adds(w, S, g)
  PROVE  OrderFree(w, S, g)
<1> DEFINE Bad(u) == \E x \in u : g[u] # w[x] + g[u \ {x}]
           wrong == {Cardinality(s) : s \in {u \in SUBSET S : Bad(u)}}
<1>1. wrong \in SUBSET Nat
  BY FS_Subset, FS_CardinalityType
<1>2. \A s \in SUBSET S : g[s] \in Int
  BY DEF Adds
<1>3. ASSUME wrong # {} PROVE FALSE
  <2>1. PICK m \in wrong : \A k \in wrong : m <= k
    <3> HIDE DEF wrong
    <3> QED BY <1>1, <1>3, LeastNatural
  <2>2. PICK s \in SUBSET S : Bad(s) /\ m = Cardinality(s)
    OBVIOUS
  <2>3. PICK x \in s : g[s] # w[x] + g[s \ {x}]
    BY <2>2
  <2> DEFINE c == CHOOSE z \in s : TRUE
  <2>4. c \in s
    BY <2>3
  <2>5. g[s] = w[c] + g[s \ {c}]
    BY <2>3 DEF Adds, SumStep
  <2> HIDE DEF c
  <2>6. c # x
    BY <2>3, <2>5
  <2>7. /\ IsFiniteSet(s) /\ Cardinality(s) \in Nat
        /\ Cardinality(s \ {c}) = Cardinality(s) - 1 /\ Cardinality(s \ {x}) = Cardinality(s) - 1
    BY <2>3, <2>4, FS_Subset, FS_CardinalityType, FS_RemoveElement
  <2>8. Cardinality(s \ {c}) \notin wrong /\ Cardinality(s \ {x}) \notin wrong
    <3> HIDE DEF wrong
    <3> QED BY <2>1, <2>2, <2>7
  <2>9. /\ s \ {c} \in SUBSET S /\ s \ {x} \in SUBSET S /\ x \in s \ {c} /\ c \in s \ {x}
        /\ (s \ {c}) \ {x} = (s \ {x}) \ {c} /\ (s \ {c}) \ {x} \in SUBSET S
    BY <2>3, <2>4, <2>6
  <2>10. ~Bad(s \ {c}) /\ ~Bad(s \ {x})
    BY <2>8, <2>9
  <2>11. /\ g[s \ {c}] = w[x] + g[(s \ {c}) \ {x}]
         /\ g[s \ {x}] = w[c] + g[(s \ {c}) \ {x}]
    BY <2>9, <2>10
  <2>12. w[x] \in Int /\ w[c] \in Int /\ g[(s \ {c}) \ {x}] \in Int
    BY <1>2, <2>3, <2>4, <2>9
  <2>13. w[c] + (w[x] + g[(s \ {c}) \ {x}]) = w[x] + (w[c] + g[(s \ {c}) \ {x}])
    BY <2>12
  <2> QED BY <2>3, <2>5, <2>11, <2>13
<1> QED BY <1>3 DEF OrderFree

(***************************************************************************)
(* A sum is that of its terms alone.                                       *)
(***************************************************************************)
LEMMA SumsAgree ==
  ASSUME NEW S, IsFiniteSet(S), NEW w \in [S -> Int], NEW g, Adds(w, S, g),
         NEW R, IsFiniteSet(R), NEW v \in [R -> Int], NEW h, Adds(v, R, h),
         NEW T \in SUBSET S, T \in SUBSET R, \A x \in T : w[x] = v[x]
  PROVE  g[T] = h[T]
<1> DEFINE wrong == {Cardinality(s) : s \in {u \in SUBSET T : g[u] # h[u]}}
<1>0. IsFiniteSet(T)
  BY FS_Subset
<1>1. wrong \in SUBSET Nat
  BY <1>0, FS_Subset, FS_CardinalityType
<1>2. ASSUME wrong # {} PROVE FALSE
  <2>1. PICK m \in wrong : \A k \in wrong : m <= k
    <3> HIDE DEF wrong
    <3> QED BY <1>1, <1>2, LeastNatural
  <2>2. PICK s \in SUBSET T : g[s] # h[s] /\ m = Cardinality(s)
    OBVIOUS
  <2>3. s \in SUBSET S /\ s \in SUBSET R
    OBVIOUS
  <2>4. s # {}
    BY <2>2, <2>3 DEF Adds, SumStep
  <2> DEFINE c == CHOOSE z \in s : TRUE
  <2>5. c \in s /\ Cardinality(s) \in Nat \ {0} /\ Cardinality(s \ {c}) = Cardinality(s) - 1
    BY <1>0, <2>4, SmallerSubset
  <2>6. g[s] = w[c] + g[s \ {c}] /\ h[s] = v[c] + h[s \ {c}]
    BY <2>3, <2>4 DEF Adds, SumStep
  <2> HIDE DEF c
  <2>7. Cardinality(s \ {c}) \notin wrong
    <3> HIDE DEF wrong
    <3> QED BY <2>1, <2>2, <2>5
  <2>8. g[s \ {c}] = h[s \ {c}]
    BY <2>7
  <2> QED BY <2>2, <2>5, <2>6, <2>8
<1> QED BY <1>2

(***************************************************************************)
(* A sum in which one term has grown, or is new.                           *)
(***************************************************************************)
LEMMA SumWithOneMore ==
  ASSUME NEW S, IsFiniteSet(S), NEW w \in [S -> Int], NEW x, NEW k \in Int,
         NEW v \in [S \cup {x} -> Int],
         \A y \in S : y # x => v[y] = w[y],
         v[x] = (IF x \in S THEN w[x] ELSE 0) + k
  PROVE  SumFunction(v) = SumFunction(w) + k
<1> DEFINE R == S \cup {x}
           T == S \ {x}
<1>1. IsFiniteSet(R)
  BY FS_AddElement
<1>2. PICK g : Adds(w, S, g) /\ SumFunction(w) = g[S]
  BY SumIsASum
<1>3. PICK h : Adds(v, R, h) /\ SumFunction(v) = h[R]
  BY <1>1, SumIsASum
<1>4. T \in SUBSET S /\ T \in SUBSET R /\ R \in SUBSET R /\ S \in SUBSET S /\ R \ {x} = T
      /\ x \in R /\ \A y \in T : w[y] = v[y]
  OBVIOUS
<1> HIDE DEF R, T
<1>5. g[T] = h[T]
  BY <1>1, <1>2, <1>3, <1>4, SumsAgree DEF R
<1>6. h[R] = v[x] + h[T]
  <2>1. v \in [R -> Int]
    BY DEF R
  <2>2. OrderFree(v, R, h)
    BY <1>1, <1>3, <2>1, SumAnyOrder
  <2> QED BY <1>4, <2>2 DEF OrderFree
<1>7. g[T] \in Int /\ g[S] \in Int
  BY <1>2, <1>4 DEF Adds
<1>8. CASE x \in S
  <2>1. g[S] = w[x] + g[T]
    <3>1. OrderFree(w, S, g)
      BY <1>2, SumAnyOrder
    <3> QED BY <1>4, <1>8, <3>1 DEF OrderFree, T
  <2>2. w[x] \in Int
    BY <1>8
  <2>3. h[R] = (w[x] + k) + g[T]
    BY <1>5, <1>6, <1>8
  <2>4. h[R] = g[S] + k
    BY <1>7, <2>1, <2>2, <2>3
  <2> QED BY <1>2, <1>3, <2>4
<1>9. CASE x \notin S
  <2>1. T = S
    BY <1>9 DEF T
  <2>2. h[R] = (0 + k) + g[S]
    BY <1>5, <1>6, <1>9, <2>1
  <2>3. h[R] = g[S] + k
    BY <1>7, <2>2
  <2> QED BY <1>2, <1>3, <2>3
<1> QED BY <1>8, <1>9

LEMMA SumOfNothing ==
  ASSUME NEW w \in [{} -> Int]
  PROVE  SumFunction(w) = 0
<1>1. IsFiniteSet({})
  BY FS_EmptySet
<1>2. PICK g : Adds(w, {}, g) /\ SumFunction(w) = g[{}]
  BY <1>1, SumIsASum
<1> QED BY <1>2 DEF Adds, SumStep

-----------------------------------------------------------------------------
(***************************************************************************)
(* A set of times with an upper bound that contains one of them has a      *)
(* greatest element.                                                       *)
(***************************************************************************)
LEMMA GreatestTime ==
  ASSUME NEW S \in SUBSET Time, S # {}
  PROVE  \E m \in S : \A k \in S : k <= m
<1> DEFINE U == {MaxTime - k : k \in S}
<1>1. U \in SUBSET Nat /\ U # {}
  <2>1. \A k \in S : MaxTime - k \in Nat
    BY TimeAssumption DEF Time
  <2>2. PICK k \in S : TRUE
    OBVIOUS
  <2> QED BY <2>1, <2>2
<1>2. PICK u \in U : \A v \in U : u <= v
  <2> HIDE DEF U
  <2> QED BY <1>1, LeastNatural
<1>3. PICK m \in S : u = MaxTime - m
  OBVIOUS
<1>4. \A k \in S : k <= m
  BY <1>2, <1>3, TimeAssumption DEF Time
<1> QED BY <1>4

-----------------------------------------------------------------------------
(***************************************************************************)
(* The set of Tasks a worklist over prerequisites finds contains its       *)
(* roots, is closed, and is the least such set (protection.rs, 12-38).     *)
(***************************************************************************)
LEMMA PrerequisitesClosed ==
  ASSUME NEW r, r.deps \in [Tasks -> SUBSET Tasks], NEW S \in SUBSET Tasks
  PROVE  /\ S \subseteq Prerequisites(r, S)
         /\ Prerequisites(r, S) \in SUBSET Tasks
         /\ ClosedUnderDeps(r, Prerequisites(r, S))
<1>1. S \subseteq Prerequisites(r, S) /\ Prerequisites(r, S) \in SUBSET Tasks
  BY DEF Prerequisites
<1>2. ASSUME NEW t \in Prerequisites(r, S), NEW d \in r.deps[t]
      PROVE  d \in Prerequisites(r, S)
  <2>1. t \in Tasks /\ d \in Tasks
    BY <1>2 DEF Prerequisites
  <2>2. ASSUME NEW C \in SUBSET Tasks, S \subseteq C, ClosedUnderDeps(r, C)
        PROVE  d \in C
    BY <1>2, <2>2 DEF Prerequisites, ClosedUnderDeps
  <2> QED BY <2>1, <2>2 DEF Prerequisites
<1> QED BY <1>1, <1>2 DEF ClosedUnderDeps

LEMMA PrerequisitesLeast ==
  ASSUME NEW r, NEW S, NEW C \in SUBSET Tasks, S \subseteq C, ClosedUnderDeps(r, C)
  PROVE  Prerequisites(r, S) \subseteq C
BY DEF Prerequisites

(***************************************************************************)
(* The same for the worklist over dependents (protection.rs, 51-67).       *)
(***************************************************************************)
LEMMA WithDependentsClosed ==
  ASSUME NEW r, r.deps \in [Tasks -> SUBSET Tasks], NEW S \in SUBSET Tasks
  PROVE  /\ S \subseteq WithDependents(r, S)
         /\ WithDependents(r, S) \in SUBSET Tasks
         /\ ClosedUnderDependents(r, WithDependents(r, S))
<1>1. S \subseteq WithDependents(r, S) /\ WithDependents(r, S) \in SUBSET Tasks
  BY DEF WithDependents
<1>2. ASSUME NEW t \in Tasks, r.deps[t] \cap WithDependents(r, S) # {}
      PROVE  t \in WithDependents(r, S)
  <2>1. PICK d \in r.deps[t] : d \in WithDependents(r, S)
    BY <1>2
  <2>2. ASSUME NEW C \in SUBSET Tasks, S \subseteq C, ClosedUnderDependents(r, C)
        PROVE  t \in C
    <3>1. d \in C
      BY <2>1, <2>2 DEF WithDependents
    <3> QED BY <3>1, <2>1, <2>2 DEF ClosedUnderDependents
  <2> QED BY <2>2 DEF WithDependents
<1> QED BY <1>1, <1>2 DEF ClosedUnderDependents

(***************************************************************************)
(* Dropping a Task with its dependents spares every set of Tasks that      *)
(* contains its own prerequisites and not the dropped Task.                *)
(***************************************************************************)
LEMMA DroppingSparesClosedSets ==
  ASSUME NEW r, r.deps \in [Tasks -> SUBSET Tasks],
         NEW P \in SUBSET Tasks, ClosedUnderDeps(r, P),
         NEW t \in Tasks, t \notin P
  PROVE  WithDependents(r, {t}) \cap P = {}
<1> DEFINE C == Tasks \ P
<1>1. C \in SUBSET Tasks /\ {t} \subseteq C
  OBVIOUS
<1>2. ClosedUnderDependents(r, C)
  BY DEF ClosedUnderDependents, ClosedUnderDeps
<1>3. WithDependents(r, {t}) \subseteq C
  BY <1>1, <1>2 DEF WithDependents
<1> QED BY <1>3

-----------------------------------------------------------------------------
(***************************************************************************)
(* The effective window of a Task consists of times.                       *)
(***************************************************************************)
LEMMA EffectiveWindowType ==
  ASSUME NEW r, IsRequest(r), NEW t \in Tasks
  PROVE  EffectiveWindow(r, t) \in Window
<1>1. r.window \in Window /\ (t \in DOMAIN r.taskWindow => r.taskWindow[t] \in Window)
  BY DEF IsRequest
<1>2. ASSUME NEW x \in Time, NEW y \in Time
      PROVE  Later(x, y) \in Time /\ Sooner(x, y) \in Time
  BY DEF Later, Sooner
<1> QED BY <1>1, <1>2 DEF EffectiveWindow, Window

(***************************************************************************)
(* In a topological order every prerequisite stands before its dependent.  *)
(***************************************************************************)
LEMMA PrerequisitesFirst ==
  ASSUME NEW r, IsRequest(r), NEW i \in DOMAIN r.order, NEW d \in r.deps[r.order[i]]
  PROVE  \E j \in DOMAIN r.order : j < i /\ r.order[j] = d
<1>1. r.order[i] \in Tasks
  BY DEF IsRequest, IsTopological
<1>2. d \in Tasks
  BY <1>1 DEF IsRequest
<1>3. PICK j \in DOMAIN r.order : r.order[j] = d
  BY <1>2 DEF IsRequest, IsTopological
<1>4. j < i
  BY <1>3 DEF IsRequest, IsTopological
<1> QED BY <1>3, <1>4

=============================================================================
