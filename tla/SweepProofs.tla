---------------------------- MODULE SweepProofs ----------------------------
(***************************************************************************)
(* What the chunked sweep guarantees for every set of requests, every      *)
(* width of the beam and every number of alternatives: its branches are    *)
(* well formed, lose no Task and hold only sound steps, and the search for *)
(* a slot skips none.  What both generators guarantee of every candidate   *)
(* they offer, the delayed ones included.  And that the Python worker's    *)
(* solver, written a second time in another language, answers every fresh  *)
(* request as the greedy planner does.                                     *)
(***************************************************************************)
EXTENDS WorkerSolver, SkeletonProofs

(***************************************************************************)
(* Choices by an order.  A finite set has a first and a last member.       *)
(***************************************************************************)
LEMMA FirstAndLast ==
  ASSUME NEW S, IsFiniteSet(S), S # {}, NEW R, StrictlyOrders(R, S)
  PROVE  /\ \E x \in S : \A y \in S \ {x} : <<x, y>> \in R
         /\ \E x \in S : \A y \in S \ {x} : <<y, x>> \in R
<1> DEFINE N == Cardinality(S)
           e == Enumeration(R, S)
<1>1. /\ N \in Nat /\ e \in [1 .. N -> S]
      /\ \A x \in S : \E n \in 1 .. N : e[n] = x
      /\ \A n, l \in 1 .. N : n < l => <<e[n], e[l]>> \in R
  BY EnumerationOf
<1>2. N # 0
  BY FS_EmptySet
<1> HIDE DEF N, e
<1>3. 1 \in 1 .. N /\ N \in 1 .. N
  BY <1>1, <1>2
<1>4. \A y \in S \ {e[1]} : <<e[1], y>> \in R
  <2>1. TAKE y \in S \ {e[1]}
  <2>2. PICK n \in 1 .. N : e[n] = y
    BY <1>1, <2>1
  <2>3. n # 1 /\ 1 < n
    BY <2>1, <2>2
  <2> QED BY <1>1, <1>3, <2>2, <2>3
<1>5. \A y \in S \ {e[N]} : <<y, e[N]>> \in R
  <2>1. TAKE y \in S \ {e[N]}
  <2>2. PICK n \in 1 .. N : e[n] = y
    BY <1>1, <2>1
  <2>3. n # N /\ n < N
    BY <1>1, <2>1, <2>2
  <2> QED BY <1>1, <1>3, <2>2, <2>3
<1>6. e[1] \in S /\ e[N] \in S
  BY <1>1, <1>3
<1> QED BY <1>4, <1>5, <1>6

LEMMA OrderOfSubset ==
  ASSUME NEW S, NEW R, StrictlyOrders(R, S), NEW T \in SUBSET S
  PROVE  StrictlyOrders(R, T)
BY DEF StrictlyOrders

LEMMA PrecedesThree ==
  ASSUME NEW x \in Int, NEW y \in Int, NEW z \in Int
  PROVE  Precedes(<<x, y, z>>) <=> x < 0 \/ (x = 0 /\ (y < 0 \/ (y = 0 /\ z < 0)))
<1> DEFINE d == <<x, y, z>>
<1>1. DOMAIN d = 1 .. 3 /\ d[1] = x /\ d[2] = y /\ d[3] = z
  OBVIOUS
<1>2. Precedes(d) <=> \E i \in 1 .. 3 : d[i] < 0 /\ \A j \in 1 .. i - 1 : d[j] = 0
  BY <1>1 DEF Precedes
<1> HIDE DEF d
<1>3. ASSUME Precedes(d) PROVE x < 0 \/ (x = 0 /\ (y < 0 \/ (y = 0 /\ z < 0)))
  <2>1. PICK i \in 1 .. 3 : d[i] < 0 /\ \A j \in 1 .. i - 1 : d[j] = 0
    BY <1>2, <1>3
  <2>2. i = 1 \/ i = 2 \/ i = 3
    OBVIOUS
  <2> QED BY <1>1, <2>1, <2>2
<1>4. x < 0 => Precedes(d)
  <2>1. \A j \in 1 .. 1 - 1 : d[j] = 0
    OBVIOUS
  <2> QED BY <1>1, <1>2, <2>1
<1>5. x = 0 /\ y < 0 => Precedes(d)
  <2>1. \A j \in 1 .. 2 - 1 : j = 1
    OBVIOUS
  <2>2. 2 \in 1 .. 3
    OBVIOUS
  <2> QED BY <1>1, <1>2, <2>1, <2>2
<1>6. x = 0 /\ y = 0 /\ z < 0 => Precedes(d)
  <2>1. \A j \in 1 .. 3 - 1 : j = 1 \/ j = 2
    OBVIOUS
  <2>2. 3 \in 1 .. 3
    OBVIOUS
  <2> QED BY <1>1, <1>2, <2>1, <2>2
<1> QED BY <1>3, <1>4, <1>5, <1>6 DEF d

-----------------------------------------------------------------------------
(***************************************************************************)
(* A request has finitely many Tasks, and they are strictly ordered by     *)
(* compare_protection.                                                     *)
(***************************************************************************)
LEMMA TasksFinite ==
  ASSUME NEW r, IsRequest(r)
  PROVE  IsFiniteSet(Tasks)
<1>1. /\ r.order \in Seq(Tasks)
      /\ \A t \in Tasks : \E i \in DOMAIN r.order : r.order[i] = t
  BY DEF IsRequest, IsTopological
<1>2. Len(r.order) \in Nat /\ r.order \in [1 .. Len(r.order) -> Tasks]
  BY <1>1
<1>3. r.order \in Surjection(1 .. Len(r.order), Tasks)
  BY <1>1, <1>2 DEF Surjection
<1> QED BY <1>2, <1>3, FS_Interval, FS_Surjection

ByProtection == {x \in Tasks \X Tasks : MoreProtected(x[1], x[2])}

LEMMA WorthFacts ==
  ASSUME TypeOK
  PROVE  /\ req.value \in [Tasks -> Nat] /\ req.priority \in [Tasks -> Nat]
         /\ \A t \in Tasks : OwnDeadline(t) \in Int
         /\ Ordinal \in [Tasks -> Nat]
         /\ \A t, u \in Tasks : Ordinal[t] = Ordinal[u] => t = u
<1>1. req \in Requests
  BY DEF TypeOK
<1>2. ASSUME NEW t \in Tasks PROVE OwnDeadline(t) \in Int
  BY RequestFacts, TimeAssumption DEF IsRequest, OwnDeadline, Window, Time
<1> QED BY <1>1, <1>2, SweepAssumption

LEMMA MoreProtectedMeans ==
  ASSUME TypeOK, NEW t \in Tasks, NEW u \in Tasks
  PROVE  MoreProtected(t, u) <=>
           \/ req.value[u] < req.value[t]
           \/ /\ req.value[u] = req.value[t]
              /\ \/ OwnDeadline(t) < OwnDeadline(u)
                 \/ OwnDeadline(t) = OwnDeadline(u) /\ Ordinal[t] < Ordinal[u]
<1>1. /\ req.value[u] \in Int /\ req.value[t] \in Int
      /\ OwnDeadline(t) \in Int /\ OwnDeadline(u) \in Int
      /\ Ordinal[t] \in Int /\ Ordinal[u] \in Int
  BY WorthFacts
<1>2. MoreProtected(t, u) <=>
        Precedes(<<req.value[u] - req.value[t], OwnDeadline(t) - OwnDeadline(u), Ordinal[t] - Ordinal[u]>>)
  BY DEF MoreProtected, Protection
<1>3. MoreProtected(t, u) <=>
        \/ req.value[u] - req.value[t] < 0
        \/ /\ req.value[u] - req.value[t] = 0
           /\ \/ OwnDeadline(t) - OwnDeadline(u) < 0
              \/ OwnDeadline(t) - OwnDeadline(u) = 0 /\ Ordinal[t] - Ordinal[u] < 0
  BY <1>1, <1>2, PrecedesThree
<1> QED BY <1>1, <1>3

LEMMA ProtectionOrders ==
  ASSUME TypeOK
  PROVE  StrictlyOrders(ByProtection, Tasks)
<1> DEFINE v == req.value
           o == [t \in Tasks |-> OwnDeadline(t)]
<1>1. v \in [Tasks -> Int] /\ o \in [Tasks -> Int] /\ Ordinal \in [Tasks -> Int]
  <2>1. /\ v \in [Tasks -> Nat] /\ \A t \in Tasks : OwnDeadline(t) \in Int
        /\ Ordinal \in [Tasks -> Nat]
    BY WorthFacts, Zenon
  <2> QED BY <2>1
<1>2. ASSUME NEW t \in Tasks, NEW u \in Tasks
      PROVE  <<t, u>> \in ByProtection <=>
               v[u] < v[t] \/ (v[u] = v[t] /\ (o[t] < o[u] \/ (o[t] = o[u] /\ Ordinal[t] < Ordinal[u])))
  BY <1>2, MoreProtectedMeans DEF ByProtection
<1>3. \A t, u \in Tasks : Ordinal[t] = Ordinal[u] => t = u
  BY WorthFacts, Zenon
<1> HIDE DEF v, o
<1>4. ASSUME NEW t \in Tasks PROVE <<t, t>> \notin ByProtection
  <2>1. v[t] \in Int /\ o[t] \in Int /\ Ordinal[t] \in Int
    BY <1>1
  <2> QED BY <1>2, <2>1
<1>5. ASSUME NEW t \in Tasks, NEW u \in Tasks, t # u
      PROVE  <<t, u>> \in ByProtection \/ <<u, t>> \in ByProtection
  <2>1. /\ v[t] \in Int /\ o[t] \in Int /\ Ordinal[t] \in Int
        /\ v[u] \in Int /\ o[u] \in Int /\ Ordinal[u] \in Int
        /\ Ordinal[t] # Ordinal[u]
    BY <1>1, <1>3, <1>5
  <2> QED BY <1>2, <2>1
<1>6. ASSUME NEW t \in Tasks, NEW u \in Tasks, NEW w \in Tasks,
             <<t, u>> \in ByProtection, <<u, w>> \in ByProtection
      PROVE  <<t, w>> \in ByProtection
  <2>1. /\ v[t] \in Int /\ o[t] \in Int /\ Ordinal[t] \in Int
        /\ v[u] \in Int /\ o[u] \in Int /\ Ordinal[u] \in Int
        /\ v[w] \in Int /\ o[w] \in Int /\ Ordinal[w] \in Int
    BY <1>1
  <2> QED BY <1>2, <1>6, <2>1
<1> QED BY <1>4, <1>5, <1>6, Zenon DEF StrictlyOrders

(* The CHOOSEs for the most and the least protected Task find it.          *)
LEMMA ProtectedChoice ==
  ASSUME TypeOK, NEW S \in SUBSET Tasks, S # {}
  PROVE  /\ MostProtected(S) \in S
         /\ \A u \in S \ {MostProtected(S)} : <<MostProtected(S), u>> \in ByProtection
         /\ LeastProtected(S) \in S
<1>1. IsFiniteSet(S)
  BY RequestFacts, TasksFinite, FS_Subset
<1>2. StrictlyOrders(ByProtection, S)
  BY ProtectionOrders, OrderOfSubset
<1>3. /\ \E x \in S : \A y \in S \ {x} : <<x, y>> \in ByProtection
      /\ \E x \in S : \A y \in S \ {x} : <<y, x>> \in ByProtection
  BY <1>1, <1>2, FirstAndLast
<1>4. \A x, y \in S : <<x, y>> \in ByProtection <=> MoreProtected(x, y)
  BY DEF ByProtection
<1>5. /\ \E x \in S : \A y \in S \ {x} : MoreProtected(x, y)
      /\ \E x \in S : \A y \in S \ {x} : MoreProtected(y, x)
  BY <1>3, <1>4
<1>6. MostProtected(S) \in S /\ \A y \in S \ {MostProtected(S)} : MoreProtected(MostProtected(S), y)
  BY <1>5 DEF MostProtected
<1>7. LeastProtected(S) \in S
  BY <1>5 DEF LeastProtected
<1> QED BY <1>4, <1>6, <1>7


(***************************************************************************)
(* compare_omissions is a strict order of sets of Tasks: the first Task    *)
(* that only one of two sets gives up decides, and below the earlier of    *)
(* two such Tasks three sets agree.                                        *)
(***************************************************************************)
DecidedBy(A, B, x) ==
  /\ x \in B /\ x \notin A
  /\ \A y \in Tasks : <<y, x>> \in ByProtection => (y \in A <=> y \in B)

LEMMA GivesUpLessMeans ==
  ASSUME TypeOK, NEW A \in SUBSET Tasks, NEW B \in SUBSET Tasks
  PROVE  GivesUpLess(A, B) <=> \E x \in Tasks : DecidedBy(A, B, x)
<1> DEFINE D == SymDiff(A, B)
           m == MostProtected(D)
<1>1. D \in SUBSET Tasks /\ \A y \in Tasks : y \in D <=> ~(y \in A <=> y \in B)
  BY DEF SymDiff
<1>2. GivesUpLess(A, B) <=> A # B /\ m \in B
  BY DEF GivesUpLess
<1>3. A # B <=> D # {}
  BY <1>1
<1> HIDE DEF D, m
<1>4. ASSUME D # {} PROVE m \in D /\ \A u \in D \ {m} : <<m, u>> \in ByProtection
  BY <1>1, <1>4, ProtectedChoice DEF m
<1>5. /\ \A i \in Tasks : <<i, i>> \notin ByProtection
      /\ \A i, j, k \in Tasks :
           <<i, j>> \in ByProtection /\ <<j, k>> \in ByProtection => <<i, k>> \in ByProtection
  BY ProtectionOrders DEF StrictlyOrders
<1>6. ASSUME A # B, m \in B PROVE DecidedBy(A, B, m)
  <2>1. m \in D /\ \A u \in D \ {m} : <<m, u>> \in ByProtection
    BY <1>3, <1>4, <1>6
  <2>2. ASSUME NEW y \in Tasks, <<y, m>> \in ByProtection PROVE y \notin D
    BY <2>1, <2>2, <1>1, <1>5
  <2> QED BY <1>1, <1>6, <2>1, <2>2 DEF DecidedBy
<1>7. ASSUME NEW x \in Tasks, DecidedBy(A, B, x) PROVE A # B /\ m \in B
  <2>1. x \in D
    BY <1>1, <1>7 DEF DecidedBy
  <2>2. m \in D /\ (m # x => <<m, x>> \in ByProtection)
    BY <1>4, <2>1
  <2>3. m = x
    BY <1>1, <1>7, <2>2 DEF DecidedBy
  <2> QED BY <1>3, <1>7, <2>1, <2>3 DEF DecidedBy
<1>8. DecidedBy(A, B, m) => m \in Tasks
  BY DEF DecidedBy
<1> QED BY <1>2, <1>6, <1>7, <1>8, Zenon

LEMMA OmissionsOrdered ==
  ASSUME TypeOK, NEW A \in SUBSET Tasks, NEW B \in SUBSET Tasks
  PROVE  /\ ~GivesUpLess(A, A)
         /\ A = B \/ GivesUpLess(A, B) \/ GivesUpLess(B, A)
<1> DEFINE D == SymDiff(A, B)
<1>1. SymDiff(B, A) = D /\ D \in SUBSET Tasks /\ (A # B => D # {}) /\ D \subseteq A \cup B
  BY DEF SymDiff
<1> HIDE DEF D
<1>2. ASSUME A # B PROVE MostProtected(D) \in A \cup B
  BY <1>1, <1>2, ProtectedChoice
<1> QED BY <1>1, <1>2 DEF GivesUpLess, D

LEMMA OmissionsTransitive ==
  ASSUME TypeOK, NEW A \in SUBSET Tasks, NEW B \in SUBSET Tasks, NEW C \in SUBSET Tasks,
         GivesUpLess(A, B), GivesUpLess(B, C)
  PROVE  GivesUpLess(A, C)
<1>1. PICK x \in Tasks : DecidedBy(A, B, x)
  BY GivesUpLessMeans
<1>2. PICK y \in Tasks : DecidedBy(B, C, y)
  BY GivesUpLessMeans
<1>3. /\ \A i, j \in Tasks : i = j \/ <<i, j>> \in ByProtection \/ <<j, i>> \in ByProtection
      /\ \A i, j, k \in Tasks :
           <<i, j>> \in ByProtection /\ <<j, k>> \in ByProtection => <<i, k>> \in ByProtection
  BY ProtectionOrders DEF StrictlyOrders
<1>4. x # y
  BY <1>1, <1>2 DEF DecidedBy
<1>5. CASE <<x, y>> \in ByProtection
  <2>1. x \in C /\ x \notin A
    BY <1>1, <1>2, <1>5 DEF DecidedBy
  <2>2. ASSUME NEW z \in Tasks, <<z, x>> \in ByProtection PROVE z \in A <=> z \in C
    <3>1. <<z, y>> \in ByProtection
      BY <1>3, <1>5, <2>2
    <3> QED BY <1>1, <1>2, <2>2, <3>1 DEF DecidedBy
  <2>3. DecidedBy(A, C, x)
    BY <2>1, <2>2 DEF DecidedBy
  <2> QED BY <2>3, GivesUpLessMeans
<1>6. CASE <<y, x>> \in ByProtection
  <2>1. y \in C /\ y \notin A
    BY <1>1, <1>2, <1>6 DEF DecidedBy
  <2>2. ASSUME NEW z \in Tasks, <<z, y>> \in ByProtection PROVE z \in A <=> z \in C
    <3>1. <<z, x>> \in ByProtection
      BY <1>3, <1>6, <2>2
    <3> QED BY <1>1, <1>2, <2>2, <3>1 DEF DecidedBy
  <2>3. DecidedBy(A, C, y)
    BY <2>1, <2>2 DEF DecidedBy
  <2> QED BY <2>3, GivesUpLessMeans
<1> QED BY <1>3, <1>4, <1>5, <1>6


(***************************************************************************)
(* placement_key is a strict order of finite sets of triples: the first    *)
(* triple that only one of them has decides, unless the other ends there.  *)
(***************************************************************************)
Keys == Nat \X Nat \X Nat

ByTime == {x \in Keys \X Keys : TripleBefore(x[1], x[2])}

LEMMA TripleBeforeMeans ==
  ASSUME NEW x \in Keys, NEW y \in Keys
  PROVE  TripleBefore(x, y) <=>
           x[1] < y[1] \/ (x[1] = y[1] /\ (x[2] < y[2] \/ (x[2] = y[2] /\ x[3] < y[3])))
<1>1. /\ x[1] \in Int /\ x[2] \in Int /\ x[3] \in Int
      /\ y[1] \in Int /\ y[2] \in Int /\ y[3] \in Int
  BY DEF Keys
<1>2. TripleBefore(x, y) <=>
        x[1] - y[1] < 0 \/ (x[1] - y[1] = 0 /\ (x[2] - y[2] < 0 \/ (x[2] - y[2] = 0 /\ x[3] - y[3] < 0)))
  BY <1>1, PrecedesThree DEF TripleBefore
<1> QED BY <1>1, <1>2

LEMMA TimeOrders == StrictlyOrders(ByTime, Keys)
<1>1. ASSUME NEW x \in Keys
      PROVE  x[1] \in Int /\ x[2] \in Int /\ x[3] \in Int
  BY DEF Keys
<1>2. ASSUME NEW x \in Keys, NEW y \in Keys
      PROVE  <<x, y>> \in ByTime <=>
               x[1] < y[1] \/ (x[1] = y[1] /\ (x[2] < y[2] \/ (x[2] = y[2] /\ x[3] < y[3])))
  BY <1>2, TripleBeforeMeans DEF ByTime
<1>3. ASSUME NEW x \in Keys PROVE <<x, x>> \notin ByTime
  BY <1>1, <1>2
<1>4. ASSUME NEW x \in Keys, NEW y \in Keys, x # y
      PROVE  <<x, y>> \in ByTime \/ <<y, x>> \in ByTime
  <2>1. x[1] # y[1] \/ x[2] # y[2] \/ x[3] # y[3]
    BY <1>4 DEF Keys
  <2>2. /\ x[1] \in Int /\ x[2] \in Int /\ x[3] \in Int
        /\ y[1] \in Int /\ y[2] \in Int /\ y[3] \in Int
    BY <1>1
  <2> QED BY <1>2, <2>1, <2>2
<1>5. ASSUME NEW x \in Keys, NEW y \in Keys, NEW z \in Keys,
             <<x, y>> \in ByTime, <<y, z>> \in ByTime
      PROVE  <<x, z>> \in ByTime
  <2>1. /\ x[1] \in Int /\ x[2] \in Int /\ x[3] \in Int
        /\ y[1] \in Int /\ y[2] \in Int /\ y[3] \in Int
        /\ z[1] \in Int /\ z[2] \in Int /\ z[3] \in Int
    BY <1>1
  <2> QED BY <1>2, <1>5, <2>1
<1> QED BY <1>3, <1>4, <1>5, Zenon DEF StrictlyOrders

(* The CHOOSE for the first of a finite set of triples finds it. *)
LEMMA FirstTriple ==
  ASSUME NEW S \in SUBSET Keys, IsFiniteSet(S), S # {}
  PROVE  \E x \in S : \A y \in S \ {x} : TripleBefore(x, y) /\ <<x, y>> \in ByTime
<1>1. StrictlyOrders(ByTime, S)
  BY TimeOrders, OrderOfSubset
<1>2. \E x \in S : \A y \in S \ {x} : <<x, y>> \in ByTime
  BY <1>1, FirstAndLast
<1>3. \A x, y \in S : <<x, y>> \in ByTime => TripleBefore(x, y)
  BY DEF ByTime
<1> QED BY <1>2, <1>3

FirstDifference(P, Q, x) ==
  /\ ~(x \in P <=> x \in Q)
  /\ \A y \in Keys : <<y, x>> \in ByTime => (y \in P <=> y \in Q)

GoesOn(Q, x) == \E y \in Q : <<x, y>> \in ByTime

SplitAt(P, Q, x) ==
  /\ FirstDifference(P, Q, x)
  /\ x \in P => GoesOn(Q, x)
  /\ x \in Q => ~GoesOn(P, x)

KeyOrder(P, Q) == \E x \in Keys : SplitAt(P, Q, x)

LEMMA KeysOrdered ==
  ASSUME NEW P \in SUBSET Keys, NEW Q \in SUBSET Keys, IsFiniteSet(P), IsFiniteSet(Q)
  PROVE  /\ ~KeyOrder(P, P)
         /\ P = Q \/ KeyOrder(P, Q) \/ KeyOrder(Q, P)
<1>1. ~KeyOrder(P, P)
  BY DEF KeyOrder, SplitAt, FirstDifference
<1>2. ASSUME P # Q PROVE KeyOrder(P, Q) \/ KeyOrder(Q, P)
  <2> DEFINE D == SymDiff(P, Q)
  <2>1. IsFiniteSet(P \cup Q) /\ D \in SUBSET (P \cup Q)
    BY FS_Union DEF SymDiff
  <2>2. /\ D \in SUBSET Keys /\ IsFiniteSet(D) /\ D # {}
        /\ \A y \in Keys : y \in D <=> ~(y \in P <=> y \in Q)
    BY <1>2, <2>1, FS_Subset DEF SymDiff
  <2> HIDE DEF D
  <2>3. PICK x \in D : \A y \in D \ {x} : TripleBefore(x, y) /\ <<x, y>> \in ByTime
    BY <2>2, FirstTriple
  <2>4. ASSUME NEW y \in Keys, <<y, x>> \in ByTime PROVE y \notin D
    BY <2>2, <2>3, <2>4, TimeOrders DEF StrictlyOrders
  <2>5. x \in Keys /\ FirstDifference(P, Q, x) /\ FirstDifference(Q, P, x)
    BY <2>2, <2>3, <2>4 DEF FirstDifference
  <2>6. SplitAt(P, Q, x) \/ SplitAt(Q, P, x)
    BY <2>5 DEF SplitAt, FirstDifference
  <2> QED BY <2>5, <2>6 DEF KeyOrder
<1> QED BY <1>1, <1>2

LEMMA KeysTransitive ==
  ASSUME NEW P \in SUBSET Keys, NEW Q \in SUBSET Keys, NEW R \in SUBSET Keys,
         IsFiniteSet(P), IsFiniteSet(R), KeyOrder(P, Q), KeyOrder(Q, R)
  PROVE  KeyOrder(P, R)
<1>1. PICK x \in Keys : SplitAt(P, Q, x)
  BY DEF KeyOrder
<1>2. PICK y \in Keys : SplitAt(Q, R, y)
  BY DEF KeyOrder
<1>3. /\ \A i \in Keys : <<i, i>> \notin ByTime
      /\ \A i, j \in Keys : i = j \/ <<i, j>> \in ByTime \/ <<j, i>> \in ByTime
      /\ \A i, j, k \in Keys : <<i, j>> \in ByTime /\ <<j, k>> \in ByTime => <<i, k>> \in ByTime
  BY TimeOrders DEF StrictlyOrders
<1>4. CASE <<x, y>> \in ByTime
  <2>1. x \in Q <=> x \in R
    BY <1>2, <1>4 DEF SplitAt, FirstDifference
  <2>2. ASSUME NEW z \in Keys, <<z, x>> \in ByTime PROVE z \in P <=> z \in R
    <3>1. <<z, y>> \in ByTime
      BY <1>3, <1>4, <2>2
    <3> QED BY <1>1, <1>2, <2>2, <3>1 DEF SplitAt, FirstDifference
  <2>3. FirstDifference(P, R, x)
    BY <1>1, <2>1, <2>2 DEF SplitAt, FirstDifference
  <2>4. ASSUME x \in P PROVE GoesOn(R, x)
    <3>1. CASE y \in R
      BY <1>4, <3>1 DEF GoesOn
    <3>2. CASE y \notin R
      <4>1. y \in Q
        BY <1>2, <3>2 DEF SplitAt, FirstDifference
      <4>2. PICK z \in R : <<y, z>> \in ByTime
        BY <1>2, <4>1 DEF SplitAt, GoesOn
      <4>3. <<x, z>> \in ByTime
        BY <1>3, <1>4, <4>2
      <4> QED BY <4>2, <4>3 DEF GoesOn
    <3> QED BY <3>1, <3>2
  <2>5. x \in R => ~GoesOn(P, x)
    BY <1>1, <2>1 DEF SplitAt
  <2> QED BY <2>3, <2>4, <2>5 DEF KeyOrder, SplitAt
<1>5. CASE <<y, x>> \in ByTime
  <2>1. y \in P <=> y \in Q
    BY <1>1, <1>5 DEF SplitAt, FirstDifference
  <2>2. ASSUME NEW z \in Keys, <<z, y>> \in ByTime PROVE z \in P <=> z \in R
    <3>1. <<z, x>> \in ByTime
      BY <1>3, <1>5, <2>2
    <3> QED BY <1>1, <1>2, <2>2, <3>1 DEF SplitAt, FirstDifference
  <2>3. FirstDifference(P, R, y)
    BY <1>2, <2>1, <2>2 DEF SplitAt, FirstDifference
  <2>4. y \in P => GoesOn(R, y)
    BY <1>2, <2>1 DEF SplitAt
  <2>5. ASSUME y \in R PROVE FALSE
    <3>1. ~GoesOn(Q, y)
      BY <1>2, <2>5 DEF SplitAt
    <3>2. x \notin Q /\ x \in P
      BY <1>1, <1>5, <3>1 DEF GoesOn, SplitAt, FirstDifference
    <3>3. PICK z \in Q : <<x, z>> \in ByTime
      BY <1>1, <3>2 DEF SplitAt, GoesOn
    <3>4. <<y, z>> \in ByTime
      BY <1>3, <1>5, <3>3
    <3> QED BY <3>1, <3>3, <3>4 DEF GoesOn
  <2> QED BY <2>3, <2>4, <2>5 DEF KeyOrder, SplitAt
<1>6. CASE x = y
  <2>1. x \notin P /\ x \in Q /\ x \notin R
    BY <1>1, <1>2, <1>6 DEF SplitAt, FirstDifference
  <2>2. ~GoesOn(P, x) /\ GoesOn(R, x)
    BY <1>1, <1>2, <1>6, <2>1 DEF SplitAt
  <2> DEFINE more == {z \in R : <<x, z>> \in ByTime}
  <2>3. more \in SUBSET Keys /\ IsFiniteSet(more) /\ more # {}
    BY <2>2, FS_Subset DEF GoesOn
  <2>4. PICK w \in more : \A z \in more \ {w} : TripleBefore(w, z) /\ <<w, z>> \in ByTime
    <3> HIDE DEF more
    <3> QED BY <2>3, FirstTriple
  <2>5. w \in R /\ w \in Keys /\ <<x, w>> \in ByTime /\ w \notin P
    BY <2>2, <2>4 DEF GoesOn
  <2>6. ASSUME NEW z \in Keys, <<z, w>> \in ByTime PROVE z \in P <=> z \in R
    <3>1. CASE z = x
      BY <2>1, <3>1
    <3>2. CASE <<z, x>> \in ByTime
      BY <1>1, <1>2, <1>6, <3>2, <2>6 DEF SplitAt, FirstDifference
    <3>3. CASE <<x, z>> \in ByTime
      <4>1. z \notin P
        BY <2>2, <3>3 DEF GoesOn
      <4>2. z \notin R
        BY <1>3, <2>4, <2>5, <2>6, <3>3
      <4> QED BY <4>1, <4>2
    <3> QED BY <1>3, <3>1, <3>2, <3>3
  <2>7. FirstDifference(P, R, w)
    BY <2>5, <2>6 DEF FirstDifference
  <2>8. ~GoesOn(P, w)
    BY <1>3, <2>2, <2>5 DEF GoesOn
  <2> QED BY <2>5, <2>7, <2>8 DEF KeyOrder, SplitAt
<1> QED BY <1>3, <1>4, <1>5, <1>6


LEMMA KeyBeforeMeans ==
  ASSUME NEW p, NEW q, Triples(p) \in SUBSET Keys, Triples(q) \in SUBSET Keys,
         IsFiniteSet(Triples(p)), IsFiniteSet(Triples(q))
  PROVE  KeyBefore(p, q) <=> KeyOrder(Triples(p), Triples(q))
<1> DEFINE P == Triples(p)
           Q == Triples(q)
           D == SymDiff(P, Q)
           f == CHOOSE x \in D : \A y \in D \ {x} : TripleBefore(x, y)
<1>1. KeyBefore(p, q) <=>
        /\ D # {}
        /\ IF f \in P THEN \E y \in Q : TripleBefore(f, y) ELSE ~\E y \in P : TripleBefore(f, y)
  BY DEF KeyBefore
<1>2. IsFiniteSet(P \cup Q) /\ D \in SUBSET (P \cup Q)
  BY FS_Union DEF SymDiff
<1>3. /\ D \in SUBSET Keys /\ IsFiniteSet(D)
      /\ \A y \in Keys : y \in D <=> ~(y \in P <=> y \in Q)
  BY <1>2, FS_Subset DEF SymDiff
<1>4. P \in SUBSET Keys /\ Q \in SUBSET Keys
  OBVIOUS
<1> HIDE DEF P, Q, D
<1>5. ASSUME D # {} PROVE f \in D /\ \A y \in D \ {f} : TripleBefore(f, y)
  BY <1>3, <1>5, FirstTriple
<1> HIDE DEF f
<1>6. \A x, y \in Keys : TripleBefore(x, y) <=> <<x, y>> \in ByTime
  BY DEF ByTime
<1>7. ASSUME D # {} PROVE f \in Keys /\ FirstDifference(P, Q, f)
  <2>1. f \in D /\ f \in Keys /\ \A y \in D \ {f} : <<f, y>> \in ByTime
    BY <1>3, <1>5, <1>6, <1>7
  <2>2. ASSUME NEW y \in Keys, <<y, f>> \in ByTime PROVE y \notin D
    BY <1>3, <2>1, <2>2, TimeOrders DEF StrictlyOrders
  <2> QED BY <1>3, <2>1, <2>2 DEF FirstDifference
<1>8. ASSUME D # {}
      PROVE  /\ GoesOn(Q, f) <=> \E y \in Q : TripleBefore(f, y)
             /\ GoesOn(P, f) <=> \E y \in P : TripleBefore(f, y)
  BY <1>4, <1>6, <1>7, <1>8 DEF GoesOn
<1>9. ASSUME D # {}
      PROVE  SplitAt(P, Q, f) <=>
               IF f \in P THEN \E y \in Q : TripleBefore(f, y) ELSE ~\E y \in P : TripleBefore(f, y)
  BY <1>7, <1>8, <1>9 DEF SplitAt, FirstDifference
<1>10. ASSUME NEW x \in Keys, SplitAt(P, Q, x) PROVE D # {} /\ x = f
  <2>1. x \in D
    BY <1>3, <1>10 DEF SplitAt, FirstDifference
  <2>2. f \in D /\ f \in Keys /\ (x # f => <<f, x>> \in ByTime)
    BY <1>3, <1>5, <1>6, <2>1
  <2>3. <<f, x>> \notin ByTime
    BY <1>3, <1>10, <2>2 DEF SplitAt, FirstDifference
  <2> QED BY <2>1, <2>2, <2>3
<1>11. KeyOrder(P, Q) <=> D # {} /\ SplitAt(P, Q, f)
  BY <1>7, <1>10 DEF KeyOrder
<1>12. KeyBefore(p, q) <=> KeyOrder(P, Q)
  BY <1>1, <1>9, <1>11
<1> QED BY <1>12 DEF P, Q

(***************************************************************************)
(* The steps of a branch, as triples, name the Tasks that it has placed.   *)
(***************************************************************************)
LEMMA TriplesFacts ==
  ASSUME TypeOK, NEW p, IsSchedule(p)
  PROVE  Triples(p) \in SUBSET Keys /\ IsFiniteSet(Triples(p))
<1>1. ASSUME NEW t \in DOMAIN p PROVE <<p[t].start, p[t].end, Ordinal[t]>> \in Keys
  <2>1. t \in Tasks /\ p[t].start \in Nat /\ p[t].end \in Nat
    BY <1>1, TimeAssumption DEF IsSchedule, Step, Time
  <2> QED BY <2>1, WorthFacts DEF Keys
<1>2. IsFiniteSet(DOMAIN p)
  BY RequestFacts, TasksFinite, FS_Subset DEF IsSchedule
<1> DEFINE f == [t \in DOMAIN p |-> <<p[t].start, p[t].end, Ordinal[t]>>]
<1>3. f \in Surjection(DOMAIN p, Triples(p))
  BY DEF Surjection, Triples
<1> QED BY <1>1, <1>2, <1>3, FS_Surjection DEF Triples

LEMMA TriplesTell ==
  ASSUME TypeOK, NEW p, NEW q, IsSchedule(p), IsSchedule(q), Triples(p) \subseteq Triples(q)
  PROVE  DOMAIN p \subseteq DOMAIN q
<1>1. SUFFICES ASSUME NEW t \in DOMAIN p PROVE t \in DOMAIN q
  OBVIOUS
<1>2. <<p[t].start, p[t].end, Ordinal[t]>> \in Triples(q)
  BY DEF Triples
<1>3. PICK u \in DOMAIN q : <<p[t].start, p[t].end, Ordinal[t]>> = <<q[u].start, q[u].end, Ordinal[u]>>
  BY <1>2 DEF Triples
<1>4. t \in Tasks /\ u \in Tasks /\ Ordinal[t] = Ordinal[u]
  BY <1>3 DEF IsSchedule
<1> QED BY <1>4, WorthFacts

-----------------------------------------------------------------------------
(***************************************************************************)
(* Types of what a branch is ranked by.                                    *)
(***************************************************************************)
SweepTyped ==
  /\ IsSchedule(sweep.fixed)
  /\ sweep.chunks \subseteq Window
  /\ sweep.release \in [Tasks \ DOMAIN sweep.fixed -> Time]

LEMMA FirstOfFacts ==
  ASSUME NEW S, S \subseteq Window, S # {}
  PROVE  FirstOf(S) \in S /\ \A d \in S : FirstOf(S).start <= d.start
<1> DEFINE starts == {c.start : c \in S}
<1>1. starts \in SUBSET Nat /\ starts # {}
  BY TimeAssumption DEF Window, Time
<1>2. PICK m \in starts : \A k \in starts : m <= k
  <2> HIDE DEF starts
  <2> QED BY <1>1, LeastNatural
<1>3. \E c \in S : \A d \in S : c.start <= d.start
  BY <1>2
<1> QED BY <1>3 DEF FirstOf

LEMMA UtilityIsInteger ==
  ASSUME TypeOK, NEW t \in Tasks, NEW end \in Int
  PROVE  UtilityOf(t, end) \in Int
<1>1. req.value[t] \in Int /\ req.priority[t] \in Int /\ req.window.end \in Int
  BY WorthFacts, RequestFacts DEF Window, Time
<1>2. Weight(t) \in Int
  BY <1>1 DEF Weight
<1>3. req.window.end - end \in Int
  BY <1>1
<1> QED BY <1>2, <1>3 DEF UtilityOf

LEMMA ScoreIsInteger ==
  ASSUME TypeOK, SweepTyped, NEW b, IsSchedule(b.placed), b.remaining \subseteq Units
  PROVE  OptimisticScore(b) \in Int
<1> DEFINE later(t) == Eligible(t, b.excluded) \cap After(here)
           ahead(t) == Later(FirstOf(later(t)).start, sweep.release[t]) + req.duration[t]
           won == [t \in DOMAIN b.placed |-> UtilityOf(t, b.placed[t].end)]
           hoped == [t \in b.remaining |-> IF later(t) = {} THEN 0 ELSE UtilityOf(t, ahead(t))]
<1>1. IsFiniteSet(DOMAIN b.placed) /\ IsFiniteSet(b.remaining)
  BY RequestFacts, TasksFinite, FS_Subset DEF IsSchedule, Units
<1>2. ASSUME NEW t \in DOMAIN b.placed PROVE UtilityOf(t, b.placed[t].end) \in Int
  <2>1. t \in Tasks /\ b.placed[t].end \in Int
    BY <1>2 DEF IsSchedule, Step, Time
  <2> QED BY <2>1, UtilityIsInteger
<1>3. ASSUME NEW t \in b.remaining, later(t) # {} PROVE UtilityOf(t, ahead(t)) \in Int
  <2>1. later(t) \subseteq Window
    BY DEF Eligible, SweepTyped
  <2>2. FirstOf(later(t)) \in later(t)
    <3> HIDE DEF later
    <3> QED BY <1>3, <2>1, FirstOfFacts
  <2>3. FirstOf(later(t)).start \in Int
    BY <2>1, <2>2 DEF Window, Time
  <2>4. t \in Tasks /\ sweep.release[t] \in Int /\ req.duration[t] \in Int
    BY RequestFacts DEF Units, SweepTyped, Time
  <2>5. Later(FirstOf(later(t)).start, sweep.release[t]) \in Int
    BY <2>3, <2>4 DEF Later
  <2>6. ahead(t) \in Int
    <3> HIDE DEF later
    <3> QED BY <2>4, <2>5
  <2> HIDE DEF later, ahead
  <2> QED BY <2>4, <2>6, UtilityIsInteger
<1>4. won \in [DOMAIN b.placed -> Int]
  BY <1>2
<1>5. hoped \in [b.remaining -> Int]
  <2> HIDE DEF later, ahead
  <2> QED BY <1>3
<1>6. SumFunction(won) \in Int /\ SumFunction(hoped) \in Int
  <2> HIDE DEF won, hoped
  <2> QED BY <1>1, <1>4, <1>5, SumIsInteger
<1>7. OptimisticScore(b) = SumFunction(won) + SumFunction(hoped)
  BY DEF OptimisticScore, Utility
<1> HIDE DEF won, hoped
<1> QED BY <1>6, <1>7

(***************************************************************************)
(* The order of the branches is strict, and so the cut to the width of the *)
(* beam finds a branch for every place (select_beam).                      *)
(***************************************************************************)
Rankable(S) ==
  /\ IsFiniteSet(S)
  /\ \A b \in S : /\ IsSchedule(b.placed) /\ b.remaining \subseteq Units /\ b.excluded \subseteq Tasks
                  /\ Units = b.remaining \cup b.excluded \cup DOMAIN b.placed
                  /\ b.remaining \cap (b.excluded \cup DOMAIN b.placed) = {}
  /\ \A b, c \in S : SameCase(b, c) => b = c

ByRank(S) == {x \in S \X S : RanksBefore(x[1], x[2])}

LEMMA RankOrders ==
  ASSUME TypeOK, SweepTyped, NEW S, Rankable(S)
  PROVE  StrictlyOrders(ByRank(S), S)
<1> DEFINE score == [b \in S |-> OptimisticScore(b)]
           keys == [b \in S |-> Triples(b.placed)]
<1>1. score \in [S -> Int]
  BY ScoreIsInteger DEF Rankable
<1>2. ASSUME NEW b \in S
      PROVE  b.excluded \in SUBSET Tasks /\ keys[b] \in SUBSET Keys /\ IsFiniteSet(keys[b])
  BY <1>2, TriplesFacts DEF Rankable
<1>3. ASSUME NEW b \in S, NEW c \in S
      PROVE  <<b, c>> \in ByRank(S) <=>
               \/ GivesUpLess(b.excluded, c.excluded)
               \/ /\ b.excluded = c.excluded
                  /\ score[b] > score[c] \/ (score[b] = score[c] /\ KeyOrder(keys[b], keys[c]))
  <2>1. KeyBefore(b.placed, c.placed) <=> KeyOrder(keys[b], keys[c])
    BY <1>2, <1>3, KeyBeforeMeans
  <2>2. <<b, c>> \in ByRank(S) <=> RanksBefore(b, c)
    BY <1>3 DEF ByRank
  <2>3. score[b] = OptimisticScore(b) /\ score[c] = OptimisticScore(c)
    BY <1>3
  <2> HIDE DEF score, keys
  <2> QED BY <2>1, <2>2, <2>3, Zenon DEF RanksBefore
<1>4. ASSUME NEW b \in S, NEW c \in S, b.excluded = c.excluded, keys[b] = keys[c]
      PROVE  b = c
  <2>1. Triples(b.placed) \subseteq Triples(c.placed) /\ Triples(c.placed) \subseteq Triples(b.placed)
    BY <1>4
  <2>2. IsSchedule(b.placed) /\ IsSchedule(c.placed)
    BY <1>4 DEF Rankable
  <2>3. DOMAIN b.placed = DOMAIN c.placed
    BY <2>1, <2>2, TriplesTell
  <2>4. b.remaining = Units \ (b.excluded \cup DOMAIN b.placed)
    BY <1>4 DEF Rankable
  <2>5. c.remaining = Units \ (c.excluded \cup DOMAIN c.placed)
    BY <1>4 DEF Rankable
  <2>6. SameCase(b, c)
    BY <1>4, <2>3, <2>4, <2>5 DEF SameCase
  <2> QED BY <1>4, <2>6 DEF Rankable
<1> HIDE DEF score, keys
<1>5. ASSUME NEW b \in S PROVE <<b, b>> \notin ByRank(S)
  <2>1. ~GivesUpLess(b.excluded, b.excluded)
    BY <1>2, <1>5, OmissionsOrdered
  <2>2. ~KeyOrder(keys[b], keys[b])
    BY <1>2, <1>5, KeysOrdered
  <2>3. score[b] \in Int
    BY <1>1, <1>5
  <2> QED BY <1>3, <1>5, <2>1, <2>2, <2>3
<1>6. ASSUME NEW b \in S, NEW c \in S, b # c
      PROVE  <<b, c>> \in ByRank(S) \/ <<c, b>> \in ByRank(S)
  <2>1. \/ b.excluded = c.excluded
        \/ GivesUpLess(b.excluded, c.excluded) \/ GivesUpLess(c.excluded, b.excluded)
    BY <1>2, <1>6, OmissionsOrdered
  <2>2. keys[b] = keys[c] \/ KeyOrder(keys[b], keys[c]) \/ KeyOrder(keys[c], keys[b])
    BY <1>2, <1>6, KeysOrdered
  <2>3. score[b] \in Int /\ score[c] \in Int
    BY <1>1, <1>6
  <2>4. score[b] > score[c] \/ score[b] = score[c] \/ score[c] > score[b]
    BY <2>3
  <2> QED BY <1>3, <1>4, <1>6, <2>1, <2>2, <2>4
<1>7. ASSUME NEW b \in S, NEW c \in S, NEW d \in S,
             <<b, c>> \in ByRank(S), <<c, d>> \in ByRank(S)
      PROVE  <<b, d>> \in ByRank(S)
  <2>1. /\ b.excluded \in SUBSET Tasks /\ c.excluded \in SUBSET Tasks /\ d.excluded \in SUBSET Tasks
    BY <1>2, <1>7
  <2>2. GivesUpLess(b.excluded, c.excluded) /\ GivesUpLess(c.excluded, d.excluded)
          => GivesUpLess(b.excluded, d.excluded)
    BY <2>1, OmissionsTransitive
  <2>3. KeyOrder(keys[b], keys[c]) /\ KeyOrder(keys[c], keys[d]) => KeyOrder(keys[b], keys[d])
    BY <1>2, <1>7, KeysTransitive
  <2>4. score[b] \in Int /\ score[c] \in Int /\ score[d] \in Int
    BY <1>1, <1>7
  <2>5. /\ score[b] > score[c] /\ score[c] > score[d] => score[b] > score[d]
        /\ score[b] > score[c] /\ score[c] = score[d] => score[b] > score[d]
        /\ score[b] = score[c] /\ score[c] > score[d] => score[b] > score[d]
    BY <2>4
  <2>6. CASE GivesUpLess(b.excluded, c.excluded)
    BY <1>3, <1>7, <2>2, <2>6
  <2>7. CASE b.excluded = c.excluded /\ GivesUpLess(c.excluded, d.excluded)
    BY <1>3, <1>7, <2>7
  <2>8. CASE b.excluded = c.excluded /\ c.excluded = d.excluded
    <3>1. ~GivesUpLess(b.excluded, b.excluded)
      BY <2>1, OmissionsOrdered
    <3> QED BY <1>3, <1>7, <2>3, <2>5, <2>8, <3>1
  <2> QED BY <1>3, <1>7, <2>6, <2>7, <2>8
<1> QED BY <1>5, <1>6, <1>7, Zenon DEF StrictlyOrders

LEMMA RankedFacts ==
  ASSUME TypeOK, SweepTyped, NEW S, Rankable(S)
  PROVE  /\ Cardinality(S) \in Nat
         /\ Ranked(S) \in [1 .. Sooner(BeamWidth, Cardinality(S)) -> S]
<1>1. IsFiniteSet(S) /\ StrictlyOrders(ByRank(S), S)
  BY RankOrders DEF Rankable
<1>2. /\ Cardinality(S) \in Nat
      /\ \A m \in 0 .. Cardinality(S) - 1 : \E b \in S : Cardinality(Preceding(ByRank(S), S, b)) = m
  BY <1>1, PrecedingCounts
<1>3. ASSUME NEW b \in S PROVE Preceding(ByRank(S), S, b) = {c \in S : RanksBefore(c, b)}
  BY <1>3 DEF Preceding, ByRank
<1>4. ASSUME NEW i \in 1 .. Sooner(BeamWidth, Cardinality(S))
      PROVE  \E b \in S : Cardinality({c \in S : RanksBefore(c, b)}) = i - 1
  <2>1. i - 1 \in 0 .. Cardinality(S) - 1
    BY <1>2, <1>4, SweepAssumption DEF Sooner
  <2>2. PICK b \in S : Cardinality(Preceding(ByRank(S), S, b)) = i - 1
    BY <1>2, <2>1
  <2> QED BY <1>3, <2>2
<1> QED BY <1>2, <1>4 DEF Ranked


-----------------------------------------------------------------------------
(***************************************************************************)
(* Releases and deadlines are computed along the order, one from the other. *)
(* That the recursions define anything follows from the order: a release   *)
(* looks back, a deadline ahead.                                           *)
(***************************************************************************)
LEMMA MinFacts ==
  ASSUME NEW S \in SUBSET Time, S # {}
  PROVE  Min(S) \in S /\ \A x \in S : Min(S) <= x
<1>1. \E x \in S : \A y \in S : x <= y
  BY LeastNatural, TimeAssumption DEF Time
<1> QED BY <1>1 DEF Min

LEMMA MaxFacts ==
  ASSUME NEW S \in SUBSET Time, S # {}
  PROVE  Max(S) \in S /\ \A x \in S : x <= Max(S)
<1>1. \E x \in S : \A y \in S : y <= x
  BY GreatestTime
<1>2. \A x, y \in S : y <= x <=> x >= y
  BY DEF Time
<1>3. \E x \in S : \A y \in S : x >= y
  BY <1>1, <1>2
<1> QED BY <1>2, <1>3 DEF Max

Places == DOMAIN req.order

LEMMA PlacesFacts ==
  ASSUME TypeOK
  PROVE  /\ Len(req.order) \in Nat /\ Places = 1 .. Len(req.order)
         /\ \A i \in Places : req.order[i] \in Tasks
         /\ \A t \in Tasks : Position(req, t) \in Places /\ req.order[Position(req, t)] = t
         /\ \A i \in Places : \A d \in req.deps[req.order[i]] : d \in Tasks /\ Position(req, d) < i
<1>1. /\ Len(req.order) \in Nat /\ Places = 1 .. Len(req.order)
      /\ \A i \in Places : req.order[i] \in Tasks
  BY RequestFacts DEF Places
<1>2. ASSUME NEW t \in Tasks PROVE Position(req, t) \in Places /\ req.order[Position(req, t)] = t
  <2>1. \E i \in DOMAIN req.order : req.order[i] = t
    BY <1>2, RequestFacts DEF IsRequest, IsTopological
  <2> QED BY <2>1 DEF Position, Places
<1>3. ASSUME NEW i \in Places, NEW d \in req.deps[req.order[i]]
      PROVE  d \in Tasks /\ Position(req, d) < i
  <2>1. IsRequest(req) /\ i \in DOMAIN req.order
    BY RequestFacts, <1>3 DEF Places
  <2>2. PICK j \in DOMAIN req.order : j < i /\ req.order[j] = d
    BY <1>3, <2>1, PrerequisitesFirst
  <2>3. d \in Tasks /\ Position(req, d) = j
    BY <1>1, <2>1, <2>2, PositionOf DEF Places
  <2> QED BY <2>2, <2>3
<1> QED BY <1>1, <1>2, <1>3

(* What the walk backwards computes in one place. *)
LatestStart(gone, f, i) ==
  IF req.order[i] \in DOMAIN sweep.fixed THEN sweep.fixed[req.order[i]].start
  ELSE Later(0, Min({BaseDeadline(req.order[i])} \cup
                    {f[Position(req, u)] :
                       u \in {v \in Waiting(req.order[i], gone) : Position(req, v) > i}})
                  - req.duration[req.order[i]])

LEMMA BaseDeadlineType ==
  ASSUME TypeOK, NEW t \in Tasks
  PROVE  BaseDeadline(t) \in Time
BY RequestFacts, EffectiveWindowType DEF BaseDeadline, Window

LEMMA LatestStartType ==
  ASSUME TypeOK, SweepTyped, NEW gone, NEW f \in [Places -> Time], NEW i \in Places
  PROVE  LatestStart(gone, f, i) \in Time
<1> DEFINE t == req.order[i]
           seen == {v \in Waiting(t, gone) : Position(req, v) > i}
           S == {BaseDeadline(t)} \cup {f[Position(req, u)] : u \in seen}
<1>1. t \in Tasks /\ req.duration[t] \in 1 .. MaxTime
  BY PlacesFacts, RequestFacts
<1>2. ASSUME NEW u \in seen PROVE f[Position(req, u)] \in Time
  BY <1>2, PlacesFacts DEF Waiting
<1>3. S \in SUBSET Time /\ S # {}
  BY <1>1, <1>2, BaseDeadlineType
<1>4. t \in DOMAIN sweep.fixed => sweep.fixed[t].start \in Time
  BY DEF SweepTyped, IsSchedule, Step
<1>5. LatestStart(gone, f, i) =
        IF t \in DOMAIN sweep.fixed THEN sweep.fixed[t].start ELSE Later(0, Min(S) - req.duration[t])
  BY DEF LatestStart
<1> HIDE DEF t, S
<1>6. Min(S) \in Time
  BY <1>3, MinFacts
<1>7. Later(0, Min(S) - req.duration[t]) \in Time
  BY <1>1, <1>6, TimeAssumption DEF Later, Time
<1> QED BY <1>4, <1>5, <1>7

LEMMA LatestStartAhead ==
  ASSUME TypeOK, NEW gone, NEW i \in Places, NEW f, NEW g,
         \A j \in Places : j > i => f[j] = g[j]
  PROVE  LatestStart(gone, f, i) = LatestStart(gone, g, i)
<1> DEFINE seen == {v \in Waiting(req.order[i], gone) : Position(req, v) > i}
<1>1. ASSUME NEW u \in seen PROVE f[Position(req, u)] = g[Position(req, u)]
  BY <1>1, PlacesFacts DEF Waiting
<1>2. {f[Position(req, u)] : u \in seen} = {g[Position(req, u)] : u \in seen}
  BY <1>1
<1> QED BY <1>2 DEF LatestStart

(* After n places, counted from the end. *)
WalkedBack(gone, n, f) ==
  /\ f \in [Places -> Time]
  /\ \A i \in Places : i > Len(req.order) - n => f[i] = LatestStart(gone, f, i)

LEMMA WalkBackExists ==
  ASSUME TypeOK, SweepTyped, NEW gone, NEW n \in Nat
  PROVE  \E f : WalkedBack(gone, n, f)
<1> DEFINE missing == {m \in Nat : ~\E f : WalkedBack(gone, m, f)}
           last == Len(req.order)
<1>1. \E f : WalkedBack(gone, 0, f)
  <2>1. [i \in Places |-> 0] \in [Places -> Time]
    BY TimeAssumption DEF Time
  <2>2. \A i \in Places : ~(i > last - 0)
    BY PlacesFacts
  <2> QED BY <2>1, <2>2 DEF WalkedBack
<1>2. ASSUME NEW m \in Nat, NEW f, WalkedBack(gone, m, f)
      PROVE  \E g : WalkedBack(gone, m + 1, g)
  <2> DEFINE g == [i \in Places |-> IF i = last - m THEN LatestStart(gone, f, i) ELSE f[i]]
  <2>1. f \in [Places -> Time] /\ \A i \in Places : i > last - m => f[i] = LatestStart(gone, f, i)
    BY <1>2 DEF WalkedBack
  <2>2. g \in [Places -> Time]
    BY <2>1, LatestStartType
  <2>3. ASSUME NEW i \in Places, i > last - (m + 1) PROVE g[i] = LatestStart(gone, g, i)
    <3>1. i \in Int /\ last \in Int /\ i >= last - m
      BY <2>3, PlacesFacts
    <3>2. ASSUME NEW j \in Places, j > i PROVE f[j] = g[j]
      BY <3>1, <3>2, PlacesFacts
    <3>3. LatestStart(gone, f, i) = LatestStart(gone, g, i)
      <4> HIDE DEF g
      <4> QED BY <3>2, LatestStartAhead
    <3>4. g[i] = LatestStart(gone, f, i)
      BY <2>1, <3>1
    <3> QED BY <3>3, <3>4
  <2> HIDE DEF g
  <2>4. WalkedBack(gone, m + 1, g)
    BY <2>2, <2>3 DEF WalkedBack
  <2> QED BY <2>4
<1>3. ASSUME missing # {} PROVE FALSE
  <2>1. PICK m \in missing : \A k \in missing : m <= k
    <3>1. missing \in SUBSET Nat
      OBVIOUS
    <3> HIDE DEF missing
    <3> QED BY <1>3, <3>1, LeastNatural
  <2>2. m \in Nat /\ m # 0
    BY <1>1
  <2>3. m - 1 \in Nat /\ m - 1 \notin missing /\ (m - 1) + 1 = m
    BY <2>1, <2>2
  <2>4. PICK f : WalkedBack(gone, m - 1, f)
    BY <2>3
  <2>5. \E g : WalkedBack(gone, m, g)
    BY <1>2, <2>3, <2>4
  <2> QED BY <2>1, <2>5
<1> QED BY <1>3

LEMMA WalksAgree ==
  ASSUME TypeOK, NEW gone, NEW f, NEW g,
         \A i \in Places : f[i] = LatestStart(gone, f, i),
         \A i \in Places : g[i] = LatestStart(gone, g, i)
  PROVE  \A i \in Places : f[i] = g[i]
<1> DEFINE last == Len(req.order)
           differ == {last - i : i \in {j \in Places : f[j] # g[j]}}
<1>1. last \in Nat /\ Places = 1 .. last
  BY PlacesFacts
<1>2. ASSUME differ # {} PROVE FALSE
  <2>1. differ \in SUBSET Nat
    BY <1>1
  <2>2. PICK m \in differ : \A k \in differ : m <= k
    <3> HIDE DEF differ
    <3> QED BY <1>2, <2>1, LeastNatural
  <2>3. PICK i \in Places : f[i] # g[i] /\ m = last - i
    BY <2>2
  <2>4. ASSUME NEW j \in Places, j > i PROVE f[j] = g[j]
    <3>1. last - j < m
      BY <1>1, <2>3, <2>4
    <3>2. last - j \notin differ
      <4> HIDE DEF differ
      <4> QED BY <1>1, <2>1, <2>2, <3>1
    <3> QED BY <3>2, <2>4
  <2>5. LatestStart(gone, f, i) = LatestStart(gone, g, i)
    BY <2>4, LatestStartAhead
  <2> QED BY <2>3, <2>5
<1> QED BY <1>2

LEMMA DeadlineFacts ==
  ASSUME TypeOK, SweepTyped, NEW gone, NEW t \in Units
  PROVE  /\ Deadlines(gone)[t] \in Time
         /\ Deadlines(gone)[t] <= BaseDeadline(t)
         /\ \A u \in DOMAIN sweep.fixed \ gone :
              t \in sweep.fixed[u].deps => Deadlines(gone)[t] <= sweep.fixed[u].start
<1> DEFINE IsWalk(f) == f = [i \in Places |-> LatestStart(gone, f, i)]
           latest == CHOOSE f : IsWalk(f)
           S == {BaseDeadline(t)} \cup {latest[Position(req, u)] : u \in Waiting(t, gone)}
<1>1. PICK f : WalkedBack(gone, Len(req.order), f)
  BY PlacesFacts, WalkBackExists
<1>2. \A i \in Places : i > Len(req.order) - Len(req.order)
  BY PlacesFacts
<1>3. IsWalk(f)
  BY <1>1, <1>2 DEF WalkedBack
<1>4. IsWalk(latest)
  <2> HIDE DEF IsWalk
  <2> QED BY <1>3
<1>5. Deadlines(gone)[t] = Min(S)
  BY DEF Deadlines, LatestStart, Places
<1> HIDE DEF latest
<1>6. \A i \in Places : latest[i] = LatestStart(gone, latest, i)
  BY <1>4
<1>7. \A i \in Places : f[i] = LatestStart(gone, f, i) /\ f[i] \in Time
  BY <1>1, <1>2 DEF WalkedBack
<1>8. \A i \in Places : latest[i] = f[i]
  BY <1>6, <1>7, WalksAgree
<1>9. ASSUME NEW u \in Waiting(t, gone) PROVE u \in Tasks /\ latest[Position(req, u)] \in Time
  BY <1>7, <1>8, <1>9, PlacesFacts DEF Waiting
<1>10. S \in SUBSET Time /\ S # {}
  BY <1>9, BaseDeadlineType DEF Units
<1>11. ASSUME NEW u \in DOMAIN sweep.fixed \ gone, t \in sweep.fixed[u].deps
       PROVE  sweep.fixed[u].start \in S
  <2>1. u \in Tasks
    BY DEF SweepTyped, IsSchedule
  <2>2. u \in Waiting(t, gone)
    BY <1>11, <2>1 DEF Waiting, Named
  <2>3. Position(req, u) \in Places /\ req.order[Position(req, u)] = u
    BY <2>1, PlacesFacts
  <2>4. latest[Position(req, u)] = sweep.fixed[u].start
    BY <1>6, <2>3 DEF LatestStart
  <2> QED BY <2>2, <2>4
<1>12. BaseDeadline(t) \in S
  OBVIOUS
<1> HIDE DEF S
<1>13. Min(S) \in Time /\ \A x \in S : Min(S) <= x
  BY <1>10, MinFacts
<1> QED BY <1>5, <1>11, <1>12, <1>13

(***************************************************************************)
(* Releases, the same the other way round.                                 *)
(***************************************************************************)
EarliestEnd(fixed, f, d) ==
  IF d \in DOMAIN fixed THEN fixed[d].end
    ELSE Sooner(f[Position(req, d)] + req.duration[d], MaxTime)

Released(fixed, f, i) ==
  Max({EffectiveWindow(req, req.order[i]).start} \cup
      {EarliestEnd(fixed, f, d) : d \in req.deps[req.order[i]]})

LEMMA ReleasedType ==
  ASSUME TypeOK, NEW fixed, IsSchedule(fixed), NEW f \in [Places -> Time], NEW i \in Places
  PROVE  /\ Released(fixed, f, i) \in Time
         /\ EffectiveWindow(req, req.order[i]).start <= Released(fixed, f, i)
<1> DEFINE t == req.order[i]
           S == {EffectiveWindow(req, t).start} \cup {EarliestEnd(fixed, f, d) : d \in req.deps[t]}
<1>1. t \in Tasks
  BY PlacesFacts
<1>2. ASSUME NEW d \in req.deps[t] PROVE EarliestEnd(fixed, f, d) \in Time
  <2>1. d \in Tasks /\ req.duration[d] \in 1 .. MaxTime
    BY <1>1, RequestFacts
  <2>2. d \in DOMAIN fixed => fixed[d].end \in Time
    BY DEF IsSchedule, Step
  <2>3. f[Position(req, d)] \in Time
    BY <2>1, PlacesFacts
  <2>4. Sooner(f[Position(req, d)] + req.duration[d], MaxTime) \in Time
    BY <2>1, <2>3, TimeAssumption DEF Sooner, Time
  <2> QED BY <2>2, <2>4 DEF EarliestEnd
<1>3. EffectiveWindow(req, t).start \in Time
  BY <1>1, RequestFacts, EffectiveWindowType DEF Window
<1>4. S \in SUBSET Time /\ EffectiveWindow(req, t).start \in S
  BY <1>2, <1>3
<1>5. Released(fixed, f, i) = Max(S)
  BY DEF Released
<1> HIDE DEF S, t
<1>6. Max(S) \in Time /\ \A x \in S : x <= Max(S)
  BY <1>4, MaxFacts
<1> QED BY <1>4, <1>5, <1>6 DEF t

LEMMA ReleasedBehind ==
  ASSUME TypeOK, NEW fixed, NEW i \in Places, NEW f, NEW g,
         \A j \in Places : j < i => f[j] = g[j]
  PROVE  Released(fixed, f, i) = Released(fixed, g, i)
<1>1. ASSUME NEW d \in req.deps[req.order[i]] PROVE EarliestEnd(fixed, f, d) = EarliestEnd(fixed, g, d)
  <2>1. d \in Tasks /\ Position(req, d) < i /\ Position(req, d) \in Places
    BY <1>1, PlacesFacts
  <2> QED BY <2>1 DEF EarliestEnd
<1>2. {EarliestEnd(fixed, f, d) : d \in req.deps[req.order[i]]}
        = {EarliestEnd(fixed, g, d) : d \in req.deps[req.order[i]]}
  BY <1>1
<1> QED BY <1>2 DEF Released

WalkedOn(fixed, n, f) ==
  /\ f \in [Places -> Time]
  /\ \A i \in Places : i <= n => f[i] = Released(fixed, f, i)

LEMMA WalkOnExists ==
  ASSUME TypeOK, NEW fixed, IsSchedule(fixed), NEW n \in Nat
  PROVE  \E f : WalkedOn(fixed, n, f)
<1> DEFINE missing == {m \in Nat : ~\E f : WalkedOn(fixed, m, f)}
<1>1. \E f : WalkedOn(fixed, 0, f)
  <2>1. [i \in Places |-> 0] \in [Places -> Time]
    BY TimeAssumption DEF Time
  <2>2. \A i \in Places : ~(i <= 0)
    BY PlacesFacts
  <2> QED BY <2>1, <2>2 DEF WalkedOn
<1>2. ASSUME NEW m \in Nat, NEW f, WalkedOn(fixed, m, f)
      PROVE  \E g : WalkedOn(fixed, m + 1, g)
  <2> DEFINE g == [i \in Places |-> IF i = m + 1 THEN Released(fixed, f, i) ELSE f[i]]
  <2>1. f \in [Places -> Time] /\ \A i \in Places : i <= m => f[i] = Released(fixed, f, i)
    BY <1>2 DEF WalkedOn
  <2>2. g \in [Places -> Time]
    BY <2>1, ReleasedType
  <2>3. ASSUME NEW i \in Places, i <= m + 1 PROVE g[i] = Released(fixed, g, i)
    <3>1. i \in Int /\ (i <= m \/ i = m + 1)
      BY <2>3, PlacesFacts
    <3>2. ASSUME NEW j \in Places, j < i PROVE f[j] = g[j]
      BY <3>1, <3>2, PlacesFacts
    <3>3. Released(fixed, f, i) = Released(fixed, g, i)
      <4> HIDE DEF g
      <4> QED BY <3>2, ReleasedBehind
    <3>4. g[i] = Released(fixed, f, i)
      BY <2>1, <3>1
    <3> QED BY <3>3, <3>4
  <2> HIDE DEF g
  <2>4. WalkedOn(fixed, m + 1, g)
    BY <2>2, <2>3 DEF WalkedOn
  <2> QED BY <2>4
<1>3. ASSUME missing # {} PROVE FALSE
  <2>1. PICK m \in missing : \A k \in missing : m <= k
    <3>1. missing \in SUBSET Nat
      OBVIOUS
    <3> HIDE DEF missing
    <3> QED BY <1>3, <3>1, LeastNatural
  <2>2. m \in Nat /\ m # 0
    BY <1>1
  <2>3. m - 1 \in Nat /\ m - 1 \notin missing /\ (m - 1) + 1 = m
    BY <2>1, <2>2
  <2>4. PICK f : WalkedOn(fixed, m - 1, f)
    BY <2>3
  <2>5. \E g : WalkedOn(fixed, m, g)
    BY <1>2, <2>3, <2>4
  <2> QED BY <2>1, <2>5
<1> QED BY <1>3

LEMMA WalksOnAgree ==
  ASSUME TypeOK, NEW fixed, NEW f, NEW g,
         \A i \in Places : f[i] = Released(fixed, f, i),
         \A i \in Places : g[i] = Released(fixed, g, i)
  PROVE  \A i \in Places : f[i] = g[i]
<1> DEFINE differ == {i \in Places : f[i] # g[i]}
<1>1. Len(req.order) \in Nat /\ Places = 1 .. Len(req.order)
  BY PlacesFacts
<1>2. ASSUME differ # {} PROVE FALSE
  <2>1. differ \in SUBSET Nat
    BY <1>1
  <2>2. PICK i \in differ : \A k \in differ : i <= k
    <3> HIDE DEF differ
    <3> QED BY <1>2, <2>1, LeastNatural
  <2>3. ASSUME NEW j \in Places, j < i PROVE f[j] = g[j]
    BY <1>1, <2>2, <2>3
  <2>4. Released(fixed, f, i) = Released(fixed, g, i)
    BY <2>2, <2>3, ReleasedBehind
  <2> QED BY <2>2, <2>4
<1> QED BY <1>2

LEMMA ReleaseFacts ==
  ASSUME TypeOK, NEW fixed, IsSchedule(fixed)
  PROVE  /\ Releases(fixed) \in [Tasks \ DOMAIN fixed -> Time]
         /\ \A t \in Tasks \ DOMAIN fixed : EffectiveWindow(req, t).start <= Releases(fixed)[t]
<1> DEFINE IsWalk(f) == f = [i \in Places |-> Released(fixed, f, i)]
           release == CHOOSE f : IsWalk(f)
<1>1. PICK f : WalkedOn(fixed, Len(req.order), f)
  BY PlacesFacts, WalkOnExists
<1>2. \A i \in Places : i <= Len(req.order)
  BY PlacesFacts
<1>3. IsWalk(f)
  BY <1>1, <1>2 DEF WalkedOn
<1>4. IsWalk(release)
  <2> HIDE DEF IsWalk
  <2> QED BY <1>3
<1>5. Releases(fixed) = [t \in Tasks \ DOMAIN fixed |-> release[Position(req, t)]]
  BY DEF Releases, Released, EarliestEnd, Places
<1> HIDE DEF release
<1>6. \A i \in Places : release[i] = Released(fixed, release, i)
  BY <1>4
<1>7. /\ f \in [Places -> Time]
      /\ \A i \in Places : f[i] = Released(fixed, f, i)
  BY <1>1, <1>2 DEF WalkedOn
<1>8. \A i \in Places : release[i] = f[i]
  BY <1>6, <1>7, WalksOnAgree
<1>9. ASSUME NEW i \in Places
      PROVE  release[i] \in Time /\ EffectiveWindow(req, req.order[i]).start <= release[i]
  BY <1>7, <1>8, ReleasedType
<1>10. \A t \in Tasks : Position(req, t) \in Places /\ req.order[Position(req, t)] = t
  BY PlacesFacts
<1> QED BY <1>5, <1>9, <1>10


-----------------------------------------------------------------------------
(***************************************************************************)
(* Branches.  What is known of a branch b of a sweep s over a request r,   *)
(* when the Tasks in prot are protected.                                   *)
(***************************************************************************)
BranchTyped(s, b) ==
  /\ b = [remaining |-> b.remaining, omitted |-> b.omitted, excluded |-> b.excluded,
          offered |-> b.offered, placed |-> b.placed]
  /\ b.remaining \cup b.excluded \cup DOMAIN b.placed \subseteq Tasks \ DOMAIN s.fixed
  /\ IsSchedule(b.placed)
  /\ DOMAIN b.omitted \subseteq b.excluded
  /\ \A t \in DOMAIN b.omitted : b.omitted[t] \in SweepReasons
  /\ DOMAIN b.offered = b.excluded
  /\ \A t \in DOMAIN b.offered : b.offered[t] \subseteq s.chunks

BranchAccounts(r, s, prot, b) ==
  /\ Tasks \ DOMAIN s.fixed = b.remaining \cup b.excluded \cup DOMAIN b.placed
  /\ b.remaining \cap (b.excluded \cup DOMAIN b.placed) = {}
  /\ b.excluded \cap DOMAIN b.placed = {}
  /\ b.excluded \cap prot = {}
  /\ ClosedUnderDependents(r, b.excluded)

BranchEnd(s, b, d) == IF d \in DOMAIN s.fixed THEN s.fixed[d].end ELSE b.placed[d].end

SoundAt(r, s, b, t, step) ==
  /\ \E c \in s.chunks : c.start <= step.start /\ step.end <= c.end
  /\ EffectiveWindow(r, t).start <= step.start /\ step.end <= EffectiveWindow(r, t).end
  /\ \A u \in DOMAIN b.placed \ {t} : ~Overlaps(step.start, step.end, b.placed[u])
  /\ r.deps[t] \subseteq DOMAIN s.fixed \cup DOMAIN b.placed
  /\ \A d \in r.deps[t] : BranchEnd(s, b, d) <= step.start
  /\ \A u \in DOMAIN s.fixed : t \in s.fixed[u].deps => step.end <= s.fixed[u].start
  /\ step = PlanStep(r, t, step.start)

BranchSound(r, s, b) == \A t \in DOMAIN b.placed : SoundAt(r, s, b, t, b.placed[t])

(* The reasons: optional work stands in a chunk the Task could have gone   *)
(* to, and what went with another Task waits for one that is given up.     *)
LostInBranch(prot, b, chunks) ==
  \E c \in chunks : \E u \in DOMAIN b.placed \ prot : Overlaps(c.start, c.end, b.placed[u])

BranchHonest(r, prot, b) ==
  /\ \A t \in DOMAIN b.omitted :
       b.omitted[t] = "omitted_lower_value" => LostInBranch(prot, b, b.offered[t])
  /\ \A t \in b.excluded \ DOMAIN b.omitted : r.deps[t] \cap b.excluded # {}

BranchFine(r, s, prot, b) ==
  BranchTyped(s, b) /\ BranchAccounts(r, s, prot, b) /\ BranchSound(r, s, b) /\ BranchHonest(r, prot, b)

(* What a sweep stands on: the fixed steps are protected work, and no Task *)
(* is released before its window opens.                                    *)
Grounded ==
  /\ SweepTyped
  /\ DOMAIN sweep.fixed \subseteq protected
  /\ ClosedUnderDeps(req, protected)
  /\ \A t \in Units : EffectiveWindow(req, t).start <= sweep.release[t]

Record(remaining, omitted_, excluded_, offered, placed) ==
  [remaining |-> remaining, omitted |-> omitted_, excluded |-> excluded_,
   offered |-> offered, placed |-> placed]

LEMMA RecordFields ==
  ASSUME NEW a, NEW b, NEW c, NEW d, NEW e, NEW x, x = Record(a, b, c, d, e)
  PROVE  /\ x = [remaining |-> x.remaining, omitted |-> x.omitted, excluded |-> x.excluded,
                 offered |-> x.offered, placed |-> x.placed]
         /\ x.remaining = a /\ x.omitted = b /\ x.excluded = c /\ x.offered = d /\ x.placed = e
BY DEF Record

Updated(b, v, w, x, y) ==
  [b EXCEPT !.remaining = v, !.omitted = w, !.excluded = x, !.offered = y]

LEMMA RecordUpdate ==
  ASSUME NEW a, NEW b, NEW c, NEW d, NEW e, NEW v, NEW w, NEW x, NEW y
  PROVE  Updated(Record(a, b, c, d, e), v, w, x, y) = Record(v, w, x, y, e)
<1>1. [Record(a, b, c, d, e) EXCEPT !.remaining = v] = Record(v, b, c, d, e)
  BY DEF Record
<1>2. [Record(v, b, c, d, e) EXCEPT !.omitted = w] = Record(v, w, c, d, e)
  BY DEF Record
<1>3. [Record(v, w, c, d, e) EXCEPT !.excluded = x] = Record(v, w, x, d, e)
  BY DEF Record
<1>4. [Record(v, w, x, d, e) EXCEPT !.offered = y] = Record(v, w, x, y, e)
  BY DEF Record
<1> QED BY <1>1, <1>2, <1>3, <1>4 DEF Updated

Offers(b, new) ==
  [u \in DOMAIN b.offered \cup (new \cap Units) |->
     IF u \in new THEN Eligible(u, b.excluded) ELSE b.offered[u]]

LEMMA ExcludeIs ==
  ASSUME NEW b, BranchTyped(sweep, b), NEW t, NEW reason
  PROVE  Exclude(b, t, reason) =
           Record(b.remaining \ (WithDependents(req, {t}) \ b.excluded), With(b.omitted, t, reason),
                  b.excluded \cup WithDependents(req, {t}),
                  Offers(b, WithDependents(req, {t}) \ b.excluded), b.placed)
<1> DEFINE new == WithDependents(req, {t}) \ b.excluded
           rem == b.remaining \ new
           omi == With(b.omitted, t, reason)
           exc == b.excluded \cup WithDependents(req, {t})
           off == Offers(b, new)
<1>1. b = Record(b.remaining, b.omitted, b.excluded, b.offered, b.placed)
  BY DEF BranchTyped, Record
<1>2. Exclude(b, t, reason) = Updated(b, rem, omi, exc, off)
  BY DEF Exclude, Offers, Updated
<1> HIDE DEF rem, omi, exc, off
<1>3. Updated(Record(b.remaining, b.omitted, b.excluded, b.offered, b.placed), rem, omi, exc, off)
        = Record(rem, omi, exc, off, b.placed)
  BY RecordUpdate
<1>4. Exclude(b, t, reason) = Record(rem, omi, exc, off, b.placed)
  BY <1>1, <1>2, <1>3, Zenon
<1> QED BY <1>4 DEF rem, omi, exc, off

(***************************************************************************)
(* Giving up an unprotected Task with all that waits for it: no fixed and  *)
(* no placed Task waits for it, because fixed work is protected with its   *)
(* prerequisites and placed work has its prerequisites placed.             *)
(***************************************************************************)
LEMMA ExcludeFine ==
  ASSUME TypeOK, Grounded, NEW b, BranchFine(req, sweep, protected, b),
         NEW t \in b.remaining, t \notin protected, NEW reason \in SweepReasons,
         reason = "omitted_lower_value" => LostInBranch(protected, b, Eligible(t, b.excluded))
  PROVE  /\ BranchFine(req, sweep, protected, Exclude(b, t, reason))
         /\ Exclude(b, t, reason).remaining \subseteq b.remaining
<1> DEFINE out == WithDependents(req, {t})
           new == out \ b.excluded
           c == Exclude(b, t, reason)
           P == protected \cup DOMAIN b.placed
<1>1. BranchTyped(sweep, b) /\ BranchAccounts(req, sweep, protected, b) /\ BranchSound(req, sweep, b)
  BY DEF BranchFine
<1>2. /\ c = [remaining |-> c.remaining, omitted |-> c.omitted, excluded |-> c.excluded,
              offered |-> c.offered, placed |-> c.placed]
      /\ c.remaining = b.remaining \ new
      /\ c.omitted = With(b.omitted, t, reason)
      /\ c.excluded = b.excluded \cup out
      /\ c.offered = [u \in DOMAIN b.offered \cup (new \cap Units) |->
                        IF u \in new THEN Eligible(u, b.excluded) ELSE b.offered[u]]
      /\ c.placed = b.placed
  <2>1. c = Record(b.remaining \ new, With(b.omitted, t, reason), b.excluded \cup out,
                   Offers(b, new), b.placed)
    BY <1>1, ExcludeIs
  <2> HIDE DEF c, new, out
  <2> QED BY <2>1 DEF Record, Offers
<1>3. t \in Tasks /\ {t} \in SUBSET Tasks /\ req.deps \in [Tasks -> SUBSET Tasks]
  BY <1>1, RequestFacts DEF BranchTyped
<1>4. {t} \subseteq out /\ out \in SUBSET Tasks /\ ClosedUnderDependents(req, out)
  BY <1>3, WithDependentsClosed
<1>5. P \in SUBSET Tasks /\ t \notin P
  BY <1>1 DEF BranchTyped, BranchAccounts, TypeOK, IsSchedule
<1>6. ClosedUnderDeps(req, P)
  <2>1. ASSUME NEW u \in P PROVE req.deps[u] \subseteq P
    <3>1. CASE u \in protected
      BY <3>1 DEF Grounded, ClosedUnderDeps
    <3>2. CASE u \in DOMAIN b.placed
      <4>1. req.deps[u] \subseteq DOMAIN sweep.fixed \cup DOMAIN b.placed
        BY <1>1, <3>2 DEF BranchSound, SoundAt
      <4> QED BY <4>1 DEF Grounded
    <3> QED BY <2>1, <3>1, <3>2
  <2> QED BY <2>1 DEF ClosedUnderDeps
<1>7. out \cap P = {}
  <2> HIDE DEF P
  <2> QED BY <1>3, <1>5, <1>6, DroppingSparesClosedSets
<1>8. out \cap protected = {} /\ out \cap DOMAIN b.placed = {} /\ out \subseteq Tasks \ DOMAIN sweep.fixed
  BY <1>4, <1>7 DEF Grounded
<1> HIDE DEF out, P, c
<1>9. BranchTyped(sweep, c)
  <2>1. /\ b.remaining \cup b.excluded \cup DOMAIN b.placed \subseteq Tasks \ DOMAIN sweep.fixed
        /\ IsSchedule(b.placed)
        /\ DOMAIN b.omitted \subseteq b.excluded
        /\ DOMAIN b.offered = b.excluded
    BY <1>1 DEF BranchTyped
  <2>2. c.remaining \cup c.excluded \cup DOMAIN c.placed \subseteq Tasks \ DOMAIN sweep.fixed
    BY <1>2, <1>8, <2>1
  <2>3. DOMAIN c.omitted = DOMAIN b.omitted \cup {t} /\ t \in out
    BY <1>2, <1>4 DEF With
  <2>4. DOMAIN c.omitted \subseteq c.excluded
    BY <1>2, <2>1, <2>3
  <2>5. ASSUME NEW u \in DOMAIN c.omitted PROVE c.omitted[u] \in SweepReasons
    <3>1. CASE u = t
      BY <1>2, <2>5, <3>1 DEF With
    <3>2. CASE u # t
      <4>1. u \in DOMAIN b.omitted /\ c.omitted[u] = b.omitted[u]
        BY <1>2, <2>3, <2>5, <3>2 DEF With
      <4> QED BY <1>1, <4>1 DEF BranchTyped
    <3> QED BY <3>1, <3>2
  <2>6. DOMAIN c.offered = c.excluded
    BY <1>2, <1>8, <2>1 DEF Units
  <2>7. ASSUME NEW u \in DOMAIN c.offered PROVE c.offered[u] \subseteq sweep.chunks
    <3>1. CASE u \in new
      <4>1. c.offered[u] = Eligible(u, b.excluded)
        BY <1>2, <2>7, <3>1
      <4> QED BY <4>1 DEF Eligible
    <3>2. CASE u \notin new
      <4>1. u \in DOMAIN b.offered /\ c.offered[u] = b.offered[u]
        BY <1>2, <2>7, <3>2
      <4> QED BY <1>1, <4>1 DEF BranchTyped
    <3> QED BY <3>1, <3>2
  <2> QED BY <1>2, <2>1, <2>2, <2>4, <2>5, <2>6, <2>7 DEF BranchTyped
<1>10. BranchAccounts(req, sweep, protected, c)
  <2>1. /\ Tasks \ DOMAIN sweep.fixed = b.remaining \cup b.excluded \cup DOMAIN b.placed
        /\ b.remaining \cap (b.excluded \cup DOMAIN b.placed) = {}
        /\ b.excluded \cap DOMAIN b.placed = {}
        /\ b.excluded \cap protected = {}
        /\ ClosedUnderDependents(req, b.excluded)
    BY <1>1 DEF BranchAccounts
  <2>2. Tasks \ DOMAIN sweep.fixed = c.remaining \cup c.excluded \cup DOMAIN c.placed
    BY <1>2, <1>8, <2>1
  <2>3. c.remaining \cap (c.excluded \cup DOMAIN c.placed) = {}
    BY <1>2, <2>1
  <2>4. c.excluded \cap DOMAIN c.placed = {} /\ c.excluded \cap protected = {}
    BY <1>2, <1>8, <2>1
  <2>5. ClosedUnderDependents(req, c.excluded)
    BY <1>2, <1>4, <2>1 DEF ClosedUnderDependents
  <2> QED BY <2>2, <2>3, <2>4, <2>5 DEF BranchAccounts
<1>11. BranchSound(req, sweep, c)
  BY <1>1, <1>2 DEF BranchSound, SoundAt, BranchEnd
<1>12. DOMAIN c.omitted = DOMAIN b.omitted \cup {t} /\ DOMAIN b.omitted \subseteq b.excluded
       /\ t \in new /\ t \in Units
  BY <1>1, <1>2, <1>4 DEF With, BranchTyped, BranchAccounts, Units
<1>13. ASSUME NEW u \in DOMAIN c.omitted, c.omitted[u] = "omitted_lower_value"
       PROVE  LostInBranch(protected, c, c.offered[u])
  <2>1. CASE u = t
    <3>1. c.omitted[u] = reason
      BY <1>2, <2>1 DEF With
    <3>2. c.offered[u] = Eligible(t, b.excluded)
      BY <1>2, <1>12, <2>1
    <3> QED BY <1>2, <1>13, <3>1, <3>2 DEF LostInBranch
  <2>2. CASE u # t
    <3>1. u \in DOMAIN b.omitted /\ c.omitted[u] = b.omitted[u]
      BY <1>2, <1>12, <1>13, <2>2 DEF With
    <3>2. u \notin new /\ u \in DOMAIN b.offered
      BY <1>1, <1>12, <3>1 DEF new, BranchTyped
    <3>3. c.offered[u] = b.offered[u]
      BY <1>2, <3>2
    <3>4. LostInBranch(protected, b, b.offered[u])
      BY <1>13, <3>1 DEF BranchFine, BranchHonest
    <3> QED BY <1>2, <3>3, <3>4 DEF LostInBranch
  <2> QED BY <2>1, <2>2
<1>14. ASSUME NEW u \in c.excluded \ DOMAIN c.omitted PROVE req.deps[u] \cap c.excluded # {}
  <2>1. CASE u \in b.excluded
    <3>1. req.deps[u] \cap b.excluded # {}
      BY <1>12, <1>14, <2>1 DEF BranchFine, BranchHonest
    <3> QED BY <1>2, <3>1
  <2>2. CASE u \notin b.excluded
    <3>1. u \in out /\ u # t
      BY <1>2, <1>12, <1>14, <2>2
    <3>2. req.deps[u] \cap out # {}
      BY <1>3, <3>1, DroppedWait DEF out
    <3> QED BY <1>2, <3>2
  <2> QED BY <2>1, <2>2
<1>15. BranchHonest(req, protected, c)
  BY <1>13, <1>14 DEF BranchHonest
<1> QED BY <1>2, <1>9, <1>10, <1>11, <1>15 DEF BranchFine, c


(***************************************************************************)
(* The root of the beam has everything left.                               *)
(***************************************************************************)
LEMMA RootFine ==
  ASSUME NEW r, NEW s, NEW prot,
         NEW b, b = Record(Tasks \ DOMAIN s.fixed, Empty, {}, Empty, Empty)
  PROVE  BranchFine(r, s, prot, b)
<1>1. /\ b.remaining = Tasks \ DOMAIN s.fixed /\ b.excluded = {}
      /\ b.omitted = <<>> /\ b.offered = <<>> /\ b.placed = <<>>
      /\ b = [remaining |-> b.remaining, omitted |-> b.omitted, excluded |-> b.excluded,
              offered |-> b.offered, placed |-> b.placed]
  BY DEF Record, Empty
<1>2. DOMAIN <<>> = {}
  OBVIOUS
<1>3. BranchTyped(s, b)
  BY <1>1, <1>2 DEF BranchTyped, IsSchedule
<1>4. BranchAccounts(r, s, prot, b)
  BY <1>1, <1>2 DEF BranchAccounts, ClosedUnderDependents
<1>5. BranchSound(r, s, b) /\ BranchHonest(r, prot, b)
  BY <1>1, <1>2 DEF BranchSound, BranchHonest
<1> QED BY <1>3, <1>4, <1>5 DEF BranchFine

(***************************************************************************)
(* The search for a slot begins at a time, inside the chunk, after the     *)
(* release and after every prerequisite.                                   *)
(***************************************************************************)
LEMMA EarliestInFacts ==
  ASSUME TypeOK, Grounded, BranchTyped(sweep, child), here \in sweep.chunks,
         NEW t \in Units, DepsPlaced(child, t)
  PROVE  /\ EarliestIn(t) \in Time
         /\ here.start <= EarliestIn(t) /\ sweep.release[t] <= EarliestIn(t)
         /\ \A d \in req.deps[t] : EndOf(child, d) \in Time /\ EndOf(child, d) <= EarliestIn(t)
<1> DEFINE S == {here.start, sweep.release[t]} \cup {EndOf(child, d) : d \in req.deps[t]}
<1>1. here.start \in Time /\ sweep.release[t] \in Time
  BY DEF Grounded, SweepTyped, Units, Window
<1>2. ASSUME NEW d \in req.deps[t] PROVE EndOf(child, d) \in Time
  <2>1. d \in DOMAIN sweep.fixed \cup DOMAIN child.placed
    BY <1>2 DEF DepsPlaced
  <2>2. IsSchedule(sweep.fixed) /\ IsSchedule(child.placed)
    BY DEF Grounded, SweepTyped, BranchTyped
  <2> QED BY <2>1, <2>2 DEF EndOf, IsSchedule, Step
<1>3. S \in SUBSET Time /\ S # {}
  BY <1>1, <1>2
<1>4. EarliestIn(t) = Max(S)
  BY DEF EarliestIn
<1>5. here.start \in S /\ sweep.release[t] \in S /\ \A d \in req.deps[t] : EndOf(child, d) \in S
  OBVIOUS
<1> HIDE DEF S
<1>6. Max(S) \in S /\ \A x \in S : x <= Max(S)
  BY <1>3, MaxFacts
<1> QED BY <1>2, <1>3, <1>4, <1>5, <1>6

LEMMA PlaceIs ==
  ASSUME NEW b, b = Record(b.remaining, b.omitted, b.excluded, b.offered, b.placed), NEW rem, NEW pla
  PROVE  [b EXCEPT !.remaining = rem, !.placed = pla]
           = Record(rem, b.omitted, b.excluded, b.offered, pla)
<1>1. [b EXCEPT !.remaining = rem] = Record(rem, b.omitted, b.excluded, b.offered, b.placed)
  BY DEF Record
<1>2. [Record(rem, b.omitted, b.excluded, b.offered, b.placed) EXCEPT !.placed = pla]
        = Record(rem, b.omitted, b.excluded, b.offered, pla)
  BY DEF Record
<1> QED BY <1>1, <1>2

(***************************************************************************)
(* A placed step is sound, and so stay the others.                         *)
(***************************************************************************)
LEMMA PlaceFine ==
  ASSUME TypeOK, Grounded, BranchFine(req, sweep, protected, child), here \in sweep.chunks,
         NEW t \in child.remaining, DepsPlaced(child, t),
         from \in Time, EarliestIn(t) <= from, InTime(t), Blocking(t) = {},
         NEW c, c = Record(child.remaining \ {t}, child.omitted, child.excluded, child.offered,
                           With(child.placed, t, PlanStep(req, t, from)))
  PROVE  BranchFine(req, sweep, protected, c) /\ c.remaining \subseteq child.remaining
<1> DEFINE b == child
           step == PlanStep(req, t, from)
<1>1. BranchTyped(sweep, b) /\ BranchAccounts(req, sweep, protected, b) /\ BranchSound(req, sweep, b)
  BY DEF BranchFine
<1>2. /\ c = [remaining |-> c.remaining, omitted |-> c.omitted, excluded |-> c.excluded,
              offered |-> c.offered, placed |-> c.placed]
      /\ c.remaining = b.remaining \ {t} /\ c.placed = With(b.placed, t, step)
      /\ c.omitted = b.omitted /\ c.excluded = b.excluded /\ c.offered = b.offered
  BY DEF Record
<1>3. /\ t \in Tasks /\ t \in Units /\ t \notin DOMAIN b.placed /\ t \notin DOMAIN sweep.fixed
  BY <1>1 DEF BranchTyped, BranchAccounts, Units
<1>4. /\ Deadlines(b.excluded)[t] \in Time
      /\ Deadlines(b.excluded)[t] <= BaseDeadline(t)
      /\ \A u \in DOMAIN sweep.fixed \ b.excluded :
           t \in sweep.fixed[u].deps => Deadlines(b.excluded)[t] <= sweep.fixed[u].start
  BY <1>3, DeadlineFacts DEF Grounded
<1>5. /\ from \in Int /\ req.duration[t] \in Int /\ req.duration[t] > 0
      /\ here.end \in Time /\ here.start \in Time
  BY <1>3, RequestFacts DEF Time, Grounded, SweepTyped, Window
<1>6. from + req.duration[t] <= here.end /\ from + req.duration[t] <= Deadlines(b.excluded)[t]
  BY <1>4, <1>5 DEF InTime, Limit, Sooner, Time
<1>7. from + req.duration[t] <= MaxTime
  BY <1>5, <1>6, TimeAssumption DEF Time
<1>8. step \in Step /\ step.task = t /\ step.start = from /\ step.end = from + req.duration[t]
  <2>1. step \in Step /\ step.task = t
    BY <1>3, <1>7, PlanStepType
  <2> QED BY <2>1 DEF PlanStep
<1>9. /\ EarliestIn(t) \in Time
      /\ here.start <= EarliestIn(t) /\ sweep.release[t] <= EarliestIn(t)
      /\ \A d \in req.deps[t] : EndOf(b, d) \in Time /\ EndOf(b, d) <= EarliestIn(t)
  BY <1>1, <1>3, EarliestInFacts
<1> HIDE DEF b, step
<1>10. /\ DOMAIN c.placed = DOMAIN b.placed \cup {t}
       /\ c.placed[t] = step
       /\ \A u \in DOMAIN b.placed : u # t /\ c.placed[u] = b.placed[u]
  <2>1. c.placed = With(b.placed, t, step)
    BY <1>2
  <2> QED BY <1>3, <2>1 DEF With
<1>11. BranchTyped(sweep, c)
  <2>1. IsSchedule(c.placed)
    BY <1>1, <1>2, <1>3, <1>8, WithSchedule DEF BranchTyped
  <2>2. c.remaining \cup c.excluded \cup DOMAIN c.placed \subseteq Tasks \ DOMAIN sweep.fixed
    BY <1>1, <1>2, <1>3, <1>10 DEF BranchTyped
  <2> QED BY <1>1, <1>2, <2>1, <2>2 DEF BranchTyped
<1>12. BranchAccounts(req, sweep, protected, c)
  <2>1. /\ Tasks \ DOMAIN sweep.fixed = b.remaining \cup b.excluded \cup DOMAIN b.placed
        /\ b.remaining \cap (b.excluded \cup DOMAIN b.placed) = {}
        /\ b.excluded \cap DOMAIN b.placed = {}
        /\ b.excluded \cap protected = {}
        /\ ClosedUnderDependents(req, b.excluded)
    BY <1>1 DEF BranchAccounts
  <2>2. t \in b.remaining
    BY DEF b
  <2>3. /\ c.remaining = b.remaining \ {t} /\ c.excluded = b.excluded
        /\ DOMAIN c.placed = DOMAIN b.placed \cup {t}
    BY <1>2, <1>10
  <2>4. Tasks \ DOMAIN sweep.fixed = c.remaining \cup c.excluded \cup DOMAIN c.placed
    BY <2>1, <2>2, <2>3
  <2>5. /\ c.remaining \cap (c.excluded \cup DOMAIN c.placed) = {}
        /\ c.excluded \cap DOMAIN c.placed = {}
    BY <2>1, <2>2, <2>3
  <2> QED BY <2>1, <2>3, <2>4, <2>5 DEF BranchAccounts
<1>13. ASSUME NEW u \in DOMAIN b.placed PROVE ~Overlaps(step.start, step.end, b.placed[u])
  BY <1>8, <1>13 DEF Blocking, InWay, b
<1>14. SoundAt(req, sweep, c, t, step)
  <2>1. \E d \in sweep.chunks : d.start <= step.start /\ step.end <= d.end
    BY <1>5, <1>6, <1>8, <1>9 DEF Time
  <2>2. EffectiveWindow(req, t).start <= step.start /\ step.end <= EffectiveWindow(req, t).end
    <3>1. EffectiveWindow(req, t) \in Window /\ EffectiveWindow(req, t).start <= sweep.release[t]
      BY <1>3, RequestFacts, EffectiveWindowType DEF Grounded
    <3>2. sweep.release[t] \in Time /\ EffectiveWindow(req, t).start \in Time
      BY <1>3, <3>1 DEF Grounded, SweepTyped, Units, Window
    <3>3. EffectiveWindow(req, t).start <= step.start
      BY <1>5, <1>8, <1>9, <3>1, <3>2 DEF Time
    <3>4. step.end <= BaseDeadline(t)
      BY <1>3, <1>4, <1>5, <1>6, <1>8, BaseDeadlineType DEF Time
    <3> QED BY <3>3, <3>4 DEF BaseDeadline
  <2>3. \A u \in DOMAIN c.placed \ {t} : ~Overlaps(step.start, step.end, c.placed[u])
    BY <1>10, <1>13
  <2>4. req.deps[t] \subseteq DOMAIN sweep.fixed \cup DOMAIN b.placed
    BY DEF DepsPlaced, b
  <2>5. ASSUME NEW d \in req.deps[t] PROVE BranchEnd(sweep, c, d) <= step.start
    <3>1. BranchEnd(sweep, c, d) = EndOf(b, d)
      BY <1>10, <2>4, <2>5 DEF BranchEnd, EndOf
    <3> QED BY <1>5, <1>8, <1>9, <3>1 DEF Time
  <2>6. ASSUME NEW u \in DOMAIN sweep.fixed, t \in sweep.fixed[u].deps
        PROVE  step.end <= sweep.fixed[u].start
    <3>1. u \notin b.excluded
      BY <1>1 DEF BranchTyped
    <3>2. sweep.fixed[u].start \in Time
      BY DEF Grounded, SweepTyped, IsSchedule, Step
    <3> QED BY <1>4, <1>5, <1>6, <1>8, <2>6, <3>1, <3>2 DEF Time
  <2>7. req.deps[t] \subseteq DOMAIN sweep.fixed \cup DOMAIN c.placed
    BY <1>10, <2>4
  <2>8. step = PlanStep(req, t, step.start)
    BY <1>8 DEF step
  <2> QED BY <2>1, <2>2, <2>3, <2>5, <2>6, <2>7, <2>8 DEF SoundAt
<1>15. ASSUME NEW u \in DOMAIN b.placed PROVE SoundAt(req, sweep, c, u, b.placed[u])
  <2>1. SoundAt(req, sweep, b, u, b.placed[u])
    BY <1>1, <1>15 DEF BranchSound
  <2>2. b.placed[u].start \in Int /\ b.placed[u].end \in Int /\ step.start \in Int /\ step.end \in Int
    BY <1>1, <1>8, <1>15 DEF BranchTyped, IsSchedule, Step, Time
  <2>3. ~Overlaps(b.placed[u].start, b.placed[u].end, step)
    BY <1>13, <1>15, <2>2 DEF Overlaps
  <2>4. \A v \in DOMAIN c.placed \ {u} : ~Overlaps(b.placed[u].start, b.placed[u].end, c.placed[v])
    BY <1>10, <2>1, <2>3 DEF SoundAt
  <2>5. req.deps[u] \subseteq DOMAIN sweep.fixed \cup DOMAIN b.placed
    BY <2>1 DEF SoundAt
  <2>6. \A d \in req.deps[u] : BranchEnd(sweep, c, d) = BranchEnd(sweep, b, d)
    BY <1>10, <2>5 DEF BranchEnd
  <2>7. req.deps[u] \subseteq DOMAIN sweep.fixed \cup DOMAIN c.placed
    BY <1>10, <2>5
  <2>8. /\ \E d \in sweep.chunks : d.start <= b.placed[u].start /\ b.placed[u].end <= d.end
        /\ EffectiveWindow(req, u).start <= b.placed[u].start
        /\ b.placed[u].end <= EffectiveWindow(req, u).end
        /\ \A d \in req.deps[u] : BranchEnd(sweep, b, d) <= b.placed[u].start
        /\ \A v \in DOMAIN sweep.fixed : u \in sweep.fixed[v].deps => b.placed[u].end <= sweep.fixed[v].start
        /\ b.placed[u] = PlanStep(req, u, b.placed[u].start)
    BY <2>1 DEF SoundAt
  <2> QED BY <2>4, <2>6, <2>7, <2>8 DEF SoundAt
<1>16. BranchSound(req, sweep, c)
  BY <1>10, <1>14, <1>15 DEF BranchSound
<1>17. BranchHonest(req, protected, c)
  <2>1. ASSUME NEW u \in DOMAIN c.omitted, c.omitted[u] = "omitted_lower_value"
        PROVE  LostInBranch(protected, c, c.offered[u])
    <3>1. LostInBranch(protected, b, b.offered[u])
      BY <1>2, <2>1 DEF BranchFine, BranchHonest, b
    <3> QED BY <1>2, <1>10, <3>1 DEF LostInBranch
  <2>2. ASSUME NEW u \in c.excluded \ DOMAIN c.omitted PROVE req.deps[u] \cap c.excluded # {}
    BY <1>2, <2>2 DEF BranchFine, BranchHonest, b
  <2> QED BY <2>1, <2>2 DEF BranchHonest
<1> QED BY <1>2, <1>11, <1>12, <1>16, <1>17 DEF BranchFine, b


-----------------------------------------------------------------------------
(***************************************************************************)
(* The invariant.  Before the sweep its variables are as they began.  Then *)
(* every branch at hand is fine, the beam goes from chunk to chunk, and    *)
(* a branch with nothing ahead has nothing left.                           *)
(***************************************************************************)
NoBranch == Record({}, Empty, {}, Empty, Empty)

SweepNotBegun ==
  /\ sweep = [fixed |-> Empty, chunks |-> {}, release |-> Empty]
  /\ turn = 1 /\ here = NoChunk /\ beam = <<>> /\ at = 1 /\ rule = 1
  /\ child = NoBranch /\ failed = {} /\ seeking = {} /\ from = 0
  /\ merged = {} /\ stranded = {}

GroundInv == ~Fixing /\ Grounded

ScalarInv ==
  /\ stage \in Stages \ {"idle"}
  /\ turn \in Nat \ {0} /\ here \in sweep.chunks \cup {NoChunk}
  /\ at \in Nat \ {0} /\ rule \in 1 .. Alternatives
  /\ Len(beam) \in 0 .. BeamWidth /\ DOMAIN beam = 1 .. Len(beam)
  /\ failed \subseteq Tasks /\ from \in Time /\ stranded \subseteq protected

BranchInv ==
  \A b \in Branches :
    BranchTyped(sweep, b) /\ (stage # "failed" => BranchFine(req, sweep, protected, b))

MergedInv == IsFiniteSet(merged) /\ \A b, c \in merged : SameCase(b, c) => b = c

Ahead(s, c) == {d \in s.chunks : d.start > c.start}

Filling == stage \in {"fill", "seek", "strand", "capacity", "cut"}

ChunkInv ==
  /\ stage \in {"outside", "homeless"} => beam = <<>> /\ at = 1 /\ merged = {}
  /\ Filling => here \in sweep.chunks /\ at \in DOMAIN beam
  /\ Filling /\ Ahead(sweep, here) = {} => \A b \in merged : b.remaining = {}
  /\ stage = "capacity" /\ Ahead(sweep, here) = {} => child.remaining = {}
  /\ stage \in {"over", "done"} =>
       Len(beam) # 0 /\ merged = {} /\ \A i \in DOMAIN beam : beam[i].remaining = {}

Seeking(t) ==
  /\ t \in child.remaining /\ DepsPlaced(child, t) /\ EarliestIn(t) <= from
  /\ \A s \in EarliestIn(t) .. from - 1 : InWay(s, s + req.duration[t]) # {}

SeekInv ==
  /\ stage = "seek" => \E t \in Tasks : seeking = {t} /\ Seeking(t)
  /\ stage # "seek" => seeking = {}

LiveInv == GroundInv /\ ScalarInv /\ BranchInv /\ MergedInv /\ ChunkInv /\ SeekInv

SweepInv ==
  /\ stage = "idle" => SweepNotBegun
  /\ stage # "idle" => LiveInv

LEMMA GroundStays ==
  ASSUME GroundInv, UNCHANGED <<req, protected, sweep>>, ~Fixing'
  PROVE  GroundInv'
BY DEF GroundInv, Grounded, SweepTyped, Units

LEMMA BranchesStay ==
  ASSUME BranchInv, UNCHANGED <<req, protected, sweep>>,
         stage = "failed" => stage' = "failed",
         \A b \in Branches' : b \in Branches \/ BranchFine(req, sweep, protected, b)
  PROVE  BranchInv'
<1>1. SUFFICES ASSUME NEW b \in Branches'
               PROVE  /\ BranchTyped(sweep, b)
                      /\ stage' # "failed" => BranchFine(req, sweep, protected, b)
  BY DEF BranchInv
<1>2. CASE b \in Branches
  BY <1>2 DEF BranchInv
<1>3. CASE BranchFine(req, sweep, protected, b)
  BY <1>3 DEF BranchFine
<1> QED BY <1>1, <1>2, <1>3

(* Skeleton steps and answers leave a sweep that has begun alone.          *)
LEMMA LiveStays ==
  ASSUME LiveInv, UNCHANGED <<req, protected, sweepVars>>, ~Fixing', stage # "seek"
  PROVE  LiveInv'
<1>1. UNCHANGED <<stage, sweep, turn, here, beam, at, rule, child, failed, seeking, from, merged,
                  stranded>>
  BY DEF sweepVars, place, search
<1>2. GroundInv' /\ ScalarInv' /\ BranchInv' /\ MergedInv'
  <2>1. GroundInv'
    BY GroundStays, <1>1 DEF LiveInv
  <2>2. ScalarInv'
    BY <1>1 DEF LiveInv, ScalarInv
  <2>3. BranchInv'
    BY <1>1 DEF LiveInv, BranchInv, Branches
  <2>4. MergedInv'
    BY <1>1 DEF LiveInv, MergedInv, SameCase
  <2> QED BY <2>1, <2>2, <2>3, <2>4
<1>3. ChunkInv' /\ SeekInv'
  BY <1>1 DEF LiveInv, ChunkInv, SeekInv, Filling
<1> QED BY <1>2, <1>3 DEF LiveInv

(* Only the loop changes, or the sweep fails.                              *)
LEMMA StageStep ==
  ASSUME LiveInv, UNCHANGED <<vars, sweep, place, child, failed, search, merged, stranded>>,
         stage \notin {"seek", "failed"}, stage' \in Stages \ {"idle", "seek"},
         stage' \in {"outside", "homeless"} => stage \in {"outside", "homeless"},
         Filling' => Filling,
         stage' = "capacity" /\ Ahead(sweep, here) = {} => child.remaining = {},
         stage' \in {"over", "done"} => stage \in {"over", "done"}
  PROVE  LiveInv'
<1>1. UNCHANGED <<req, phase, protected, sweep, turn, here, beam, at, rule, child, failed, seeking,
                  from, merged, stranded>>
  BY DEF vars, place, search
<1>2. GroundInv'
  BY GroundStays, <1>1 DEF LiveInv, GroundInv, Fixing
<1>3. ScalarInv'
  BY <1>1 DEF LiveInv, ScalarInv
<1>4. BranchInv'
  <2>1. Branches' = Branches
    BY <1>1 DEF Branches
  <2> QED BY <1>1, <2>1, BranchesStay DEF LiveInv
<1>5. MergedInv'
  BY <1>1 DEF LiveInv, MergedInv, SameCase
<1>6. ChunkInv'
  BY <1>1 DEF LiveInv, ChunkInv
<1>7. SeekInv'
  BY <1>1 DEF LiveInv, SeekInv
<1> QED BY <1>2, <1>3, <1>4, <1>5, <1>6, <1>7 DEF LiveInv

(* A branch gives up work, or the pass over the order goes on.             *)
LEMMA ChildStep ==
  ASSUME LiveInv, UNCHANGED <<vars, stage, sweep, here, beam, at, rule, failed, search, merged, stranded>>,
         stage \notin {"seek", "failed"}, turn' \in Nat \ {0},
         BranchFine(req, sweep, protected, child'), child'.remaining \subseteq child.remaining
  PROVE  LiveInv'
<1>1. UNCHANGED <<req, phase, protected, stage, sweep, here, beam, at, rule, failed, seeking, from,
                  merged, stranded>>
  BY DEF vars, search
<1>2. GroundInv'
  BY GroundStays, <1>1 DEF LiveInv, GroundInv, Fixing
<1>3. ScalarInv'
  BY <1>1 DEF LiveInv, ScalarInv
<1>4. BranchInv'
  <2>1. \A b \in Branches' : b \in Branches \/ b = child'
    BY <1>1 DEF Branches
  <2> QED BY <1>1, <2>1, BranchesStay DEF LiveInv
<1>5. MergedInv'
  BY <1>1 DEF LiveInv, MergedInv, SameCase
<1>6. ChunkInv'
  BY <1>1 DEF LiveInv, ChunkInv, Filling
<1>7. SeekInv'
  BY <1>1 DEF LiveInv, SeekInv
<1> QED BY <1>2, <1>3, <1>4, <1>5, <1>6, <1>7 DEF LiveInv


(* An action of the sweep, once it runs, leaves what it stands on alone.   *)
LEMMA LiveStep ==
  ASSUME LiveInv, UNCHANGED <<vars, sweep>>, stage # "failed",
         ScalarInv', \A b \in Branches' : b \in Branches \/ BranchFine(req, sweep, protected, b),
         MergedInv', ChunkInv', SeekInv'
  PROVE  LiveInv'
<1>1. UNCHANGED <<req, phase, protected, sweep>>
  BY DEF vars
<1>2. GroundInv'
  BY GroundStays, <1>1 DEF LiveInv, GroundInv, Fixing
<1>3. BranchInv'
  BY <1>1, BranchesStay DEF LiveInv
<1> QED BY <1>2, <1>3 DEF LiveInv

LEMMA LiveSame ==
  ASSUME LiveInv, UNCHANGED <<req, phase, protected, sweepVars>>
  PROVE  LiveInv'
<1>1. CASE stage # "seek"
  BY <1>1, LiveStays DEF LiveInv, GroundInv, Fixing
<1>2. CASE stage = "seek"
  <2>1. UNCHANGED <<req, phase, protected, stage, sweep, turn, here, beam, at, rule, child, failed,
                    seeking, from, merged, stranded>>
    BY DEF sweepVars, place, search
  <2>2. GroundInv'
    BY GroundStays, <2>1 DEF LiveInv, GroundInv, Fixing
  <2>3. ScalarInv' /\ BranchInv' /\ MergedInv'
    BY <2>1 DEF LiveInv, ScalarInv, BranchInv, Branches, MergedInv, SameCase
  <2>4. ChunkInv'
    BY <2>1 DEF LiveInv, ChunkInv, Filling
  <2>5. PICK t \in Tasks : seeking = {t} /\ Seeking(t)
    BY <1>2 DEF LiveInv, SeekInv
  <2>6. Seeking(t)'
    BY <2>1, <2>5 DEF Seeking, DepsPlaced, EarliestIn, EndOf, InWay
  <2> QED BY <1>2, <2>1, <2>2, <2>3, <2>4, <2>5, <2>6 DEF LiveInv, SeekInv
<1> QED BY <1>1, <1>2

LEMMA ChildFine ==
  ASSUME LiveInv, stage # "failed"
  PROVE  BranchFine(req, sweep, protected, child) /\ Grounded /\ BranchTyped(sweep, child)
<1>1. child \in Branches
  BY DEF Branches
<1> QED BY <1>1 DEF LiveInv, BranchInv, GroundInv

-----------------------------------------------------------------------------
(***************************************************************************)
(* The steps of the sweep, one after another.                              *)
(***************************************************************************)
LEMMA PassStep ==
  ASSUME TypeOK, LiveInv, PassOutside
  PROVE  LiveInv'
<1> DEFINE t == req.order[turn]
<1>1. /\ stage = "outside"
      /\ UNCHANGED <<vars, sweep, here, beam, at, rule, failed, search, merged, stranded>>
  BY DEF PassOutside
<1>2. turn \in Nat \ {0} /\ turn + 1 \in Nat \ {0}
  BY DEF LiveInv, ScalarInv
<1>3. BranchFine(req, sweep, protected, child) /\ Grounded
  BY <1>1, ChildFine
<1>4. CASE turn' = turn + 1 /\ UNCHANGED <<stage, child>>
  BY <1>1, <1>2, <1>3, <1>4, ChildStep
<1>5. CASE stage' = "failed" /\ UNCHANGED <<turn, child>>
  BY <1>1, <1>5, StageStep DEF Stages, Filling, place
<1>6. CASE /\ t \in child.remaining /\ t \notin protected /\ turn' = turn + 1
           /\ child' = Exclude(child, t, "outside_allowed_window") /\ UNCHANGED stage
  <2>1. "outside_allowed_window" \in SweepReasons /\ "outside_allowed_window" # "omitted_lower_value"
    BY DEF SweepReasons
  <2>2. /\ BranchFine(req, sweep, protected, Exclude(child, t, "outside_allowed_window"))
        /\ Exclude(child, t, "outside_allowed_window").remaining \subseteq child.remaining
    <3> HIDE DEF t
    <3> QED BY <1>3, <1>6, <2>1, ExcludeFine
  <2>3. BranchFine(req, sweep, protected, child') /\ child'.remaining \subseteq child.remaining
    BY <1>6, <2>2
  <2> QED BY <1>1, <1>2, <1>6, <2>3, ChildStep
<1> QED BY <1>4, <1>5, <1>6 DEF PassOutside

LEMMA OutsideDoneStep ==
  ASSUME LiveInv, OutsideDone
  PROVE  LiveInv'
BY StageStep DEF OutsideDone, Goes, Stages, Filling

(* A Task that may be given up is, in the branch being built.              *)
LEMMA GiveUpStep ==
  ASSUME TypeOK, LiveInv, stage \notin {"seek", "failed"}, UNCHANGED stage,
         NEW t \in child.remaining, t \notin protected, NEW reason \in SweepReasons,
         reason = "omitted_lower_value" => LostInBranch(protected, child, Eligible(t, child.excluded)),
         Sets(Exclude(child, t, reason))
  PROVE  LiveInv'
<1>1. UNCHANGED <<vars, sweep, turn, here, beam, at, rule, failed, search, merged, stranded>>
  BY DEF Sets, place
<1>2. /\ BranchFine(req, sweep, protected, Exclude(child, t, reason))
      /\ Exclude(child, t, reason).remaining \subseteq child.remaining
  BY ChildFine, ExcludeFine
<1>3. BranchFine(req, sweep, protected, child') /\ child'.remaining \subseteq child.remaining
  BY <1>2 DEF Sets
<1>4. turn' \in Nat \ {0}
  BY <1>1 DEF LiveInv, ScalarInv
<1> QED BY <1>1, <1>3, <1>4, ChildStep

LEMMA AbandonStep ==
  ASSUME LiveInv, stage \notin {"seek", "failed"}, NEW reason, Abandon(reason)
  PROVE  LiveInv'
BY StageStep DEF Abandon, Stages, Filling

LEMMA EvictStep ==
  ASSUME TypeOK, LiveInv, NEW t \in Tasks, Evict(t)
  PROVE  LiveInv'
<1>1. stage = "homeless" /\ t \in child.remaining
  BY DEF Evict, Homeless
<1>2. CASE t \in protected
  BY <1>1, <1>2, AbandonStep DEF Evict
<1>3. CASE t \notin protected
  <2>1. /\ "no_eligible_chunk_large_enough" \in SweepReasons
        /\ "no_eligible_chunk_large_enough" # "omitted_lower_value"
    BY DEF SweepReasons
  <2> QED BY <1>1, <1>3, <2>1, GiveUpStep DEF Evict
<1> QED BY <1>2, <1>3

LEMMA EvictDoneStep ==
  ASSUME TypeOK, LiveInv, EvictDone
  PROVE  LiveInv'
<1>1. /\ stage = "homeless" /\ Homeless = {} /\ beam' = <<child>>
      /\ UNCHANGED <<vars, sweep, turn, at, rule, child, failed, seeking, from, merged, stranded>>
      /\ \/ sweep.chunks = {} /\ stage' = "over" /\ here' = here
         \/ sweep.chunks # {} /\ stage' = "fill" /\ here' = FirstOf(sweep.chunks)
  BY DEF EvictDone, search
<1>2. UNCHANGED <<req, protected>>
  BY <1>1 DEF vars
<1>3. at = 1 /\ merged = {}
  BY <1>1 DEF LiveInv, ChunkInv
<1>4. sweep.chunks # {} => FirstOf(sweep.chunks) \in sweep.chunks
  BY FirstOfFacts DEF LiveInv, GroundInv, Grounded, SweepTyped
<1>5. Len(beam') = 1 /\ DOMAIN beam' = 1 .. 1 /\ beam'[1] = child
  BY <1>1
<1>6. ScalarInv'
  BY <1>1, <1>2, <1>4, <1>5, SweepAssumption DEF LiveInv, ScalarInv, Stages
<1>7. \A b \in Branches' : b \in Branches
  BY <1>1, <1>5 DEF Branches
<1>8. MergedInv'
  BY <1>1 DEF LiveInv, MergedInv, SameCase
<1>9. sweep.chunks = {} => child.remaining = {}
  <2>1. ASSUME sweep.chunks = {}, NEW t \in child.remaining PROVE FALSE
    <3>1. Eligible(t, child.excluded) = {}
      BY <2>1 DEF Eligible
    <3> QED BY <1>1, <3>1 DEF Homeless
  <2> QED BY <2>1
<1>10. ChunkInv'
  BY <1>1, <1>3, <1>4, <1>5, <1>9 DEF ChunkInv, Filling
<1>11. SeekInv'
  BY <1>1 DEF LiveInv, SeekInv
<1> QED BY <1>1, <1>6, <1>7, <1>8, <1>10, <1>11, LiveStep

LEMMA ChooseStep ==
  ASSUME TypeOK, LiveInv, NEW t \in Tasks, Choose(t)
  PROVE  LiveInv'
<1>1. /\ stage = "fill" /\ stage' = "seek" /\ seeking' = {t} /\ from' = EarliestIn(t)
      /\ t \in child.remaining /\ here \in Eligible(t, child.excluded) /\ DepsPlaced(child, t)
      /\ UNCHANGED <<vars, sweep, turn, here, beam, at, rule, child, failed, merged, stranded>>
  BY DEF Choose, Ready, place
<1>2. UNCHANGED <<req, protected>>
  BY <1>1 DEF vars
<1>3. BranchTyped(sweep, child) /\ Grounded
  BY <1>1, ChildFine
<1>4. here \in sweep.chunks /\ t \in Units
  BY <1>1, <1>3 DEF Eligible, BranchTyped, Units
<1>5. EarliestIn(t) \in Time
  BY <1>1, <1>3, <1>4, EarliestInFacts
<1>6. ScalarInv'
  BY <1>1, <1>2, <1>5 DEF LiveInv, ScalarInv, Stages
<1>7. \A b \in Branches' : b \in Branches
  BY <1>1 DEF Branches
<1>8. MergedInv'
  BY <1>1 DEF LiveInv, MergedInv, SameCase
<1>9. ChunkInv'
  BY <1>1 DEF LiveInv, ChunkInv, Filling
<1>10. Seeking(t)'
  <2>1. EarliestIn(t)' = EarliestIn(t) /\ DepsPlaced(child, t)'
    BY <1>1, <1>2 DEF EarliestIn, EndOf, DepsPlaced
  <2>2. EarliestIn(t)' <= from' /\ EarliestIn(t)' .. from' - 1 = {}
    BY <1>1, <1>5, <2>1 DEF Time
  <2> QED BY <1>1, <2>1, <2>2 DEF Seeking
<1>11. SeekInv'
  BY <1>1, <1>10 DEF SeekInv
<1> QED BY <1>1, <1>6, <1>7, <1>8, <1>9, <1>11, LiveStep

(***************************************************************************)
(* The search jumps to the end of the first step in the way, and no start  *)
(* that it jumps over is free of that step.                                *)
(***************************************************************************)
LEMMA FirstInWayFound ==
  ASSUME TypeOK, BranchTyped(sweep, child), NEW S \in SUBSET DOMAIN child.placed, S # {}
  PROVE  FirstInWay(S) \in S
<1> DEFINE triple(u) == <<child.placed[u].start, child.placed[u].end, Ordinal[u]>>
           all == {triple(u) : u \in S}
<1>1. IsSchedule(child.placed)
  BY DEF BranchTyped
<1>2. Triples(child.placed) \in SUBSET Keys /\ IsFiniteSet(Triples(child.placed))
  BY <1>1, TriplesFacts
<1>3. all \in SUBSET Triples(child.placed) /\ all # {}
  BY DEF Triples
<1>4. all \in SUBSET Keys /\ IsFiniteSet(all)
  <2> HIDE DEF all
  <2> QED BY <1>2, <1>3, FS_Subset
<1>5. PICK x \in all : \A y \in all \ {x} : TripleBefore(x, y)
  <2> HIDE DEF all
  <2> QED BY <1>3, <1>4, FirstTriple
<1>6. PICK u \in S : x = triple(u)
  BY <1>5
<1>7. ASSUME NEW v \in S \ {u} PROVE TripleBefore(triple(u), triple(v))
  <2>1. u \in Tasks /\ v \in Tasks
    BY <1>1, <1>7 DEF IsSchedule
  <2>2. Ordinal[u] # Ordinal[v]
    BY <1>7, <2>1, WorthFacts
  <2>3. triple(v) # triple(u)
    BY <2>2
  <2>4. triple(v) \in all \ {x}
    BY <1>6, <1>7, <2>3
  <2> HIDE DEF triple
  <2> QED BY <1>5, <1>6, <2>4
<1> QED BY <1>7 DEF FirstInWay

LEMMA SkipFacts ==
  ASSUME TypeOK, BranchTyped(sweep, child), NEW t \in Tasks, from \in Time, Blocking(t) # {}
  PROVE  /\ SkipTarget(Blocking(t)) \in Time /\ from < SkipTarget(Blocking(t))
         /\ \A s \in from .. SkipTarget(Blocking(t)) - 1 : InWay(s, s + req.duration[t]) # {}
<1> DEFINE u == FirstInWay(Blocking(t))
<1>1. Blocking(t) \in SUBSET DOMAIN child.placed
  BY DEF Blocking, InWay
<1>2. u \in Blocking(t)
  BY <1>1, FirstInWayFound
<1>3. /\ u \in DOMAIN child.placed
      /\ from < child.placed[u].end /\ from + req.duration[t] > child.placed[u].start
  BY <1>2 DEF Blocking, InWay, Overlaps
<1>4. SkipTarget(Blocking(t)) = child.placed[u].end
  BY DEF SkipTarget
<1> HIDE DEF u
<1>5. child.placed[u].start \in Time /\ child.placed[u].end \in Time /\ req.duration[t] \in Int
  BY <1>3, RequestFacts DEF BranchTyped, IsSchedule, Step
<1>6. ASSUME NEW s \in from .. child.placed[u].end - 1 PROVE u \in InWay(s, s + req.duration[t])
  <2>1. s < child.placed[u].end /\ s + req.duration[t] > child.placed[u].start
    BY <1>3, <1>5, <1>6 DEF Time
  <2> QED BY <1>3, <2>1 DEF InWay, Overlaps
<1> QED BY <1>3, <1>4, <1>5, <1>6

LEMMA SkipStep ==
  ASSUME TypeOK, LiveInv, NEW t \in Tasks, Skip(t)
  PROVE  LiveInv'
<1>1. /\ stage = "seek" /\ stage' = "seek" /\ t \in seeking /\ Blocking(t) # {}
      /\ from' = SkipTarget(Blocking(t))
      /\ UNCHANGED <<vars, sweep, turn, here, beam, at, rule, child, failed, seeking, merged, stranded>>
  BY DEF Skip, place
<1>2. UNCHANGED <<req, protected>>
  BY <1>1 DEF vars
<1>3. BranchTyped(sweep, child) /\ Grounded
  BY <1>1, ChildFine
<1>4. seeking = {t} /\ Seeking(t)
  BY <1>1 DEF LiveInv, SeekInv
<1>5. here \in sweep.chunks /\ t \in Units /\ from \in Time
  BY <1>1, <1>3, <1>4 DEF LiveInv, ChunkInv, Filling, ScalarInv, Seeking, BranchTyped, Units
<1>6. EarliestIn(t) \in Time
  BY <1>3, <1>4, <1>5, EarliestInFacts DEF Seeking
<1>7. /\ from' \in Time /\ from < from'
      /\ \A s \in from .. from' - 1 : InWay(s, s + req.duration[t]) # {}
  BY <1>1, <1>3, <1>5, SkipFacts
<1>8. ScalarInv'
  BY <1>1, <1>2, <1>7 DEF LiveInv, ScalarInv, Stages
<1>9. \A b \in Branches' : b \in Branches
  BY <1>1 DEF Branches
<1>10. MergedInv'
  BY <1>1 DEF LiveInv, MergedInv, SameCase
<1>11. ChunkInv'
  BY <1>1 DEF LiveInv, ChunkInv, Filling
<1>12. Seeking(t)'
  <2>1. EarliestIn(t)' = EarliestIn(t) /\ DepsPlaced(child, t)'
    BY <1>1, <1>2, <1>4 DEF EarliestIn, EndOf, DepsPlaced, Seeking
  <2>2. EarliestIn(t)' <= from'
    BY <1>4, <1>5, <1>6, <1>7, <2>1 DEF Seeking, Time
  <2>3. ASSUME NEW s \in EarliestIn(t) .. from' - 1 PROVE InWay(s, s + req.duration[t]) # {}
    <3>1. s \in EarliestIn(t) .. from - 1 \/ s \in from .. from' - 1
      BY <1>5, <1>6, <1>7, <2>3 DEF Time
    <3> QED BY <1>4, <1>7, <3>1 DEF Seeking
  <2>4. \A s \in EarliestIn(t)' .. from' - 1 : InWay(s, s + req.duration[t])' # {}
    BY <1>1, <1>2, <2>1, <2>3 DEF InWay
  <2> QED BY <1>1, <1>2, <1>4, <2>1, <2>2, <2>4 DEF Seeking, InWay
<1>13. SeekInv'
  BY <1>1, <1>4, <1>12 DEF SeekInv
<1> QED BY <1>1, <1>8, <1>9, <1>10, <1>11, <1>13, LiveStep

LEMMA PlaceUnitStep ==
  ASSUME TypeOK, LiveInv, NEW t \in Tasks, PlaceUnit(t)
  PROVE  LiveInv'
<1> DEFINE pla == With(child.placed, t, PlanStep(req, t, from))
           rem == child.remaining \ {t}
<1>1. /\ stage = "seek" /\ stage' = "fill" /\ t \in seeking /\ InTime(t) /\ Blocking(t) = {}
      /\ child' = [child EXCEPT !.remaining = rem, !.placed = pla]
      /\ seeking' = {}
      /\ UNCHANGED <<vars, sweep, turn, here, beam, at, rule, failed, from, merged, stranded>>
  BY DEF PlaceUnit, place
<1>2. UNCHANGED <<req, protected>>
  BY <1>1 DEF vars
<1>3. BranchFine(req, sweep, protected, child) /\ BranchTyped(sweep, child) /\ Grounded
  BY <1>1, ChildFine
<1>4. seeking = {t} /\ Seeking(t)
  BY <1>1 DEF LiveInv, SeekInv
<1>5. here \in sweep.chunks /\ from \in Time /\ t \in child.remaining
      /\ DepsPlaced(child, t) /\ EarliestIn(t) <= from
  BY <1>1, <1>4 DEF LiveInv, ChunkInv, Filling, ScalarInv, Seeking
<1>6. child = Record(child.remaining, child.omitted, child.excluded, child.offered, child.placed)
  BY <1>3 DEF BranchTyped, Record
<1>7. child' = Record(rem, child.omitted, child.excluded, child.offered, pla)
  <2> HIDE DEF rem, pla
  <2> QED BY <1>1, <1>6, PlaceIs
<1>8. BranchFine(req, sweep, protected, child') /\ child'.remaining \subseteq child.remaining
  BY <1>1, <1>3, <1>5, <1>7, PlaceFine
<1> HIDE DEF rem, pla
<1>9. ScalarInv'
  BY <1>1, <1>2 DEF LiveInv, ScalarInv, Stages
<1>10. \A b \in Branches' : b \in Branches \/ BranchFine(req, sweep, protected, b)
  BY <1>1, <1>8 DEF Branches
<1>11. MergedInv'
  BY <1>1 DEF LiveInv, MergedInv, SameCase
<1>12. ChunkInv'
  BY <1>1 DEF LiveInv, ChunkInv, Filling
<1>13. SeekInv'
  BY <1>1 DEF SeekInv
<1> QED BY <1>1, <1>9, <1>10, <1>11, <1>12, <1>13, LiveStep

LEMMA NoSlotStep ==
  ASSUME LiveInv, NEW t \in Tasks, NoSlotLeft(t)
  PROVE  LiveInv'
<1>1. /\ stage = "seek" /\ stage' = "fill" /\ failed' = failed \cup {t} /\ seeking' = {}
      /\ UNCHANGED <<vars, sweep, turn, here, beam, at, rule, child, from, merged, stranded>>
  BY DEF NoSlotLeft, place
<1>2. UNCHANGED <<req, protected>>
  BY <1>1 DEF vars
<1>3. ScalarInv'
  BY <1>1, <1>2 DEF LiveInv, ScalarInv, Stages
<1>4. \A b \in Branches' : b \in Branches
  BY <1>1 DEF Branches
<1>5. MergedInv'
  BY <1>1 DEF LiveInv, MergedInv, SameCase
<1>6. ChunkInv'
  BY <1>1 DEF LiveInv, ChunkInv, Filling
<1>7. SeekInv'
  BY <1>1 DEF SeekInv
<1> QED BY <1>1, <1>3, <1>4, <1>5, <1>6, <1>7, LiveStep

LEMMA FillDoneStep ==
  ASSUME LiveInv, FillDone
  PROVE  LiveInv'
BY StageStep DEF FillDone, Goes, Stages, Filling


(***************************************************************************)
(* The next rule or branch: the branches so far are kept for the cut.      *)
(***************************************************************************)
LEMMA AlternativeStep ==
  ASSUME LiveInv, stage \in {"strand", "capacity"}, NextAlternative, stranded' \subseteq protected,
         \A b \in merged' : b \in merged \cup {child}, MergedInv',
         Ahead(sweep, here) = {} => \A b \in merged' : b.remaining = {}
  PROVE  LiveInv'
<1>1. /\ failed' = {}
      /\ UNCHANGED <<vars, sweep, turn, here, beam, seeking, from>>
      /\ \/ rule < Alternatives /\ rule' = rule + 1 /\ at' = at /\ child' = beam[at] /\ stage' = "fill"
         \/ /\ at < Len(beam)
            /\ rule' = 1 /\ at' = at + 1 /\ child' = beam[at + 1] /\ stage' = "fill"
         \/ stage' = "cut" /\ UNCHANGED <<rule, at, child>>
  BY DEF NextAlternative, search
<1>2. UNCHANGED <<req, protected>>
  BY <1>1 DEF vars
<1>3. here \in sweep.chunks /\ at \in DOMAIN beam
  BY DEF LiveInv, ChunkInv, Filling
<1>4. /\ Len(beam) \in 0 .. BeamWidth /\ DOMAIN beam = 1 .. Len(beam)
      /\ rule \in 1 .. Alternatives /\ at \in Nat \ {0}
  BY DEF LiveInv, ScalarInv
<1>5. Alternatives \in Nat /\ Alternatives >= 1 /\ BeamWidth \in Nat
  BY SweepAssumption DEF FillRules
<1>6. at' \in DOMAIN beam /\ rule' \in 1 .. Alternatives /\ at' \in Nat \ {0}
  BY <1>1, <1>3, <1>4, <1>5
<1>7. child' \in {child} \cup {beam[i] : i \in DOMAIN beam}
  BY <1>1, <1>3, <1>4
<1>8. ScalarInv'
  <2>1. stage' \in Stages \ {"idle"}
    BY <1>1 DEF Stages
  <2> QED BY <1>1, <1>2, <1>6, <2>1 DEF LiveInv, ScalarInv
<1>9. \A b \in Branches' : b \in Branches
  BY <1>1, <1>7 DEF Branches
<1>10. ChunkInv'
  BY <1>1, <1>3, <1>6 DEF ChunkInv, Filling, Ahead
<1>11. SeekInv'
  BY <1>1 DEF LiveInv, SeekInv
<1> QED BY <1>1, <1>8, <1>9, <1>10, <1>11, LiveStep

LEMMA StrandReasonTrue ==
  ASSUME NEW t
  PROVE  /\ StrandReason(child, t) \in SweepReasons
         /\ StrandReason(child, t) = "omitted_lower_value" =>
              LostInBranch(protected, child, Eligible(t, child.excluded))
BY DEF StrandReason, SweepReasons, LostInBranch

LEMMA StrandStep ==
  ASSUME TypeOK, LiveInv, NEW t \in Tasks, Strand(t)
  PROVE  LiveInv'
<1>1. stage = "strand" /\ t \in child.remaining
  BY DEF Strand, Stuck
<1>2. CASE t \notin protected
  <2> QED BY <1>1, <1>2, StrandReasonTrue, GiveUpStep DEF Strand
<1>3. CASE t \in protected
  <2>1. stranded' = stranded \cup {t} /\ NextAlternative /\ merged' = merged
    BY <1>3 DEF Strand
  <2>2. stranded' \subseteq protected
    BY <1>3, <2>1 DEF LiveInv, ScalarInv
  <2>3. MergedInv'
    BY <2>1 DEF LiveInv, MergedInv, SameCase
  <2>4. Ahead(sweep, here) = {} => \A b \in merged' : b.remaining = {}
    BY <1>1, <2>1 DEF LiveInv, ChunkInv, Filling
  <2> QED BY <1>1, <2>1, <2>2, <2>3, <2>4, AlternativeStep
<1> QED BY <1>2, <1>3

LEMMA StrandDoneStep ==
  ASSUME LiveInv, StrandDone
  PROVE  LiveInv'
<1>1. stage = "strand" /\ Stuck = {} /\ stage' = "capacity"
      /\ UNCHANGED <<vars, sweep, place, child, failed, search, merged, stranded>>
  BY DEF StrandDone, Goes
<1>2. Ahead(sweep, here) = {} => child.remaining = {}
  <2>1. ASSUME Ahead(sweep, here) = {}, NEW t \in child.remaining PROVE FALSE
    <3>1. After(here) = {}
      BY <2>1 DEF Ahead, After
    <3>2. t \in Stuck
      BY <2>1, <3>1 DEF Stuck, Forced
    <3> QED BY <1>1, <3>2
  <2> QED BY <2>1
<1> QED BY <1>1, <1>2, StageStep DEF Stages, Filling

LEMMA TrimStep ==
  ASSUME TypeOK, LiveInv, Trim
  PROVE  LiveInv'
<1> DEFINE optional == Due(FirstOf(Overfull)) \ protected
           t == LeastProtected(optional)
<1>1. stage = "capacity"
  BY DEF Trim
<1>2. CASE optional = {}
  <2>1. NextAlternative /\ merged' = merged /\ stranded' = stranded
    BY <1>2 DEF Trim
  <2>2. stranded' \subseteq protected /\ MergedInv'
    BY <2>1 DEF LiveInv, ScalarInv, MergedInv, SameCase
  <2>3. Ahead(sweep, here) = {} => \A b \in merged' : b.remaining = {}
    BY <1>1, <2>1 DEF LiveInv, ChunkInv, Filling
  <2> QED BY <1>1, <2>1, <2>2, <2>3, AlternativeStep
<1>3. CASE optional # {}
  <2>1. Sets(Exclude(child, t, StrandReason(child, t))) /\ stage' = stage
    BY <1>3 DEF Trim
  <2>2. optional \subseteq child.remaining /\ optional \cap protected = {}
    BY DEF Due
  <2>3. child.remaining \subseteq Tasks
    BY <1>1, ChildFine DEF BranchTyped
  <2>4. t \in optional
    <3> HIDE DEF optional
    <3> QED BY <1>3, <2>2, <2>3, ProtectedChoice
  <2>5. /\ StrandReason(child, t) \in SweepReasons
        /\ StrandReason(child, t) = "omitted_lower_value" =>
             LostInBranch(protected, child, Eligible(t, child.excluded))
    BY StrandReasonTrue
  <2> HIDE DEF optional, t
  <2>6. t \in child.remaining /\ t \notin protected
    BY <2>2, <2>4
  <2> QED BY <1>1, <2>1, <2>5, <2>6, GiveUpStep
<1> QED BY <1>2, <1>3

LEMMA MergeStep ==
  ASSUME LiveInv, Merge
  PROVE  LiveInv'
<1> DEFINE rivals == {m \in merged : SameCase(m, child)}
<1>1. /\ stage = "capacity" /\ NextAlternative /\ stranded' = stranded
      /\ merged' = (merged \ rivals) \cup {child} \/ merged' = merged
  BY DEF Merge
<1>2. IsFiniteSet(merged) /\ \A b, c \in merged : SameCase(b, c) => b = c
  BY DEF LiveInv, MergedInv
<1>3. IsFiniteSet((merged \ rivals) \cup {child})
  <2>1. IsFiniteSet(merged \ rivals)
    <3> HIDE DEF rivals
    <3> QED BY <1>2, FS_Subset
  <2> HIDE DEF rivals
  <2> QED BY <2>1, FS_AddElement
<1>4. ASSUME NEW b \in (merged \ rivals) \cup {child}, NEW c \in (merged \ rivals) \cup {child},
             SameCase(b, c)
      PROVE  b = c
  BY <1>2, <1>4 DEF SameCase
<1>5. IsFiniteSet(merged') /\ \A b, c \in merged' : SameCase(b, c) => b = c
  <2> HIDE DEF rivals
  <2> QED BY <1>1, <1>2, <1>3, <1>4
<1>6. MergedInv'
  BY <1>5 DEF MergedInv, SameCase
<1>7. \A b \in merged' : b \in merged \cup {child}
  BY <1>1
<1>8. Ahead(sweep, here) = {} => \A b \in merged' : b.remaining = {}
  BY <1>1, <1>7 DEF LiveInv, ChunkInv, Filling
<1>9. stranded' \subseteq protected
  BY <1>1 DEF LiveInv, ScalarInv
<1> QED BY <1>1, <1>6, <1>7, <1>8, <1>9, AlternativeStep

(***************************************************************************)
(* The end of a chunk: the beam is cut to its width, and is not empty.     *)
(***************************************************************************)
LEMMA MergedRankable ==
  ASSUME LiveInv, stage = "cut"
  PROVE  Rankable(merged)
<1>1. IsFiniteSet(merged) /\ \A b, c \in merged : SameCase(b, c) => b = c
  BY DEF LiveInv, MergedInv
<1>2. ASSUME NEW b \in merged
      PROVE  /\ IsSchedule(b.placed) /\ b.remaining \subseteq Units /\ b.excluded \subseteq Tasks
             /\ Units = b.remaining \cup b.excluded \cup DOMAIN b.placed
             /\ b.remaining \cap (b.excluded \cup DOMAIN b.placed) = {}
  <2>1. b \in Branches
    BY DEF Branches
  <2>2. BranchTyped(sweep, b) /\ BranchAccounts(req, sweep, protected, b)
    BY <2>1 DEF LiveInv, BranchInv, BranchFine
  <2> QED BY <2>2 DEF BranchTyped, BranchAccounts, Units
<1> QED BY <1>1, <1>2 DEF Rankable

LEMMA CutStep ==
  ASSUME TypeOK, LiveInv, Cut
  PROVE  LiveInv'
<1> DEFINE width == Sooner(BeamWidth, Cardinality(merged))
<1>1. /\ stage = "cut" /\ merged # {} /\ beam' = Ranked(merged) /\ at' = 1 /\ rule' = 1
      /\ merged' = {} /\ stranded' = {}
      /\ \/ After(here) = {} /\ stage' = "over" /\ UNCHANGED <<here, child>>
         \/ /\ After(here) # {}
            /\ stage' = "fill" /\ here' = FirstOf(After(here)) /\ child' = beam'[1]
      /\ UNCHANGED <<vars, sweep, turn, failed, seeking, from>>
  BY DEF Cut, search
<1>2. UNCHANGED <<req, protected>>
  BY <1>1 DEF vars
<1>3. SweepTyped
  BY DEF LiveInv, GroundInv, Grounded
<1>4. Cardinality(merged) \in Nat /\ beam' \in [1 .. width -> merged]
  BY <1>1, <1>3, MergedRankable, RankedFacts
<1>5. Cardinality(merged) # 0
  BY <1>1, FS_EmptySet DEF LiveInv, MergedInv
<1>6. width \in Nat /\ width >= 1 /\ width <= BeamWidth
  BY <1>4, <1>5, SweepAssumption DEF Sooner
<1> HIDE DEF width
<1>7. beam' \in Seq(merged) /\ Len(beam') = width
  <2>1. beam' \in Seq(merged)
    BY <1>4, <1>6 DEF Seq
  <2> QED BY <1>4, <1>6, <2>1
<1>8. DOMAIN beam' = 1 .. Len(beam') /\ 1 \in DOMAIN beam'
  BY <1>4, <1>6, <1>7
<1>9. \A i \in DOMAIN beam' : beam'[i] \in merged
  BY <1>4
<1>10. After(here) # {} => FirstOf(After(here)) \in sweep.chunks
  BY <1>3, FirstOfFacts DEF After, SweepTyped
<1>11. ScalarInv'
  <2>1. stage' \in Stages \ {"idle"} /\ here' \in sweep.chunks \cup {NoChunk}
    BY <1>1, <1>10 DEF Stages, LiveInv, ScalarInv
  <2>2. rule' \in 1 .. Alternatives
    BY <1>1, SweepAssumption DEF FillRules
  <2>3. Len(beam') \in 0 .. BeamWidth
    BY <1>6, <1>7, SweepAssumption
  <2> QED BY <1>1, <1>2, <1>8, <2>1, <2>2, <2>3 DEF LiveInv, ScalarInv
<1>12. \A b \in Branches' : b \in Branches
  BY <1>1, <1>8, <1>9 DEF Branches
<1>13. MergedInv'
  BY <1>1, FS_EmptySet DEF MergedInv
<1>14. After(here) = {} => \A b \in merged : b.remaining = {}
  BY <1>1 DEF LiveInv, ChunkInv, Filling, Ahead, After
<1>15. ChunkInv'
  <2>1. CASE After(here) = {} /\ stage' = "over"
    BY <1>1, <1>6, <1>7, <1>9, <1>14, <2>1 DEF ChunkInv, Filling
  <2>2. CASE After(here) # {} /\ stage' = "fill" /\ here' = FirstOf(After(here))
    BY <1>1, <1>8, <1>10, <2>2 DEF ChunkInv, Filling
  <2> QED BY <1>1, <2>1, <2>2
<1>16. SeekInv'
  BY <1>1 DEF LiveInv, SeekInv
<1> QED BY <1>1, <1>11, <1>12, <1>13, <1>15, <1>16, LiveStep

LEMMA FinishStep ==
  ASSUME LiveInv, Finish
  PROVE  LiveInv'
BY StageStep DEF Finish, Abandon, Goes, Stages, Filling

LEMMA CutEmptyStep ==
  ASSUME LiveInv, CutEmpty
  PROVE  LiveInv'
BY AbandonStep DEF CutEmpty


-----------------------------------------------------------------------------
(***************************************************************************)
(* The sweep begins on what affix_fixed returns: fixed steps of protected  *)
(* Tasks, chunks of the window, and a release for every other Task.        *)
(***************************************************************************)
LEMMA ChunksAreWindows ==
  ASSUME NEW window \in Window, NEW intervals, \A i \in intervals : i.start \in Time /\ i.end \in Time
  PROVE  Partition(window, intervals) \subseteq Window
<1> DEFINE busy == Clipped(window, intervals)
<1>1. window.start \in Time /\ window.end \in Time
  BY DEF Window
<1>2. ASSUME NEW b \in busy PROVE b.start \in Time /\ b.end \in Time
  <2>1. PICK i \in intervals :
          b = [start |-> Later(i.start, window.start), end |-> Sooner(i.end, window.end)]
    BY <1>2 DEF Clipped
  <2> QED BY <1>1, <2>1 DEF Later, Sooner
<1> HIDE DEF busy
<1>3. Gaps(window, busy) \subseteq Window
  BY <1>1, <1>2 DEF Gaps, Window
<1> QED BY <1>3 DEF Partition, busy

SkeletonInv ==
  TypeOK /\ NoDoubleBooking /\ ProtectionInv /\ WalkInv /\ CalendarInv /\ StepInv /\ SearchInv

LEMMA SkeletonInit == Init => SkeletonInv
<1> SUFFICES ASSUME Init PROVE SkeletonInv
  OBVIOUS
<1>1. TypeOK
  BY TypeInit
<1>2. NoDoubleBooking /\ ProtectionInv
  BY DEF Init, NoDoubleBooking, ProtectionInv, ProtectedKept, ClosedUnderDeps
<1>3. WalkInv
  BY DEF Init, WalkInv, Walking, ExclusionClosed, ClosedUnderDependents, DependencyOrder,
         NoInternalError, Empty
<1>4. CalendarInv
  BY DEF Init, CalendarInv, KeptAsIs, CalendarExact, PreservedVerdict, Walking, Empty
<1>5. StepInv
  BY DEF Init, StepInv, Walking, Empty
<1>6. SearchInv
  BY SearchNotBegun DEF Init, Empty
<1> QED BY <1>1, <1>2, <1>3, <1>4, <1>5, <1>6 DEF SkeletonInv

LEMMA SkeletonStep == SkeletonInv /\ [Next]_vars => SkeletonInv'
BY TypeStep, BookingStep, ProtectionStep, WalkStep, CalendarStep, StepStep, SearchStep DEF SkeletonInv

(* Once the fixed steps are in, what is protected no longer changes.       *)
LEMMA FixedStays ==
  ASSUME [Next]_vars, ~Fixing
  PROVE  UNCHANGED <<req, protected, preserved>> /\ ~Fixing'
<1>1. CASE UNCHANGED vars
  BY <1>1 DEF vars, Fixing
<1>2. CASE SkipExcluded \/ Emit
  BY <1>2 DEF SkipExcluded, Emit, Advance, Fail, Fixing
<1>3. ASSUME NEW t \in Tasks, TaskStep(t) PROVE UNCHANGED <<req, protected, preserved>> /\ ~Fixing'
  BY <1>3 DEF TaskStep, PushPreserved, KeepPreserved, KeepAffixed, StartPlacement, Bump, Place, Omit,
              RejectProtected, Scheduling, Schedule, Advance, Fail, Fixing
<1>4. ~Open /\ ~CollectPrior /\ ~CollectDone /\ ~PreserveDone /\ ~AffixSkip /\ ~AffixAnchor
      /\ ~AffixReject /\ ~AffixDone
  BY DEF Open, CollectPrior, CollectDone, PreserveDone, AffixSkip, AffixAnchor, AffixReject, AffixDone,
         Fixing
<1> QED BY <1>1, <1>2, <1>3, <1>4 DEF Next

LEMMA PrepareStep ==
  ASSUME SkeletonInv, SweepNotBegun, Prepare
  PROVE  LiveInv'
<1> DEFINE fixed == [t \in DOMAIN preserved \cup DOMAIN affixed |->
                       IF t \in DOMAIN preserved THEN preserved[t] ELSE affixed[t]]
<1>1. /\ phase = "schedule"
      /\ sweep' = [fixed |-> fixed, chunks |-> Partition(req.window, occupied), release |-> Releases(fixed)]
      /\ \/ stage' = "failed" /\ child' = child
         \/ stage' = "outside" /\ child' = Root'
      /\ UNCHANGED <<vars, turn, here, beam, at, rule, failed, seeking, from, merged, stranded>>
  BY DEF Prepare, place, search
<1>2. UNCHANGED <<req, phase, protected>>
  BY <1>1 DEF vars
<1>3. TypeOK /\ ProtectionInv /\ CalendarInv
  BY DEF SkeletonInv
<1>4. IsSchedule(fixed)
  BY <1>3 DEF TypeOK, IsSchedule
<1>5. DOMAIN fixed \subseteq protected
  BY <1>1, <1>3 DEF CalendarInv, Walking, FixedProtected
<1> HIDE DEF fixed
<1>6. /\ sweep'.fixed = fixed /\ sweep'.chunks = Partition(req.window, occupied)
      /\ sweep'.release = Releases(fixed)
  BY <1>1
<1>7. Partition(req.window, occupied) \subseteq Window
  <2>1. \A i \in occupied : i.start \in Time /\ i.end \in Time
    BY <1>3 DEF TypeOK
  <2> QED BY <1>3, <2>1, RequestFacts, ChunksAreWindows
<1>8. /\ Releases(fixed) \in [Tasks \ DOMAIN fixed -> Time]
      /\ \A t \in Tasks \ DOMAIN fixed : EffectiveWindow(req, t).start <= Releases(fixed)[t]
  BY <1>3, <1>4, ReleaseFacts
<1>9. GroundInv'
  <2>1. SweepTyped'
    BY <1>4, <1>6, <1>7, <1>8 DEF SweepTyped
  <2>2. ~Fixing'
    BY <1>1, <1>2 DEF Fixing
  <2>3. ClosedUnderDeps(req, protected)'
    BY <1>2, <1>3 DEF ProtectionInv, ClosedUnderDeps
  <2>4. \A t \in Units' : (EffectiveWindow(req, t).start <= sweep.release[t])'
    BY <1>2, <1>6, <1>8 DEF Units
  <2>5. (DOMAIN sweep.fixed \subseteq protected)'
    BY <1>2, <1>5, <1>6
  <2> QED BY <2>1, <2>2, <2>3, <2>4, <2>5 DEF GroundInv, Grounded
<1>10. ScalarInv'
  <2>1. 0 \in Time /\ 1 \in Nat \ {0} /\ 1 \in 1 .. Alternatives /\ 0 \in 0 .. BeamWidth
    BY TimeAssumption, SweepAssumption DEF Time, FillRules
  <2>2. Len(<<>>) = 0 /\ DOMAIN <<>> = 1 .. 0
    OBVIOUS
  <2>3. stage' \in Stages \ {"idle"}
    BY <1>1 DEF Stages
  <2> QED BY <1>1, <2>1, <2>2, <2>3 DEF ScalarInv, SweepNotBegun
<1>11. BranchInv'
  <2>1. ASSUME NEW b \in Branches' PROVE b = child'
    BY <1>1, <2>1 DEF Branches, SweepNotBegun
  <2>2. CASE stage' = "failed" /\ child' = child
    <3>1. child' = Record({}, Empty, {}, Empty, Empty)
      BY <2>2 DEF SweepNotBegun, NoBranch
    <3>2. /\ child'.remaining = {} /\ child'.excluded = {}
          /\ child'.omitted = <<>> /\ child'.offered = <<>> /\ child'.placed = <<>>
          /\ child' = [remaining |-> child'.remaining, omitted |-> child'.omitted,
                       excluded |-> child'.excluded, offered |-> child'.offered,
                       placed |-> child'.placed]
      BY <3>1 DEF Record, Empty
    <3>3. DOMAIN <<>> = {}
      OBVIOUS
    <3>4. BranchTyped(sweep', child')
      BY <3>2, <3>3 DEF BranchTyped, IsSchedule
    <3> QED BY <2>1, <2>2, <3>4 DEF BranchInv
  <2>3. CASE stage' = "outside" /\ child' = Root'
    <3>1. child' = Record(Tasks \ DOMAIN sweep'.fixed, Empty, {}, Empty, Empty)
      BY <2>3 DEF Root, Units, Record
    <3>2. BranchFine(req', sweep', protected', child')
      BY <3>1, RootFine
    <3> QED BY <2>1, <3>2 DEF BranchInv, BranchFine
  <2> QED BY <1>1, <2>2, <2>3
<1>12. MergedInv'
  BY <1>1, FS_EmptySet DEF MergedInv, SweepNotBegun
<1>13. ChunkInv'
  BY <1>1 DEF ChunkInv, Filling, SweepNotBegun
<1>14. SeekInv'
  BY <1>1 DEF SeekInv, SweepNotBegun
<1> QED BY <1>9, <1>10, <1>11, <1>12, <1>13, <1>14 DEF LiveInv

-----------------------------------------------------------------------------
(***************************************************************************)
(* The generators as a whole.                                              *)
(***************************************************************************)
GeneratorInv == SkeletonInv /\ SweepInv

LEMMA SweepStepLive ==
  ASSUME TypeOK, LiveInv, SweepStep, ~Prepare
  PROVE  LiveInv'
<1>1. CASE PassOutside
  BY <1>1, PassStep
<1>2. CASE OutsideDone
  BY <1>2, OutsideDoneStep
<1>3. CASE EvictDone
  BY <1>3, EvictDoneStep
<1>4. CASE FillDone
  BY <1>4, FillDoneStep
<1>5. CASE StrandDone
  BY <1>5, StrandDoneStep
<1>6. CASE Trim
  BY <1>6, TrimStep
<1>7. CASE Merge
  BY <1>7, MergeStep
<1>8. CASE Cut
  BY <1>8, CutStep
<1>9. CASE CutEmpty
  BY <1>9, CutEmptyStep
<1>10. CASE Finish
  BY <1>10, FinishStep
<1>11. ASSUME NEW t \in Tasks, SweepTask(t) PROVE LiveInv'
  BY <1>11, EvictStep, ChooseStep, SkipStep, PlaceUnitStep, NoSlotStep, StrandStep DEF SweepTask
<1> QED BY <1>1, <1>2, <1>3, <1>4, <1>5, <1>6, <1>7, <1>8, <1>9, <1>10, <1>11 DEF SweepStep

(* A sweep that has not begun does nothing but begin.                      *)
LEMMA IdleStep ==
  ASSUME stage = "idle", SweepStep
  PROVE  Prepare
BY DEF SweepStep, PassOutside, OutsideDone, EvictDone, FillDone, StrandDone, Trim, Merge, Cut, CutEmpty,
       Finish, SweepTask, Evict, Choose, Skip, PlaceUnit, NoSlotLeft, Strand

LEMMA SweepRunning ==
  ASSUME SkeletonInv, SweepInv, SweepStep
  PROVE  UNCHANGED vars /\ SweepInv'
<1>1. UNCHANGED vars
  BY DEF SweepStep, Prepare, PassOutside, OutsideDone, EvictDone, FillDone, StrandDone, Trim, Merge, Cut,
         CutEmpty, Finish, SweepTask, Evict, Choose, Skip, PlaceUnit, NoSlotLeft, Strand, Abandon, Sets,
         Goes, NextAlternative
<1>2. CASE Prepare
  <2>1. stage = "idle" /\ stage' # "idle"
    BY <1>2 DEF Prepare
  <2>2. LiveInv'
    BY <1>2, <2>1, PrepareStep DEF SweepInv
  <2> QED BY <1>1, <2>1, <2>2 DEF SweepInv
<1>3. CASE ~Prepare
  <2>1. stage # "idle"
    BY <1>3, IdleStep
  <2>2. LiveInv'
    BY <1>3, <2>1, SweepStepLive DEF SweepInv, SkeletonInv
  <2>3. stage' # "idle"
    BY <2>2 DEF LiveInv, ScalarInv
  <2> QED BY <1>1, <2>2, <2>3 DEF SweepInv
<1> QED BY <1>2, <1>3

LEMMA GeneratorInit == CandidateInit => GeneratorInv
<1> SUFFICES ASSUME CandidateInit PROVE GeneratorInv
  OBVIOUS
<1>1. SkeletonInv
  BY SkeletonInit DEF CandidateInit, SweepInit
<1>2. SweepInv
  BY DEF CandidateInit, SweepInit, SweepInv, SweepNotBegun, NoBranch, Record
<1> QED BY <1>1, <1>2 DEF GeneratorInv

LEMMA GeneratorStep == GeneratorInv /\ [CandidateNext]_allVars => GeneratorInv'
<1> SUFFICES ASSUME GeneratorInv, [CandidateNext]_allVars PROVE GeneratorInv'
  OBVIOUS
<1>1. SkeletonInv /\ SweepInv
  BY DEF GeneratorInv
<1>2. ASSUME UNCHANGED <<vars, sweepVars>> PROVE GeneratorInv'
  <2>1. SkeletonInv'
    BY <1>1, <1>2, SkeletonStep
  <2>2. SweepInv'
    <3>1. UNCHANGED <<req, phase, protected, sweepVars>>
      BY <1>2 DEF vars
    <3>2. UNCHANGED <<stage, sweep, turn, here, beam, at, rule, child, failed, seeking, from, merged,
                      stranded>>
      BY <1>2 DEF sweepVars, place, search
    <3>3. CASE stage = "idle"
      BY <1>1, <3>2, <3>3 DEF SweepInv, SweepNotBegun
    <3>4. CASE stage # "idle"
      BY <1>1, <3>1, <3>2, <3>4, LiveSame DEF SweepInv
    <3> QED BY <3>3, <3>4
  <2> QED BY <2>1, <2>2 DEF GeneratorInv
<1>3. CASE GreedyStep
  <2>1. Next /\ UNCHANGED sweepVars /\ stage \in {"idle", "done", "failed"}
    BY <1>3 DEF GreedyStep
  <2>2. SkeletonInv'
    BY <1>1, <2>1, SkeletonStep
  <2>3. UNCHANGED <<stage, sweep, turn, here, beam, at, rule, child, failed, seeking, from, merged,
                    stranded>>
    BY <2>1 DEF sweepVars, place, search
  <2>4. CASE stage = "idle"
    <3>1. SweepInv'
      BY <1>1, <2>3, <2>4 DEF SweepInv, SweepNotBegun
    <3> QED BY <2>2, <3>1 DEF GeneratorInv
  <2>5. CASE stage # "idle"
    <3>1. LiveInv /\ ~Fixing
      BY <1>1, <2>5 DEF SweepInv, LiveInv, GroundInv
    <3>2. UNCHANGED <<req, protected>> /\ ~Fixing'
      BY <2>1, <3>1, FixedStays
    <3>3. LiveInv'
      BY <2>1, <3>1, <3>2, LiveStays
    <3> QED BY <2>2, <2>3, <2>5, <3>3 DEF GeneratorInv, SweepInv
  <2> QED BY <2>4, <2>5
<1>4. CASE SweepRuns
  <2>1. SweepStep
    BY <1>4 DEF SweepRuns
  <2>2. UNCHANGED vars /\ SweepInv'
    BY <1>1, <2>1, SweepRunning
  <2>3. SkeletonInv'
    BY <1>1, <2>2, SkeletonStep
  <2> QED BY <2>2, <2>3 DEF GeneratorInv
<1>5. CASE Reject \/ OfferGreedy \/ OfferSweep \/ AddDelay \/ Answer
  <2>1. UNCHANGED <<vars, sweepVars>>
    BY <1>5 DEF Reject, OfferGreedy, OfferSweep, Offer, AddDelay, Answer
  <2> QED BY <1>2, <2>1
<1>6. CASE UNCHANGED allVars
  <2>1. UNCHANGED <<vars, sweepVars>>
    BY <1>6 DEF allVars
  <2> QED BY <1>2, <2>1
<1> QED BY <1>3, <1>4, <1>5, <1>6 DEF CandidateNext

LEMMA GeneratorInvariant == CandidateSpec => []GeneratorInv
BY GeneratorInit, GeneratorStep, PTL DEF CandidateSpec

LEMMA LiveMeansTyped ==
  ASSUME LiveInv
  PROVE  SweepTypeOK
<1>1. /\ IsSchedule(sweep.fixed) /\ sweep.chunks \subseteq Window
      /\ sweep.release \in [Tasks \ DOMAIN sweep.fixed -> Time]
  BY DEF LiveInv, GroundInv, Grounded, SweepTyped
<1>2. /\ stage \in Stages /\ turn \in Nat \ {0} /\ here \in sweep.chunks \cup {NoChunk}
      /\ Len(beam) <= BeamWidth /\ at \in Nat \ {0} /\ rule \in 1 .. Alternatives
      /\ failed \subseteq Tasks /\ from \in Time /\ stranded \subseteq protected
  BY DEF LiveInv, ScalarInv
<1>3. ASSUME NEW b \in Branches
      PROVE  IsBranch(b) /\ b.remaining \cup b.excluded \cup DOMAIN b.placed \subseteq Units
  <2>1. BranchTyped(sweep, b)
    BY <1>3 DEF LiveInv, BranchInv
  <2> QED BY <2>1 DEF BranchTyped, IsBranch, Units
<1>4. seeking \subseteq Units
  <2>1. CASE stage = "seek"
    <3>1. PICK t \in Tasks : seeking = {t} /\ t \in child.remaining
      BY <2>1 DEF LiveInv, SeekInv, Seeking
    <3>2. child \in Branches
      BY DEF Branches
    <3> QED BY <1>3, <3>1, <3>2
  <2>2. CASE stage # "seek"
    BY <2>2 DEF LiveInv, SeekInv
  <2> QED BY <2>1, <2>2
<1> QED BY <1>1, <1>2, <1>3, <1>4 DEF SweepTypeOK

LEMMA IdleMeansTyped ==
  ASSUME stage = "idle", SweepNotBegun
  PROVE  SweepTypeOK
<1>1. DOMAIN <<>> = {} /\ Len(<<>>) = 0
  OBVIOUS
<1>2. child = NoBranch /\ Branches = {child}
  BY <1>1 DEF SweepNotBegun, Branches
<1>3. /\ child.remaining = {} /\ child.excluded = {} /\ child.omitted = <<>> /\ child.offered = <<>>
      /\ child.placed = <<>>
  BY <1>2 DEF NoBranch, Record, Empty
<1>4. IsBranch(child) /\ child.remaining \cup child.excluded \cup DOMAIN child.placed \subseteq Units
  BY <1>1, <1>3 DEF IsBranch, IsSchedule
<1>5. sweep.fixed = <<>> /\ sweep.chunks = {}
  BY DEF SweepNotBegun, Empty
<1>6. 0 \in Time /\ 1 \in 1 .. Alternatives /\ 0 <= BeamWidth
  BY TimeAssumption, SweepAssumption DEF Time, FillRules
<1>7. stage \in Stages
  BY DEF Stages
<1> QED BY <1>1, <1>2, <1>4, <1>5, <1>6, <1>7 DEF SweepTypeOK, SweepNotBegun, IsSchedule

(***************************************************************************)
(* Every variable of the sweep keeps its type: no search runs past the end *)
(* of time, the beam never grows past its width, and only movable Tasks    *)
(* are placed, given up or left, so the map of units is never asked for a  *)
(* fixed one (chunked.rs: fill, select_beam, exclude_with_dependents).     *)
(***************************************************************************)
THEOREM SweepTypes == CandidateSpec => []SweepTypeOK
<1>1. GeneratorInv => SweepTypeOK
  BY LiveMeansTyped, IdleMeansTyped DEF GeneratorInv, SweepInv
<1> QED BY <1>1, GeneratorInvariant, PTL

LEMMA LiveAccounts ==
  ASSUME LiveInv
  PROVE  BranchesAccount
<1> SUFFICES ASSUME Sweeping, NEW b \in Branches
             PROVE  /\ Units = b.remaining \cup b.excluded \cup DOMAIN b.placed
                    /\ b.remaining \cap (b.excluded \cup DOMAIN b.placed) = {}
                    /\ b.excluded \cap DOMAIN b.placed = {}
                    /\ b.excluded \cap protected = {}
                    /\ ClosedUnderDependents(req, b.excluded)
                    /\ stage \in {"over", "done"} /\ b # child => b.remaining = {}
  BY DEF BranchesAccount
<1>1. BranchAccounts(req, sweep, protected, b)
  BY DEF LiveInv, BranchInv, BranchFine, Sweeping
<1>2. stage \in {"over", "done"} /\ b # child => b.remaining = {}
  BY DEF LiveInv, ChunkInv, Branches
<1> QED BY <1>1, <1>2 DEF BranchAccounts, Units

LEMMA LiveSound ==
  ASSUME LiveInv
  PROVE  BranchesSound
<1>1. ASSUME Sweeping, NEW b \in Branches, NEW t \in DOMAIN b.placed
      PROVE  SoundAt(req, sweep, b, t, b.placed[t])
  BY <1>1 DEF LiveInv, BranchInv, BranchFine, BranchSound, Sweeping
<1> QED BY <1>1 DEF BranchesSound, SoundAt, BranchEnd, EndOf, DepsPlaced

(***************************************************************************)
(* In every branch, at every moment of the sweep, each movable Task is     *)
(* placed, given up or still to come, what is given up is unprotected and  *)
(* goes with all that waits for it, placed steps lie in free chunks of     *)
(* their windows, apart, after their prerequisites and before the fixed    *)
(* steps that name them, and the search for a slot skips none: whatever    *)
(* the Tasks, rules, width of the beam and values (sweep_plans and fill).  *)
(***************************************************************************)
THEOREM BranchesAreSound == CandidateSpec => []BranchesHold
<1>1. LiveInv => FirstSlot
  BY DEF LiveInv, SeekInv, Seeking, FirstSlot
<1>2. stage = "idle" /\ SweepNotBegun => BranchesHold
  BY DEF SweepNotBegun, BranchesHold, BranchesAccount, BranchesSound, FirstSlot, Sweeping
<1>3. GeneratorInv => BranchesHold
  BY <1>1, <1>2, LiveAccounts, LiveSound DEF GeneratorInv, SweepInv, BranchesHold
<1> QED BY <1>3, GeneratorInvariant, PTL

-----------------------------------------------------------------------------
(***************************************************************************)
(* Delays.  A shift is positive and no longer than the longest.            *)
(***************************************************************************)
LEMMA ShiftBounds ==
  ASSUME NEW longest \in Nat, NEW shift \in Shifts(longest)
  PROVE  shift \in Nat /\ shift <= longest /\ 1 <= longest
<1> DEFINE count == Sooner(longest, 15)
<1>1. count \in 0 .. 15 /\ count <= longest
  BY DEF Sooner
<1>2. PICK k \in 1 .. count : shift = (k * longest) \div count
  BY DEF Shifts
<1> HIDE DEF count
<1>3. k \in Nat /\ 1 <= k /\ k <= count /\ count \in 1 .. 15 /\ 1 <= longest
  BY <1>1, <1>2
<1>4. k * longest \in Nat /\ k * longest <= count * longest
  <2>1. count - k \in Nat
    BY <1>3
  <2>2. (count - k) * longest \in Nat
    BY <2>1
  <2>3. count * longest = k * longest + (count - k) * longest
    BY <1>3
  <2> QED BY <1>3, <2>2, <2>3
<1>5. (count * longest) \div count = longest
  BY <1>3
<1>6. (k * longest) \div count \in Nat /\ (k * longest) \div count <= longest
  <2> DEFINE x == k * longest
  <2>1. x \in Nat /\ x <= count * longest
    BY <1>4
  <2> HIDE DEF x
  <2>2. x \div count \in Nat /\ x \div count <= longest
    BY <1>3, <2>1
  <2> QED BY <2>2 DEF x
<1> QED BY <1>2, <1>3, <1>6


(***************************************************************************)
(* Chunks.  A chunk lies in the window and outside every interval that     *)
(* takes time, and at each of its ends stands an interval or the window's  *)
(* own end; so a step in the window that keeps clear of the intervals lies *)
(* in the chunk or outside it.                                             *)
(***************************************************************************)
Intervals(I) == \A i \in I : i.start \in Time /\ i.end \in Time

LEMMA ChunkBounds ==
  ASSUME NEW window \in Window, NEW I, Intervals(I), NEW c \in Partition(window, I)
  PROVE  /\ c.start \in Time /\ c.end \in Time /\ c.start < c.end
         /\ window.start <= c.start /\ c.end <= window.end
         /\ \A i \in I : i.start < i.end => c.end <= i.start \/ i.end <= c.start
         /\ c.start = window.start \/ \E i \in I : i.start < i.end /\ i.end = c.start
         /\ c.end = window.end \/ \E i \in I : i.start < i.end /\ i.start = c.end
<1> DEFINE clip(i) == [start |-> Later(i.start, window.start), end |-> Sooner(i.end, window.end)]
           busy == Clipped(window, I)
<1>1. window.start \in Int /\ window.end \in Int /\ window.start \in Time /\ window.end \in Time
  BY TimeAssumption DEF Window, Time
<1>2. ASSUME NEW i \in I
      PROVE  i.start \in Int /\ i.end \in Int /\ i.start \in Time /\ i.end \in Time
  BY <1>2, TimeAssumption DEF Intervals, Time
<1>3. busy = {b \in {clip(i) : i \in I} : b.start < b.end}
  BY DEF Clipped
<1>4. \A i \in I : clip(i).start = Later(i.start, window.start) /\ clip(i).end = Sooner(i.end, window.end)
  OBVIOUS
<1>5. ASSUME NEW b \in busy
      PROVE  \E i \in I : /\ b.start = Later(i.start, window.start) /\ b.end = Sooner(i.end, window.end)
                          /\ b.start < b.end
  BY <1>3, <1>5
<1>6. ASSUME NEW i \in I, Later(i.start, window.start) < Sooner(i.end, window.end)
      PROVE  \E b \in busy : b.start = Later(i.start, window.start) /\ b.end = Sooner(i.end, window.end)
  BY <1>3, <1>4, <1>6
<1>7. /\ c.start = window.start \/ \E b \in busy : c.start = b.end
      /\ c.end = window.end \/ \E b \in busy : c.end = b.start
      /\ c.start < c.end /\ \A b \in busy : ~Overlaps(c.start, c.end, b)
  BY DEF Partition, Gaps
<1> HIDE DEF busy, clip
<1>8. ASSUME NEW b \in busy
      PROVE  /\ b.start \in Time /\ b.end \in Time /\ b.start < b.end
             /\ window.start <= b.start /\ b.end <= window.end
  <2>1. PICK i \in I : /\ b.start = Later(i.start, window.start) /\ b.end = Sooner(i.end, window.end)
                       /\ b.start < b.end
    BY <1>5, <1>8
  <2> QED BY <1>1, <1>2, <2>1 DEF Later, Sooner
<1>9. c.start \in Time /\ c.end \in Time
  BY <1>1, <1>7, <1>8
<1>10. c.start \in Int /\ c.end \in Int
  BY <1>9, TimeAssumption DEF Time
<1>11. window.start <= c.start /\ c.end <= window.end
  <2>1. window.start <= c.start
    <3>1. CASE c.start = window.start
      BY <1>1, <3>1
    <3>2. ASSUME NEW b \in busy, c.start = b.end PROVE window.start <= c.start
      BY <1>1, <1>8, <3>2, TimeAssumption DEF Time
    <3> QED BY <1>7, <3>1, <3>2
  <2>2. c.end <= window.end
    <3>1. CASE c.end = window.end
      BY <1>1, <3>1
    <3>2. ASSUME NEW b \in busy, c.end = b.start PROVE c.end <= window.end
      BY <1>1, <1>8, <3>2, TimeAssumption DEF Time
    <3> QED BY <1>7, <3>1, <3>2
  <2> QED BY <2>1, <2>2
<1>12. ASSUME NEW i \in I, i.start < i.end PROVE c.end <= i.start \/ i.end <= c.start
  <2>1. CASE Later(i.start, window.start) < Sooner(i.end, window.end)
    <3>1. PICK b \in busy : b.start = Later(i.start, window.start) /\ b.end = Sooner(i.end, window.end)
      BY <1>6, <2>1
    <3>2. ~(c.start < b.end /\ c.end > b.start)
      BY <1>7 DEF Overlaps
    <3> QED BY <1>1, <1>2, <1>7, <1>10, <1>11, <3>1, <3>2 DEF Later, Sooner
  <2>2. CASE ~(Later(i.start, window.start) < Sooner(i.end, window.end))
    BY <1>1, <1>2, <1>7, <1>10, <1>11, <1>12, <2>2 DEF Later, Sooner
  <2> QED BY <2>1, <2>2
<1>13. ASSUME NEW b \in busy, c.start = b.end PROVE \E i \in I : i.start < i.end /\ i.end = c.start
  <2>1. PICK i \in I : /\ b.start = Later(i.start, window.start) /\ b.end = Sooner(i.end, window.end)
                       /\ b.start < b.end
    BY <1>5, <1>13
  <2>2. i.start < i.end /\ i.end = c.start
    BY <1>1, <1>2, <1>7, <1>10, <1>11, <1>13, <2>1 DEF Later, Sooner
  <2> QED BY <2>2
<1>14. ASSUME NEW b \in busy, c.end = b.start PROVE \E i \in I : i.start < i.end /\ i.start = c.end
  <2>1. PICK i \in I : /\ b.start = Later(i.start, window.start) /\ b.end = Sooner(i.end, window.end)
                       /\ b.start < b.end
    BY <1>5, <1>14
  <2>2. i.start < i.end /\ i.start = c.end
    BY <1>1, <1>2, <1>7, <1>10, <1>11, <1>14, <2>1 DEF Later, Sooner
  <2> QED BY <2>2
<1> QED BY <1>7, <1>9, <1>11, <1>12, <1>13, <1>14

LEMMA InOrOutOfChunk ==
  ASSUME NEW window \in Window, NEW I, Intervals(I), NEW c \in Partition(window, I),
         NEW start \in Int, NEW end \in Int, start < end, window.start <= start, end <= window.end,
         \A i \in I : i.start < i.end => end <= i.start \/ i.end <= start
  PROVE  end <= c.start \/ c.end <= start \/ (c.start <= start /\ end <= c.end)
<1>1. /\ c.start \in Int /\ c.end \in Int /\ c.start < c.end
      /\ window.start \in Int /\ window.end \in Int
      /\ \A i \in I : i.start \in Int /\ i.end \in Int
  <2>1. c.start \in Time /\ c.end \in Time /\ c.start < c.end
    BY ChunkBounds
  <2> QED BY <2>1, TimeAssumption DEF Window, Intervals, Time
<1>2. c.start = window.start \/ \E i \in I : i.start < i.end /\ i.end = c.start
  BY ChunkBounds
<1>3. c.end = window.end \/ \E i \in I : i.start < i.end /\ i.start = c.end
  BY ChunkBounds
<1>4. CASE start < c.start
  <2>1. PICK i \in I : i.start < i.end /\ i.end = c.start
    BY <1>1, <1>2, <1>4
  <2> QED BY <1>1, <1>4, <2>1
<1>5. CASE c.end < end
  <2>1. PICK i \in I : i.start < i.end /\ i.start = c.end
    BY <1>1, <1>3, <1>5
  <2> QED BY <1>1, <1>5, <2>1
<1> QED BY <1>1, <1>4, <1>5


(***************************************************************************)
(* A delay moves a set of movable steps as one.  If each keeps clear of    *)
(* the steps that stay and ends in its window, the result is as fine as    *)
(* the Plan it is made of.                                                 *)
(***************************************************************************)
LEMMA StepUpdate ==
  ASSUME NEW s \in Step, NEW x, NEW y
  PROVE  [s EXCEPT !.start = x, !.end = y]
           = [task |-> s.task, start |-> x, end |-> y, deps |-> s.deps, static |-> s.static]
<1> DEFINE R(b, c) == [task |-> s.task, start |-> b, end |-> c, deps |-> s.deps, static |-> s.static]
<1>1. s = R(s.start, s.end)
  BY DEF Step
<1>2. ASSUME NEW b, NEW c PROVE [R(b, c) EXCEPT !.start = x] = R(x, c)
  OBVIOUS
<1>3. ASSUME NEW b, NEW c PROVE [R(b, c) EXCEPT !.end = y] = R(b, y)
  OBVIOUS
<1> HIDE DEF R
<1>4. [s EXCEPT !.start = x] = R(x, s.end)
  BY <1>1, <1>2
<1>5. [[s EXCEPT !.start = x] EXCEPT !.end = y] = R(x, y)
  BY <1>3, <1>4
<1> QED BY <1>5 DEF R

LEMMA DelayedFields ==
  ASSUME IsSchedule(lead), NEW tasks \in SUBSET DOMAIN lead, NEW shift \in Nat
  PROVE  /\ DOMAIN Delayed(tasks, shift) = DOMAIN lead
         /\ \A t \in DOMAIN lead : t \notin tasks => Delayed(tasks, shift)[t] = lead[t]
         /\ \A t \in tasks :
              LET step == Delayed(tasks, shift)[t] IN
              /\ step.task = lead[t].task /\ step.deps = lead[t].deps /\ step.static = lead[t].static
              /\ step.start = lead[t].start + shift /\ step.end = lead[t].end + shift
              /\ step = [task |-> lead[t].task, start |-> lead[t].start + shift,
                         end |-> lead[t].end + shift, deps |-> lead[t].deps, static |-> lead[t].static]
         /\ \A t \in DOMAIN lead : t \in Tasks /\ lead[t].start \in Int /\ lead[t].end \in Int
<1> DEFINE p == Delayed(tasks, shift)
<1>1. /\ DOMAIN p = DOMAIN lead
      /\ \A t \in DOMAIN lead : t \notin tasks => p[t] = lead[t]
      /\ \A t \in tasks :
           p[t] = [lead[t] EXCEPT !.start = lead[t].start + shift, !.end = lead[t].end + shift]
  BY DEF Delayed
<1> HIDE DEF p
<1>2. ASSUME NEW t \in DOMAIN lead
      PROVE  t \in Tasks /\ lead[t] \in Step /\ lead[t].start \in Int /\ lead[t].end \in Int
  <2>1. t \in Tasks /\ lead[t] \in Step
    BY <1>2 DEF IsSchedule
  <2> QED BY <2>1, TimeAssumption DEF Step, Time
<1>3. ASSUME NEW t \in tasks
      PROVE  /\ p[t].task = lead[t].task /\ p[t].deps = lead[t].deps /\ p[t].static = lead[t].static
             /\ p[t].start = lead[t].start + shift /\ p[t].end = lead[t].end + shift
             /\ p[t] = [task |-> lead[t].task, start |-> lead[t].start + shift,
                        end |-> lead[t].end + shift, deps |-> lead[t].deps, static |-> lead[t].static]
  <2>1. lead[t] \in Step
    BY <1>2
  <2> DEFINE s == lead[t]
             x == lead[t].start + shift
             y == lead[t].end + shift
  <2>2. p[t] = [s EXCEPT !.start = x, !.end = y]
    BY <1>1
  <2> HIDE DEF x, y, s
  <2>3. [s EXCEPT !.start = x, !.end = y]
          = [task |-> s.task, start |-> x, end |-> y, deps |-> s.deps, static |-> s.static]
    BY <2>1, StepUpdate DEF s
  <2>4. p[t] = [task |-> s.task, start |-> x, end |-> y, deps |-> s.deps, static |-> s.static]
    BY <2>2, <2>3
  <2> QED BY <2>4 DEF x, y, s
<1> QED BY <1>1, <1>2, <1>3 DEF p

LEMMA DelayRequested ==
  ASSUME TypeOK, IsSchedule(lead), NEW t \in DOMAIN lead, AsRequested(t, lead[t]), ~lead[t].static,
         NEW shift \in Nat, lead[t].end + shift <= EffectiveWindow(req, t).end,
         NEW step,
         step = [task |-> lead[t].task, start |-> lead[t].start + shift,
                 end |-> lead[t].end + shift, deps |-> lead[t].deps, static |-> lead[t].static]
  PROVE  step \in Step /\ AsRequested(t, step)
<1> DEFINE s == lead[t].start
<1>1. t \in Tasks /\ lead[t] \in Step
  BY DEF IsSchedule
<1>2. s \in Nat /\ lead[t].end \in Nat
  BY <1>1, TimeAssumption DEF Step, Time
<1>3. EffectiveWindow(req, t) \in Window
  BY <1>1, RequestFacts, EffectiveWindowType
<1>4. EffectiveWindow(req, t).start \in Int /\ EffectiveWindow(req, t).end \in Int
      /\ EffectiveWindow(req, t).end <= MaxTime
  BY <1>3, TimeAssumption DEF Window, Time
<1>5. lead[t] = PlanStep(req, t, s) /\ EffectiveWindow(req, t).start <= s
  BY DEF AsRequested
<1>6. /\ lead[t].task = t /\ lead[t].deps = req.deps[t] /\ lead[t].static = (t \in DOMAIN req.anchor)
      /\ lead[t].end = s + req.duration[t]
  BY <1>5 DEF PlanStep
<1>7. t \notin DOMAIN req.anchor
  BY <1>6
<1>8. req.duration[t] \in Nat
  BY <1>1, RequestFacts
<1> HIDE DEF s
<1>9. (s + req.duration[t]) + shift = (s + shift) + req.duration[t]
  BY <1>2, <1>8
<1>10. step = PlanStep(req, t, s + shift)
  BY <1>6, <1>9 DEF PlanStep, s
<1>11. step.start = s + shift /\ step.end = lead[t].end + shift
  BY DEF s
<1>12. step \in Step
  <2>1. lead[t].task \in Ids /\ lead[t].deps \in SUBSET Ids /\ lead[t].static \in BOOLEAN
    BY <1>1 DEF Step
  <2>2. s + shift \in Time /\ lead[t].end + shift \in Time
    BY <1>2, <1>4, <1>6, <1>8, TimeAssumption DEF Time
  <2>3. step = [task |-> lead[t].task, start |-> s + shift,
                end |-> lead[t].end + shift, deps |-> lead[t].deps, static |-> lead[t].static]
    BY DEF s
  <2> QED BY <2>1, <2>2, <2>3 DEF Step
<1>13. AsRequested(t, step)
  BY <1>2, <1>4, <1>5, <1>7, <1>10, <1>11 DEF AsRequested
<1> QED BY <1>12, <1>13

LEMMA DelayFine ==
  ASSUME TypeOK, NEW u, PlanFine(lead, u), IsSchedule(lead),
         NEW tasks \in SUBSET DOMAIN lead, NEW shift \in Nat,
         \A t \in tasks : \A w \in DOMAIN lead \ tasks :
           lead[t].end + shift <= lead[w].start \/ lead[w].end <= lead[t].start,
         \A t \in tasks : ~lead[t].static /\ lead[t].end + shift <= EffectiveWindow(req, t).end
  PROVE  PlanFine(Delayed(tasks, shift), u)
<1> DEFINE p == Delayed(tasks, shift)
<1>1. /\ DOMAIN p = DOMAIN lead
      /\ \A t \in DOMAIN lead : t \notin tasks => p[t] = lead[t]
      /\ \A t \in tasks :
           /\ p[t].start = lead[t].start + shift /\ p[t].end = lead[t].end + shift
           /\ p[t] = [task |-> lead[t].task, start |-> lead[t].start + shift,
                      end |-> lead[t].end + shift, deps |-> lead[t].deps, static |-> lead[t].static]
      /\ \A t \in DOMAIN lead : t \in Tasks /\ lead[t].start \in Int /\ lead[t].end \in Int
  BY DelayedFields
<1> HIDE DEF p
<1>2. Apart(p)
  <2> SUFFICES ASSUME NEW t \in DOMAIN lead, NEW w \in DOMAIN lead, t # w
               PROVE  ~(p[t].start < p[w].end /\ p[t].end > p[w].start)
    BY <1>1 DEF Apart, Overlaps
  <2>1. ~(lead[t].start < lead[w].end /\ lead[t].end > lead[w].start)
    BY DEF PlanFine, Apart, Overlaps
  <2>2. /\ lead[t].start \in Int /\ lead[t].end \in Int
        /\ lead[w].start \in Int /\ lead[w].end \in Int
    BY <1>1
  <2>3. CASE t \in tasks /\ w \in tasks
    <3>1. /\ p[t].start = lead[t].start + shift /\ p[t].end = lead[t].end + shift
          /\ p[w].start = lead[w].start + shift /\ p[w].end = lead[w].end + shift
      BY <1>1, <2>3
    <3> QED BY <2>1, <2>2, <3>1
  <2>4. CASE t \in tasks /\ w \notin tasks
    <3>1. /\ p[t].start = lead[t].start + shift /\ p[t].end = lead[t].end + shift /\ p[w] = lead[w]
          /\ lead[t].end + shift <= lead[w].start \/ lead[w].end <= lead[t].start
      BY <1>1, <2>4
    <3> QED BY <2>2, <3>1
  <2>5. CASE t \notin tasks /\ w \in tasks
    <3>1. /\ p[w].start = lead[w].start + shift /\ p[w].end = lead[w].end + shift /\ p[t] = lead[t]
          /\ lead[w].end + shift <= lead[t].start \/ lead[t].end <= lead[w].start
      BY <1>1, <2>5
    <3> QED BY <2>2, <3>1
  <2>6. CASE t \notin tasks /\ w \notin tasks
    BY <1>1, <2>1, <2>6
  <2> QED BY <2>3, <2>4, <2>5, <2>6
<1>3. ASSUME req.mode = "fresh", NEW t \in DOMAIN p PROVE RequestedIn(p, t)
  <2>1. /\ t \in Tasks /\ lead[t] \in Step /\ AsRequested(t, lead[t])
        /\ \A d \in req.deps[t] : d \in DOMAIN lead /\ lead[d].end <= lead[t].start
    BY <1>1, <1>3 DEF PlanFine, RequestedIn
  <2>2. p[t] \in Step /\ AsRequested(t, p[t])
    <3>1. CASE t \in tasks
      BY <1>1, <2>1, <3>1, DelayRequested
    <3>2. CASE t \notin tasks
      BY <1>1, <1>3, <2>1, <3>2
    <3> QED BY <3>1, <3>2
  <2>3. ASSUME NEW d \in req.deps[t] PROVE d \in DOMAIN p /\ p[d].end <= p[t].start
    <3>1. d \in DOMAIN lead /\ lead[d].end <= lead[t].start
      BY <2>1
    <3>2. /\ lead[t].start \in Int /\ lead[t].end \in Int
          /\ lead[d].start \in Int /\ lead[d].end \in Int
      BY <1>1, <1>3, <3>1
    <3>3. lead[t].start < lead[t].end /\ lead[d].start < lead[d].end
      <4>1. d \in Tasks /\ lead[d] \in Step /\ AsRequested(d, lead[d])
        BY <1>3, <3>1 DEF PlanFine, RequestedIn
      <4> QED BY <2>1, <4>1, RequestedStepFits
    <3>4. CASE t \in tasks /\ d \in tasks
      <4>1. p[t].start = lead[t].start + shift /\ p[d].end = lead[d].end + shift
        BY <1>1, <3>4
      <4> QED BY <1>1, <3>1, <3>2, <4>1
    <3>5. CASE t \in tasks /\ d \notin tasks
      <4>1. p[t].start = lead[t].start + shift /\ p[d] = lead[d]
        BY <1>1, <3>1, <3>5
      <4> QED BY <1>1, <3>1, <3>2, <4>1
    <3>6. CASE t \notin tasks /\ d \in tasks
      <4>1. /\ p[d].end = lead[d].end + shift /\ p[t] = lead[t]
            /\ lead[d].end + shift <= lead[t].start \/ lead[t].end <= lead[d].start
        BY <1>1, <1>3, <3>6
      <4> QED BY <1>1, <3>1, <3>2, <3>3, <4>1
    <3>7. CASE t \notin tasks /\ d \notin tasks
      BY <1>1, <1>3, <3>1, <3>7
    <3> QED BY <3>4, <3>5, <3>6, <3>7
  <2> QED BY <2>1, <2>2, <2>3 DEF RequestedIn
<1>4. PlanFine(p, u)
  BY <1>1, <1>2, <1>3 DEF PlanFine
<1> QED BY <1>4 DEF p


(* What a Task's step may be delayed to ends in its window.                *)
LEMMA WithinWindow ==
  ASSUME TypeOK, NEW t \in Tasks, NEW end \in Int, end <= req.window.end,
         t \in DOMAIN req.taskWindow => end <= req.taskWindow[t].end
  PROVE  end <= EffectiveWindow(req, t).end
BY DEF EffectiveWindow, Sooner

LEMMA OwnEndType ==
  ASSUME TypeOK, NEW t \in Tasks, NEW otherwise \in Time
  PROVE  OwnEnd(t, otherwise) \in Time
BY RequestFacts DEF OwnEnd, IsRequest, Window

LEMMA SlackLeft ==
  ASSUME NEW x \in Time, NEW y \in Time
  PROVE  /\ Later(0, x - y) \in Time
         /\ \A n \in Nat : 1 <= n /\ n <= Later(0, x - y) => y + n <= x
BY TimeAssumption DEF Time, Later

(* bounded_perturbations: no step of a suffix is moved into one that stays *)
(* or out of a window, because the shift is bounded by the room behind     *)
(* every step of the suffix.                                               *)
LEMMA SuffixDelayFine ==
  ASSUME TypeOK, NEW left, PlanFine(lead, left), IsSchedule(lead), occupied = Reserved(lead),
         NEW p \in SuffixDelays
  PROVE  PlanFine(p, left)
<1>1. PICK t \in DOMAIN lead :
        Movable(Suffix(t)) /\ \E shift \in Shifts(SuffixSlack(Suffix(t))) : p = Delayed(Suffix(t), shift)
  BY DEF SuffixDelays
<1> DEFINE tasks == Suffix(t)
           Slacks(v) == {Later(0, req.window.end - lead[v].end),
                         Later(0, OwnEnd(v, MaxTime) - lead[v].end)} \cup RoomBehind(tasks, v)
           slacks == UNION {Slacks(v) : v \in tasks}
<1>2. PICK shift \in Shifts(SuffixSlack(tasks)) : p = Delayed(tasks, shift)
  BY <1>1
<1>3. tasks \in SUBSET DOMAIN lead /\ t \in tasks
  <2>1. t \in Tasks
    BY DEF IsSchedule
  <2>2. Position(req, t) \in Int
    BY <2>1, PlacesFacts
  <2> QED BY <2>2 DEF Suffix
<1>4. Movable(tasks)
  BY <1>1
<1>5. SuffixSlack(tasks) = Min(slacks)
  BY DEF SuffixSlack
<1> HIDE DEF tasks
<1>6. ASSUME NEW v \in tasks
      PROVE  /\ v \in Tasks /\ v \in DOMAIN lead /\ lead[v].start \in Time /\ lead[v].end \in Time
             /\ req.window.end \in Time /\ OwnEnd(v, MaxTime) \in Time
  <2>1. v \in Tasks /\ lead[v] \in Step /\ v \in DOMAIN lead
    BY <1>3, <1>6 DEF IsSchedule
  <2>2. MaxTime \in Time
    BY TimeAssumption DEF Time
  <2> QED BY <2>1, <2>2, RequestFacts, OwnEndType DEF Step, Window
<1>7. ASSUME NEW v \in tasks PROVE Slacks(v) \subseteq Time /\ Slacks(v) # {}
  <2>1. Later(0, req.window.end - lead[v].end) \in Time /\ Later(0, OwnEnd(v, MaxTime) - lead[v].end) \in Time
    BY <1>6, <1>7, SlackLeft
  <2>2. RoomBehind(tasks, v) \subseteq Time
    <3>1. ASSUME NEW o \in occupied, o.start >= lead[v].end PROVE o.start - lead[v].end \in Time
      <4>1. o.start \in Time
        BY <3>1 DEF TypeOK
      <4> QED BY <1>6, <1>7, <3>1, <4>1, TimeAssumption DEF Time
    <3> QED BY <3>1 DEF RoomBehind
  <2> QED BY <2>1, <2>2
<1>8. slacks \in SUBSET Time /\ slacks # {}
  <2> HIDE DEF Slacks
  <2> QED BY <1>3, <1>7
<1>9. ASSUME NEW v \in tasks, NEW s \in Slacks(v) PROVE s \in slacks
  BY <1>9
<1> DEFINE longest == SuffixSlack(tasks)
<1>10. longest \in Time /\ \A s \in slacks : longest <= s
  BY <1>5, <1>8, MinFacts
<1>11. longest \in Nat /\ slacks \subseteq Int
  BY <1>8, <1>10, TimeAssumption DEF Time
<1>12. shift \in Nat /\ 1 <= longest /\ shift <= longest
  BY <1>11, ShiftBounds
<1> HIDE DEF longest, slacks
<1>13. ASSUME NEW v \in tasks, NEW s \in Slacks(v) PROVE s \in Int /\ longest <= s /\ shift <= s /\ 1 <= s
  <2>1. s \in Int /\ longest <= s
    BY <1>9, <1>10, <1>11, <1>13
  <2> QED BY <1>11, <1>12, <2>1
<1>14. ASSUME NEW v \in tasks
       PROVE  ~lead[v].static /\ lead[v].end + shift <= EffectiveWindow(req, v).end
  <2>1. ~lead[v].static
    BY <1>4, <1>14 DEF Movable
  <2>2. lead[v].end \in Int /\ req.window.end \in Int /\ OwnEnd(v, MaxTime) \in Int
    BY <1>6, <1>14, TimeAssumption DEF Time
  <2>3. ASSUME NEW x \in Time, Later(0, x - lead[v].end) \in Slacks(v) PROVE lead[v].end + shift <= x
    <3>1. x \in Int
      BY <2>3, TimeAssumption DEF Time
    <3>2. shift <= Later(0, x - lead[v].end) /\ 1 <= Later(0, x - lead[v].end)
      BY <1>13, <1>14, <2>3
    <3> QED BY <1>12, <2>2, <3>1, <3>2 DEF Later
  <2>4. lead[v].end + shift <= req.window.end
    BY <1>6, <1>14, <2>3
  <2>5. lead[v].end + shift <= OwnEnd(v, MaxTime)
    BY <1>6, <1>14, <2>3
  <2>6. lead[v].end + shift \in Int
    BY <1>12, <2>2
  <2> QED BY <1>6, <1>14, <2>1, <2>4, <2>5, <2>6, WithinWindow DEF OwnEnd
<1>15. ASSUME NEW v \in tasks, NEW w \in DOMAIN lead \ tasks
       PROVE  lead[v].end + shift <= lead[w].start \/ lead[w].end <= lead[v].start
  <2>1. /\ lead[v].start \in Int /\ lead[v].end \in Int
        /\ lead[w].start \in Int /\ lead[w].end \in Int /\ lead[w].task = w
    <3>1. lead[w] \in Step /\ lead[w].task = w
      BY DEF IsSchedule
    <3> QED BY <1>6, <1>15, <3>1, TimeAssumption DEF Step, Time
  <2>2. v \in DOMAIN lead /\ v # w
    BY <1>6, <1>15
  <2>3. ~(lead[v].start < lead[w].end /\ lead[v].end > lead[w].start)
    BY <2>2 DEF PlanFine, Apart, Overlaps
  <2>4. CASE lead[w].start >= lead[v].end
    <3> DEFINE o == Interval(lead[w])
    <3>1. o \in occupied /\ o.task = w /\ o.start = lead[w].start
      BY <2>1 DEF Reserved, Interval
    <3> HIDE DEF o
    <3>2. o.start - lead[v].end \in RoomBehind(tasks, v)
      BY <2>4, <3>1 DEF RoomBehind
    <3>3. o.start - lead[v].end \in Slacks(v)
      BY <3>2
    <3>4. shift <= o.start - lead[v].end
      BY <1>13, <1>15, <3>3
    <3> QED BY <1>12, <2>1, <3>1, <3>4
  <2>5. CASE ~(lead[w].start >= lead[v].end)
    BY <2>1, <2>3, <2>5
  <2> QED BY <2>4, <2>5
<1>16. PlanFine(Delayed(tasks, shift), left)
  <2> HIDE DEF Slacks
  <2> QED BY <1>3, <1>12, <1>14, <1>15, DelayFine
<1> QED BY <1>2, <1>16


-----------------------------------------------------------------------------
(***************************************************************************)
(* The sweep's own Plans.  A sweep stands on the fixed steps: they are     *)
(* kept as they were or requested ones at their anchors, stand apart, do   *)
(* not begin before one they name has ended, and cut the window into the   *)
(* chunks.                                                                 *)
(***************************************************************************)
FixedInv ==
  /\ IsSchedule(sweep.fixed)
  /\ DOMAIN sweep.fixed = DOMAIN preserved \cup DOMAIN req.anchor
  /\ \A t \in DOMAIN preserved : sweep.fixed[t] = preserved[t]
  /\ \A t \in DOMAIN sweep.fixed \ DOMAIN preserved : AsRequested(t, sweep.fixed[t])
  /\ Apart(sweep.fixed)
  /\ sweep.chunks = Partition(req.window, Reserved(sweep.fixed))
  /\ ProtectedTasks(req, {}) \subseteq protected
  /\ stage # "failed" => ~FixedCollide(sweep.fixed)
  /\ req.mode = "fresh" => DOMAIN preserved = {}

(* A Plan built around the fixed steps.                                    *)
Carries(p) ==
  /\ IsSchedule(p) /\ DOMAIN sweep.fixed \subseteq DOMAIN p
  /\ \A t \in DOMAIN sweep.fixed : p[t] = sweep.fixed[t]
  /\ \A t \in DOMAIN p \ DOMAIN sweep.fixed : AsRequested(t, p[t])

KeepsPreserved(p) == \A t \in DOMAIN preserved \cap DOMAIN p : p[t] = preserved[t]

LEMMA FixedTakeTime ==
  ASSUME TypeOK, FixedInv, KeptWellFormed, NEW t \in DOMAIN sweep.fixed
  PROVE  /\ sweep.fixed[t].start \in Int /\ sweep.fixed[t].end \in Int
         /\ sweep.fixed[t].start < sweep.fixed[t].end
<1>1. t \in Tasks /\ sweep.fixed[t] \in Step
  BY DEF FixedInv, IsSchedule
<1>2. sweep.fixed[t].start \in Int /\ sweep.fixed[t].end \in Int
  BY <1>1, TimeAssumption DEF Step, Time
<1>3. CASE t \in DOMAIN preserved
  BY <1>2, <1>3 DEF FixedInv, KeptWellFormed
<1>4. CASE t \notin DOMAIN preserved
  <2>1. AsRequested(t, sweep.fixed[t])
    BY <1>4 DEF FixedInv
  <2> QED BY <1>1, <1>2, <2>1, RequestedStepFits
<1> QED BY <1>3, <1>4

LEMMA ReservedFacts ==
  ASSUME NEW map
  PROVE  /\ \A w \in DOMAIN map : \E i \in Reserved(map) : i.start = map[w].start /\ i.end = map[w].end
         /\ \A i \in Reserved(map) : \E w \in DOMAIN map : i.start = map[w].start /\ i.end = map[w].end
<1>1. ASSUME NEW w \in DOMAIN map
      PROVE  \E i \in Reserved(map) : i.start = map[w].start /\ i.end = map[w].end
  <2>1. Interval(map[w]) \in Reserved(map)
    BY DEF Reserved
  <2> QED BY <2>1 DEF Interval
<1>2. ASSUME NEW i \in Reserved(map)
      PROVE  \E w \in DOMAIN map : i.start = map[w].start /\ i.end = map[w].end
  BY DEF Reserved, Interval
<1> QED BY <1>1, <1>2

LEMMA ChunkAndFixed ==
  ASSUME TypeOK, FixedInv, KeptWellFormed, NEW c \in sweep.chunks
  PROVE  /\ c.start \in Time /\ c.end \in Time /\ c.start < c.end
         /\ req.window.start <= c.start /\ c.end <= req.window.end
         /\ \A w \in DOMAIN sweep.fixed : c.end <= sweep.fixed[w].start \/ sweep.fixed[w].end <= c.start
<1> DEFINE I == Reserved(sweep.fixed)
<1>1. /\ \A w \in DOMAIN sweep.fixed : \E i \in I : i.start = sweep.fixed[w].start /\ i.end = sweep.fixed[w].end
      /\ \A i \in I : \E w \in DOMAIN sweep.fixed : i.start = sweep.fixed[w].start /\ i.end = sweep.fixed[w].end
  BY ReservedFacts
<1>2. \A w \in DOMAIN sweep.fixed : sweep.fixed[w].start \in Time /\ sweep.fixed[w].end \in Time
  BY DEF FixedInv, IsSchedule, Step
<1>3. c \in Partition(req.window, I)
  BY DEF FixedInv
<1> HIDE DEF I
<1>4. Intervals(I)
  BY <1>1, <1>2 DEF Intervals
<1>5. req.window \in Window
  BY RequestFacts
<1>6. /\ c.start \in Time /\ c.end \in Time /\ c.start < c.end
      /\ req.window.start <= c.start /\ c.end <= req.window.end
      /\ \A i \in I : i.start < i.end => c.end <= i.start \/ i.end <= c.start
  BY <1>3, <1>4, <1>5, ChunkBounds
<1>7. ASSUME NEW w \in DOMAIN sweep.fixed
      PROVE  c.end <= sweep.fixed[w].start \/ sweep.fixed[w].end <= c.start
  <2>1. PICK i \in I : i.start = sweep.fixed[w].start /\ i.end = sweep.fixed[w].end
    BY <1>1
  <2>2. sweep.fixed[w].start < sweep.fixed[w].end
    BY FixedTakeTime
  <2> QED BY <1>6, <2>1, <2>2
<1> QED BY <1>6, <1>7

(* A movable step of a Plan lies in a chunk or outside it.                 *)
LEMMA MovableAndChunk ==
  ASSUME TypeOK, FixedInv, KeptWellFormed, NEW c \in sweep.chunks,
         NEW p, Carries(p), Apart(p), NEW w \in DOMAIN p \ DOMAIN sweep.fixed
  PROVE  p[w].end <= c.start \/ c.end <= p[w].start \/ (c.start <= p[w].start /\ p[w].end <= c.end)
<1> DEFINE I == Reserved(sweep.fixed)
<1>1. \A i \in I : \E v \in DOMAIN sweep.fixed : i.start = sweep.fixed[v].start /\ i.end = sweep.fixed[v].end
  BY ReservedFacts
<1>2. \A v \in DOMAIN sweep.fixed : sweep.fixed[v].start \in Time /\ sweep.fixed[v].end \in Time
  BY DEF FixedInv, IsSchedule, Step
<1>3. c \in Partition(req.window, I)
  BY DEF FixedInv
<1> HIDE DEF I
<1>4. Intervals(I)
  BY <1>1, <1>2 DEF Intervals
<1>5. /\ w \in Tasks /\ p[w] \in Step /\ AsRequested(w, p[w])
  BY DEF Carries, IsSchedule
<1>6. p[w].start < p[w].end /\ req.window.start <= p[w].start /\ p[w].end <= req.window.end
  BY <1>5, RequestedStepFits
<1>7. p[w].start \in Int /\ p[w].end \in Int
  BY <1>5, TimeAssumption DEF Step, Time
<1>8. ASSUME NEW i \in I PROVE p[w].end <= i.start \/ i.end <= p[w].start
  <2>1. PICK v \in DOMAIN sweep.fixed : i.start = sweep.fixed[v].start /\ i.end = sweep.fixed[v].end
    BY <1>1, <1>8
  <2>2. v \in DOMAIN p /\ v # w /\ p[v] = sweep.fixed[v]
    BY DEF Carries
  <2>3. ~(p[w].start < p[v].end /\ p[w].end > p[v].start)
    BY <2>2 DEF Apart, Overlaps
  <2>4. i.start \in Int /\ i.end \in Int
    BY <1>4, <1>8, TimeAssumption DEF Intervals, Time
  <2> QED BY <1>7, <2>1, <2>2, <2>3, <2>4
<1>9. req.window \in Window
  BY RequestFacts
<1> QED BY <1>3, <1>4, <1>6, <1>7, <1>8, <1>9, InOrOutOfChunk


(* add_tail_delays: what is not moved with a tail lies outside its chunk,  *)
(* or in it before the tail.                                               *)
LEMMA InChunkMeans ==
  ASSUME TypeOK, FixedInv, Carries(lead), NEW t \in DOMAIN lead, NEW c
  PROVE  /\ t \notin DOMAIN sweep.fixed => ~lead[t].static /\ t \notin DOMAIN preserved
         /\ t \in InChunk(c) => /\ t \notin DOMAIN sweep.fixed /\ t \notin DOMAIN preserved
                                /\ ~lead[t].static
                                /\ c.start <= lead[t].start /\ lead[t].end <= c.end
<1>1. t \in Tasks /\ lead[t] \in Step
  BY DEF Carries, IsSchedule
<1>2. ASSUME AsRequested(t, lead[t]) PROVE lead[t].static = (t \in DOMAIN req.anchor)
  BY <1>2 DEF AsRequested, PlanStep
<1>3. CASE t \notin DOMAIN sweep.fixed
  <2>1. AsRequested(t, lead[t])
    BY <1>3 DEF Carries
  <2>2. t \notin DOMAIN req.anchor /\ t \notin DOMAIN preserved
    BY <1>3 DEF FixedInv
  <2>3. ~lead[t].static
    BY <1>2, <2>1, <2>2
  <2>4. t \in InChunk(c) => c.start <= lead[t].start /\ lead[t].end <= c.end
    BY <1>1, TimeAssumption DEF InChunk, Step, Time
  <2> QED BY <1>3, <2>2, <2>3, <2>4
<1>4. CASE t \in DOMAIN sweep.fixed
  <2>1. CASE t \in DOMAIN preserved
    BY <1>4, <2>1 DEF InChunk
  <2>2. CASE t \notin DOMAIN preserved
    <3>1. AsRequested(t, lead[t]) /\ t \in DOMAIN req.anchor
      BY <1>4, <2>2 DEF FixedInv, Carries
    <3>2. lead[t].static
      BY <1>2, <3>1
    <3> QED BY <1>4, <3>2 DEF InChunk
  <2> QED BY <2>1, <2>2
<1> QED BY <1>3, <1>4

LEMMA TailInOrder ==
  ASSUME TypeOK, IsSchedule(lead), NEW c, NEW t \in InChunk(c), NEW v \in ChunkTail(c, t)
  PROVE  /\ v \in InChunk(c) /\ lead[t].start <= lead[v].start
         /\ \A w \in InChunk(c) \ ChunkTail(c, t) : lead[w].start <= lead[t].start
<1> DEFINE K(w) == <<lead[w].start, lead[w].end, Ordinal[w]>>
<1>1. ASSUME NEW w \in InChunk(c)
      PROVE  K(w) \in Keys /\ K(w)[1] = lead[w].start /\ lead[w].start \in Int
  <2>1. w \in Tasks /\ lead[w] \in Step
    BY <1>1 DEF InChunk, IsSchedule
  <2>2. lead[w].start \in Nat /\ lead[w].end \in Nat /\ Ordinal[w] \in Nat
    BY <2>1, TimeAssumption, SweepAssumption DEF Step, Time
  <2> QED BY <2>2 DEF Keys
<1>2. /\ v \in InChunk(c) /\ (v = t \/ TripleBefore(K(t), K(v)))
      /\ \A w \in InChunk(c) \ ChunkTail(c, t) : ~TripleBefore(K(t), K(w))
  BY DEF ChunkTail
<1> HIDE DEF K
<1>3. ASSUME NEW w \in InChunk(c)
      PROVE  TripleBefore(K(t), K(w)) <=>
               \/ K(t)[1] < K(w)[1]
               \/ /\ K(t)[1] = K(w)[1]
                  /\ K(t)[2] < K(w)[2] \/ (K(t)[2] = K(w)[2] /\ K(t)[3] < K(w)[3])
  <2>1. K(t) \in Keys /\ K(w) \in Keys
    BY <1>1, <1>3
  <2> QED BY <2>1, TripleBeforeMeans
<1>4. lead[t].start <= lead[v].start
  <2>1. CASE v = t
    BY <1>1, <2>1
  <2>2. CASE TripleBefore(K(t), K(v))
    <3>1. K(t)[1] < K(v)[1] \/ K(t)[1] = K(v)[1]
      BY <1>2, <1>3, <2>2
    <3> QED BY <1>1, <1>2, <3>1
  <2> QED BY <1>2, <2>1, <2>2
<1>5. ASSUME NEW w \in InChunk(c) \ ChunkTail(c, t) PROVE lead[w].start <= lead[t].start
  <2>1. ~(K(t)[1] < K(w)[1])
    BY <1>2, <1>3, <1>5
  <2> QED BY <1>1, <1>5, <2>1
<1> QED BY <1>2, <1>4, <1>5

LEMMA TailDelayFine ==
  ASSUME TypeOK, FixedInv, KeptWellFormed, NEW left, PlanFine(lead, left), Carries(lead),
         KeepsPreserved(lead), NEW p \in TailDelays
  PROVE  PlanFine(p, left) /\ KeepsPreserved(p)
<1>1. PICK c \in sweep.chunks : \E t \in InChunk(c) :
        \E shift \in Shifts(TailSlack(c, ChunkTail(c, t))) : p = Delayed(ChunkTail(c, t), shift)
  BY DEF TailDelays
<1>2. PICK t \in InChunk(c) :
        \E shift \in Shifts(TailSlack(c, ChunkTail(c, t))) : p = Delayed(ChunkTail(c, t), shift)
  BY <1>1
<1> DEFINE tasks == ChunkTail(c, t)
           Slack(v) == Later(0, Sooner(OwnEnd(v, c.end), c.end) - lead[v].end)
           slacks == {Slack(v) : v \in tasks}
           longest == TailSlack(c, tasks)
<1>3. PICK shift \in Shifts(longest) : p = Delayed(tasks, shift)
  BY <1>2
<1>4. IsSchedule(lead)
  BY DEF Carries
<1>5. t \in tasks /\ tasks \subseteq InChunk(c) /\ tasks \in SUBSET DOMAIN lead
  BY DEF ChunkTail, InChunk
<1>6. longest = Min(slacks)
  BY DEF TailSlack
<1>7. /\ c.start \in Time /\ c.end \in Time /\ c.start < c.end
      /\ req.window.start <= c.start /\ c.end <= req.window.end
      /\ \A w \in DOMAIN sweep.fixed : c.end <= sweep.fixed[w].start \/ sweep.fixed[w].end <= c.start
  BY ChunkAndFixed
<1> HIDE DEF tasks
<1>8. ASSUME NEW w \in DOMAIN lead
      PROVE  w \in Tasks /\ lead[w] \in Step /\ lead[w].start \in Int /\ lead[w].end \in Int
  <2>1. w \in Tasks /\ lead[w] \in Step
    BY <1>4, <1>8 DEF IsSchedule
  <2> QED BY <2>1, TimeAssumption DEF Step, Time
<1>9. ASSUME NEW v \in tasks
      PROVE  /\ v \in DOMAIN lead /\ v \in InChunk(c) /\ v \notin DOMAIN sweep.fixed /\ v \notin DOMAIN preserved
             /\ ~lead[v].static /\ c.start <= lead[v].start /\ lead[v].end <= c.end
             /\ lead[v].start < lead[v].end
  <2>1. v \in DOMAIN lead /\ v \in InChunk(c)
    BY <1>5, <1>9
  <2>2. /\ v \notin DOMAIN sweep.fixed /\ v \notin DOMAIN preserved
        /\ ~lead[v].static /\ c.start <= lead[v].start /\ lead[v].end <= c.end
    BY <2>1, InChunkMeans
  <2>3. AsRequested(v, lead[v])
    BY <2>1, <2>2 DEF Carries
  <2>4. v \in Tasks /\ lead[v] \in Step
    BY <1>8, <2>1
  <2>5. lead[v].start < lead[v].end
    BY <2>3, <2>4, RequestedStepFits
  <2> QED BY <2>1, <2>2, <2>5
<1>10. ASSUME NEW v \in tasks
       PROVE  Slack(v) \in Time /\ OwnEnd(v, c.end) \in Time
              /\ \A n \in Nat : 1 <= n /\ n <= Slack(v) =>
                   lead[v].end + n <= OwnEnd(v, c.end) /\ lead[v].end + n <= c.end
  <2>1. v \in DOMAIN lead
    BY <1>9, <1>10
  <2>2. v \in Tasks /\ lead[v].end \in Time
    BY <1>8, <2>1 DEF Step
  <2>3. OwnEnd(v, c.end) \in Time
    BY <1>7, <2>2, OwnEndType
  <2> DEFINE x == Sooner(OwnEnd(v, c.end), c.end)
  <2>4. x \in Time /\ x <= OwnEnd(v, c.end) /\ x <= c.end
    BY <1>7, <2>3, TimeAssumption DEF Sooner, Time
  <2>5. x \in Int /\ OwnEnd(v, c.end) \in Int /\ c.end \in Int /\ lead[v].end \in Int
    BY <1>7, <2>2, <2>3, <2>4, TimeAssumption DEF Time
  <2>6. Slack(v) = Later(0, x - lead[v].end)
    OBVIOUS
  <2> HIDE DEF x, Slack
  <2>7. Later(0, x - lead[v].end) \in Time
        /\ \A n \in Nat : 1 <= n /\ n <= Later(0, x - lead[v].end) => lead[v].end + n <= x
    BY <2>2, <2>4, SlackLeft
  <2>8. ASSUME NEW n \in Nat, 1 <= n, n <= Slack(v)
        PROVE  lead[v].end + n <= OwnEnd(v, c.end) /\ lead[v].end + n <= c.end
    <3>1. lead[v].end + n <= x
      BY <2>6, <2>7, <2>8
    <3>2. lead[v].end + n \in Int
      BY <2>5
    <3> QED BY <2>4, <2>5, <3>1, <3>2
  <2> QED BY <2>3, <2>6, <2>7, <2>8
<1>11. slacks \in SUBSET Time /\ slacks # {} /\ \A v \in tasks : Slack(v) \in slacks
  <2>1. \A v \in tasks : Slack(v) \in Time
    BY <1>10
  <2> HIDE DEF Slack
  <2> QED BY <1>5, <2>1
<1>12. longest \in Time /\ \A s \in slacks : longest <= s
  BY <1>6, <1>11, MinFacts
<1> HIDE DEF longest, slacks, Slack
<1>13. longest \in Nat
  BY <1>12, TimeAssumption DEF Time
<1>14. shift \in Nat /\ 1 <= longest /\ shift <= longest
  BY <1>13, ShiftBounds
<1>15. ASSUME NEW v \in tasks
       PROVE  lead[v].end + shift <= OwnEnd(v, c.end) /\ lead[v].end + shift <= c.end
  <2>1. longest <= Slack(v) /\ Slack(v) \in Int
    BY <1>10, <1>11, <1>12, <1>15, TimeAssumption DEF Time
  <2>2. longest \in Nat /\ lead[v].end + longest <= OwnEnd(v, c.end) /\ lead[v].end + longest <= c.end
    BY <1>10, <1>13, <1>14, <1>15, <2>1
  <2>3. OwnEnd(v, c.end) \in Int /\ c.end \in Int /\ lead[v].end \in Int
    <3>1. v \in DOMAIN lead
      BY <1>9, <1>15
    <3> QED BY <1>7, <1>8, <1>10, <1>15, <3>1, TimeAssumption DEF Time
  <2> QED BY <1>14, <2>2, <2>3
<1>16. ASSUME NEW v \in tasks
       PROVE  ~lead[v].static /\ lead[v].end + shift <= EffectiveWindow(req, v).end
  <2>1. v \in DOMAIN lead /\ ~lead[v].static
    BY <1>9, <1>16
  <2>2. v \in Tasks /\ lead[v].end \in Int /\ lead[v].end + shift \in Int
    BY <1>8, <1>14, <2>1
  <2>3. lead[v].end + shift <= req.window.end
    <3>1. c.end \in Int /\ req.window.end \in Int
      BY <1>7, RequestFacts, TimeAssumption DEF Window, Time
    <3>2. lead[v].end + shift <= c.end /\ c.end <= req.window.end
      BY <1>7, <1>15, <1>16
    <3> QED BY <2>2, <3>1, <3>2
  <2>4. v \in DOMAIN req.taskWindow => lead[v].end + shift <= req.taskWindow[v].end
    BY <1>15, <1>16 DEF OwnEnd
  <2> QED BY <2>1, <2>2, <2>3, <2>4, WithinWindow
<1>17. ASSUME NEW v \in tasks, NEW w \in DOMAIN lead \ tasks
       PROVE  lead[v].end + shift <= lead[w].start \/ lead[w].end <= lead[v].start
  <2>1. /\ lead[v].start \in Int /\ lead[v].end \in Int /\ c.start \in Int /\ c.end \in Int
        /\ lead[w].start \in Int /\ lead[w].end \in Int
    BY <1>7, <1>8, <1>9, <1>17, TimeAssumption DEF Time
  <2>2. lead[v].end + shift <= c.end /\ c.start <= lead[v].start /\ lead[v].start < lead[v].end
    BY <1>9, <1>15, <1>17
  <2>3. CASE c.end <= lead[w].start \/ lead[w].end <= c.start
    BY <1>14, <2>1, <2>2, <2>3
  <2>4. CASE w \in DOMAIN sweep.fixed
    <3>1. lead[w] = sweep.fixed[w]
      BY <2>4 DEF Carries
    <3> QED BY <1>7, <2>3, <2>4, <3>1
  <2>5. CASE w \notin DOMAIN sweep.fixed /\ c.start <= lead[w].start /\ lead[w].end <= c.end
    <3>1. w \in InChunk(c)
      <4>1. ~lead[w].static /\ w \notin DOMAIN preserved
        BY <1>17, <2>5, InChunkMeans
      <4> QED BY <1>17, <2>1, <2>5, <4>1 DEF InChunk
    <3>2. w \in InChunk(c) \ ChunkTail(c, t) /\ v \in ChunkTail(c, t)
      BY <1>17, <3>1 DEF tasks
    <3>3. lead[t].start <= lead[v].start /\ lead[w].start <= lead[t].start
      BY <1>4, <3>2, TailInOrder
    <3>4. t \in DOMAIN lead
      BY <1>5
    <3>5. lead[t].start \in Int
      BY <1>8, <3>4
    <3>6. v \in DOMAIN lead /\ v # w
      BY <1>9, <1>17
    <3>7. ~(lead[v].start < lead[w].end /\ lead[v].end > lead[w].start)
      BY <3>6 DEF PlanFine, Apart, Overlaps
    <3> QED BY <2>1, <2>2, <3>3, <3>5, <3>7
  <2>6. CASE w \notin DOMAIN sweep.fixed
    <3>1. lead[w].end <= c.start \/ c.end <= lead[w].start \/ (c.start <= lead[w].start /\ lead[w].end <= c.end)
      BY <1>17, <2>6, MovableAndChunk DEF PlanFine
    <3> QED BY <2>3, <2>5, <2>6, <3>1
  <2> QED BY <2>4, <2>6
<1>18. PlanFine(p, left)
  BY <1>3, <1>4, <1>5, <1>14, <1>16, <1>17, DelayFine
<1>19. KeepsPreserved(p)
  <2>1. /\ DOMAIN p = DOMAIN lead
        /\ \A w \in DOMAIN lead : w \notin tasks => p[w] = lead[w]
    BY <1>3, <1>4, <1>5, <1>14, DelayedFields
  <2>2. \A w \in DOMAIN preserved : w \notin tasks
    BY <1>9
  <2> QED BY <2>1, <2>2 DEF KeepsPreserved
<1> QED BY <1>18, <1>19


-----------------------------------------------------------------------------
(***************************************************************************)
(* The greedy Plan is fine, leaves what is kept as it was, and holds every *)
(* fixed Task.                                                             *)
(***************************************************************************)
PlanInv ==
  phase = "done" =>
    /\ PlanFine(plan, DOMAIN unplaced) /\ KeepsPreserved(plan)
    /\ DOMAIN preserved \cup DOMAIN req.anchor \subseteq DOMAIN plan
    /\ \A t \in DOMAIN plan \ DOMAIN preserved : AsRequested(t, plan[t])

LEMMA EndedStays ==
  ASSUME phase \in {"done", "failed"}
  PROVE  ~Next
BY DEF Next, TaskStep, Open, CollectPrior, CollectDone, PreserveDone, AffixSkip, AffixAnchor,
       AffixReject, AffixDone, SkipExcluded, Emit, PushPreserved, KeepPreserved, KeepAffixed,
       StartPlacement, Bump, Place, Omit, RejectProtected, Scheduling

LEMMA OnlyEmitEnds ==
  ASSUME Next, phase' = "done"
  PROVE  Emit
BY DEF Next, TaskStep, Open, CollectPrior, CollectDone, PreserveDone, AffixSkip, AffixAnchor,
       AffixReject, AffixDone, SkipExcluded, PushPreserved, KeepPreserved, KeepAffixed,
       StartPlacement, Bump, Place, Omit, RejectProtected, Scheduling, Schedule, Advance, EnterPhase, Fail

LEMMA PlanInvStep ==
  ASSUME SkeletonInv, PlanInv, [Next]_vars
  PROVE  PlanInv'
<1>1. CASE UNCHANGED vars
  <2>1. UNCHANGED <<req, phase, preserved, plan, unplaced>>
    BY <1>1 DEF vars
  <2> QED BY <2>1 DEF PlanInv, PlanFine, Apart, RequestedIn, AsRequested, KeepsPreserved
<1>2. CASE Next /\ phase' = "done"
  <2>1. Emit /\ phase = "schedule" /\ UNCHANGED <<req, preserved, affixed, excluded, protected, scheduled>>
    BY <1>2, OnlyEmitEnds DEF Emit, Fail
  <2>2. /\ TypeOK /\ NoDoubleBooking /\ ProtectionInv /\ WalkInv /\ CalendarInv /\ StepInv
    BY DEF SkeletonInv
  <2>3. /\ plan' = [t \in DOMAIN scheduled |-> scheduled[t]]
        /\ PlanFine(plan', DOMAIN unplaced')
        /\ excluded = Tasks \ DOMAIN plan'
    BY <1>2, <2>1, <2>2, EmittedAcceptable
  <2>4. PlanFine(plan, DOMAIN unplaced)'
    BY <2>1, <2>3 DEF PlanFine, Apart, RequestedIn, AsRequested
  <2>5. DOMAIN plan' = DOMAIN scheduled /\ \A t \in DOMAIN scheduled : plan'[t] = scheduled[t]
    BY <2>3
  <2>6. KeepsPreserved(plan)'
    BY <2>1, <2>2, <2>5 DEF KeepsPreserved, CalendarInv, KeptAsIs
  <2>7. ASSUME NEW t \in DOMAIN preserved \cup DOMAIN req.anchor PROVE t \in DOMAIN plan'
    <3>1. FixedProtected /\ excluded \cap protected = {}
      BY <2>1, <2>2 DEF CalendarInv, Walking, ProtectionInv, ProtectedKept
    <3>2. t \in Tasks
      BY <2>2, <2>7, RequestFacts DEF TypeOK, IsSchedule
    <3>3. DOMAIN req.anchor \subseteq ProtectedTasks(req, {})
      <4>1. req.deps \in [Tasks -> SUBSET Tasks] /\ {} \cup req.mandatory \cup DOMAIN req.anchor \in SUBSET Tasks
        BY <2>2, RequestFacts DEF IsRequest
      <4>2. {} \cup req.mandatory \cup DOMAIN req.anchor
              \subseteq Prerequisites(req, {} \cup req.mandatory \cup DOMAIN req.anchor)
        BY <4>1, PrerequisitesClosed
      <4> QED BY <4>2 DEF ProtectedTasks
    <3>4. t \in protected
      BY <2>7, <3>1, <3>3 DEF FixedProtected
    <3> QED BY <2>3, <3>1, <3>2, <3>4
  <2>8. ASSUME NEW t \in DOMAIN plan' \ DOMAIN preserved PROVE AsRequested(t, plan[t])'
    <3>1. AsRequested(t, scheduled[t])
      BY <2>2, <2>5, <2>8 DEF StepInv
    <3> QED BY <2>1, <2>5, <2>8, <3>1 DEF AsRequested
  <2> QED BY <2>1, <2>4, <2>6, <2>7, <2>8 DEF PlanInv
<1>3. CASE phase' # "done"
  BY <1>3 DEF PlanInv
<1> QED BY <1>1, <1>2, <1>3

LEMMA GreedyCarries ==
  ASSUME TypeOK, phase = "done", PlanInv, FixedInv
  PROVE  Carries(plan)
<1>1. IsSchedule(plan) /\ DOMAIN sweep.fixed \subseteq DOMAIN plan
  BY DEF TypeOK, PlanInv, FixedInv
<1>2. ASSUME NEW t \in DOMAIN sweep.fixed PROVE plan[t] = sweep.fixed[t]
  <2>1. CASE t \in DOMAIN preserved
    BY <1>1, <2>1 DEF PlanInv, KeepsPreserved, FixedInv
  <2>2. CASE t \notin DOMAIN preserved
    <3>1. AsRequested(t, sweep.fixed[t]) /\ AsRequested(t, plan[t]) /\ t \in DOMAIN req.anchor
      BY <1>1, <2>2 DEF PlanInv, FixedInv
    <3>2. sweep.fixed[t].start = req.anchor[t] /\ plan[t].start = req.anchor[t]
      BY <3>1 DEF AsRequested
    <3> QED BY <3>1, <3>2 DEF AsRequested
  <2> QED BY <2>1, <2>2
<1>3. ASSUME NEW t \in DOMAIN plan \ DOMAIN sweep.fixed PROVE AsRequested(t, plan[t])
  BY <1>3 DEF PlanInv, FixedInv
<1> QED BY <1>1, <1>2, <1>3 DEF Carries

(***************************************************************************)
(* A branch with nothing left makes a fine Plan: its steps keep clear of   *)
(* the fixed ones because they lie in chunks, and no fixed step waits for  *)
(* a Task that is given up, because what it waits for is protected.        *)
(***************************************************************************)
LEMMA BranchPlanFine ==
  ASSUME TypeOK, FixedInv, Grounded, KeptWellFormed, stage # "failed",
         NEW b, BranchFine(req, sweep, protected, b), b.remaining = {},
         DOMAIN sweep.fixed \cup DOMAIN b.placed # {}
  PROVE  PlanFine(SweepPlan(b), b.excluded) /\ Carries(SweepPlan(b)) /\ KeepsPreserved(SweepPlan(b))
<1> DEFINE p == SweepPlan(b)
           F == DOMAIN sweep.fixed
<1>1. /\ DOMAIN p = F \cup DOMAIN b.placed
      /\ \A t \in F : p[t] = sweep.fixed[t]
      /\ \A t \in DOMAIN b.placed : t \notin F => p[t] = b.placed[t]
  BY DEF SweepPlan
<1>2. /\ IsSchedule(b.placed) /\ DOMAIN b.placed \cap F = {} /\ b.excluded \subseteq Tasks \ F
      /\ Tasks \ F = b.excluded \cup DOMAIN b.placed
      /\ b.excluded \cap DOMAIN b.placed = {} /\ b.excluded \cap protected = {}
      /\ ClosedUnderDependents(req, b.excluded)
  BY DEF BranchFine, BranchTyped, BranchAccounts
<1>3. \A t \in DOMAIN b.placed : SoundAt(req, sweep, b, t, b.placed[t])
  BY DEF BranchFine, BranchSound
<1>4. F \subseteq Tasks /\ IsSchedule(sweep.fixed)
  BY DEF FixedInv, IsSchedule
<1> HIDE DEF p, F
<1>5. b.excluded = Tasks \ DOMAIN p /\ DOMAIN p \subseteq Tasks
  BY <1>1, <1>2, <1>4 DEF IsSchedule
<1>6. ASSUME NEW t \in DOMAIN p
      PROVE  t \in Tasks /\ p[t] \in Step /\ p[t].task = t /\ p[t].start \in Int /\ p[t].end \in Int
  <2>1. t \in Tasks /\ p[t] \in Step /\ p[t].task = t
    <3>1. CASE t \in F
      BY <1>1, <1>4, <3>1 DEF IsSchedule, F
    <3>2. CASE t \notin F
      BY <1>1, <1>2, <1>6, <3>2 DEF IsSchedule
    <3> QED BY <3>1, <3>2
  <2> QED BY <2>1, TimeAssumption DEF Step, Time
<1>7. ASSUME NEW t \in DOMAIN b.placed PROVE AsRequested(t, p[t])
  <2>1. p[t] = b.placed[t] /\ t \notin F
    BY <1>1, <1>2, <1>7
  <2>2. t \notin DOMAIN req.anchor
    BY <2>1 DEF FixedInv, F
  <2> QED BY <1>3, <1>7, <2>1, <2>2 DEF SoundAt, AsRequested
<1>8. Carries(p)
  <2>1. IsSchedule(p)
    BY <1>6 DEF IsSchedule
  <2>2. \A t \in DOMAIN p \ F : AsRequested(t, p[t])
    BY <1>1, <1>7
  <2> QED BY <1>1, <2>1, <2>2 DEF Carries, F
<1>9. Apart(p)
  <2>1. ASSUME NEW t \in DOMAIN b.placed, NEW w \in F
        PROVE  p[w].end <= p[t].start \/ p[t].end <= p[w].start
    <3>1. p[t] = b.placed[t] /\ p[w] = sweep.fixed[w] /\ t \in DOMAIN p /\ w \in DOMAIN p
      BY <1>1, <1>2, <2>1
    <3>2. PICK c \in sweep.chunks : c.start <= p[t].start /\ p[t].end <= c.end
      BY <1>3, <2>1, <3>1 DEF SoundAt
    <3>3. /\ c.start \in Time /\ c.end \in Time
          /\ c.end <= sweep.fixed[w].start \/ sweep.fixed[w].end <= c.start
      BY <2>1, ChunkAndFixed DEF F
    <3>4. c.start \in Int /\ c.end \in Int
      BY <3>3, TimeAssumption DEF Time
    <3>5. p[t].start \in Int /\ p[t].end \in Int /\ p[w].start \in Int /\ p[w].end \in Int
      BY <1>6, <3>1
    <3> QED BY <3>1, <3>2, <3>3, <3>4, <3>5
  <2> SUFFICES ASSUME NEW t \in DOMAIN p, NEW w \in DOMAIN p, t # w
               PROVE  ~(p[t].start < p[w].end /\ p[t].end > p[w].start)
    BY DEF Apart, Overlaps
  <2>2. p[t].start \in Int /\ p[t].end \in Int /\ p[w].start \in Int /\ p[w].end \in Int
    BY <1>6
  <2>3. CASE t \in F /\ w \in F
    <3>1. p[t] = sweep.fixed[t] /\ p[w] = sweep.fixed[w]
      BY <1>1, <2>3
    <3> QED BY <2>3, <3>1 DEF FixedInv, Apart, Overlaps, F
  <2>4. CASE t \notin F /\ w \notin F
    <3>1. t \in DOMAIN b.placed /\ w \in DOMAIN b.placed /\ p[t] = b.placed[t] /\ p[w] = b.placed[w]
      BY <1>1, <2>4
    <3> QED BY <1>3, <3>1 DEF SoundAt, Overlaps
  <2>5. CASE t \in F /\ w \notin F
    BY <1>1, <2>1, <2>2, <2>5
  <2>6. CASE t \notin F /\ w \in F
    BY <1>1, <2>1, <2>2, <2>6
  <2> QED BY <2>3, <2>4, <2>5, <2>6
<1>10. ASSUME req.mode = "fresh", NEW t \in DOMAIN p PROVE RequestedIn(p, t)
  <2>1. ASSUME NEW w \in DOMAIN p PROVE AsRequested(w, p[w])
    <3>1. CASE w \in DOMAIN b.placed
      BY <1>7, <3>1
    <3>2. CASE w \notin DOMAIN b.placed
      <4>1. w \in F /\ p[w] = sweep.fixed[w]
        BY <1>1, <2>1, <3>2
      <4>2. DOMAIN preserved = {}
        BY <1>10 DEF FixedInv
      <4> QED BY <4>1, <4>2 DEF FixedInv, F
    <3> QED BY <3>1, <3>2
  <2>2. ASSUME NEW d \in req.deps[t] PROVE d \in DOMAIN p /\ p[d].end <= p[t].start
    <3>1. CASE t \in F
      <4>1. p[t] = sweep.fixed[t] /\ p[t].deps = req.deps[t]
        BY <1>1, <1>6, <1>10, <2>1, <3>1, RequestedStepFits
      <4>2. d \in protected /\ d \in Tasks
        <5>1. t \in protected /\ ClosedUnderDeps(req, protected) /\ protected \subseteq Tasks
          BY <3>1 DEF Grounded, F, TypeOK
        <5> QED BY <2>2, <5>1 DEF ClosedUnderDeps
      <4>3. d \in DOMAIN p
        BY <1>2, <1>5, <4>2
      <4>4. CASE d \in F
        <5>1. p[d] = sweep.fixed[d] /\ d \in sweep.fixed[t].deps
          BY <1>1, <2>2, <4>1, <4>4
        <5>2. ~(sweep.fixed[d].end > sweep.fixed[t].start)
          BY <3>1, <4>4, <5>1 DEF FixedInv, FixedCollide, F
        <5>3. p[d].end \in Int /\ p[t].start \in Int
          BY <1>6, <1>10, <4>3
        <5> QED BY <4>1, <4>3, <5>1, <5>2, <5>3
      <4>5. CASE d \notin F
        <5>1. d \in DOMAIN b.placed /\ p[d] = b.placed[d]
          BY <1>1, <4>3, <4>5
        <5>2. d \in sweep.fixed[t].deps
          BY <2>2, <4>1
        <5> QED BY <1>3, <3>1, <4>1, <4>3, <5>1, <5>2 DEF SoundAt, F
      <4> QED BY <4>4, <4>5
    <3>2. CASE t \notin F
      <4>1. t \in DOMAIN b.placed /\ p[t] = b.placed[t]
        BY <1>1, <1>10, <3>2
      <4>2. d \in F \cup DOMAIN b.placed /\ BranchEnd(sweep, b, d) <= p[t].start
        BY <1>3, <2>2, <4>1 DEF SoundAt, F
      <4>3. BranchEnd(sweep, b, d) = p[d].end
        BY <1>1, <4>2 DEF BranchEnd, F
      <4> QED BY <1>1, <4>2, <4>3
    <3> QED BY <3>1, <3>2
  <2> QED BY <1>6, <1>10, <2>1, <2>2 DEF RequestedIn
<1>11. ProtectedTasks(req, {}) \cap b.excluded = {}
  BY <1>2 DEF FixedInv
<1>12. DOMAIN p # {}
  BY <1>1 DEF F
<1>13. PlanFine(p, b.excluded)
  BY <1>2, <1>5, <1>9, <1>10, <1>11, <1>12 DEF PlanFine
<1>14. KeepsPreserved(p)
  BY <1>1 DEF KeepsPreserved, FixedInv, F
<1> QED BY <1>8, <1>13, <1>14 DEF p


-----------------------------------------------------------------------------
(***************************************************************************)
(* The answers.                                                            *)
(***************************************************************************)
LEMMA NothingScheduledYet ==
  ASSUME TypeOK, WalkInv, phase = "schedule", next = 1
  PROVE  DOMAIN scheduled = {}
<1>1. DOMAIN req.order = 1 .. Len(req.order)
  BY PlacesFacts DEF Places
<1>2. PassedOnly
  BY DEF WalkInv, Walking
<1>3. ASSUME NEW t \in DOMAIN scheduled PROVE FALSE
  <2>1. PICK i \in DOMAIN req.order : i < 1
    BY <1>2, <1>3 DEF PassedOnly
  <2>2. i \in 1 .. Len(req.order)
    BY <1>1, <2>1
  <2> QED BY <2>1, <2>2
<1> QED BY <1>3

(* When the sweep takes over what affix_fixed returns, the calendar is     *)
(* exactly the fixed steps.                                                *)
LEMMA FixedBegins ==
  ASSUME SkeletonInv, Prepare
  PROVE  FixedInv'
<1> DEFINE fixed == [t \in DOMAIN preserved \cup DOMAIN affixed |->
                       IF t \in DOMAIN preserved THEN preserved[t] ELSE affixed[t]]
<1>1. /\ phase = "schedule" /\ next = 1
      /\ sweep'.fixed = fixed /\ sweep'.chunks = Partition(req.window, occupied)
      /\ stage' # "failed" => ~FixedCollide(fixed)
      /\ UNCHANGED <<req, preserved, protected>>
  BY DEF Prepare, vars
<1>2. TypeOK /\ NoDoubleBooking /\ WalkInv /\ CalendarInv /\ StepInv
  BY DEF SkeletonInv
<1>3. DOMAIN scheduled = {}
  BY <1>1, <1>2, NothingScheduledYet
<1>4. /\ DOMAIN fixed = DOMAIN preserved \cup DOMAIN affixed
      /\ \A t \in DOMAIN preserved : fixed[t] = preserved[t]
      /\ \A t \in DOMAIN affixed \ DOMAIN preserved : fixed[t] = affixed[t]
  OBVIOUS
<1>5. DOMAIN affixed \cap DOMAIN preserved = {} /\ DOMAIN affixed \subseteq DOMAIN req.anchor
  BY <1>2 DEF CalendarInv, TypeOK
<1> HIDE DEF fixed
<1>6. IsSchedule(fixed)
  BY <1>2, <1>4 DEF TypeOK, IsSchedule
<1>7. DOMAIN fixed = DOMAIN preserved \cup DOMAIN req.anchor
  BY <1>1, <1>2, <1>3, <1>4, <1>5 DEF StepInv, AnchorsFixed, Walking
<1>8. occupied = Reserved(fixed)
  <2>1. occupied = Reserved(preserved) \cup Reserved(affixed)
    <3>1. occupied = Reserved(preserved) \cup Reserved(affixed) \cup Reserved(scheduled)
      BY <1>1, <1>2 DEF CalendarInv, CalendarExact
    <3>2. Reserved(scheduled) = {}
      BY <1>3 DEF Reserved
    <3> QED BY <3>1, <3>2
  <2>2. ASSUME NEW i \in Reserved(fixed) PROVE i \in Reserved(preserved) \cup Reserved(affixed)
    BY <1>4, <2>2 DEF Reserved
  <2>3. Reserved(preserved) \subseteq Reserved(fixed)
    BY <1>4 DEF Reserved
  <2>4. Reserved(affixed) \subseteq Reserved(fixed)
    BY <1>4, <1>5 DEF Reserved
  <2> QED BY <2>1, <2>2, <2>3, <2>4
<1>9. ASSUME NEW t \in DOMAIN fixed, NEW u \in DOMAIN fixed, t # u
      PROVE  ~Overlaps(fixed[t].start, fixed[t].end, fixed[u])
  <2> DEFINE o == Interval(fixed[t])
             p == Interval(fixed[u])
  <2>1. o \in occupied /\ p \in occupied
    BY <1>8 DEF Reserved
  <2>2. /\ o.task = t /\ o.start = fixed[t].start /\ o.end = fixed[t].end
        /\ p.task = u /\ p.start = fixed[u].start /\ p.end = fixed[u].end
    BY <1>6 DEF Interval, IsSchedule
  <2> HIDE DEF o, p
  <2>3. ~Overlaps(o.start, o.end, p)
    BY <1>2, <1>9, <2>1, <2>2 DEF NoDoubleBooking
  <2> QED BY <2>2, <2>3 DEF Overlaps
<1>10. ProtectedTasks(req, {}) \subseteq protected
  BY <1>1, <1>2 DEF CalendarInv, Walking, FixedProtected
<1>11. ASSUME NEW t \in DOMAIN fixed \ DOMAIN preserved PROVE AsRequested(t, fixed[t])
  BY <1>2, <1>4 DEF StepInv
<1>12. req.mode = "fresh" => DOMAIN preserved = {}
  BY <1>2 DEF StepInv
<1>13. /\ IsSchedule(sweep'.fixed)
       /\ DOMAIN sweep'.fixed = DOMAIN preserved' \cup DOMAIN req'.anchor
       /\ \A t \in DOMAIN preserved' : sweep'.fixed[t] = preserved'[t]
  BY <1>1, <1>4, <1>6, <1>7
<1>14. \A t \in DOMAIN sweep.fixed' \ DOMAIN preserved' : AsRequested(t, sweep.fixed[t])'
  BY <1>1, <1>11 DEF AsRequested
<1>15. Apart(sweep.fixed)'
  BY <1>1, <1>9 DEF Apart
<1>16. sweep'.chunks = Partition(req'.window, Reserved(sweep'.fixed))
  BY <1>1, <1>8
<1>17. ProtectedTasks(req', {}) \subseteq protected'
  BY <1>1, <1>10
<1>18. stage' # "failed" => ~FixedCollide(sweep'.fixed)
  BY <1>1
<1>19. req'.mode = "fresh" => DOMAIN preserved' = {}
  BY <1>1, <1>12
<1> QED BY <1>13, <1>14, <1>15, <1>16, <1>17, <1>18, <1>19 DEF FixedInv

LEMMA FixedInvStays ==
  ASSUME FixedInv, UNCHANGED <<req, preserved, protected, sweep>>,
         stage = "failed" => stage' = "failed"
  PROVE  FixedInv'
BY DEF FixedInv, AsRequested, Apart

LEMMA SweepGoesOn ==
  ASSUME SweepStep, stage # "idle"
  PROVE  UNCHANGED <<vars, sweep>> /\ stage \notin {"done", "failed"}
BY DEF SweepStep, Prepare, PassOutside, OutsideDone, EvictDone, FillDone, StrandDone, Trim, Merge, Cut,
       CutEmpty, Finish, SweepTask, Evict, Choose, Skip, PlaceUnit, NoSlotLeft, Strand, Abandon, Sets,
       Goes, NextAlternative

LEMMA OnlyFinishEnds ==
  ASSUME SweepStep, stage' = "done"
  PROVE  Finish
BY DEF SweepStep, Prepare, PassOutside, OutsideDone, EvictDone, FillDone, StrandDone, Trim, Merge, Cut,
       CutEmpty, SweepTask, Evict, Choose, Skip, PlaceUnit, NoSlotLeft, Strand, Abandon, Sets,
       Goes, NextAlternative

(* What the answers are made of: the greedy Plan, and a sweep that ended   *)
(* with something to show.                                                 *)
ReadyInv ==
  /\ PlanInv
  /\ stage # "idle" => FixedInv
  /\ stage = "done" => DOMAIN beam[1].placed \cup DOMAIN sweep.fixed # {}

LEMMA ReadySweep ==
  ASSUME SkeletonInv, ReadyInv, SweepStep
  PROVE  ReadyInv'
<1>1. UNCHANGED vars
  BY SweepGoesOn, IdleStep DEF Prepare
<1>2. PlanInv'
  BY <1>1, PlanInvStep DEF ReadyInv
<1>3. stage' # "idle" => FixedInv'
  <2>1. CASE stage = "idle"
    BY <2>1, IdleStep, FixedBegins
  <2>2. CASE stage # "idle"
    <3>1. UNCHANGED <<req, preserved, protected, sweep>> /\ stage # "failed"
      BY <2>2, SweepGoesOn DEF vars
    <3> QED BY <2>2, <3>1, FixedInvStays DEF ReadyInv
  <2> QED BY <2>1, <2>2
<1>4. stage' = "done" => DOMAIN beam'[1].placed \cup DOMAIN sweep'.fixed # {}
  <2> SUFFICES ASSUME stage' = "done" PROVE DOMAIN beam'[1].placed \cup DOMAIN sweep'.fixed # {}
    OBVIOUS
  <2>1. Finish
    BY OnlyFinishEnds
  <2>2. UNCHANGED <<beam, sweep>> /\ DOMAIN beam[1].placed \cup DOMAIN sweep.fixed # {}
    BY <2>1 DEF Finish, Abandon, Goes, place
  <2> QED BY <2>2
<1> QED BY <1>2, <1>3, <1>4 DEF ReadyInv

LEMMA ReadyGreedy ==
  ASSUME SkeletonInv, SweepInv, ReadyInv, [Next]_vars, UNCHANGED sweepVars
  PROVE  ReadyInv'
<1>1. PlanInv'
  BY PlanInvStep DEF ReadyInv
<1>2. UNCHANGED <<stage, sweep, beam>>
  BY DEF sweepVars, place
<1>3. stage' # "idle" => FixedInv'
  <2> SUFFICES ASSUME stage # "idle" PROVE FixedInv'
    BY <1>2
  <2>1. ~Fixing
    BY DEF SweepInv, LiveInv, GroundInv
  <2>2. UNCHANGED <<req, protected, preserved>>
    BY <2>1, FixedStays
  <2> QED BY <1>2, <2>2, FixedInvStays DEF ReadyInv
<1>4. stage' = "done" => DOMAIN beam'[1].placed \cup DOMAIN sweep'.fixed # {}
  BY <1>2 DEF ReadyInv
<1> QED BY <1>1, <1>3, <1>4 DEF ReadyInv


(* A generator that has answered has planned before, and every candidate   *)
(* is fine; the delays of the sweep start from a Plan around the fixed     *)
(* steps, and leave what is kept alone.                                    *)
Trusted == strategy = "chunked" => KeptWellFormed

AnswerInv ==
  /\ strategy \in {"greedy", "chunked"} /\ (strategy = "greedy" => stage = "idle")
  /\ answer \in {"open", "planned"} =>
       /\ phase \in {"done", "failed"}
       /\ strategy = "greedy" => phase = "done" /\ lead = plan
       /\ strategy = "chunked" => stage \in {"done", "failed"}
       /\ Trusted =>
            /\ \A p \in Candidates : PlanFine(p, DOMAIN report)
            /\ strategy = "chunked" => Carries(lead) /\ \A p \in Candidates : KeepsPreserved(p)

LEMMA AnswerSame ==
  ASSUME AnswerInv,
         UNCHANGED <<req, phase, preserved, plan, stage, sweep, strategy, lead, report>>,
         answer' \in {"open", "planned"} => answer \in {"open", "planned"},
         Trusted /\ answer \in {"open", "planned"} =>
           \A p \in Candidates' : /\ PlanFine(p, DOMAIN report)
                                  /\ strategy = "chunked" => KeepsPreserved(p)
  PROVE  AnswerInv'
<1> SUFFICES ASSUME answer \in {"open", "planned"}, Trusted'
             PROVE  /\ \A p \in Candidates' : PlanFine(p, DOMAIN report)'
                    /\ strategy = "chunked" => Carries(lead)' /\ \A p \in Candidates' : KeepsPreserved(p)'
  BY DEF AnswerInv
<1>1. Trusted
  BY DEF Trusted, KeptWellFormed
<1>2. ASSUME NEW p \in Candidates' PROVE PlanFine(p, DOMAIN report)'
  <2>1. PlanFine(p, DOMAIN report)
    BY <1>1, <1>2
  <2> QED BY <2>1 DEF PlanFine, Apart, RequestedIn, AsRequested
<1>3. ASSUME strategy = "chunked" PROVE Carries(lead)'
  <2>1. Carries(lead)
    BY <1>1, <1>3 DEF AnswerInv
  <2> QED BY <2>1 DEF Carries, AsRequested
<1>4. ASSUME strategy = "chunked", NEW p \in Candidates' PROVE KeepsPreserved(p)'
  <2>1. KeepsPreserved(p)
    BY <1>1, <1>4
  <2> QED BY <2>1 DEF KeepsPreserved
<1> QED BY <1>2, <1>3, <1>4

(* Only a Plan that is fine, and leaves what is kept alone, is offered.    *)
LEMMA OfferFine ==
  ASSUME AnswerInv, phase \in {"done", "failed"},
         NEW first, NEW more, NEW left, Offer(first, more, left),
         strategy = "greedy" => phase = "done" /\ first = plan,
         strategy = "chunked" => stage \in {"done", "failed"},
         Trusted => \A p \in {first} \cup more : PlanFine(p, DOMAIN left),
         Trusted /\ strategy = "chunked" =>
           Carries(first) /\ \A p \in {first} \cup more : KeepsPreserved(p)
  PROVE  AnswerInv'
<1>1. UNCHANGED <<req, phase, preserved, plan, stage, sweep, strategy>>
  BY DEF Offer, vars, sweepVars
<1>2. lead' = first /\ report' = left /\ Candidates' = {first} \cup more
  BY DEF Offer, Candidates
<1> SUFFICES ASSUME Trusted'
             PROVE  /\ \A p \in Candidates' : PlanFine(p, DOMAIN report)'
                    /\ strategy = "chunked" => Carries(lead)' /\ \A p \in Candidates' : KeepsPreserved(p)'
  BY <1>1, <1>2 DEF AnswerInv
<1>3. Trusted
  BY <1>1 DEF Trusted, KeptWellFormed
<1>4. ASSUME NEW p \in Candidates' PROVE PlanFine(p, DOMAIN report)'
  <2>1. PlanFine(p, DOMAIN left)
    BY <1>2, <1>3, <1>4
  <2> QED BY <1>1, <1>2, <2>1 DEF PlanFine, Apart, RequestedIn, AsRequested
<1>5. ASSUME strategy = "chunked" PROVE Carries(lead)'
  <2>1. Carries(first)
    BY <1>3, <1>5
  <2> QED BY <1>1, <1>2, <2>1 DEF Carries, AsRequested
<1>6. ASSUME strategy = "chunked", NEW p \in Candidates' PROVE KeepsPreserved(p)'
  <2>1. KeepsPreserved(p)
    BY <1>2, <1>3, <1>6
  <2> QED BY <1>1, <2>1 DEF KeepsPreserved
<1> QED BY <1>4, <1>5, <1>6

(* Every branch that gives up what the best one gives up shows a fine Plan.*)
LEMMA SweepPlansFine ==
  ASSUME SkeletonInv, SweepInv, ReadyInv, KeptWellFormed, stage = "done", NEW p \in SweepPlans
  PROVE  PlanFine(p, beam[1].excluded) /\ Carries(p) /\ KeepsPreserved(p)
<1>1. LiveInv /\ FixedInv /\ TypeOK
  BY DEF SweepInv, ReadyInv, SkeletonInv
<1>2. /\ Len(beam) # 0 /\ Len(beam) \in 0 .. BeamWidth /\ DOMAIN beam = 1 .. Len(beam)
      /\ \A i \in DOMAIN beam : beam[i].remaining = {}
  BY <1>1 DEF LiveInv, ScalarInv, ChunkInv
<1>3. 1 \in DOMAIN beam
  BY <1>2
<1>4. PICK i \in DOMAIN beam : beam[i].excluded = beam[1].excluded /\ p = SweepPlan(beam[i])
  BY DEF SweepPlans
<1>5. ASSUME NEW j \in DOMAIN beam PROVE BranchFine(req, sweep, protected, beam[j])
  BY <1>1 DEF LiveInv, BranchInv, Branches
<1>6. ASSUME NEW j \in DOMAIN beam
      PROVE  DOMAIN beam[j].placed = (Tasks \ DOMAIN sweep.fixed) \ beam[j].excluded
  <2>1. BranchAccounts(req, sweep, protected, beam[j]) /\ beam[j].remaining = {}
    BY <1>2, <1>5 DEF BranchFine
  <2> QED BY <2>1 DEF BranchAccounts
<1>7. DOMAIN sweep.fixed \cup DOMAIN beam[i].placed # {}
  <2>1. DOMAIN beam[i].placed = DOMAIN beam[1].placed
    BY <1>3, <1>4, <1>6
  <2> QED BY <2>1 DEF ReadyInv
<1>8. Grounded
  BY <1>1 DEF LiveInv, GroundInv
<1>9. PlanFine(SweepPlan(beam[i]), beam[i].excluded) /\ Carries(SweepPlan(beam[i]))
      /\ KeepsPreserved(SweepPlan(beam[i]))
  BY <1>1, <1>2, <1>4, <1>5, <1>7, <1>8, BranchPlanFine
<1> QED BY <1>4, <1>9


LEMMA OfferGreedyStep ==
  ASSUME SkeletonInv, SweepInv, ReadyInv, AnswerInv, OfferGreedy
  PROVE  AnswerInv'
<1>1. phase = "done" /\ Offer(plan, {}, unplaced)
  BY DEF OfferGreedy, GreedyPlanned
<1>2. strategy = "chunked" => stage \in {"done", "failed"}
  BY <1>1 DEF OfferGreedy, BothEnded
<1>3. PlanFine(plan, DOMAIN unplaced) /\ KeepsPreserved(plan)
  BY <1>1 DEF ReadyInv, PlanInv
<1>4. strategy = "chunked" => Carries(plan)
  BY <1>1, <1>2, GreedyCarries DEF SkeletonInv, ReadyInv
<1>5. {plan} \cup {} = {plan}
  OBVIOUS
<1> QED BY <1>1, <1>2, <1>3, <1>4, <1>5, OfferFine

LEMMA OfferSweepStep ==
  ASSUME SkeletonInv, SweepInv, ReadyInv, AnswerInv, OfferSweep
  PROVE  AnswerInv'
<1> DEFINE first == SweepPlan(beam[1])
           more == SweepPlans \cup (IF GreedyJoins THEN {plan} ELSE {})
           left == SweepReport(beam[1])
<1>1. /\ stage = "done" /\ phase \in {"done", "failed"} /\ Offer(first, more, left)
  BY DEF OfferSweep, Swept, BothEnded
<1>2. strategy = "chunked"
  BY <1>1 DEF AnswerInv
<1>3. DOMAIN left = beam[1].excluded
  BY DEF SweepReport
<1>4. first \in SweepPlans
  <2>1. /\ Len(beam) # 0 /\ Len(beam) \in 0 .. BeamWidth /\ DOMAIN beam = 1 .. Len(beam)
    BY <1>1 DEF SweepInv, LiveInv, ScalarInv, ChunkInv
  <2>2. 1 \in DOMAIN beam
    BY <2>1
  <2> QED BY <2>2 DEF SweepPlans
<1>5. ASSUME KeptWellFormed, NEW p \in {first} \cup more
      PROVE  PlanFine(p, DOMAIN left) /\ KeepsPreserved(p)
  <2>1. CASE p \in SweepPlans
    BY <1>1, <1>3, <1>5, <2>1, SweepPlansFine
  <2>2. CASE p \notin SweepPlans
    <3>1. p = plan /\ GreedyJoins
      BY <1>4, <1>5, <2>2
    <3>2. phase = "done" /\ DOMAIN unplaced = DOMAIN left
      BY <1>3, <3>1 DEF GreedyJoins, GreedyPlanned
    <3> QED BY <3>1, <3>2 DEF ReadyInv, PlanInv
  <2> QED BY <2>1, <2>2
<1>6. KeptWellFormed => Carries(first)
  BY <1>1, <1>4, SweepPlansFine
<1> HIDE DEF first, more, left
<1>7. Trusted => KeptWellFormed
  BY <1>2 DEF Trusted
<1> QED BY <1>1, <1>2, <1>5, <1>6, <1>7, OfferFine

LEMMA AddDelayStep ==
  ASSUME SkeletonInv, SweepInv, ReadyInv, AnswerInv, AddDelay
  PROVE  AnswerInv'
<1>1. /\ answer = "open" /\ answer' = answer
      /\ UNCHANGED <<req, phase, preserved, plan, stage, sweep, strategy, lead, report>>
  BY DEF AddDelay, vars, sweepVars
<1>2. PICK p \in Delays : others' = others \cup {p}
  BY DEF AddDelay
<1>3. Candidates' = Candidates \cup {p}
  BY <1>1, <1>2 DEF Candidates
<1>4. TypeOK /\ lead \in Candidates
  BY DEF SkeletonInv, Candidates
<1>5. ASSUME Trusted PROVE PlanFine(p, DOMAIN report) /\ (strategy = "chunked" => KeepsPreserved(p))
  <2>1. PlanFine(lead, DOMAIN report)
    BY <1>1, <1>4, <1>5 DEF AnswerInv
  <2>2. CASE strategy = "greedy"
    <3>1. phase = "done" /\ lead = plan /\ p \in SuffixDelays
      BY <1>1, <1>2, <2>2 DEF AnswerInv, Delays
    <3>2. IsSchedule(lead) /\ occupied = Reserved(lead)
      BY <3>1 DEF SkeletonInv, TypeOK, CalendarInv, CalendarExact
    <3> QED BY <1>4, <2>1, <2>2, <3>1, <3>2, SuffixDelayFine
  <2>3. CASE strategy = "chunked"
    <3>1. stage \in {"done", "failed"} /\ Carries(lead) /\ KeepsPreserved(lead) /\ KeptWellFormed
      BY <1>1, <1>4, <1>5, <2>3 DEF AnswerInv, Trusted
    <3>2. FixedInv
      BY <3>1 DEF ReadyInv
    <3>3. p \in TailDelays
      BY <1>2, <2>3 DEF Delays
    <3> QED BY <1>4, <2>1, <3>1, <3>2, <3>3, TailDelayFine
  <2> QED BY <2>2, <2>3 DEF AnswerInv
<1>6. ASSUME Trusted, NEW q \in Candidates'
      PROVE  PlanFine(q, DOMAIN report) /\ (strategy = "chunked" => KeepsPreserved(q))
  <2>1. CASE q = p
    BY <1>5, <1>6, <2>1
  <2>2. CASE q \in Candidates
    BY <1>1, <1>6, <2>2 DEF AnswerInv
  <2> QED BY <1>3, <1>6, <2>1, <2>2
<1> QED BY <1>1, <1>6, AnswerSame

(* The invariant of the two generators.                                    *)
CandidateInv == GeneratorInv /\ ReadyInv /\ AnswerInv

LEMMA CandidateBegins == CandidateInit => CandidateInv
<1> SUFFICES ASSUME CandidateInit PROVE CandidateInv
  OBVIOUS
<1>1. GeneratorInv
  BY GeneratorInit
<1>2. stage = "idle" /\ phase = "open" /\ answer = "pending" /\ strategy \in {"greedy", "chunked"}
  BY DEF CandidateInit, SweepInit, Init
<1>3. ReadyInv
  BY <1>2 DEF ReadyInv, PlanInv
<1>4. AnswerInv
  BY <1>2 DEF AnswerInv
<1> QED BY <1>1, <1>3, <1>4 DEF CandidateInv

LEMMA CandidateStep == CandidateInv /\ [CandidateNext]_allVars => CandidateInv'
<1> SUFFICES ASSUME CandidateInv, [CandidateNext]_allVars PROVE CandidateInv'
  OBVIOUS
<1>1. SkeletonInv /\ SweepInv /\ ReadyInv /\ AnswerInv
  BY DEF CandidateInv, GeneratorInv
<1>2. GeneratorInv'
  BY GeneratorStep DEF CandidateInv
<1>3. ASSUME UNCHANGED <<vars, sweepVars>> PROVE ReadyInv'
  BY <1>1, <1>3, ReadyGreedy
<1>4. CASE GreedyStep
  <2>1. Next /\ UNCHANGED sweepVars /\ UNCHANGED <<strategy, answerVars>>
    BY <1>4 DEF GreedyStep
  <2>2. ReadyInv'
    BY <1>1, <2>1, ReadyGreedy
  <2>3. answer \notin {"open", "planned"}
    BY <1>1, <2>1, EndedStays DEF AnswerInv
  <2>4. AnswerInv'
    BY <1>1, <2>1, <2>3 DEF AnswerInv, answerVars, sweepVars
  <2> QED BY <1>2, <2>2, <2>4 DEF CandidateInv
<1>5. CASE SweepRuns
  <2>1. strategy = "chunked" /\ SweepStep /\ UNCHANGED <<strategy, answerVars>>
    BY <1>5 DEF SweepRuns
  <2>2. ReadyInv'
    BY <1>1, <2>1, ReadySweep
  <2>3. answer \notin {"open", "planned"}
    BY <1>1, <2>1, SweepGoesOn DEF AnswerInv
  <2>4. AnswerInv'
    BY <1>1, <2>1, <2>3 DEF AnswerInv, answerVars
  <2> QED BY <1>2, <2>2, <2>4 DEF CandidateInv
<1>6. CASE Reject
  <2>1. UNCHANGED <<vars, sweepVars, strategy>> /\ answer' = "rejected"
    BY <1>6 DEF Reject
  <2>2. AnswerInv'
    BY <1>1, <2>1 DEF AnswerInv, sweepVars
  <2> QED BY <1>2, <1>3, <2>1, <2>2 DEF CandidateInv
<1>7. CASE OfferGreedy
  BY <1>1, <1>2, <1>3, <1>7, OfferGreedyStep DEF CandidateInv, OfferGreedy, Offer
<1>8. CASE OfferSweep
  BY <1>1, <1>2, <1>3, <1>8, OfferSweepStep DEF CandidateInv, OfferSweep, Offer
<1>9. CASE AddDelay
  BY <1>1, <1>2, <1>3, <1>9, AddDelayStep DEF CandidateInv, AddDelay
<1>10. CASE Answer \/ UNCHANGED allVars
  <2>1. /\ UNCHANGED <<vars, sweepVars, strategy, lead, others, report>>
        /\ answer' \in {"open", "planned"} => answer \in {"open", "planned"}
    BY <1>10 DEF Answer, allVars, answerVars
  <2>2. Candidates' = Candidates
    BY <2>1 DEF Candidates
  <2>3. UNCHANGED <<req, phase, preserved, plan, stage, sweep, strategy, lead, report>>
    BY <2>1 DEF vars, sweepVars
  <2>4. Trusted /\ answer \in {"open", "planned"} =>
           \A p \in Candidates' : PlanFine(p, DOMAIN report) /\ (strategy = "chunked" => KeepsPreserved(p))
    BY <1>1, <2>2 DEF AnswerInv
  <2>5. AnswerInv'
    BY <1>1, <2>1, <2>3, <2>4, AnswerSame
  <2> QED BY <1>2, <1>3, <2>1, <2>5 DEF CandidateInv
<1> QED BY <1>4, <1>5, <1>6, <1>7, <1>8, <1>9, <1>10 DEF CandidateNext

LEMMA CandidateInvariant == CandidateSpec => []CandidateInv
BY CandidateBegins, CandidateStep, PTL DEF CandidateSpec

LEMMA GeneratorWords ==
  ASSUME NEW p, NEW u
  PROVE  (/\ DOMAIN p # {} /\ u = Tasks \ DOMAIN p
          /\ ProtectedTasks(req, {}) \cap u = {}
          /\ ClosedUnderDependents(req, u)
          /\ Apart(p)
          /\ req.mode = "fresh" => ValidatePlan(req, p) /\ PreservesSlack(req, p))
         => GeneratorContract!Acceptable(req, p, u)
<1>1. GeneratorContract!ProtectedTasks(req, {}) = ProtectedTasks(req, {})
  BY DEF GeneratorContract!ProtectedTasks, ProtectedTasks, GeneratorContract!Prerequisites, Prerequisites,
         GeneratorContract!ClosedUnderDeps, ClosedUnderDeps
<1>2. GeneratorContract!ClosedUnderDependents(req, u) <=> ClosedUnderDependents(req, u)
  BY DEF GeneratorContract!ClosedUnderDependents, ClosedUnderDependents
<1>3. GeneratorContract!NothingShared(p) <=> Apart(p)
  BY DEF Apart, GeneratorContract!NothingShared, GeneratorContract!Overlaps, Overlaps
<1>4. GeneratorContract!ValidatePlan(req, p) <=> ValidatePlan(req, p)
  BY DEF GeneratorContract!ValidatePlan, ValidatePlan, GeneratorContract!Position, Position
<1>5. GeneratorContract!PreservesSlack(req, p) <=> PreservesSlack(req, p)
  BY DEF GeneratorContract!PreservesSlack, PreservesSlack, GeneratorContract!StepAdmissible, StepAdmissible,
         GeneratorContract!InPlanWindow, InPlanWindow
<1> QED BY <1>1, <1>2, <1>3, <1>4, <1>5 DEF GeneratorContract!Acceptable

(***************************************************************************)
(* Every candidate a generator offers, the greedy Plan, the sweep's and    *)
(* every delayed one, can be relied on: it shares no time, spares          *)
(* protected work, leaves out whole branches of dependents, exactly those  *)
(* of the one report, passes both cheap checks when the request is fresh,  *)
(* and the delays of the sweep move no kept step.  Of the sweep this is    *)
(* promised when every kept step takes time (generate_candidates,          *)
(* bounded_perturbations, add_tail_delays).                                *)
(***************************************************************************)
THEOREM CandidatesCanBeTrusted == CandidateSpec => []CandidatesAcceptable
<1>1. CandidateInv => CandidatesAcceptable
  <2> SUFFICES ASSUME CandidateInv, answer \in {"open", "planned"}, Trusted
               PROVE  /\ \A p \in Candidates : GeneratorContract!Acceptable(req, p, DOMAIN report)
                      /\ strategy = "chunked" => KeptStepsStay
    BY DEF CandidatesAcceptable, Trusted
  <2>1. TypeOK /\ \A p \in Candidates : PlanFine(p, DOMAIN report)
    BY DEF CandidateInv, AnswerInv, GeneratorInv, SkeletonInv
  <2>2. ASSUME NEW p \in Candidates PROVE GeneratorContract!Acceptable(req, p, DOMAIN report)
    <3>1. PlanFine(p, DOMAIN report)
      BY <2>1, <2>2
    <3>2. req.mode = "fresh" => ValidatePlan(req, p) /\ PreservesSlack(req, p)
      BY <2>1, <3>1, RequestedPlanAccepted DEF PlanFine
    <3> QED BY <3>1, <3>2, GeneratorWords DEF PlanFine
  <2>3. strategy = "chunked" => KeptStepsStay
    BY DEF CandidateInv, AnswerInv, KeptStepsStay, KeepsPreserved
  <2> QED BY <2>2, <2>3
<1> QED BY <1>1, CandidateInvariant, PTL



-----------------------------------------------------------------------------
(***************************************************************************)
(* The reports.  The greedy one says what was excluded and why; the        *)
(* sweep's, what its best branch gave up.                                  *)
(***************************************************************************)
GreedyReported == phase = "done" => unplaced = [t \in excluded |-> Report(t)]

LEMMA GreedyReportedStep ==
  ASSUME GreedyReported, [Next]_vars
  PROVE  GreedyReported'
<1>1. CASE UNCHANGED vars
  BY <1>1 DEF vars, GreedyReported, Report
<1>2. CASE Next /\ phase' = "done"
  <2>1. Emit
    BY <1>2, OnlyEmitEnds
  <2>2. unplaced' = [t \in excluded |-> Report(t)] /\ UNCHANGED <<req, omitted, excluded>>
    BY <1>2, <2>1 DEF Emit, Fail
  <2> QED BY <2>2 DEF GreedyReported, Report
<1>3. CASE phase' # "done"
  BY <1>3 DEF GreedyReported
<1> QED BY <1>1, <1>2, <1>3

(* What ReportTrue says of one entry of a report on a Plan.                *)
LostTo(p, chunks) == \E c \in chunks : OptionalIn(c.start, c.end, p)

EntryTrue(entry, p, chunks, gone) ==
  /\ entry.reason = "omitted_lower_value" => LostTo(p, chunks)
  /\ entry.reason = "deferred_dependency" => entry.deferred # {} /\ entry.deferred \subseteq gone
  /\ entry.affected \subseteq gone

LEMMA GreedyEntryTrue ==
  ASSUME SkeletonInv, GreedyReported, phase = "done", NEW t \in DOMAIN unplaced
  PROVE  /\ "chunks" \notin DOMAIN unplaced[t]
         /\ EntryTrue(unplaced[t], plan, {EffectiveWindow(req, t)}, DOMAIN unplaced)
<1>1. TypeOK /\ SearchInv
  BY DEF SkeletonInv
<1>2. DOMAIN unplaced = excluded /\ unplaced[t] = Report(t) /\ t \in Tasks
  BY <1>1 DEF GreedyReported, TypeOK
<1>3. "chunks" \notin DOMAIN Report(t) /\ Report(t).affected \subseteq excluded
      /\ Report(t).reason = (IF t \in DOMAIN omitted THEN omitted[t] ELSE "deferred_dependency")
  BY DEF Report
<1>4. /\ unplaced[t].reason = "omitted_lower_value" =>
           \E u \in DOMAIN plan \ protected :
             Overlaps(MinimumStart(t), EffectiveWindow(req, t).end, plan[u])
      /\ unplaced[t].reason = "deferred_dependency" =>
           unplaced[t].deferred # {} /\ unplaced[t].deferred \subseteq DOMAIN unplaced
  BY <1>1 DEF SearchInv, ReportHonest
<1>5. ASSUME unplaced[t].reason = "omitted_lower_value"
      PROVE  LostTo(plan, {EffectiveWindow(req, t)})
  <2>1. t \in DOMAIN omitted
    BY <1>2, <1>3, <1>5
  <2>2. DependenciesScheduled(t)
    BY <1>1, <2>1 DEF SearchInv, ReasonTrue
  <2>3. /\ MinimumStart(t) \in Int /\ EffectiveWindow(req, t).start \in Int
        /\ EffectiveWindow(req, t).start <= MinimumStart(t)
    <3>1. MinimumStart(t) \in Time /\ EffectiveWindow(req, t).start <= MinimumStart(t)
      BY <1>1, <1>2, <2>2, MinimumStartBounds
    <3>2. EffectiveWindow(req, t) \in Window
      BY <1>1, <1>2, RequestFacts, EffectiveWindowType
    <3> QED BY <3>1, <3>2, TimeAssumption DEF Time, Window
  <2>4. PICK u \in DOMAIN plan \ protected :
          Overlaps(MinimumStart(t), EffectiveWindow(req, t).end, plan[u])
    BY <1>4, <1>5
  <2>5. plan[u].end \in Int
    BY <1>1, TimeAssumption DEF TypeOK, IsSchedule, Step, Time
  <2>6. Overlaps(EffectiveWindow(req, t).start, EffectiveWindow(req, t).end, plan[u])
    BY <2>3, <2>4, <2>5 DEF Overlaps
  <2> QED BY <2>6 DEF LostTo, OptionalIn
<1> QED BY <1>2, <1>3, <1>4, <1>5 DEF EntryTrue

LEMMA SweepEntryTrue ==
  ASSUME NEW b, BranchFine(req, sweep, protected, b), NEW t \in b.excluded
  PROVE  /\ "chunks" \in DOMAIN SweepReport(b)[t]
         /\ EntryTrue(SweepReport(b)[t], SweepPlan(b), SweepReport(b)[t].chunks, b.excluded)
<1> DEFINE entry == SweepReport(b)[t]
<1>1. /\ "chunks" \in DOMAIN entry /\ entry.chunks = b.offered[t]
      /\ entry.affected \subseteq b.excluded
      /\ entry.reason = (IF t \in DOMAIN b.omitted THEN b.omitted[t] ELSE "deferred_dependency")
      /\ entry.deferred = (IF t \in DOMAIN b.omitted THEN {} ELSE req.deps[t] \cap b.excluded)
  BY DEF SweepReport
<1> HIDE DEF entry
<1>2. BranchTyped(sweep, b) /\ BranchHonest(req, protected, b)
  BY DEF BranchFine
<1>3. ASSUME entry.reason = "omitted_lower_value" PROVE LostTo(SweepPlan(b), entry.chunks)
  <2>1. t \in DOMAIN b.omitted /\ b.omitted[t] = "omitted_lower_value"
    BY <1>1, <1>3
  <2>2. PICK c \in b.offered[t], u \in DOMAIN b.placed \ protected :
          Overlaps(c.start, c.end, b.placed[u])
    BY <1>2, <2>1 DEF BranchHonest, LostInBranch
  <2>3. u \in DOMAIN SweepPlan(b) \ protected /\ SweepPlan(b)[u] = b.placed[u]
    BY <1>2, <2>2 DEF SweepPlan, BranchTyped
  <2> QED BY <1>1, <2>2, <2>3 DEF LostTo, OptionalIn
<1>4. ASSUME entry.reason = "deferred_dependency"
      PROVE  entry.deferred # {} /\ entry.deferred \subseteq b.excluded
  <2>1. t \notin DOMAIN b.omitted
    <3>1. ASSUME t \in DOMAIN b.omitted PROVE FALSE
      <4>1. b.omitted[t] \in SweepReasons /\ b.omitted[t] = "deferred_dependency"
        BY <1>1, <1>2, <1>4, <3>1 DEF BranchTyped
      <4> QED BY <4>1 DEF SweepReasons
    <3> QED BY <3>1
  <2> QED BY <1>1, <1>2, <2>1 DEF BranchHonest
<1> QED BY <1>1, <1>3, <1>4 DEF EntryTrue, entry

ReportInv ==
  /\ GreedyReported
  /\ answer \notin {"open", "planned"} => DOMAIN report = {}
  /\ ReportTrue

LEMMA ReportOffered ==
  ASSUME UNCHANGED <<req, protected>>,
         \A t \in DOMAIN report' :
           EntryTrue(report'[t], lead',
                     IF "chunks" \in DOMAIN report'[t] THEN report'[t].chunks ELSE {EffectiveWindow(req, t)},
                     DOMAIN report')
  PROVE  ReportTrue'
BY DEF ReportTrue, EntryTrue, LostTo, Offered, OptionalIn

LEMMA ReportSame ==
  ASSUME ReportTrue, UNCHANGED <<req, protected, lead, report>>
  PROVE  ReportTrue'
BY DEF ReportTrue, Offered, OptionalIn

LEMMA ReportEmpty ==
  ASSUME DOMAIN report = {}
  PROVE  ReportTrue
BY DEF ReportTrue


LEMMA ReportBegins == CandidateInit => ReportInv
<1> SUFFICES ASSUME CandidateInit PROVE ReportInv
  OBVIOUS
<1>1. phase = "open" /\ answer = "pending" /\ report = <<>>
  BY DEF CandidateInit, SweepInit, Init, Empty
<1>2. DOMAIN report = {}
  BY <1>1
<1>3. ReportTrue
  BY <1>2, ReportEmpty
<1>4. GreedyReported
  BY <1>1 DEF GreedyReported
<1> QED BY <1>2, <1>3, <1>4 DEF ReportInv

LEMMA ReportStep == CandidateInv /\ ReportInv /\ [CandidateNext]_allVars => ReportInv'
<1> SUFFICES ASSUME CandidateInv, ReportInv, [CandidateNext]_allVars PROVE ReportInv'
  OBVIOUS
<1>1. SkeletonInv /\ SweepInv /\ AnswerInv /\ GreedyReported /\ ReportTrue
  BY DEF CandidateInv, GeneratorInv, ReportInv
<1>2. ASSUME UNCHANGED vars PROVE GreedyReported' /\ UNCHANGED <<req, protected>>
  <2>1. GreedyReported'
    BY <1>1, <1>2, GreedyReportedStep
  <2> QED BY <1>2, <2>1 DEF vars
<1>3. ASSUME answer \notin {"open", "planned"}, UNCHANGED <<lead, report>>
      PROVE  DOMAIN report' = {} /\ ReportTrue'
  <2>1. DOMAIN report' = {}
    BY <1>3 DEF ReportInv
  <2> QED BY <2>1 DEF ReportTrue
<1>4. CASE GreedyStep
  <2>1. Next /\ UNCHANGED <<answer, lead, report>>
    BY <1>4 DEF GreedyStep, answerVars
  <2>2. answer \notin {"open", "planned"}
    BY <1>1, <2>1, EndedStays DEF AnswerInv
  <2>3. GreedyReported'
    BY <1>1, <2>1, GreedyReportedStep
  <2> QED BY <1>3, <2>1, <2>2, <2>3 DEF ReportInv
<1>5. CASE SweepRuns
  <2>1. strategy = "chunked" /\ SweepStep /\ UNCHANGED <<answer, lead, report>>
    BY <1>5 DEF SweepRuns, answerVars
  <2>2. answer \notin {"open", "planned"}
    BY <1>1, <2>1, SweepGoesOn DEF AnswerInv
  <2>3. UNCHANGED vars
    BY <1>1, <2>1, SweepRunning
  <2> QED BY <1>2, <1>3, <2>1, <2>2, <2>3 DEF ReportInv
<1>6. CASE Reject
  <2>1. UNCHANGED vars /\ UNCHANGED <<lead, report>> /\ answer = "pending"
    BY <1>6 DEF Reject, BothEnded
  <2> QED BY <1>2, <1>3, <2>1 DEF ReportInv
<1>7. CASE OfferGreedy
  <2>1. /\ UNCHANGED vars /\ answer' = "open" /\ lead' = plan /\ report' = unplaced /\ phase = "done"
    BY <1>7 DEF OfferGreedy, GreedyPlanned, Offer
  <2>2. ASSUME NEW t \in DOMAIN report'
        PROVE  EntryTrue(report'[t], lead',
                         IF "chunks" \in DOMAIN report'[t] THEN report'[t].chunks
                                                           ELSE {EffectiveWindow(req, t)},
                         DOMAIN report')
    <3>1. /\ "chunks" \notin DOMAIN unplaced[t]
          /\ EntryTrue(unplaced[t], plan, {EffectiveWindow(req, t)}, DOMAIN unplaced)
      BY <1>1, <2>1, <2>2, GreedyEntryTrue
    <3> QED BY <2>1, <3>1
  <2>3. ReportTrue'
    BY <1>2, <2>1, <2>2, ReportOffered
  <2> QED BY <1>2, <2>1, <2>3 DEF ReportInv
<1>8. CASE OfferSweep
  <2>1. /\ UNCHANGED vars /\ answer' = "open" /\ stage = "done"
        /\ lead' = SweepPlan(beam[1]) /\ report' = SweepReport(beam[1])
    BY <1>8 DEF OfferSweep, Swept, Offer
  <2>2. DOMAIN report' = beam[1].excluded
    BY <2>1 DEF SweepReport
  <2>3. BranchFine(req, sweep, protected, beam[1])
    <3>1. /\ Len(beam) # 0 /\ Len(beam) \in 0 .. BeamWidth /\ DOMAIN beam = 1 .. Len(beam)
      BY <1>1, <2>1 DEF SweepInv, LiveInv, ScalarInv, ChunkInv
    <3>2. 1 \in DOMAIN beam
      BY <3>1
    <3>3. beam[1] \in Branches
      BY <3>2 DEF Branches
    <3> QED BY <1>1, <2>1, <3>3 DEF SweepInv, LiveInv, BranchInv
  <2>4. ASSUME NEW t \in DOMAIN report'
        PROVE  EntryTrue(report'[t], lead',
                         IF "chunks" \in DOMAIN report'[t] THEN report'[t].chunks
                                                           ELSE {EffectiveWindow(req, t)},
                         DOMAIN report')
    <3>1. t \in beam[1].excluded
      BY <2>2, <2>4
    <3>2. /\ "chunks" \in DOMAIN SweepReport(beam[1])[t]
          /\ EntryTrue(SweepReport(beam[1])[t], SweepPlan(beam[1]), SweepReport(beam[1])[t].chunks,
                       beam[1].excluded)
      BY <2>3, <3>1, SweepEntryTrue
    <3> QED BY <2>1, <2>2, <3>2
  <2>5. ReportTrue'
    BY <1>2, <2>1, <2>4, ReportOffered
  <2> QED BY <1>2, <2>1, <2>5 DEF ReportInv
<1>9. CASE AddDelay \/ Answer \/ UNCHANGED allVars
  <2>1. /\ UNCHANGED vars /\ UNCHANGED <<lead, report>>
        /\ answer' \notin {"open", "planned"} => answer \notin {"open", "planned"}
    BY <1>9 DEF AddDelay, Answer, allVars, answerVars
  <2>2. ReportTrue'
    BY <1>1, <1>2, <2>1, ReportSame
  <2> QED BY <1>2, <2>1, <2>2 DEF ReportInv
<1> QED BY <1>4, <1>5, <1>6, <1>7, <1>8, <1>9 DEF CandidateNext

(***************************************************************************)
(* The report is true of the first candidate, whichever planner it is of   *)
(* and whatever was placed or given up after a reason was found: optional  *)
(* work stands where a Task that lost to it could have gone, a Task that   *)
(* went with another waits for a reported one, and the dependents an entry *)
(* names are reported (unplaced_report, exclude_with_dependents).          *)
(***************************************************************************)
THEOREM ReportCanBeTrusted == CandidateSpec => []ReportTrue
<1>1. CandidateSpec => []ReportInv
  BY ReportBegins, ReportStep, CandidateInvariant, PTL DEF CandidateSpec
<1>2. ReportInv => ReportTrue
  BY DEF ReportInv
<1> QED BY <1>1, <1>2, PTL

-----------------------------------------------------------------------------
(***************************************************************************)
(* The worker's solver.  Its rounds of spreading along edges exist, and as *)
(* many rounds as there are Tasks reach everything: a round that adds      *)
(* nothing ends the spreading, and every other adds a Task.                *)
(***************************************************************************)
Round(edges, R) == R \cup UNION {edges[t] : t \in R}

Rounds(S, edges, n, f) ==
  f = [i \in 0 .. n |-> IF i = 0 THEN S ELSE Round(edges, f[i - 1])]

LEMMA RoundsExist ==
  ASSUME NEW S, NEW edges, NEW n \in Nat
  PROVE  \E f : Rounds(S, edges, n, f)
<1> DEFINE missing == {m \in Nat : ~\E f : Rounds(S, edges, m, f)}
<1>1. \E f : Rounds(S, edges, 0, f)
  <2>1. Rounds(S, edges, 0, [i \in 0 .. 0 |-> S])
    BY DEF Rounds
  <2> QED BY <2>1
<1>2. ASSUME NEW m \in Nat, NEW f, Rounds(S, edges, m, f)
      PROVE  \E g : Rounds(S, edges, m + 1, g)
  <2> DEFINE round(h, i) == Round(edges, h[i - 1])
             g == [i \in 0 .. m + 1 |-> IF i <= m THEN f[i] ELSE round(f, i)]
  <2>1. \A i \in 0 .. m : f[i] = IF i = 0 THEN S ELSE round(f, i)
    BY <1>2 DEF Rounds
  <2>2. ASSUME NEW i \in 0 .. m + 1, i # 0 PROVE g[i - 1] = f[i - 1]
    BY <2>2
  <2>3. ASSUME NEW i \in 0 .. m + 1 PROVE g[i] = IF i = 0 THEN S ELSE round(g, i)
    <3>1. CASE i = 0
      BY <2>1, <3>1
    <3>2. CASE i # 0
      <4>1. g[i] = round(f, i)
        BY <2>1, <3>2
      <4> HIDE DEF g
      <4> QED BY <2>2, <3>2, <4>1
    <3> QED BY <3>1, <3>2
  <2>4. g = [i \in 0 .. m + 1 |-> g[i]]
    OBVIOUS
  <2> HIDE DEF g
  <2>5. Rounds(S, edges, m + 1, g)
    BY <2>3, <2>4 DEF Rounds
  <2> QED BY <2>5
<1>3. ASSUME missing # {} PROVE FALSE
  <2>1. PICK m \in missing : \A k \in missing : m <= k
    <3>1. missing \in SUBSET Nat
      OBVIOUS
    <3> HIDE DEF missing
    <3> QED BY <1>3, <3>1, LeastNatural
  <2>2. m \in Nat /\ m # 0
    BY <1>1
  <2>3. m - 1 \in Nat /\ m - 1 \notin missing /\ (m - 1) + 1 = m
    BY <2>1, <2>2
  <2>4. PICK f : Rounds(S, edges, m - 1, f)
    BY <2>3
  <2>5. \E g : Rounds(S, edges, m, g)
    BY <1>2, <2>3, <2>4
  <2> QED BY <2>1, <2>5
<1> QED BY <1>3

ClosedAlong(edges, C) == \A t \in C : edges[t] \subseteq C

LEMMA SpreadFacts ==
  ASSUME IsFiniteSet(Tasks), NEW S \in SUBSET Tasks, NEW edges \in [Tasks -> SUBSET Tasks]
  PROVE  /\ S \subseteq Spread(S, edges) /\ Spread(S, edges) \in SUBSET Tasks
         /\ ClosedAlong(edges, Spread(S, edges))
         /\ \A C \in SUBSET Tasks : S \subseteq C /\ ClosedAlong(edges, C) => Spread(S, edges) \subseteq C
<1> DEFINE N == Cardinality(Tasks)
           after == CHOOSE f : Rounds(S, edges, N, f)
           Good(n) ==
             /\ after[n] \in SUBSET Tasks /\ S \subseteq after[n]
             /\ Cardinality(after[n]) >= n \/ ClosedAlong(edges, after[n])
             /\ \A C \in SUBSET Tasks : S \subseteq C /\ ClosedAlong(edges, C) => after[n] \subseteq C
           bad == {n \in 0 .. N : ~Good(n)}
<1>1. N \in Nat
  BY FS_CardinalityType
<1>2. Rounds(S, edges, N, after)
  BY <1>1, RoundsExist
<1>3. Spread(S, edges) = after[N]
  BY DEF Spread, Rounds, Round
<1> HIDE DEF after, N
<1>4. /\ after[0] = S
      /\ \A n \in 1 .. N : after[n] = Round(edges, after[n - 1])
  BY <1>1, <1>2 DEF Rounds
<1>5. Good(0)
  <2>1. Cardinality(S) \in Nat
    BY FS_Subset, FS_CardinalityType
  <2> QED BY <1>4, <2>1
<1>6. ASSUME NEW n \in 1 .. N, Good(n - 1) PROVE Good(n)
  <2> DEFINE A == after[n - 1]
             B == after[n]
  <2>1. B = A \cup UNION {edges[t] : t \in A} /\ A \in SUBSET Tasks
    BY <1>4, <1>6 DEF Round
  <2>2. B \in SUBSET Tasks /\ S \subseteq B /\ A \subseteq B
    BY <1>6, <2>1
  <2>3. ASSUME NEW C \in SUBSET Tasks, S \subseteq C, ClosedAlong(edges, C) PROVE B \subseteq C
    BY <1>6, <2>1, <2>3 DEF ClosedAlong
  <2>4. CASE ClosedAlong(edges, A)
    <3>1. B = A
      BY <2>1, <2>4 DEF ClosedAlong
    <3> QED BY <2>2, <2>3, <2>4, <3>1
  <2>5. CASE ~ClosedAlong(edges, A)
    <3>1. Cardinality(A) >= n - 1
      BY <1>6, <2>5
    <3>2. B # A
      BY <2>1, <2>5 DEF ClosedAlong
    <3>3. IsFiniteSet(B) /\ Cardinality(B) \in Nat /\ Cardinality(A) \in Nat
      BY <2>1, <2>2, FS_Subset, FS_CardinalityType
    <3> HIDE DEF A, B
    <3>4. Cardinality(A) < Cardinality(B)
      BY <2>2, <3>2, <3>3, FS_Subset
    <3>5. Cardinality(B) >= n
      BY <3>1, <3>3, <3>4
    <3> QED BY <2>2, <2>3, <3>5 DEF B
  <2> QED BY <2>4, <2>5
<1>7. ASSUME bad # {} PROVE FALSE
  <2>1. bad \in SUBSET Nat
    BY <1>1
  <2>2. PICK n \in bad : \A k \in bad : n <= k
    <3> HIDE DEF bad
    <3> QED BY <1>7, <2>1, LeastNatural
  <2>3. n \in 1 .. N /\ n - 1 \in 0 .. N /\ n - 1 \notin bad
    <3>1. n # 0
      BY <1>5, <2>2
    <3>2. n \in 1 .. N /\ n - 1 \in 0 .. N
      BY <1>1, <2>2, <3>1
    <3> HIDE DEF Good
    <3> QED BY <1>1, <2>2, <3>2
  <2> HIDE DEF Good
  <2> QED BY <1>6, <2>2, <2>3
<1>8. Good(N)
  <2> HIDE DEF Good
  <2> QED BY <1>1, <1>7
<1>9. ClosedAlong(edges, after[N])
  <2>1. CASE Cardinality(after[N]) >= N
    <3>1. after[N] = Tasks
      <4>1. Cardinality(after[N]) <= N /\ Cardinality(after[N]) \in Nat /\ IsFiniteSet(after[N])
        BY <1>8, FS_Subset, FS_CardinalityType DEF N
      <4>2. Cardinality(after[N]) = N
        BY <1>1, <2>1, <4>1
      <4> QED BY <1>8, <4>2, FS_Subset DEF N
    <3> QED BY <3>1 DEF ClosedAlong
  <2> QED BY <1>8, <2>1
<1> QED BY <1>3, <1>8, <1>9

(***************************************************************************)
(* So the solver protects what the planner protects, and drops with a Task *)
(* what the planner drops.                                                 *)
(***************************************************************************)
LEMMA SpreadIsPrerequisites ==
  ASSUME IsFiniteSet(Tasks), NEW r, r.deps \in [Tasks -> SUBSET Tasks], NEW S \in SUBSET Tasks
  PROVE  Spread(S, r.deps) = Prerequisites(r, S)
<1>1. \A C : ClosedAlong(r.deps, C) <=> ClosedUnderDeps(r, C)
  BY DEF ClosedAlong, ClosedUnderDeps
<1>2. /\ S \subseteq Spread(S, r.deps) /\ Spread(S, r.deps) \in SUBSET Tasks
      /\ ClosedUnderDeps(r, Spread(S, r.deps))
      /\ \A C \in SUBSET Tasks : S \subseteq C /\ ClosedUnderDeps(r, C) => Spread(S, r.deps) \subseteq C
  BY <1>1, SpreadFacts
<1>3. Prerequisites(r, S) \subseteq Spread(S, r.deps)
  BY <1>2, PrerequisitesLeast
<1>4. Spread(S, r.deps) \subseteq Prerequisites(r, S)
  BY <1>2, PrerequisitesClosed
<1> QED BY <1>3, <1>4

LEMMA ExcludeWithIs ==
  ASSUME IsFiniteSet(Tasks), NEW r, r.deps \in [Tasks -> SUBSET Tasks], NEW t \in Tasks,
         NEW E \in SUBSET Tasks, ClosedUnderDependents(r, E)
  PROVE  ExcludeWith(r, E \cup {t}) = E \cup WithDependents(r, {t})
<1> DEFINE F == ExcludeWith(r, E \cup {t})
           G == E \cup WithDependents(r, {t})
<1>1. Waiters(r) \in [Tasks -> SUBSET Tasks]
  BY DEF Waiters
<1>2. \A C \in SUBSET Tasks : ClosedAlong(Waiters(r), C) <=> ClosedUnderDependents(r, C)
  <2>1. TAKE C \in SUBSET Tasks
  <2>2. ASSUME ClosedAlong(Waiters(r), C), NEW u \in Tasks, NEW d \in r.deps[u] \cap C PROVE u \in C
    BY <2>2 DEF ClosedAlong, Waiters
  <2>3. ASSUME ClosedUnderDependents(r, C), NEW d \in C, NEW u \in Waiters(r)[d] PROVE u \in C
    BY <2>3 DEF ClosedUnderDependents, Waiters
  <2> QED BY <2>2, <2>3 DEF ClosedAlong, ClosedUnderDependents
<1>3. /\ E \cup {t} \subseteq F /\ F \in SUBSET Tasks /\ ClosedUnderDependents(r, F)
      /\ \A C \in SUBSET Tasks : E \cup {t} \subseteq C /\ ClosedUnderDependents(r, C) => F \subseteq C
  BY <1>1, <1>2, SpreadFacts DEF ExcludeWith
<1>4. {t} \subseteq WithDependents(r, {t}) /\ G \in SUBSET Tasks /\ ClosedUnderDependents(r, WithDependents(r, {t}))
  BY WithDependentsClosed
<1>5. ClosedUnderDependents(r, G)
  BY <1>4 DEF ClosedUnderDependents
<1>6. F \subseteq G
  BY <1>3, <1>4, <1>5
<1>7. WithDependents(r, {t}) \subseteq F
  BY <1>3 DEF WithDependents
<1> QED BY <1>3, <1>6, <1>7

-----------------------------------------------------------------------------
(***************************************************************************)
(* The turns of its two loops: they exist, each follows from the one       *)
(* before, and a failure stays.                                            *)
(***************************************************************************)
Turn(loop, r, sol, t) == IF loop = "settle" THEN Settle(r, sol, t) ELSE Affix(r, sol, t)

Turns(loop, base, r, n, f) ==
  f = [i \in 0 .. n |-> IF i = 0 THEN base ELSE Turn(loop, r, f[i - 1], r.order[i])]

LEMMA TurnsExist ==
  ASSUME NEW loop, NEW base, NEW r, NEW n \in Nat
  PROVE  \E f : Turns(loop, base, r, n, f)
<1> DEFINE missing == {m \in Nat : ~\E f : Turns(loop, base, r, m, f)}
<1>1. \E f : Turns(loop, base, r, 0, f)
  <2>1. Turns(loop, base, r, 0, [i \in 0 .. 0 |-> base])
    BY DEF Turns
  <2> QED BY <2>1
<1>2. ASSUME NEW m \in Nat, NEW f, Turns(loop, base, r, m, f)
      PROVE  \E g : Turns(loop, base, r, m + 1, g)
  <2> DEFINE oneTurn(h, i) == Turn(loop, r, h[i - 1], r.order[i])
             g == [i \in 0 .. m + 1 |-> IF i <= m THEN f[i] ELSE oneTurn(f, i)]
  <2>1. \A i \in 0 .. m : f[i] = IF i = 0 THEN base ELSE oneTurn(f, i)
    BY <1>2 DEF Turns
  <2>2. ASSUME NEW i \in 0 .. m + 1, i # 0 PROVE g[i - 1] = f[i - 1]
    BY <2>2
  <2>3. ASSUME NEW i \in 0 .. m + 1 PROVE g[i] = IF i = 0 THEN base ELSE oneTurn(g, i)
    <3>1. CASE i = 0
      BY <2>1, <3>1
    <3>2. CASE i # 0
      <4>1. g[i] = oneTurn(f, i)
        BY <2>1, <3>2
      <4> HIDE DEF g
      <4> QED BY <2>2, <3>2, <4>1
    <3> QED BY <3>1, <3>2
  <2>4. g = [i \in 0 .. m + 1 |-> g[i]]
    OBVIOUS
  <2> HIDE DEF g
  <2>5. Turns(loop, base, r, m + 1, g)
    BY <2>3, <2>4 DEF Turns
  <2> QED BY <2>5
<1>3. ASSUME missing # {} PROVE FALSE
  <2>1. PICK m \in missing : \A k \in missing : m <= k
    <3>1. missing \in SUBSET Nat
      OBVIOUS
    <3> HIDE DEF missing
    <3> QED BY <1>3, <3>1, LeastNatural
  <2>2. m \in Nat /\ m # 0
    BY <1>1
  <2>3. m - 1 \in Nat /\ m - 1 \notin missing /\ (m - 1) + 1 = m
    BY <2>1, <2>2
  <2>4. PICK f : Turns(loop, base, r, m - 1, f)
    BY <2>3
  <2>5. \E g : Turns(loop, base, r, m, g)
    BY <1>2, <2>3, <2>4
  <2> QED BY <2>1, <2>5
<1> QED BY <1>3

LEMMA AffixingTurns ==
  ASSUME NEW r, Len(r.order) \in Nat
  PROVE  /\ AfterAffixing(r)[0] = Unsettled
         /\ \A n \in 1 .. Len(r.order) :
              AfterAffixing(r)[n] = Affix(r, AfterAffixing(r)[n - 1], r.order[n])
<1> DEFINE last == Len(r.order)
           after == CHOOSE f : Turns("affix", Unsettled, r, last, f)
<1>1. Turns("affix", Unsettled, r, last, after)
  BY TurnsExist
<1>2. AfterAffixing(r) = after
  BY DEF AfterAffixing, Turns, Turn
<1> HIDE DEF after
<1>3. \A i \in 0 .. last : after[i] = IF i = 0 THEN Unsettled ELSE Turn("affix", r, after[i - 1], r.order[i])
  BY <1>1 DEF Turns
<1>4. 0 \in 0 .. last /\ \A n \in 1 .. last : n \in 0 .. last /\ n # 0
  OBVIOUS
<1> QED BY <1>2, <1>3, <1>4 DEF Turn

LEMMA SettlingTurns ==
  ASSUME NEW r, Len(r.order) \in Nat
  PROVE  /\ AfterSettling(r)[0] = AfterAffixing(r)[Len(r.order)]
         /\ \A n \in 1 .. Len(r.order) :
              AfterSettling(r)[n] = Settle(r, AfterSettling(r)[n - 1], r.order[n])
<1> DEFINE last == Len(r.order)
           base == AfterAffixing(r)[Len(r.order)]
           after == CHOOSE f : Turns("settle", base, r, last, f)
<1>1. Turns("settle", base, r, last, after)
  BY TurnsExist
<1>2. AfterSettling(r) = after
  BY DEF AfterSettling, Turns, Turn
<1> HIDE DEF after, base
<1>3. \A i \in 0 .. last : after[i] = IF i = 0 THEN base ELSE Turn("settle", r, after[i - 1], r.order[i])
  BY <1>1 DEF Turns
<1>4. 0 \in 0 .. last /\ \A n \in 1 .. last : n \in 0 .. last /\ n # 0
  OBVIOUS
<1> QED BY <1>2, <1>3, <1>4 DEF Turn, base

Follows(loop, r, last, f) == \A i \in 1 .. last : f[i] = Turn(loop, r, f[i - 1], r.order[i])

LEMMA FailureStays ==
  ASSUME NEW loop, NEW r, NEW f, NEW last \in Nat, Follows(loop, r, last, f),
         NEW n \in 0 .. last, f[n].failure # NoFailure
  PROVE  f[last] = f[n]
<1> DEFINE differ == {m \in n .. last : f[m] # f[n]}
<1>1. ASSUME differ # {} PROVE FALSE
  <2>1. differ \in SUBSET Nat
    OBVIOUS
  <2>2. PICK m \in differ : \A k \in differ : m <= k
    <3> HIDE DEF differ
    <3> QED BY <1>1, <2>1, LeastNatural
  <2>3. m # n /\ m \in 1 .. last /\ m - 1 \in n .. last
    BY <2>2
  <2>4. m - 1 \notin differ
    <3> HIDE DEF differ
    <3> QED BY <2>1, <2>2, <2>3
  <2>5. f[m - 1] = f[n]
    BY <2>3, <2>4
  <2>6. f[m] = f[m - 1]
    BY <2>3, <2>5 DEF Follows, Turn, Settle, Affix
  <2> QED BY <2>2, <2>5, <2>6
<1>2. last \in n .. last
  OBVIOUS
<1> QED BY <1>1, <1>2

(***************************************************************************)
(* So whichever turn fails, the solver fails with it.                      *)
(***************************************************************************)
LEMMA FailedTurns ==
  ASSUME NEW r, Len(r.order) \in Nat, r.window \in Window, IsPossible(r.window),
         NEW n \in 0 .. Len(r.order), NEW sol, sol.failure # NoFailure,
         sol = AfterAffixing(r)[n] \/ sol = AfterSettling(r)[n]
  PROVE  Settled(r) = sol
<1> DEFINE last == Len(r.order)
<1>1. AfterSettling(r)[last] = sol
  <2>1. ASSUME NEW m \in 0 .. last, AfterSettling(r)[m] = sol PROVE AfterSettling(r)[last] = sol
    <3>1. Follows("settle", r, last, AfterSettling(r))
      BY SettlingTurns DEF Turn, Follows
    <3>2. AfterSettling(r)[m].failure # NoFailure
      BY <2>1
    <3>3. AfterSettling(r)[last] = AfterSettling(r)[m]
      BY <3>1, <3>2, FailureStays
    <3> QED BY <2>1, <3>3
  <2>2. CASE sol = AfterAffixing(r)[n]
    <3>1. Follows("affix", r, last, AfterAffixing(r))
      BY AffixingTurns DEF Turn, Follows
    <3>4. AfterAffixing(r)[n].failure # NoFailure
      BY <2>2
    <3>5. AfterAffixing(r)[last] = AfterAffixing(r)[n]
      BY <3>1, <3>4, FailureStays
    <3>2. AfterAffixing(r)[last] = sol
      BY <2>2, <3>5
    <3>3. 0 \in 0 .. last /\ AfterSettling(r)[0] = sol
      BY <3>2, SettlingTurns
    <3> QED BY <2>1, <3>3
  <2> QED BY <2>1, <2>2
<1>2. ~(r.window.start >= r.window.end)
  BY DEF IsPossible, Window, Time
<1> QED BY <1>1, <1>2 DEF Settled


-----------------------------------------------------------------------------
(***************************************************************************)
(* What one turn computes from a state of the planner: the same bounds, the *)
(* same clashes, the same earliest start.                                  *)
(***************************************************************************)
LEMMA BoundsAgree ==
  ASSUME TypeOK, NEW t \in Tasks
  PROVE  /\ Bounds(req, t) # NoBounds <=> WindowHolds(req, t)
         /\ WindowHolds(req, t) => Bounds(req, t) = EffectiveWindow(req, t)
         /\ Bounds(req, t) \in Window
<1> DEFINE w == EffectiveWindow(req, t)
           own == IF t \in DOMAIN req.taskWindow THEN req.taskWindow[t] ELSE req.window
           lo == Later(req.window.start, own.start)
           hi == Sooner(req.window.end, own.end)
<1>1. w \in Window /\ req.duration[t] \in 1 .. MaxTime /\ req.window \in Window
  BY RequestFacts, EffectiveWindowType
<1>2. w.start \in Time /\ w.end \in Time /\ w = [start |-> w.start, end |-> w.end]
  BY <1>1 DEF Window
<1>3. lo = w.start /\ hi = w.end
  <2>1. CASE t \in DOMAIN req.taskWindow
    BY <2>1 DEF EffectiveWindow
  <2>2. CASE t \notin DOMAIN req.taskWindow
    <3>1. req.window.start \in Time /\ req.window.end \in Time
      BY <1>1 DEF Window
    <3> QED BY <2>2, <3>1 DEF EffectiveWindow, Later, Sooner, Time
  <2> QED BY <2>1, <2>2
<1>4. Bounds(req, t) = IF lo >= hi \/ hi - lo < req.duration[t] THEN NoBounds ELSE [start |-> lo, end |-> hi]
  BY DEF Bounds
<1> HIDE DEF own, lo, hi, w
<1>5. lo >= hi \/ hi - lo < req.duration[t] <=> ~WindowHolds(req, t)
  BY <1>1, <1>2, <1>3 DEF WindowHolds, IsPossible, w, Time
<1>6. WindowHolds(req, t) => Bounds(req, t) = w
  BY <1>2, <1>3, <1>4, <1>5
<1>7. WindowHolds(req, t) => w # NoBounds
  <2>1. NoBounds.start = 0 /\ NoBounds.end = 0
    BY DEF NoBounds, Span
  <2>2. WindowHolds(req, t) => w.start < w.end
    BY DEF WindowHolds, IsPossible, w
  <2> QED BY <2>1, <2>2
<1>8. NoBounds \in Window
  BY TimeAssumption DEF NoBounds, Span, Window, Time
<1> QED BY <1>1, <1>4, <1>5, <1>6, <1>7, <1>8 DEF w

LEMMA HitsAreClashes ==
  ASSUME NEW s, NEW e
  PROVE  /\ Hits(occupied, [start |-> s, end |-> e]) = Clashing(s, e)
         /\ FirstHit(occupied, [start |-> s, end |-> e]) = FirstOverlap(s, e)
<1>1. Hits(occupied, [start |-> s, end |-> e]) = Clashing(s, e)
  BY DEF Hits, Clashing, Overlaps
<1> QED BY <1>1 DEF FirstHit, FirstOverlap

LEMMA EarliestAgrees ==
  ASSUME TypeOK, NEW t \in Tasks, DependenciesScheduled(t)
  PROVE  Max({req.window.start} \cup {Times(scheduled)[d].end : d \in req.deps[t]}) = EarliestStart(t)
<1> DEFINE S == {req.window.start} \cup {Times(scheduled)[d].end : d \in req.deps[t]}
<1>1. \A d \in req.deps[t] : d \in DOMAIN scheduled /\ Times(scheduled)[d].end = scheduled[d].end
                              /\ scheduled[d].end \in Time
  BY DEF DependenciesScheduled, Times, TypeOK, IsSchedule, Step
<1>2. req.window.start \in Time
  BY RequestFacts DEF Window
<1>3. S \in SUBSET Time /\ S # {} /\ req.window.start \in S
  BY <1>1, <1>2
<1>4. \A d \in req.deps[t] : scheduled[d].end \in S
  BY <1>1
<1>5. \A x \in S : x = req.window.start \/ \E d \in req.deps[t] : x = scheduled[d].end
  BY <1>1
<1> HIDE DEF S
<1>6. Max(S) \in S /\ Max(S) \in Time /\ \A x \in S : x <= Max(S)
  BY <1>3, MaxFacts
<1>7. /\ EarliestStart(t) \in Time /\ req.window.start <= EarliestStart(t)
      /\ \A d \in req.deps[t] : scheduled[d].end <= EarliestStart(t)
  BY MinimumStartBounds
<1>8. Max(S) <= EarliestStart(t)
  BY <1>5, <1>6, <1>7
<1>9. DependencyEnd(t) = 0 \/ DependencyEnd(t) \in S
  <2>1. DependencyEnd(t) = LatestEnd(scheduled, req.deps[t])
    BY DEF DependencyEnd, LatestEnd
  <2>2. DependencyEnd(t) \in {0} \cup {scheduled[d].end : d \in req.deps[t]}
    BY <1>1, <2>1, LatestEndBounds
  <2> QED BY <1>4, <2>2
<1>10. EarliestStart(t) <= Max(S)
  <2>1. EarliestStart(t) = req.window.start \/ EarliestStart(t) = DependencyEnd(t)
    BY DEF EarliestStart, Later
  <2>2. 0 <= Max(S)
    BY <1>6, TimeAssumption DEF Time
  <2>3. DependencyEnd(t) <= Max(S)
    BY <1>6, <1>9, <2>2
  <2> QED BY <1>3, <1>6, <2>1, <2>3
<1>11. Max(S) = EarliestStart(t)
  BY <1>6, <1>7, <1>8, <1>10 DEF Time
<1> QED BY <1>11 DEF S

(***************************************************************************)
(* And the same search: one jump of the planner is one of the solver's.    *)
(***************************************************************************)
StopAt(t, last, f, s) ==
  IF s + req.duration[t] > last \/ Clashing(s, s + req.duration[t]) = {} THEN s
  ELSE f[Later(FirstOverlap(s, s + req.duration[t]).end, s + 1)]

Stopped(t, last, n, f) ==
  /\ f = [s \in Time |-> f[s]]
  /\ \A s \in Time : s > MaxTime - n => f[s] = StopAt(t, last, f, s)

LEMMA StopAhead ==
  ASSUME TypeOK, NEW t \in Tasks, NEW last \in Time, NEW s \in Time,
         s + req.duration[t] <= last, Clashing(s, s + req.duration[t]) # {}
  PROVE  /\ Later(FirstOverlap(s, s + req.duration[t]).end, s + 1) \in Time
         /\ Later(FirstOverlap(s, s + req.duration[t]).end, s + 1) > s
<1>1. FirstOverlap(s, s + req.duration[t]) \in occupied
  BY FirstOverlapClashes DEF Clashing
<1>2. FirstOverlap(s, s + req.duration[t]).end \in Time
  BY <1>1 DEF TypeOK
<1>3. req.duration[t] \in 1 .. MaxTime
  BY RequestFacts
<1> QED BY <1>2, <1>3, TimeAssumption DEF Later, Time

LEMMA StopsAgree ==
  ASSUME TypeOK, NEW t \in Tasks, NEW last \in Time, NEW s \in Time, NEW f, NEW g,
         \A j \in Time : j > s => f[j] = g[j]
  PROVE  StopAt(t, last, f, s) = StopAt(t, last, g, s)
<1>1. req.duration[t] \in 1 .. MaxTime
  BY RequestFacts
<1>2. CASE s + req.duration[t] > last
  BY <1>2 DEF StopAt
<1>3. CASE Clashing(s, s + req.duration[t]) = {}
  BY <1>3 DEF StopAt
<1>4. CASE s + req.duration[t] <= last /\ Clashing(s, s + req.duration[t]) # {}
  BY <1>4, StopAhead DEF StopAt
<1> QED BY <1>1, <1>2, <1>3, <1>4 DEF Time

LEMMA StopsExist ==
  ASSUME TypeOK, NEW t \in Tasks, NEW last \in Time, NEW n \in Nat
  PROVE  \E f : Stopped(t, last, n, f)
<1> DEFINE missing == {m \in Nat : ~\E f : Stopped(t, last, m, f)}
<1>1. \E f : Stopped(t, last, 0, f)
  <2>1. Stopped(t, last, 0, [s \in Time |-> s])
    BY TimeAssumption DEF Stopped, Time
  <2> QED BY <2>1
<1>2. ASSUME NEW m \in Nat, NEW f, Stopped(t, last, m, f)
      PROVE  \E g : Stopped(t, last, m + 1, g)
  <2> DEFINE g == [s \in Time |-> IF s = MaxTime - m THEN StopAt(t, last, f, s) ELSE f[s]]
  <2>1. \A s \in Time : s > MaxTime - m => f[s] = StopAt(t, last, f, s)
    BY <1>2 DEF Stopped
  <2>2. g = [s \in Time |-> g[s]]
    OBVIOUS
  <2>3. ASSUME NEW s \in Time, s > MaxTime - (m + 1) PROVE g[s] = StopAt(t, last, g, s)
    <3>1. s \in Int /\ MaxTime \in Int /\ s >= MaxTime - m
      BY <2>3, TimeAssumption DEF Time
    <3>2. ASSUME NEW j \in Time, j > s PROVE f[j] = g[j]
      BY <3>1, <3>2 DEF Time
    <3>3. StopAt(t, last, f, s) = StopAt(t, last, g, s)
      <4> HIDE DEF g
      <4> QED BY <3>2, StopsAgree
    <3>4. g[s] = StopAt(t, last, f, s)
      BY <2>1, <3>1
    <3> QED BY <3>3, <3>4
  <2> HIDE DEF g
  <2>4. Stopped(t, last, m + 1, g)
    BY <2>2, <2>3 DEF Stopped
  <2> QED BY <2>4
<1>3. ASSUME missing # {} PROVE FALSE
  <2>1. PICK m \in missing : \A k \in missing : m <= k
    <3>1. missing \in SUBSET Nat
      OBVIOUS
    <3> HIDE DEF missing
    <3> QED BY <1>3, <3>1, LeastNatural
  <2>2. m \in Nat /\ m # 0
    BY <1>1
  <2>3. m - 1 \in Nat /\ m - 1 \notin missing /\ (m - 1) + 1 = m
    BY <2>1, <2>2
  <2>4. PICK f : Stopped(t, last, m - 1, f)
    BY <2>3
  <2>5. \E g : Stopped(t, last, m, g)
    BY <1>2, <2>3, <2>4
  <2> QED BY <2>1, <2>5
<1> QED BY <1>3

LEMMA SearchEndIs ==
  ASSUME TypeOK, NEW t \in Tasks, NEW last \in Time, NEW s \in Time
  PROVE  SearchEnd(req, occupied, t, s, last) =
           IF s + req.duration[t] > last \/ Clashing(s, s + req.duration[t]) = {} THEN s
           ELSE SearchEnd(req, occupied, t, Later(FirstOverlap(s, s + req.duration[t]).end, s + 1), last)
<1> DEFINE IsStop(f) == f = [i \in Time |-> StopAt(t, last, f, i)]
           Recursive(f) ==
             f = [i \in Time |->
                   LET span == Span(i, req.duration[t])
                   IN  IF span.end > last \/ Hits(occupied, span) = {} THEN i
                       ELSE f[Later(FirstHit(occupied, span).end, i + 1)]]
           stop == CHOOSE f : Recursive(f)
<1>1. ASSUME NEW f PROVE IsStop(f) <=> Recursive(f)
  <2>1. ASSUME NEW i \in Time
        PROVE  StopAt(t, last, f, i) =
                 LET span == Span(i, req.duration[t])
                 IN  IF span.end > last \/ Hits(occupied, span) = {} THEN i
                     ELSE f[Later(FirstHit(occupied, span).end, i + 1)]
    BY HitsAreClashes DEF StopAt, Span
  <2> QED BY <2>1
<1>2. \E f : IsStop(f)
  <2>1. PICK f : Stopped(t, last, MaxTime + 1, f)
    BY TimeAssumption, StopsExist
  <2>2. \A i \in Time : i > MaxTime - (MaxTime + 1)
    BY TimeAssumption DEF Time
  <2>3. f = [i \in Time |-> f[i]] /\ \A i \in Time : f[i] = StopAt(t, last, f, i)
    BY <2>1, <2>2 DEF Stopped
  <2> QED BY <2>3
<1>3. \A first : SearchEnd(req, occupied, t, first, last) = stop[first]
  BY DEF SearchEnd
<1> HIDE DEF Recursive
<1>4. Recursive(stop)
  BY <1>1, <1>2
<1> HIDE DEF stop
<1>5. stop[s] = StopAt(t, last, stop, s)
  BY <1>1, <1>4
<1> QED BY <1>3, <1>5 DEF StopAt


-----------------------------------------------------------------------------
(***************************************************************************)
(* The solver's local variables as the planner's state has them.           *)
(***************************************************************************)
Sol(fixed, steps, calendar, without, gone, fault) ==
  [fixed |-> fixed, steps |-> steps, calendar |-> calendar, omitted |-> without,
   excluded |-> gone, failure |-> fault]

Copy(map) == [t \in DOMAIN map |-> map[t]]

AnchorSpans == [t \in DOMAIN req.anchor |-> Span(req.anchor[t], req.duration[t])]

Sketch(fixed) == Sol(fixed, Times(scheduled), occupied, Copy(omitted), excluded, NoFailure)

WithFailure(sol, v) == [sol EXCEPT !.failure = v]
WithSteps(sol, v) == [sol EXCEPT !.steps = v]
WithFixed(sol, v, w) == [sol EXCEPT !.fixed = v, !.calendar = w]
WithBooking(sol, v, w) == [sol EXCEPT !.steps = v, !.calendar = w]
WithOmission(sol, v, w) == [sol EXCEPT !.omitted = v, !.excluded = w]

LEMMA SolFailing ==
  ASSUME NEW a, NEW b, NEW c, NEW d, NEW e, NEW v
  PROVE  WithFailure(Sol(a, b, c, d, e, NoFailure), v) = Sol(a, b, c, d, e, v)
BY DEF Sol, WithFailure

LEMMA SolKeeping ==
  ASSUME NEW a, NEW b, NEW c, NEW d, NEW e, NEW v
  PROVE  WithSteps(Sol(a, b, c, d, e, NoFailure), v) = Sol(a, v, c, d, e, NoFailure)
BY DEF Sol, WithSteps

LEMMA SolFixing ==
  ASSUME NEW a, NEW b, NEW c, NEW d, NEW e, NEW v, NEW w
  PROVE  WithFixed(Sol(a, b, c, d, e, NoFailure), v, w) = Sol(v, b, w, d, e, NoFailure)
<1>1. [Sol(a, b, c, d, e, NoFailure) EXCEPT !.fixed = v] = Sol(v, b, c, d, e, NoFailure)
  BY DEF Sol
<1>2. [Sol(v, b, c, d, e, NoFailure) EXCEPT !.calendar = w] = Sol(v, b, w, d, e, NoFailure)
  BY DEF Sol
<1> QED BY <1>1, <1>2 DEF WithFixed

LEMMA SolBooking ==
  ASSUME NEW a, NEW b, NEW c, NEW d, NEW e, NEW v, NEW w
  PROVE  WithBooking(Sol(a, b, c, d, e, NoFailure), v, w) = Sol(a, v, w, d, e, NoFailure)
<1>1. [Sol(a, b, c, d, e, NoFailure) EXCEPT !.steps = v] = Sol(a, v, c, d, e, NoFailure)
  BY DEF Sol
<1>2. [Sol(a, v, c, d, e, NoFailure) EXCEPT !.calendar = w] = Sol(a, v, w, d, e, NoFailure)
  BY DEF Sol
<1> QED BY <1>1, <1>2 DEF WithBooking

LEMMA SolOmitting ==
  ASSUME NEW a, NEW b, NEW c, NEW d, NEW e, NEW v, NEW w
  PROVE  WithOmission(Sol(a, b, c, d, e, NoFailure), v, w) = Sol(a, b, c, v, w, NoFailure)
<1>1. [Sol(a, b, c, d, e, NoFailure) EXCEPT !.omitted = v] = Sol(a, b, c, v, e, NoFailure)
  BY DEF Sol
<1>2. [Sol(a, b, c, v, e, NoFailure) EXCEPT !.excluded = w] = Sol(a, b, c, v, w, NoFailure)
  BY DEF Sol
<1> QED BY <1>1, <1>2 DEF WithOmission

LEMMA TimesWith ==
  ASSUME NEW map, NEW t, NEW step
  PROVE  Times(With(map, t, step)) = With(Times(map), t, [start |-> step.start, end |-> step.end])
<1>1. DOMAIN With(map, t, step) = DOMAIN map \cup {t} /\ DOMAIN Times(map) = DOMAIN map
  BY DEF With, Times
<1>2. ASSUME NEW u \in DOMAIN map \cup {t}
      PROVE  [start |-> With(map, t, step)[u].start, end |-> With(map, t, step)[u].end] =
               IF u = t THEN [start |-> step.start, end |-> step.end] ELSE Times(map)[u]
  BY <1>2 DEF With, Times
<1> DEFINE f == With(map, t, step)
<1>3. Times(f) = [u \in DOMAIN map \cup {t} |-> [start |-> f[u].start, end |-> f[u].end]]
  BY <1>1 DEF Times
<1>4. With(Times(map), t, [start |-> step.start, end |-> step.end]) =
        [u \in DOMAIN map \cup {t} |-> IF u = t THEN [start |-> step.start, end |-> step.end] ELSE Times(map)[u]]
  BY <1>1 DEF With
<1> HIDE DEF f
<1> QED BY <1>2, <1>3, <1>4 DEF f

LEMMA CopyWith ==
  ASSUME NEW map, NEW t, NEW value
  PROVE  Copy(With(map, t, value)) = With(Copy(map), t, value)
BY DEF Copy, With

LEMMA SketchFacts ==
  ASSUME NEW fixed
  PROVE  /\ Sketch(fixed).fixed = fixed /\ Sketch(fixed).steps = Times(scheduled)
         /\ Sketch(fixed).calendar = occupied /\ Sketch(fixed).omitted = Copy(omitted)
         /\ Sketch(fixed).excluded = excluded /\ Sketch(fixed).failure = NoFailure
BY DEF Sketch, Sol

(***************************************************************************)
(* One turn of the loop that affixes, from such variables.                 *)
(***************************************************************************)
LEMMA AffixTurn ==
  ASSUME TypeOK, NEW t \in Tasks, NEW fixed, NEW sol, sol = Sketch(fixed)
  PROVE  /\ t \notin DOMAIN req.anchor => Affix(req, sol, t) = sol
         /\ t \in DOMAIN req.anchor /\ AnchorFits(t) =>
              Affix(req, sol, t) =
                Sol(With(fixed, t, Span(req.anchor[t], req.duration[t])), Times(scheduled),
                    occupied \cup {Interval(PlanStep(req, t, req.anchor[t]))},
                    Copy(omitted), excluded, NoFailure)
         /\ t \in DOMAIN req.anchor /\ ~AnchorFits(t) =>
              Affix(req, sol, t) =
                Sol(fixed, Times(scheduled), occupied, Copy(omitted), excluded, Failure(t, "anchor_rejected"))
<1> DEFINE bounds == Bounds(req, t)
           span == Span(req.anchor[t], req.duration[t])
           stands == /\ bounds # NoBounds
                     /\ span.start >= bounds.start /\ span.end <= bounds.end
                     /\ Hits(sol.calendar, span) = {}
           entry == [task |-> t, start |-> span.start, end |-> span.end]
<1>1. sol.failure = NoFailure /\ sol.calendar = occupied /\ sol.fixed = fixed
  BY SketchFacts
<1>2. CASE t \notin DOMAIN req.anchor
  BY <1>2 DEF Affix
<1>3. CASE t \in DOMAIN req.anchor
  <2>1. span.start = req.anchor[t] /\ span.end = req.anchor[t] + req.duration[t]
    BY DEF Span
  <2>2. Hits(occupied, span) = Clashing(req.anchor[t], req.anchor[t] + req.duration[t])
    BY HitsAreClashes DEF Span
  <2>3. EffectiveWindow(req, t).end <= MaxTime /\ EffectiveWindow(req, t).end \in Time
    BY RequestFacts, EffectiveWindowType DEF Window, Time
  <2>4. req.anchor[t] + req.duration[t] \in Int
    BY <1>3, RequestFacts DEF Time
  <2>5. stands <=> AnchorFits(t)
    <3>1. AnchorFits(t) <=>
            /\ WindowHolds(req, t)
            /\ req.anchor[t] >= EffectiveWindow(req, t).start
            /\ req.anchor[t] + req.duration[t] <= EffectiveWindow(req, t).end
            /\ Clashing(req.anchor[t], req.anchor[t] + req.duration[t]) = {}
      BY <2>3, <2>4, TimeAssumption DEF AnchorFits, Time
    <3> QED BY <1>1, <2>1, <2>2, <3>1, BoundsAgree
  <2>6. Affix(req, sol, t) =
          IF ~stands THEN [sol EXCEPT !.failure = Failure(t, "anchor_rejected")]
          ELSE [sol EXCEPT !.fixed = With(sol.fixed, t, span), !.calendar = sol.calendar \cup {entry}]
    BY <1>1, <1>3 DEF Affix
  <2>7. entry = Interval(PlanStep(req, t, req.anchor[t]))
    BY <2>1 DEF Interval, PlanStep
  <2> HIDE DEF span, stands, entry, bounds
  <2>8. CASE AnchorFits(t)
    <3>1. Affix(req, sol, t) = WithFixed(sol, With(fixed, t, span), occupied \cup {entry})
      BY <1>1, <2>5, <2>6, <2>8 DEF WithFixed
    <3>2. Affix(req, sol, t) = Sol(With(fixed, t, span), Times(scheduled), occupied \cup {entry},
                                   Copy(omitted), excluded, NoFailure)
      BY <3>1, SolFixing DEF Sketch
    <3> QED BY <1>3, <2>7, <2>8, <3>2 DEF span
  <2>9. CASE ~AnchorFits(t)
    <3>1. Affix(req, sol, t) = WithFailure(sol, Failure(t, "anchor_rejected"))
      BY <2>5, <2>6, <2>9 DEF WithFailure
    <3> QED BY <1>3, <2>9, <3>1, SolFailing DEF Sketch
  <2> QED BY <2>8, <2>9
<1> QED BY <1>2, <1>3

(***************************************************************************)
(* One turn of the loop that schedules, from such variables.               *)
(***************************************************************************)
LEMMA SettleExcluded ==
  ASSUME NEW fixed, NEW t, t \in excluded, NEW sol, sol = Sketch(fixed)
  PROVE  Settle(req, sol, t) = sol
BY SketchFacts DEF Settle

LEMMA SettleFixed ==
  ASSUME TypeOK, NEW t \in DOMAIN req.anchor, t \notin excluded, DependenciesScheduled(t),
         NEW sol, sol = Sketch(AnchorSpans)
  PROVE  Settle(req, sol, t) =
           IF req.anchor[t] < EarliestStart(t)
             THEN Sol(AnchorSpans, Times(scheduled), occupied, Copy(omitted), excluded, Failure(t, "anchor_rejected"))
             ELSE Sol(AnchorSpans, With(Times(scheduled), t, Span(req.anchor[t], req.duration[t])), occupied,
                      Copy(omitted), excluded, NoFailure)
<1> DEFINE earliest == Max({req.window.start} \cup {sol.steps[d].end : d \in req.deps[t]})
<1>1. /\ sol.failure = NoFailure /\ sol.excluded = excluded /\ sol.fixed = AnchorSpans
      /\ sol.steps = Times(scheduled)
  BY SketchFacts
<1>2. t \in Tasks
  BY RequestFacts
<1>3. earliest = EarliestStart(t)
  BY <1>1, <1>2, EarliestAgrees
<1>4. /\ DOMAIN sol.fixed = DOMAIN req.anchor /\ sol.fixed[t] = Span(req.anchor[t], req.duration[t])
      /\ sol.fixed[t].start = req.anchor[t]
  BY <1>1 DEF AnchorSpans, Span
<1>5. Settle(req, sol, t) =
        IF sol.fixed[t].start < earliest THEN WithFailure(sol, Failure(t, "anchor_rejected"))
        ELSE WithSteps(sol, With(sol.steps, t, sol.fixed[t]))
  BY <1>1, <1>4 DEF Settle, WithFailure, WithSteps
<1> HIDE DEF earliest
<1>6. Settle(req, sol, t) =
        IF req.anchor[t] < EarliestStart(t) THEN WithFailure(sol, Failure(t, "anchor_rejected"))
        ELSE WithSteps(sol, With(Times(scheduled), t, Span(req.anchor[t], req.duration[t])))
  BY <1>1, <1>3, <1>4, <1>5
<1> QED BY <1>6, SolFailing, SolKeeping DEF Sketch

(* Whether it finds a start, and which.                                    *)
SolverStart(t) == SearchEnd(req, occupied, t, MinimumStart(t), EffectiveWindow(req, t).end)

SolverFinds(t) ==
  WindowHolds(req, t) /\ SolverStart(t) + req.duration[t] <= EffectiveWindow(req, t).end

LEMMA WhyOmittedAgrees ==
  ASSUME TypeOK, NEW t \in Tasks, DependenciesScheduled(t), SolverProtected(req) = protected,
         NEW sol, sol.calendar = occupied
  PROVE  WhyOmitted(req, sol, t, EarliestStart(t)) = GreedyReason(t)
<1> DEFINE w == EffectiveWindow(req, t)
           own == IF t \in DOMAIN req.taskWindow THEN req.taskWindow[t] ELSE req.window
           lo == Later(EarliestStart(t), own.start)
           hi == Sooner(req.window.end, own.end)
<1>1. req.window \in Window /\ own \in Window /\ w \in Window
  BY RequestFacts, EffectiveWindowType DEF IsRequest
<1>2. EarliestStart(t) \in Time /\ req.window.start <= EarliestStart(t)
  BY MinimumStartBounds
<1>3. w.start = Later(req.window.start, own.start) /\ w.end = hi
  BY <1>1 DEF EffectiveWindow, Later, Sooner, Window, Time
<1>4. /\ req.window.start \in Int /\ own.start \in Int /\ w.end \in Int /\ w.end <= MaxTime
      /\ EarliestStart(t) \in Int /\ MaxTime \in Int
  BY <1>1, <1>2, TimeAssumption DEF Window, Time
<1>5. lo = MinimumStart(t)
  BY <1>2, <1>3, <1>4 DEF MinimumStart, Later
<1>6. hi = w.end /\ Sooner(MaxTime, w.end) = w.end
  BY <1>3, <1>4 DEF Sooner
<1>7. WhyOmitted(req, sol, t, EarliestStart(t)) =
        IF lo + req.duration[t] > hi THEN "outside_allowed_window"
        ELSE IF \E o \in Hits(occupied, [start |-> lo, end |-> hi]) : o.task \notin protected
               THEN "omitted_lower_value"
        ELSE "insufficient_total_capacity"
  BY DEF WhyOmitted
<1> HIDE DEF lo, hi, w, own
<1>8. Hits(occupied, [start |-> lo, end |-> hi]) = Clashing(lo, hi)
  BY HitsAreClashes
<1>9. GreedyReason(t) =
        IF lo + req.duration[t] > hi THEN "outside_allowed_window"
        ELSE IF \E o \in Clashing(lo, hi) : o.task \notin protected THEN "omitted_lower_value"
        ELSE "insufficient_total_capacity"
  BY <1>5, <1>6 DEF GreedyReason, w
<1> QED BY <1>7, <1>8, <1>9

LEMMA SettleOther ==
  ASSUME TypeOK, NEW t \in Tasks \ DOMAIN req.anchor, t \notin excluded, DependenciesScheduled(t),
         SolverProtected(req) = protected, NEW sol, sol = Sketch(AnchorSpans)
  PROVE  /\ SolverFinds(t) =>
              Settle(req, sol, t) =
                Sol(AnchorSpans, With(Times(scheduled), t, Span(SolverStart(t), req.duration[t])),
                    occupied \cup {Interval(PlanStep(req, t, SolverStart(t)))},
                    Copy(omitted), excluded, NoFailure)
         /\ ~SolverFinds(t) /\ t \in protected =>
              Settle(req, sol, t) =
                Sol(AnchorSpans, Times(scheduled), occupied, Copy(omitted), excluded, Failure(t, "no_room"))
         /\ ~SolverFinds(t) /\ t \notin protected =>
              Settle(req, sol, t) =
                Sol(AnchorSpans, Times(scheduled), occupied, With(Copy(omitted), t, GreedyReason(t)),
                    ExcludeWith(req, excluded \cup {t}), NoFailure)
<1> DEFINE earliest == Max({req.window.start} \cup {sol.steps[d].end : d \in req.deps[t]})
           bounds == Bounds(req, t)
           start == SearchEnd(req, sol.calendar, t, Later(earliest, bounds.start), bounds.end)
           span == Span(start, req.duration[t])
           found == bounds # NoBounds /\ span.end <= bounds.end
           entry == [task |-> t, start |-> span.start, end |-> span.end]
<1>1. /\ sol.failure = NoFailure /\ sol.excluded = excluded /\ DOMAIN sol.fixed = DOMAIN req.anchor
      /\ sol.steps = Times(scheduled) /\ sol.calendar = occupied /\ sol.omitted = Copy(omitted)
  BY SketchFacts DEF AnchorSpans
<1>2. earliest = EarliestStart(t)
  BY <1>1, EarliestAgrees
<1>3. Settle(req, sol, t) =
        IF found THEN WithBooking(sol, With(sol.steps, t, span), sol.calendar \cup {entry})
        ELSE IF t \in SolverProtected(req) THEN WithFailure(sol, Failure(t, "no_room"))
        ELSE WithOmission(sol, With(sol.omitted, t, WhyOmitted(req, sol, t, earliest)),
                          ExcludeWith(req, sol.excluded \cup {t}))
  BY <1>1 DEF Settle, WithBooking, WithFailure, WithOmission
<1>4. WindowHolds(req, t) => start = SolverStart(t)
  BY <1>1, <1>2, BoundsAgree DEF SolverStart, MinimumStart
<1>5. span.end = start + req.duration[t]
  BY DEF Span
<1>6. entry = Interval(PlanStep(req, t, start))
  BY DEF Span, Interval, PlanStep
<1> HIDE DEF start, bounds, earliest
<1>7. found <=> SolverFinds(t)
  BY <1>4, <1>5, BoundsAgree DEF SolverFinds, bounds
<1> HIDE DEF found, entry
<1>8. CASE SolverFinds(t)
  <2>1. start = SolverStart(t)
    BY <1>4, <1>8 DEF SolverFinds
  <2>2. Settle(req, sol, t) = WithBooking(sol, With(Times(scheduled), t, span), occupied \cup {entry})
    BY <1>1, <1>3, <1>7, <1>8
  <2>3. Settle(req, sol, t) =
          Sol(AnchorSpans, With(Times(scheduled), t, span), occupied \cup {entry}, Copy(omitted), excluded, NoFailure)
    BY <2>2, SolBooking DEF Sketch
  <2> QED BY <1>6, <1>8, <2>1, <2>3
<1>9. CASE ~SolverFinds(t) /\ t \in protected
  <2>1. Settle(req, sol, t) = WithFailure(sol, Failure(t, "no_room"))
    BY <1>3, <1>7, <1>9
  <2> QED BY <1>9, <2>1, SolFailing DEF Sketch
<1>10. CASE ~SolverFinds(t) /\ t \notin protected
  <2>1. WhyOmitted(req, sol, t, earliest) = GreedyReason(t)
    BY <1>1, <1>2, WhyOmittedAgrees
  <2>2. Settle(req, sol, t) =
          WithOmission(sol, With(Copy(omitted), t, GreedyReason(t)), ExcludeWith(req, excluded \cup {t}))
    BY <1>1, <1>3, <1>7, <1>10, <2>1
  <2> QED BY <1>10, <2>2, SolOmitting DEF Sketch
<1> QED BY <1>8, <1>9, <1>10


-----------------------------------------------------------------------------
(***************************************************************************)
(* The solver and the greedy planner in step: before every turn of one of  *)
(* the planner's loops the solver's local variables are the planner's.     *)
(***************************************************************************)
FoundFrom(t, s) == SearchEnd(req, occupied, t, s, EffectiveWindow(req, t).end)

AffixMatches == AfterAffixing(req)[next - 1] = Sketch(Times(affixed))

SettleMatches ==
  AfterSettling(req)[next - 1] = Sketch(AnchorSpans) /\ SolverProtected(req) = protected

SearchMatches == WindowHolds(req, Current) => SolverStart(Current) = FoundFrom(Current, cursor)

SolverEnds ==
  /\ Settled(req) = Sketch(AnchorSpans) /\ SolverProtected(req) = protected
  /\ Tasks \ excluded = DOMAIN scheduled
  /\ plan = [t \in Tasks \ excluded |-> scheduled[t]]
  /\ unplaced = [t \in excluded |-> Report(t)]

SolverFails == Settled(req).failure = Refusal

SolverInv ==
  req.mode = "fresh" =>
    /\ phase \notin {"open", "failed"} => IsPossible(req.window)
    /\ phase \in {"affix", "schedule", "place"} => next <= Len(req.order) + 1
    /\ phase = "affix" => AffixMatches
    /\ Walking => SettleMatches
    /\ phase = "place" => SearchMatches
    /\ phase = "done" => SolverEnds
    /\ phase = "failed" => SolverFails

LEMMA EmptyMaps ==
  ASSUME NEW map, DOMAIN map = {}
  PROVE  Times(map) = Empty /\ Copy(map) = Empty
<1>1. \A f : f = [x \in {} |-> f[x]] => f = Empty
  BY DEF Empty
<1>2. Times(map) = [x \in {} |-> Times(map)[x]] /\ Copy(map) = [x \in {} |-> Copy(map)[x]]
  BY DEF Times, Copy
<1> QED BY <1>1, <1>2

LEMMA SolverFrame ==
  ASSUME req' = req
  PROVE  /\ AfterAffixing(req)' = AfterAffixing(req) /\ AfterSettling(req)' = AfterSettling(req)
         /\ Settled(req)' = Settled(req) /\ SolverProtected(req)' = SolverProtected(req)
         /\ Len(req.order)' = Len(req.order) /\ AnchorSpans' = AnchorSpans
BY DEF AnchorSpans


LEMMA TurnFacts ==
  ASSUME TypeOK, InOrder
  PROVE  /\ Len(req.order) \in Nat /\ next \in 1 .. Len(req.order) /\ Current \in Tasks
         /\ AfterAffixing(req)[next] = Affix(req, AfterAffixing(req)[next - 1], Current)
         /\ AfterSettling(req)[next] = Settle(req, AfterSettling(req)[next - 1], Current)
         /\ (next + 1) - 1 = next /\ next + 1 <= Len(req.order) + 1 /\ next \in 0 .. Len(req.order)
<1>1. Len(req.order) \in Nat /\ next \in 1 .. Len(req.order)
  BY RequestFacts DEF TypeOK, InOrder
<1>2. Current \in Tasks
  BY CurrentTask
<1>3. /\ AfterAffixing(req)[next] = Affix(req, AfterAffixing(req)[next - 1], Current)
      /\ AfterSettling(req)[next] = Settle(req, AfterSettling(req)[next - 1], Current)
  BY <1>1, AffixingTurns, SettlingTurns DEF Current
<1> QED BY <1>1, <1>2, <1>3

(* Where one of its turns fails, the solver fails.                         *)
LEMMA FailedTurn ==
  ASSUME TypeOK, InOrder, IsPossible(req.window), NEW why, why \in {"anchor_rejected", "no_room"},
         Fail(why),
         \/ AfterAffixing(req)[next].failure = Failure(Current, why)
         \/ AfterSettling(req)[next].failure = Failure(Current, why)
  PROVE  SolverFails'
<1>1. Failure(Current, why) # NoFailure
  BY DEF Failure, NoFailure
<1>2. req.window \in Window
  BY RequestFacts
<1>3. Settled(req).failure = Failure(Current, why)
  BY <1>1, <1>2, TurnFacts, FailedTurns
<1>4. Refusal' = Failure(Current, why)
  BY DEF Fail, Refusal, Current
<1> QED BY <1>3, <1>4, SolverFrame DEF SolverFails, Fail

LEMMA SolverOpens ==
  ASSUME SkeletonInv, SolverInv, req.mode = "fresh",
         Open \/ CollectPrior \/ CollectDone \/ PreserveDone
  PROVE  SolverInv'
<1>1. CASE Open
  <2>1. CASE IsPossible(req.window)
    BY <1>1, <2>1 DEF Open, EnterPhase, SolverInv, Walking
  <2>2. CASE ~IsPossible(req.window)
    <3>1. Fail("no_window")
      BY <1>1, <2>2 DEF Open
    <3>2. req.window.start >= req.window.end
      BY <2>2, RequestFacts DEF SkeletonInv, IsPossible, Window, Time
    <3>3. Settled(req).failure = Failure("none", "no_window")
      BY <3>2 DEF Settled, Unsettled
    <3>4. Refusal' = Failure("none", "no_window")
      BY <3>1 DEF Fail, Refusal
    <3>5. SolverFails'
      BY <3>1, <3>3, <3>4, SolverFrame DEF SolverFails, Fail
    <3> QED BY <3>1, <3>5 DEF SolverInv, Fail, Walking
  <2> QED BY <2>1, <2>2
<1>2. CASE CollectPrior
  BY <1>2 DEF CollectPrior, Advance, SolverInv, Walking
<1>3. CASE CollectDone
  BY <1>3 DEF CollectDone, EnterPhase, SolverInv, Walking
<1>4. CASE PreserveDone
  <2>1. /\ phase = "preserve" /\ phase' = "affix" /\ next' = 1 /\ req' = req
        /\ UNCHANGED <<affixed, scheduled, occupied, omitted, excluded>>
    BY <1>4 DEF PreserveDone, EnterPhase
  <2>2. DOMAIN scheduled = {} /\ excluded = {} /\ DOMAIN omitted = {} /\ DOMAIN affixed = {}
    BY <2>1 DEF SkeletonInv, WalkInv, SearchInv, CalendarInv, Fixing
  <2>3. occupied = {}
    <3>1. occupied \subseteq Reserved(preserved) /\ DOMAIN preserved = {}
      BY <2>1 DEF SkeletonInv, CalendarInv, StepInv
    <3> QED BY <3>1 DEF Reserved
  <2>4. Len(req.order) \in Nat
    BY RequestFacts DEF SkeletonInv
  <2>5. Sketch(Times(affixed)) = Unsettled
    BY <2>2, <2>3, EmptyMaps DEF Sketch, Sol, Unsettled
  <2>6. Sketch(Times(affixed))' = Sketch(Times(affixed))
    BY <2>1 DEF Sketch, Times, Copy
  <2>7. AfterAffixing(req)[0] = Unsettled
    BY <2>4, AffixingTurns
  <2>8. AffixMatches'
    BY <2>1, <2>5, <2>6, <2>7, SolverFrame DEF AffixMatches
  <2>9. IsPossible(req.window)
    BY <2>1 DEF SolverInv
  <2> QED BY <2>1, <2>4, <2>8, <2>9 DEF SolverInv, Walking
<1> QED BY <1>1, <1>2, <1>3, <1>4

LEMMA SolverAffixes ==
  ASSUME SkeletonInv, SolverInv, req.mode = "fresh", AffixSkip \/ AffixAnchor \/ AffixReject
  PROVE  SolverInv'
<1>1. TypeOK /\ phase = "affix" /\ InOrder /\ AffixMatches /\ IsPossible(req.window)
  BY DEF SkeletonInv, SolverInv, AffixSkip, AffixAnchor, AffixReject
<1>2. NeedsAffixing(Current) <=> Current \in DOMAIN req.anchor
  BY DEF NeedsAffixing, SkeletonInv, StepInv
<1> DEFINE sol == AfterAffixing(req)[next - 1]
<1>3. sol = Sketch(Times(affixed)) /\ AfterAffixing(req)[next] = Affix(req, sol, Current) /\ Current \in Tasks
  BY <1>1, TurnFacts DEF AffixMatches
<1> HIDE DEF sol
<1>4. CASE AffixSkip
  <2>1. /\ UNCHANGED <<req, phase, affixed, scheduled, occupied, omitted, excluded>>
        /\ next' = next + 1 /\ Current \notin DOMAIN req.anchor
    BY <1>2, <1>4 DEF AffixSkip, Advance
  <2>2. AfterAffixing(req)[next] = Sketch(Times(affixed))
    BY <1>1, <1>3, <2>1, AffixTurn
  <2>3. Sketch(Times(affixed))' = Sketch(Times(affixed))
    BY <2>1 DEF Sketch, Times, Copy
  <2>4. AffixMatches'
    BY <1>1, <2>1, <2>2, <2>3, TurnFacts, SolverFrame DEF AffixMatches
  <2>5. next' <= Len(req'.order) + 1
    BY <1>1, <2>1, TurnFacts
  <2> QED BY <1>1, <2>1, <2>4, <2>5 DEF SolverInv, Walking
<1>5. CASE AffixAnchor
  <2> DEFINE step == PlanStep(req, Current, req.anchor[Current])
  <2>1. /\ UNCHANGED <<req, phase, scheduled, omitted, excluded>>
        /\ next' = next + 1 /\ Current \in DOMAIN req.anchor /\ AnchorFits(Current)
        /\ affixed' = With(affixed, Current, step)
        /\ occupied' = occupied \cup {Interval(step)}
    BY <1>2, <1>5 DEF AffixAnchor, Advance
  <2>2. AfterAffixing(req)[next] =
          Sol(With(Times(affixed), Current, Span(req.anchor[Current], req.duration[Current])),
              Times(scheduled), occupied \cup {Interval(step)}, Copy(omitted), excluded, NoFailure)
    BY <1>1, <1>3, <2>1, AffixTurn
  <2>3. Times(affixed)' = With(Times(affixed), Current, Span(req.anchor[Current], req.duration[Current]))
    <3>1. step.start = req.anchor[Current] /\ step.end = req.anchor[Current] + req.duration[Current]
      BY DEF PlanStep
    <3>2. [start |-> step.start, end |-> step.end] = Span(req.anchor[Current], req.duration[Current])
      BY <3>1 DEF Span
    <3>3. Times(affixed)' = Times(affixed')
      BY DEF Times
    <3> QED BY <2>1, <3>2, <3>3, TimesWith
  <2>4. Times(scheduled)' = Times(scheduled) /\ Copy(omitted)' = Copy(omitted)
    BY <2>1 DEF Times, Copy
  <2> HIDE DEF step
  <2>5. Sketch(Times(affixed))' = Sol(Times(affixed)', Times(scheduled)', occupied', Copy(omitted)', excluded', NoFailure)
    BY DEF Sketch
  <2>6. Sketch(Times(affixed))' = AfterAffixing(req)[next]
    BY <2>1, <2>2, <2>3, <2>4, <2>5
  <2>7. AffixMatches'
    BY <1>1, <2>1, <2>6, TurnFacts, SolverFrame DEF AffixMatches
  <2>8. next' <= Len(req'.order) + 1
    BY <1>1, <2>1, TurnFacts
  <2> QED BY <1>1, <2>1, <2>7, <2>8 DEF SolverInv, Walking
<1>6. CASE AffixReject
  <2>1. Fail("anchor_rejected") /\ Current \in DOMAIN req.anchor /\ ~AnchorFits(Current)
    BY <1>2, <1>6 DEF AffixReject
  <2>2. AfterAffixing(req)[next] =
          Sol(Times(affixed), Times(scheduled), occupied, Copy(omitted), excluded, Failure(Current, "anchor_rejected"))
    BY <1>1, <1>3, <2>1, AffixTurn
  <2>3. AfterAffixing(req)[next].failure = Failure(Current, "anchor_rejected")
    BY <2>2 DEF Sol
  <2>4. SolverFails'
    BY <1>1, <2>1, <2>3, FailedTurn
  <2> QED BY <2>1, <2>4 DEF SolverInv, Fail, Walking
<1> QED BY <1>4, <1>5, <1>6


LEMMA SolverAffixed ==
  ASSUME SkeletonInv, SolverInv, req.mode = "fresh", AffixDone
  PROVE  SolverInv'
<1>1. /\ TypeOK /\ StepInv /\ phase = "affix" /\ ~InOrder /\ AffixMatches /\ IsPossible(req.window)
      /\ next <= Len(req.order) + 1 /\ DOMAIN preserved = {}
  BY DEF SkeletonInv, SolverInv, AffixDone, StepInv
<1>2. /\ Len(req.order) \in Nat /\ next - 1 = Len(req.order)
      /\ \A i \in DOMAIN req.order : i < next
  BY <1>1, RequestFacts DEF TypeOK, InOrder
<1>3. /\ UNCHANGED <<req, affixed, scheduled, occupied, omitted, excluded>>
      /\ phase' = "schedule" /\ next' = 1
      /\ protected' = ProtectedTasks(req, DOMAIN preserved \cup DOMAIN affixed)
  BY DEF AffixDone, EnterPhase
<1>4. Times(affixed) = AnchorSpans
  <2>1. ASSUME NEW t \in DOMAIN req.anchor PROVE t \in DOMAIN affixed
    <3>1. PICK i \in DOMAIN req.order : req.order[i] = t
      BY <1>1, RequestFacts DEF IsRequest, IsTopological
    <3> QED BY <1>1, <1>2, <3>1 DEF StepInv, AnchorsPassed
  <2>2. DOMAIN affixed = DOMAIN req.anchor
    BY <1>1, <2>1 DEF TypeOK
  <2>3. ASSUME NEW t \in DOMAIN affixed
        PROVE  affixed[t].start = req.anchor[t] /\ affixed[t].end = req.anchor[t] + req.duration[t]
    <3>1. affixed[t] = PlanStep(req, t, affixed[t].start) /\ affixed[t].start = req.anchor[t]
      BY <1>1, <2>2 DEF StepInv, AsRequested
    <3>2. PlanStep(req, t, affixed[t].start).end = affixed[t].start + req.duration[t]
      BY DEF PlanStep
    <3> QED BY <3>1, <3>2
  <2> QED BY <2>2, <2>3 DEF Times, AnchorSpans, Span
<1>5. AfterSettling(req)[0] = Sketch(AnchorSpans)
  BY <1>1, <1>2, <1>4, SettlingTurns DEF AffixMatches
<1>6. Sketch(AnchorSpans)' = Sketch(AnchorSpans)
  BY <1>3 DEF Sketch, Times, Copy, AnchorSpans
<1>7. SolverProtected(req) = protected'
  <2>1. req.mandatory \cup DOMAIN req.anchor \in SUBSET Tasks /\ req.deps \in [Tasks -> SUBSET Tasks]
    BY <1>1, RequestFacts
  <2>2. SolverProtected(req) = Prerequisites(req, req.mandatory \cup DOMAIN req.anchor)
    <3>1. IsFiniteSet(Tasks)
      BY <1>1, RequestFacts, TasksFinite
    <3> QED BY <2>1, <3>1, SpreadIsPrerequisites DEF SolverProtected
  <2>3. (DOMAIN preserved \cup DOMAIN affixed) \cup req.mandatory \cup DOMAIN req.anchor
           = req.mandatory \cup DOMAIN req.anchor
    BY <1>1 DEF TypeOK
  <2> QED BY <1>3, <2>2, <2>3 DEF ProtectedTasks
<1>8. SettleMatches'
  BY <1>3, <1>5, <1>6, <1>7, SolverFrame DEF SettleMatches
<1> QED BY <1>1, <1>2, <1>3, <1>8 DEF SolverInv, Walking

(* Before a turn of the loop that schedules.                               *)
SettleReady ==
  /\ TypeOK /\ WalkInv /\ InOrder /\ Current \in Tasks
  /\ IsPossible(req.window) /\ DOMAIN preserved = {} /\ SolverProtected(req) = protected
  /\ AfterSettling(req)[next - 1] = Sketch(AnchorSpans)
  /\ AfterSettling(req)[next] = Settle(req, AfterSettling(req)[next - 1], Current)
  /\ AnchorsFixed /\ req.mode = "fresh"

LEMMA SettleBegins ==
  ASSUME SkeletonInv, SolverInv, req.mode = "fresh", Walking, InOrder
  PROVE  SettleReady
<1>1. TypeOK /\ WalkInv /\ SettleMatches /\ IsPossible(req.window) /\ DOMAIN preserved = {} /\ AnchorsFixed
  BY DEF SkeletonInv, SolverInv, StepInv, Walking
<1> QED BY <1>1, TurnFacts DEF SettleReady, SettleMatches

(* After one that does not fail the loop is at the next Task.              *)
LEMMA SettleEnds ==
  ASSUME SettleReady, req' = req, phase' = "schedule", next' = next + 1, protected' = protected,
         AfterSettling(req)[next] =
           Sol(AnchorSpans, Times(scheduled'), occupied', Copy(omitted'), excluded', NoFailure)
  PROVE  SolverInv'
<1>1. Times(scheduled)' = Times(scheduled') /\ Copy(omitted)' = Copy(omitted')
  BY DEF Times, Copy
<1>2. Sketch(AnchorSpans)' = AfterSettling(req)[next]
  BY <1>1, SolverFrame DEF Sketch
<1>3. (next + 1) - 1 = next /\ next + 1 <= Len(req.order) + 1
  BY TurnFacts DEF SettleReady
<1>4. SettleMatches'
  BY <1>2, <1>3, SolverFrame DEF SettleMatches, SettleReady
<1> QED BY <1>3, <1>4 DEF SolverInv, Walking, SettleReady

LEMMA SolverSkips ==
  ASSUME SettleReady, SkipExcluded
  PROVE  SolverInv'
<1>1. /\ UNCHANGED <<req, scheduled, occupied, omitted, excluded, protected>>
      /\ phase' = "schedule" /\ next' = next + 1 /\ Current \in excluded
  BY DEF SkipExcluded, Advance
<1>2. AfterSettling(req)[next] = Sketch(AnchorSpans)
  BY <1>1, SettleExcluded DEF SettleReady
<1>3. AfterSettling(req)[next] =
        Sol(AnchorSpans, Times(scheduled'), occupied', Copy(omitted'), excluded', NoFailure)
  BY <1>1, <1>2 DEF Sketch
<1> QED BY <1>1, <1>3, SettleEnds

LEMMA SolverTakesAnchor ==
  ASSUME SettleReady, StepInv, NEW t \in Tasks, KeepAffixed(t)
  PROVE  SolverInv'
<1>1. t = Current /\ t \notin excluded /\ t \in DOMAIN affixed /\ phase = "schedule" /\ t \in DOMAIN req.anchor
  BY DEF KeepAffixed, Scheduling, SettleReady, TypeOK
<1>2. DependenciesScheduled(t)
  BY <1>1, ReachedReady DEF SettleReady, Walking
<1>3. affixed[t].start = req.anchor[t] /\ affixed[t].end = req.anchor[t] + req.duration[t]
  <2>1. affixed[t] = PlanStep(req, t, affixed[t].start) /\ affixed[t].start = req.anchor[t]
    BY <1>1 DEF StepInv, AsRequested
  <2>2. PlanStep(req, t, affixed[t].start).end = affixed[t].start + req.duration[t]
    BY DEF PlanStep
  <2> QED BY <2>1, <2>2
<1>4. CASE affixed[t].start < EarliestStart(t)
  <2>1. Fail("anchor_rejected")
    BY <1>2, <1>4 DEF KeepAffixed
  <2>2. AfterSettling(req)[next] =
          Sol(AnchorSpans, Times(scheduled), occupied, Copy(omitted), excluded, Failure(t, "anchor_rejected"))
    BY <1>1, <1>2, <1>3, <1>4, SettleFixed DEF SettleReady
  <2>3. AfterSettling(req)[next].failure = Failure(Current, "anchor_rejected")
    BY <1>1, <2>2 DEF Sol
  <2>4. SolverFails'
    BY <2>1, <2>3, FailedTurn DEF SettleReady
  <2> QED BY <2>1, <2>4 DEF SolverInv, Fail, Walking
<1>5. CASE ~(affixed[t].start < EarliestStart(t))
  <2>1. /\ UNCHANGED <<req, phase, occupied, omitted, excluded, protected>>
        /\ next' = next + 1 /\ scheduled' = With(scheduled, t, affixed[t])
    BY <1>2, <1>5 DEF KeepAffixed, Schedule, Advance
  <2>2. Times(scheduled') = With(Times(scheduled), t, Span(req.anchor[t], req.duration[t]))
    BY <1>3, <2>1, TimesWith DEF Span
  <2>3. AfterSettling(req)[next] =
          Sol(AnchorSpans, With(Times(scheduled), t, Span(req.anchor[t], req.duration[t])), occupied,
              Copy(omitted), excluded, NoFailure)
    BY <1>1, <1>2, <1>3, <1>5, SettleFixed DEF SettleReady
  <2>4. AfterSettling(req)[next] =
          Sol(AnchorSpans, Times(scheduled'), occupied', Copy(omitted'), excluded', NoFailure)
    BY <2>1, <2>2, <2>3
  <2> QED BY <1>1, <2>1, <2>4, SettleEnds
<1> QED BY <1>4, <1>5


LEMMA SolverStartsPlacing ==
  ASSUME SkeletonInv, SolverInv, SettleReady, NEW t \in Tasks, StartPlacement(t)
  PROVE  SolverInv'
<1>1. t = Current /\ t \notin excluded /\ phase = "schedule" /\ InOrder
  BY DEF StartPlacement, Scheduling
<1>2. DependenciesScheduled(t)
  BY <1>1, ReachedReady DEF SettleReady, Walking
<1>3. /\ phase' = "place" /\ cursor' = MinimumStart(t)
      /\ UNCHANGED <<req, next, occupied, protected, scheduled, omitted, excluded>>
  BY <1>2 DEF StartPlacement
<1>4. Current' = t /\ SolverStart(t)' = SolverStart(t) /\ FoundFrom(t, cursor)' = SolverStart(t)
  BY <1>1, <1>3, MinimumStartStable DEF Current, SolverStart, FoundFrom
<1>5. SearchMatches'
  BY <1>4 DEF SearchMatches
<1>6. SettleMatches'
  <2>1. Sketch(AnchorSpans)' = Sketch(AnchorSpans)
    BY <1>3 DEF Sketch, Times, Copy, AnchorSpans
  <2> QED BY <1>3, <2>1, SolverFrame DEF SettleMatches, SettleReady
<1>7. next <= Len(req.order) + 1
  BY <1>1 DEF SolverInv, SettleReady
<1> QED BY <1>3, <1>5, <1>6, <1>7 DEF SolverInv, SettleReady, Walking

LEMMA SolverSearches ==
  ASSUME SkeletonInv, SolverInv, SettleReady, NEW t \in Tasks, Bump(t)
  PROVE  SolverInv'
<1> DEFINE w == EffectiveWindow(req, t)
<1>1. /\ t = Current /\ phase = "place" /\ InOrder /\ ~NoRoom(t, cursor)
      /\ Clashing(cursor, cursor + req.duration[t]) # {}
      /\ cursor' = NextStart(t)
      /\ UNCHANGED <<req, phase, next, occupied, protected, scheduled, omitted, excluded>>
  BY DEF Bump, SettleReady, CandidateEnd
<1>2. /\ cursor \in Time /\ req.duration[t] \in 1 .. MaxTime /\ w \in Window
      /\ cursor + req.duration[t] <= MaxTime /\ cursor + req.duration[t] <= w.end
  <2>1. cursor \in Time /\ req.duration[t] \in 1 .. MaxTime /\ w \in Window
    BY RequestFacts, EffectiveWindowType DEF SettleReady, TypeOK
  <2> QED BY <1>1, <2>1, TimeAssumption DEF NoRoom, Time, Window
<1>3. NextStart(t) = Later(FirstOverlap(cursor, cursor + req.duration[t]).end, cursor + 1)
  BY <1>2, TimeAssumption DEF NextStart, CandidateEnd, Sooner, Time
<1>4. FoundFrom(t, cursor) = FoundFrom(t, NextStart(t))
  <2>1. w.end \in Time
    BY <1>2 DEF Window
  <2>2. ~(cursor + req.duration[t] > w.end)
    BY <1>2, <2>1 DEF Time
  <2>3. FoundFrom(t, cursor) =
          IF cursor + req.duration[t] > w.end \/ Clashing(cursor, cursor + req.duration[t]) = {} THEN cursor
          ELSE SearchEnd(req, occupied, t,
                         Later(FirstOverlap(cursor, cursor + req.duration[t]).end, cursor + 1), w.end)
    BY <1>2, <2>1, SearchEndIs DEF FoundFrom, SettleReady
  <2>4. FoundFrom(t, cursor) = SearchEnd(req, occupied, t, NextStart(t), w.end)
    BY <1>1, <1>3, <2>2, <2>3
  <2> QED BY <2>4 DEF FoundFrom
<1>5. FoundFrom(t, cursor)' = FoundFrom(t, cursor') /\ SolverStart(t)' = SolverStart(t) /\ Current' = t
      /\ WindowHolds(req, t)' = WindowHolds(req, t)
  BY <1>1, MinimumStartStable DEF FoundFrom, SolverStart, Current
<1>6. SearchMatches'
  BY <1>1, <1>4, <1>5 DEF SearchMatches, SolverInv, SettleReady
<1>7. SettleMatches'
  <2>1. Sketch(AnchorSpans)' = Sketch(AnchorSpans)
    BY <1>1 DEF Sketch, Times, Copy, AnchorSpans
  <2> QED BY <1>1, <2>1, SolverFrame DEF SettleMatches, SettleReady
<1>8. next <= Len(req.order) + 1
  BY <1>1 DEF SolverInv, SettleReady
<1> QED BY <1>1, <1>6, <1>7, <1>8 DEF SolverInv, SettleReady, Walking

(* Where the planner's search stands it ends as the solver's does.         *)
LEMMA SolverFindsWhatFits ==
  ASSUME SkeletonInv, SolverInv, SettleReady, phase = "place", NEW t \in Tasks, t = Current
  PROVE  /\ ~NoRoom(t, cursor) /\ Clashing(cursor, CandidateEnd(t)) = {} =>
              SolverFinds(t) /\ SolverStart(t) = cursor
         /\ NoRoom(t, cursor) => ~SolverFinds(t)
         /\ t \notin DOMAIN req.anchor /\ t \notin excluded /\ DependenciesScheduled(t)
<1> DEFINE w == EffectiveWindow(req, t)
<1>1. cursor \in Time /\ req.duration[t] \in 1 .. MaxTime /\ w \in Window /\ w.end \in Time
  BY RequestFacts, EffectiveWindowType DEF SettleReady, TypeOK, Window
<1>2. WindowHolds(req, t) => SolverStart(t) = FoundFrom(t, cursor)
  BY DEF SolverInv, SearchMatches, SettleReady
<1>3. FoundFrom(t, cursor) =
        IF cursor + req.duration[t] > w.end \/ Clashing(cursor, cursor + req.duration[t]) = {} THEN cursor
        ELSE SearchEnd(req, occupied, t,
                       Later(FirstOverlap(cursor, cursor + req.duration[t]).end, cursor + 1), w.end)
  BY <1>1, SearchEndIs DEF FoundFrom, SettleReady
<1> HIDE DEF w
<1>4. NoRoom(t, cursor) <=> ~WindowHolds(req, t) \/ cursor + req.duration[t] > w.end
  BY <1>1, TimeAssumption DEF NoRoom, w, Time, Window
<1>5. SolverFinds(t) <=> WindowHolds(req, t) /\ SolverStart(t) + req.duration[t] <= w.end
  BY DEF SolverFinds, w
<1>6. /\ t \notin excluded \cup DOMAIN affixed \cup DOMAIN preserved /\ DependenciesScheduled(t)
      /\ t \notin DOMAIN scheduled
  BY ReachedReady DEF SettleReady, WalkInv, Walking
<1>7. t \notin DOMAIN req.anchor
  BY <1>6 DEF SettleReady, AnchorsFixed
<1>8. CASE NoRoom(t, cursor)
  BY <1>1, <1>2, <1>3, <1>4, <1>5, <1>6, <1>7, <1>8 DEF Time
<1>9. CASE ~NoRoom(t, cursor) /\ Clashing(cursor, CandidateEnd(t)) = {}
  BY <1>1, <1>2, <1>3, <1>4, <1>5, <1>6, <1>7, <1>9 DEF Time, CandidateEnd
<1> QED BY <1>6, <1>7, <1>8, <1>9

LEMMA SolverPlaces ==
  ASSUME SkeletonInv, SolverInv, SettleReady, NEW t \in Tasks, Place(t)
  PROVE  SolverInv'
<1>1. /\ t = Current /\ phase = "place" /\ ~NoRoom(t, cursor) /\ Clashing(cursor, CandidateEnd(t)) = {}
      /\ occupied' = occupied \cup {Interval(PlanStep(req, t, cursor))}
      /\ scheduled' = With(scheduled, t, PlanStep(req, t, cursor))
      /\ phase' = "schedule" /\ next' = next + 1
      /\ UNCHANGED <<req, protected, omitted, excluded>>
  BY DEF Place
<1>2. /\ SolverFinds(t) /\ SolverStart(t) = cursor
      /\ t \in Tasks \ DOMAIN req.anchor /\ t \notin excluded /\ DependenciesScheduled(t)
  BY <1>1, SolverFindsWhatFits
<1>3. AfterSettling(req)[next] =
        Sol(AnchorSpans, With(Times(scheduled), t, Span(cursor, req.duration[t])),
            occupied \cup {Interval(PlanStep(req, t, cursor))}, Copy(omitted), excluded, NoFailure)
  BY <1>1, <1>2, SettleOther DEF SettleReady
<1>4. Times(scheduled') = With(Times(scheduled), t, Span(cursor, req.duration[t]))
  <2>1. PlanStep(req, t, cursor).start = cursor /\ PlanStep(req, t, cursor).end = cursor + req.duration[t]
    BY DEF PlanStep
  <2> HIDE DEF PlanStep
  <2> QED BY <1>1, <2>1, TimesWith DEF Span
<1>5. AfterSettling(req)[next] =
        Sol(AnchorSpans, Times(scheduled'), occupied', Copy(omitted'), excluded', NoFailure)
  BY <1>1, <1>3, <1>4
<1> QED BY <1>1, <1>5, SettleEnds

LEMMA SolverOmits ==
  ASSUME SkeletonInv, SolverInv, SettleReady, NEW t \in Tasks, Omit(t) \/ RejectProtected(t)
  PROVE  SolverInv'
<1>1. t = Current /\ phase = "place" /\ NoRoom(t, cursor)
  BY DEF Omit, RejectProtected
<1>2. /\ ~SolverFinds(t) /\ t \in Tasks \ DOMAIN req.anchor /\ t \notin excluded /\ DependenciesScheduled(t)
  BY <1>1, SolverFindsWhatFits
<1>3. CASE RejectProtected(t)
  <2>1. Fail("no_room") /\ t \in protected
    BY <1>3 DEF RejectProtected
  <2>2. AfterSettling(req)[next] =
          Sol(AnchorSpans, Times(scheduled), occupied, Copy(omitted), excluded, Failure(t, "no_room"))
    BY <1>1, <1>2, <2>1, SettleOther DEF SettleReady
  <2>3. AfterSettling(req)[next].failure = Failure(Current, "no_room")
    BY <1>1, <2>2 DEF Sol
  <2>4. SolverFails'
    BY <2>1, <2>3, FailedTurn DEF SettleReady
  <2> QED BY <2>1, <2>4 DEF SolverInv, Fail, Walking
<1>4. CASE Omit(t)
  <2>1. /\ t \notin protected /\ omitted' = With(omitted, t, GreedyReason(t))
        /\ excluded' = excluded \cup WithDependents(req, {t})
        /\ phase' = "schedule" /\ next' = next + 1
        /\ UNCHANGED <<req, occupied, protected, scheduled>>
    BY <1>4 DEF Omit
  <2>2. AfterSettling(req)[next] =
          Sol(AnchorSpans, Times(scheduled), occupied, With(Copy(omitted), t, GreedyReason(t)),
              ExcludeWith(req, excluded \cup {t}), NoFailure)
    BY <1>1, <1>2, <2>1, SettleOther DEF SettleReady
  <2>3. ExcludeWith(req, excluded \cup {t}) = excluded'
    <3>1. IsFiniteSet(Tasks)
      BY RequestFacts, TasksFinite DEF SettleReady
    <3>2. req.deps \in [Tasks -> SUBSET Tasks] /\ excluded \in SUBSET Tasks /\ ClosedUnderDependents(req, excluded)
      BY RequestFacts DEF SettleReady, TypeOK, WalkInv, ExclusionClosed
    <3> QED BY <2>1, <3>1, <3>2, ExcludeWithIs
  <2>4. Copy(omitted') = With(Copy(omitted), t, GreedyReason(t))
    BY <2>1, CopyWith
  <2>5. AfterSettling(req)[next] =
          Sol(AnchorSpans, Times(scheduled'), occupied', Copy(omitted'), excluded', NoFailure)
    BY <2>1, <2>2, <2>3, <2>4
  <2> QED BY <2>1, <2>5, SettleEnds
<1> QED BY <1>3, <1>4

LEMMA SolverEmits ==
  ASSUME SkeletonInv, SolverInv, req.mode = "fresh", Emit
  PROVE  SolverInv'
<1>1. /\ TypeOK /\ WalkInv /\ phase = "schedule" /\ Walking /\ ~InOrder /\ SettleMatches
      /\ IsPossible(req.window) /\ next <= Len(req.order) + 1
  BY DEF SkeletonInv, SolverInv, Emit, Walking
<1>2. Len(req.order) \in Nat /\ next - 1 = Len(req.order)
  BY <1>1, RequestFacts DEF TypeOK, InOrder
<1>3. Tasks \ excluded = DOMAIN scheduled
  BY <1>1, AllPassed
<1>4. ~(req.window.start >= req.window.end)
  BY <1>1, RequestFacts DEF IsPossible, Window, Time
<1> DEFINE settled == AfterSettling(req)[Len(req.order)]
<1>5. /\ settled = Sketch(AnchorSpans)
      /\ settled.failure = NoFailure /\ settled.steps = Times(scheduled)
  BY <1>1, <1>2, SketchFacts DEF SettleMatches
<1>6. DOMAIN settled.steps = DOMAIN scheduled
  BY <1>5 DEF Times
<1>7. CASE Tasks \ excluded = {}
  <2>1. Fail("empty_plan")
    BY <1>3, <1>7 DEF Emit
  <2>2. Settled(req) = WithFailure(settled, Failure("none", "empty_plan"))
    BY <1>3, <1>4, <1>5, <1>6, <1>7 DEF Settled, WithFailure
  <2>3. Settled(req) = Sol(AnchorSpans, Times(scheduled), occupied, Copy(omitted), excluded, Failure("none", "empty_plan"))
    BY <1>5, <2>2, SolFailing DEF Sketch
  <2>4. Settled(req).failure = Failure("none", "empty_plan")
    BY <2>3 DEF Sol
  <2>5. Refusal' = Failure("none", "empty_plan")
    BY <2>1 DEF Fail, Refusal
  <2>6. SolverFails'
    BY <2>1, <2>4, <2>5, SolverFrame DEF SolverFails, Fail
  <2> QED BY <2>1, <2>6 DEF SolverInv, Fail, Walking
<1>8. CASE Tasks \ excluded # {}
  <2>1. /\ plan' = [t \in Tasks \ excluded |-> scheduled[t]]
        /\ unplaced' = [t \in excluded |-> Report(t)]
        /\ phase' = "done"
        /\ UNCHANGED <<req, occupied, protected, scheduled, omitted, excluded>>
    BY <1>3, <1>8 DEF Emit
  <2>2. Settled(req) = settled
    BY <1>3, <1>4, <1>5, <1>6, <1>8 DEF Settled
  <2>3. Sketch(AnchorSpans)' = Sketch(AnchorSpans)
    BY <2>1 DEF Sketch, Times, Copy, AnchorSpans
  <2>4. \A t : Report(t)' = Report(t)
    BY <2>1 DEF Report
  <2>5. SolverEnds'
    <3>1. Settled(req)' = Sketch(AnchorSpans)'
      BY <1>5, <2>1, <2>2, <2>3, SolverFrame
    <3>2. unplaced' = [t \in excluded' |-> Report(t)']
      BY <2>1, <2>4
    <3> QED BY <1>1, <1>3, <2>1, <3>1, <3>2, SolverFrame DEF SolverEnds, SettleMatches
  <2> QED BY <1>1, <2>1, <2>5 DEF SolverInv, Walking
<1> QED BY <1>7, <1>8

LEMMA SolverStep == SkeletonInv /\ SolverInv /\ [Next]_vars => SolverInv'
<1> SUFFICES ASSUME SkeletonInv, SolverInv, [Next]_vars PROVE SolverInv'
  OBVIOUS
<1>1. req' = req
  BY DEF Next, TaskStep, Open, CollectPrior, CollectDone, PreserveDone, AffixSkip, AffixAnchor,
         AffixReject, AffixDone, SkipExcluded, Emit, PushPreserved, KeepPreserved, KeepAffixed,
         StartPlacement, Bump, Place, Omit, RejectProtected, Fail, Advance, EnterPhase, Schedule,
         vars
<1>2. CASE req.mode # "fresh"
  BY <1>1, <1>2 DEF SolverInv
<1>3. CASE req.mode = "fresh"
  <2>1. CASE Open \/ CollectPrior \/ CollectDone \/ PreserveDone
    BY <1>3, <2>1, SolverOpens
  <2>2. CASE AffixSkip \/ AffixAnchor \/ AffixReject
    BY <1>3, <2>2, SolverAffixes
  <2>3. CASE AffixDone
    BY <1>3, <2>3, SolverAffixed
  <2>4. CASE SkipExcluded
    <3>1. SettleReady
      BY <1>3, <2>4, SettleBegins DEF SkipExcluded, Walking
    <3> QED BY <2>4, <3>1, SolverSkips
  <2>5. CASE Emit
    BY <1>3, <2>5, SolverEmits
  <2>6. ASSUME NEW t \in Tasks, TaskStep(t) PROVE SolverInv'
    <3>1. DOMAIN preserved = {}
      BY <1>3 DEF SkeletonInv, StepInv
    <3>2. ~PushPreserved(t) /\ ~KeepPreserved(t)
      BY <3>1 DEF PushPreserved, Unpushed, KeepPreserved
    <3>3. Walking /\ InOrder
      <4>1. phase = "place" => InOrder
        BY DEF SkeletonInv, TypeOK
      <4> QED BY <2>6, <3>2, <4>1 DEF TaskStep, KeepAffixed, StartPlacement, Scheduling, Bump, Place, Omit,
                                      RejectProtected, Walking
    <3>4. SettleReady /\ StepInv
      BY <1>3, <3>3, SettleBegins DEF SkeletonInv
    <3> QED BY <2>6, <3>2, <3>4, SolverTakesAnchor, SolverStartsPlacing, SolverSearches, SolverPlaces, SolverOmits
            DEF TaskStep
  <2>7. CASE UNCHANGED vars
    <3>1. Current' = Current /\ SolverStart(Current)' = SolverStart(Current)
          /\ FoundFrom(Current, cursor)' = FoundFrom(Current, cursor)
      BY <2>7, MinimumStartStable DEF vars, Current, SolverStart, FoundFrom
    <3>2. Sketch(AnchorSpans)' = Sketch(AnchorSpans) /\ Sketch(Times(affixed))' = Sketch(Times(affixed))
      BY <2>7 DEF vars, Sketch, Times, Copy, AnchorSpans
    <3>3. Refusal' = Refusal /\ \A t : Report(t)' = Report(t)
      BY <2>7 DEF vars, Refusal, Current, Report
    <3>4. UNCHANGED <<req, phase, next, protected, scheduled, excluded, plan, unplaced>>
      BY <2>7 DEF vars
    <3>5. /\ AffixMatches' = AffixMatches /\ SettleMatches' = SettleMatches
          /\ SearchMatches' = SearchMatches /\ SolverFails' = SolverFails
      BY <3>1, <3>2, <3>3, <3>4, SolverFrame DEF AffixMatches, SettleMatches, SearchMatches, SolverFails
    <3>6. SolverEnds' = SolverEnds
      BY <3>2, <3>3, <3>4, SolverFrame DEF SolverEnds
    <3> QED BY <3>4, <3>5, <3>6 DEF SolverInv, Walking
  <2> QED BY <2>1, <2>2, <2>3, <2>4, <2>5, <2>6, <2>7 DEF Next
<1> QED BY <1>2, <1>3


-----------------------------------------------------------------------------
(***************************************************************************)
(* What both compute from the Plan: how far a suffix may be delayed, the   *)
(* delayed Plans, the order of the report, and whether a Plan is feasible. *)
(***************************************************************************)
LEMMA MinAgrees ==
  ASSUME NEW A \in SUBSET Time, NEW B \in SUBSET Time, A # {}, A \subseteq B,
         \A b \in B : \E a \in A : a <= b
  PROVE  Min(A) = Min(B)
<1>1. Min(A) \in A /\ \A x \in A : Min(A) <= x
  BY MinFacts
<1>2. Min(B) \in B /\ \A x \in B : Min(B) <= x
  BY MinFacts
<1>3. PICK a \in A : a <= Min(B)
  BY <1>2
<1>4. Min(A) <= a /\ Min(B) <= Min(A)
  BY <1>1, <1>2, <1>3
<1>5. A \subseteq Int /\ B \subseteq Int
  BY TimeAssumption DEF Time
<1>6. Min(A) \in Int /\ Min(B) \in Int /\ a \in Int
  BY <1>1, <1>2, <1>3, <1>5
<1> QED BY <1>3, <1>4, <1>6

(* A Plan of requested steps that fills the calendar.                      *)
LeadFine ==
  /\ TypeOK /\ IsSchedule(lead) /\ occupied = Reserved(lead)
  /\ \A t \in DOMAIN lead : AsRequested(t, lead[t])

LEMMA LeadFacts ==
  ASSUME LeadFine, NEW t \in DOMAIN lead
  PROVE  /\ t \in Tasks /\ lead[t].start \in Time /\ lead[t].end \in Time
         /\ lead[t].end = lead[t].start + req.duration[t] /\ req.duration[t] \in 1 .. MaxTime
         /\ lead[t].static <=> t \in DOMAIN req.anchor
         /\ DOMAIN Times(lead) = DOMAIN lead
         /\ Times(lead)[t].start = lead[t].start /\ Times(lead)[t].end = lead[t].end
         /\ lead[t].end <= req.window.end /\ req.window.start <= lead[t].start
         /\ req.window.end \in Time /\ req.window.start \in Time
         /\ t \in DOMAIN req.taskWindow =>
              req.taskWindow[t].end \in Time /\ lead[t].end <= req.taskWindow[t].end
<1>1. t \in Tasks /\ lead[t] \in Step /\ AsRequested(t, lead[t]) /\ TypeOK
  BY DEF LeadFine, IsSchedule
<1>2. lead[t].start \in Time /\ lead[t].end \in Time
  BY <1>1 DEF Step
<1>3. lead[t] = PlanStep(req, t, lead[t].start)
  BY <1>1 DEF AsRequested
<1>4. /\ PlanStep(req, t, lead[t].start).end = lead[t].start + req.duration[t]
      /\ PlanStep(req, t, lead[t].start).static = (t \in DOMAIN req.anchor)
  BY DEF PlanStep
<1>5. lead[t].end = lead[t].start + req.duration[t] /\ (lead[t].static <=> t \in DOMAIN req.anchor)
  BY <1>3, <1>4
<1>6. req.duration[t] \in 1 .. MaxTime /\ req.window.end \in Time /\ req.window.start \in Time
  BY <1>1, RequestFacts DEF Window
<1>7. /\ lead[t].end <= req.window.end /\ req.window.start <= lead[t].start
      /\ t \in DOMAIN req.taskWindow => lead[t].end <= req.taskWindow[t].end
  BY <1>1, RequestedStepFits
<1>8. t \in DOMAIN req.taskWindow => req.taskWindow[t].end \in Time
  BY <1>1, RequestFacts DEF IsRequest, Window
<1>9. /\ DOMAIN Times(lead) = DOMAIN lead
      /\ Times(lead)[t].start = lead[t].start /\ Times(lead)[t].end = lead[t].end
  BY DEF Times
<1> QED BY <1>1, <1>2, <1>5, <1>6, <1>7, <1>8, <1>9

(* The room behind one step of a suffix, as the solver and as the planner  *)
(* see it.                                                                 *)
SolverRoom(suffix, t) ==
  {req.window.end - Times(lead)[t].end}
    \cup (IF t \in DOMAIN req.taskWindow THEN {Later(0, req.taskWindow[t].end - Times(lead)[t].end)} ELSE {})
    \cup {o.start - Times(lead)[t].end : o \in {p \in occupied :
            p.task \notin suffix /\ p.start >= Times(lead)[t].end}}

PlannerRoom(suffix, t) ==
  {Later(0, req.window.end - lead[t].end),
   Later(0, OwnEnd(t, MaxTime) - lead[t].end)} \cup RoomBehind(suffix, t)

LEMMA RoomAgrees ==
  ASSUME LeadFine, NEW t \in DOMAIN lead, NEW suffix
  PROVE  /\ SolverRoom(suffix, t) \subseteq Time /\ PlannerRoom(suffix, t) \subseteq Time
         /\ req.window.end - lead[t].end \in SolverRoom(suffix, t)
         /\ SolverRoom(suffix, t) \subseteq PlannerRoom(suffix, t)
         /\ \A b \in PlannerRoom(suffix, t) : \E a \in SolverRoom(suffix, t) : a <= b
<1> DEFINE end == lead[t].end
<1>1. /\ end \in Int /\ req.window.end \in Int /\ end <= req.window.end /\ req.window.end <= MaxTime
      /\ MaxTime \in Int /\ 0 <= end /\ Times(lead)[t].end = end
      /\ t \in DOMAIN req.taskWindow =>
           req.taskWindow[t].end \in Int /\ end <= req.taskWindow[t].end /\ req.taskWindow[t].end <= MaxTime
  BY LeadFacts, TimeAssumption DEF Time
<1> HIDE DEF end
<1>2. ASSUME NEW o \in occupied, o.start >= end PROVE o.start - end \in Time
  <2>1. o.start \in Time
    BY <1>2 DEF LeadFine, TypeOK
  <2> QED BY <1>1, <1>2, <2>1 DEF Time
<1>3. RoomBehind(suffix, t) = {o.start - end : o \in {p \in occupied : p.task \notin suffix /\ p.start >= end}}
  BY DEF RoomBehind, end
<1>4. RoomBehind(suffix, t) \subseteq Time
  BY <1>2, <1>3
<1>5. Later(0, req.window.end - end) = req.window.end - end /\ req.window.end - end \in Time
  BY <1>1 DEF Later, Time
<1>6. CASE t \in DOMAIN req.taskWindow
  <2> DEFINE own == Later(0, req.taskWindow[t].end - end)
  <2>1. own \in Time
    BY <1>1, <1>6 DEF Later, Time
  <2>2. SolverRoom(suffix, t) = {req.window.end - end} \cup {own} \cup RoomBehind(suffix, t)
    BY <1>1, <1>3, <1>6 DEF SolverRoom
  <2>3. PlannerRoom(suffix, t) = {req.window.end - end, own} \cup RoomBehind(suffix, t)
    BY <1>5, <1>6 DEF PlannerRoom, OwnEnd, end
  <2>4. SolverRoom(suffix, t) = PlannerRoom(suffix, t) /\ SolverRoom(suffix, t) \subseteq Time
    BY <1>4, <1>5, <2>1, <2>2, <2>3
  <2>5. \A b \in SolverRoom(suffix, t) : b <= b
    BY <2>4 DEF Time
  <2>6. req.window.end - end \in SolverRoom(suffix, t)
    BY <2>2
  <2> HIDE DEF own
  <2> QED BY <2>4, <2>5, <2>6 DEF end
<1>7. CASE t \notin DOMAIN req.taskWindow
  <2> DEFINE own == Later(0, MaxTime - end)
  <2>1. own \in Time /\ req.window.end - end <= own
    BY <1>1 DEF Later, Time
  <2>2. SolverRoom(suffix, t) = {req.window.end - end} \cup RoomBehind(suffix, t)
    BY <1>1, <1>3, <1>7 DEF SolverRoom
  <2>3. PlannerRoom(suffix, t) = {req.window.end - end, own} \cup RoomBehind(suffix, t)
    BY <1>5, <1>7 DEF PlannerRoom, OwnEnd, end
  <2> HIDE DEF own
  <2>4. \A b \in RoomBehind(suffix, t) : b <= b
    BY <1>4 DEF Time
  <2>5. req.window.end - end <= req.window.end - end
    BY <1>1
  <2> QED BY <1>4, <1>5, <2>1, <2>2, <2>3, <2>4, <2>5 DEF end
<1> QED BY <1>6, <1>7

LEMMA ShiftAgrees ==
  ASSUME LeadFine, NEW suffix \in SUBSET DOMAIN lead, suffix # {},
         NEW sol, sol.steps = Times(lead), sol.calendar = occupied
  PROVE  SolverShift(req, sol, suffix) = SuffixSlack(suffix) /\ SuffixSlack(suffix) \in Time
<1> DEFINE rooms == UNION {SolverRoom(suffix, t) : t \in suffix}
           A == {Later(0, m) : m \in rooms}
           B == UNION {PlannerRoom(suffix, t) : t \in suffix}
<1>1. SolverShift(req, sol, suffix) = Min(A)
  BY DEF SolverShift, SolverRoom
<1>2. SuffixSlack(suffix) = Min(B)
  BY DEF SuffixSlack, PlannerRoom
<1>3. ASSUME NEW t \in suffix
      PROVE  /\ SolverRoom(suffix, t) \subseteq Time /\ PlannerRoom(suffix, t) \subseteq Time
             /\ SolverRoom(suffix, t) # {}
             /\ SolverRoom(suffix, t) \subseteq PlannerRoom(suffix, t)
             /\ \A b \in PlannerRoom(suffix, t) : \E a \in SolverRoom(suffix, t) : a <= b
  BY <1>3, RoomAgrees
<1>4. rooms \in SUBSET Time /\ rooms # {} /\ rooms \subseteq B /\ B \in SUBSET Time
  BY <1>3
<1>5. \A b \in B : \E a \in rooms : a <= b
  <2> SUFFICES ASSUME NEW b \in B PROVE \E a \in rooms : a <= b
    OBVIOUS
  <2>1. PICK t \in suffix : b \in PlannerRoom(suffix, t)
    OBVIOUS
  <2>2. PICK a \in SolverRoom(suffix, t) : a <= b
    BY <1>3, <2>1
  <2>3. a \in rooms
    BY <2>2
  <2> QED BY <2>2, <2>3
<1>6. A = rooms
  <2>1. \A m \in rooms : Later(0, m) = m
    BY <1>4 DEF Time, Later
  <2> HIDE DEF rooms
  <2> QED BY <2>1
<1> HIDE DEF rooms, A, B
<1>7. Min(rooms) = Min(B)
  BY <1>4, <1>5, MinAgrees
<1>8. Min(B) \in Time
  BY <1>4, MinFacts
<1> QED BY <1>1, <1>2, <1>6, <1>7, <1>8

(* One of the shifts, spread over the longest.                             *)
ShiftOf(k, longest) == (k * longest) \div Sooner(longest, 15)

SolverMoved(tasks, by) ==
  [u \in DOMAIN Times(lead) |->
     IF u \in tasks THEN Span(Times(lead)[u].start + by, req.duration[u]) ELSE Times(lead)[u]]

LEMMA MovedAgrees ==
  ASSUME LeadFine, NEW tasks, NEW by \in Int
  PROVE  Times(Delayed(tasks, by)) = SolverMoved(tasks, by)
<1> DEFINE p == Delayed(tasks, by)
<1>1. DOMAIN p = DOMAIN lead /\ DOMAIN Times(lead) = DOMAIN lead
  BY DEF Delayed, Times
<1>2. ASSUME NEW u \in DOMAIN lead
      PROVE  [start |-> p[u].start, end |-> p[u].end] =
               IF u \in tasks THEN Span(Times(lead)[u].start + by, req.duration[u]) ELSE Times(lead)[u]
  <2>1. /\ lead[u].start \in Int /\ lead[u].end \in Int /\ req.duration[u] \in Int
        /\ lead[u].end = lead[u].start + req.duration[u]
        /\ Times(lead)[u].start = lead[u].start
    BY <1>2, LeadFacts, TimeAssumption DEF Time
  <2>2. CASE u \in tasks
    <3>1. p[u] = [lead[u] EXCEPT !.start = @ + by, !.end = @ + by]
      BY <1>2, <2>2 DEF Delayed
    <3>2. lead[u] \in Step
      BY <1>2 DEF LeadFine, IsSchedule
    <3>3. p[u].start = lead[u].start + by /\ p[u].end = lead[u].end + by
      BY <3>1, <3>2 DEF Step
    <3>4. p[u].end = (lead[u].start + by) + req.duration[u]
      BY <2>1, <3>3
    <3> QED BY <2>1, <2>2, <3>3, <3>4 DEF Span
  <2>3. CASE u \notin tasks
    <3>1. p[u] = lead[u]
      BY <1>2, <2>3 DEF Delayed
    <3> QED BY <1>2, <2>3, <3>1 DEF Times
  <2> QED BY <2>2, <2>3
<1>3. Times(p) = [u \in DOMAIN lead |-> [start |-> p[u].start, end |-> p[u].end]]
  BY <1>1 DEF Times
<1> HIDE DEF p
<1>4. Times(p) = [u \in DOMAIN lead |->
                    IF u \in tasks THEN Span(Times(lead)[u].start + by, req.duration[u]) ELSE Times(lead)[u]]
  BY <1>2, <1>3
<1> QED BY <1>1, <1>4 DEF SolverMoved, p


LEMMA DelaysAgree ==
  ASSUME LeadFine, NEW sol, sol.steps = Times(lead), sol.calendar = occupied
  PROVE  SolverDelays(req, sol) = {Times(p) : p \in SuffixDelays}
<1> DEFINE base == sol.steps
           tail(t) == {u \in DOMAIN base : Position(req, u) >= Position(req, t)}
           rigid(t) == t \in DOMAIN req.anchor \/ base[t].end <= req.window.start
                                               \/ base[t].start < req.window.start
           pivots == {t \in DOMAIN base : \A u \in tail(t) : ~rigid(u)}
           most(t) == SolverShift(req, sol, tail(t))
           count(t) == Sooner(most(t), 15)
           ours == {t \in DOMAIN lead : Movable(Suffix(t))}
           longest(t) == SuffixSlack(Suffix(t))
<1>1. base = Times(lead) /\ DOMAIN base = DOMAIN lead
  BY DEF Times
<1>2. \A t : tail(t) = Suffix(t)
  BY <1>1 DEF Suffix
<1>3. pivots = ours
  <2>1. ASSUME NEW u \in DOMAIN lead
        PROVE  ~rigid(u) <=> /\ ~lead[u].static /\ lead[u].end > req.window.start
                             /\ lead[u].start >= req.window.start
    BY <1>1, <2>1, LeadFacts, TimeAssumption DEF Time
  <2>2. \A t : Suffix(t) \subseteq DOMAIN lead
    BY DEF Suffix
  <2> QED BY <1>1, <1>2, <2>1, <2>2 DEF Movable
<1>4. ASSUME NEW t \in DOMAIN lead PROVE most(t) = longest(t) /\ longest(t) \in Time
  <2>1. Suffix(t) \subseteq DOMAIN lead
    BY DEF Suffix
  <2>2. t \in Suffix(t)
    <3>1. Position(req, t) \in Int
      BY LeadFacts, PlacesFacts DEF LeadFine
    <3> QED BY <3>1 DEF Suffix
  <2>3. SolverShift(req, sol, Suffix(t)) = longest(t) /\ longest(t) \in Time
    BY <2>1, <2>2, ShiftAgrees
  <2> QED BY <1>2, <2>3
<1>5. SolverDelays(req, sol) =
        UNION {{SolverMoved(tail(t), ShiftOf(k, most(t))) : k \in 1 .. count(t)} : t \in pivots}
  BY <1>1 DEF SolverDelays, SolverMoved, ShiftOf
<1>6. \A t : Shifts(longest(t)) = {ShiftOf(k, longest(t)) : k \in 1 .. Sooner(longest(t), 15)}
  BY DEF Shifts, ShiftOf
<1>7. SuffixDelays = UNION {{Delayed(Suffix(t), shift) : shift \in Shifts(longest(t))} : t \in ours}
  BY DEF SuffixDelays
<1>8. \A t \in ours : t \in DOMAIN lead
  OBVIOUS
<1> HIDE DEF base, tail, rigid, pivots, most, ours, longest
<1>9. ASSUME NEW t \in ours
      PROVE  {SolverMoved(tail(t), ShiftOf(k, most(t))) : k \in 1 .. count(t)} =
               {Times(Delayed(Suffix(t), shift)) : shift \in Shifts(longest(t))}
  <2>1. most(t) = longest(t) /\ longest(t) \in Time /\ tail(t) = Suffix(t)
    BY <1>2, <1>4, <1>8
  <2>2. \A shift \in Shifts(longest(t)) : Times(Delayed(Suffix(t), shift)) = SolverMoved(Suffix(t), shift)
    <3>1. \A shift \in Shifts(longest(t)) : shift \in Int
      <4>1. longest(t) \in Nat
        BY <2>1, TimeAssumption DEF Time
      <4> QED BY <4>1, ShiftBounds
    <3> QED BY <3>1, MovedAgrees
  <2>3. {SolverMoved(tail(t), ShiftOf(k, most(t))) : k \in 1 .. count(t)} =
          {SolverMoved(Suffix(t), shift) : shift \in Shifts(longest(t))}
    BY <1>6, <2>1
  <2> QED BY <2>2, <2>3
<1> DEFINE given(t) == {SolverMoved(tail(t), ShiftOf(k, most(t))) : k \in 1 .. count(t)}
           taken(t) == {Delayed(Suffix(t), shift) : shift \in Shifts(longest(t))}
<1>10. ASSUME NEW t \in ours PROVE given(t) = {Times(p) : p \in taken(t)}
  BY <1>9
<1>11. SolverDelays(req, sol) = UNION {given(t) : t \in ours}
  BY <1>3, <1>5
<1>12. SuffixDelays = UNION {taken(t) : t \in ours}
  BY <1>7
<1> HIDE DEF given, taken
<1>13. UNION {given(t) : t \in ours} = {Times(p) : p \in UNION {taken(t) : t \in ours}}
  BY <1>10
<1> QED BY <1>11, <1>12, <1>13

LEMMA OrderAgrees ==
  ASSUME TypeOK, NEW t \in Tasks, NEW u \in Tasks
  PROVE  SolverBefore(req, t, u) <=> MoreProtected(u, t)
<1> DEFINE due(x) == x \in DOMAIN req.taskWindow
           end(x) == req.taskWindow[x].end
<1>1. /\ req.value[t] \in Int /\ req.value[u] \in Int
      /\ Ordinal[t] \in Int /\ Ordinal[u] \in Int
  BY WorthFacts
<1>2. ASSUME NEW x \in Tasks
      PROVE  /\ due(x) => OwnDeadline(x) = end(x) /\ end(x) \in Int /\ end(x) <= MaxTime
             /\ ~due(x) => OwnDeadline(x) = MaxTime + 1
  BY RequestFacts, TimeAssumption DEF IsRequest, OwnDeadline, Window, Time
<1>3. MoreProtected(u, t) <=>
        \/ req.value[t] < req.value[u]
        \/ /\ req.value[t] = req.value[u]
           /\ \/ OwnDeadline(u) < OwnDeadline(t)
              \/ OwnDeadline(u) = OwnDeadline(t) /\ Ordinal[u] < Ordinal[t]
  BY MoreProtectedMeans
<1>4. SolverBefore(req, t, u) <=>
        \/ req.value[t] < req.value[u]
        \/ /\ req.value[t] = req.value[u]
           /\ \/ ~due(t) /\ due(u)
              \/ due(t) /\ due(u) /\ end(t) > end(u)
              \/ (due(t) <=> due(u)) /\ (due(t) => end(t) = end(u)) /\ Ordinal[t] > Ordinal[u]
  BY DEF SolverBefore
<1>5. /\ due(t) => OwnDeadline(t) = end(t) /\ end(t) \in Int /\ end(t) <= MaxTime
      /\ ~due(t) => OwnDeadline(t) = MaxTime + 1
      /\ due(u) => OwnDeadline(u) = end(u) /\ end(u) \in Int /\ end(u) <= MaxTime
      /\ ~due(u) => OwnDeadline(u) = MaxTime + 1
      /\ MaxTime \in Int
  BY <1>2, TimeAssumption
<1> HIDE DEF due, end
<1>6. CASE due(t) /\ due(u)
  BY <1>1, <1>3, <1>4, <1>5, <1>6
<1>7. CASE due(t) /\ ~due(u)
  BY <1>1, <1>3, <1>4, <1>5, <1>7
<1>8. CASE ~due(t) /\ due(u)
  BY <1>1, <1>3, <1>4, <1>5, <1>8
<1>9. CASE ~due(t) /\ ~due(u)
  BY <1>1, <1>3, <1>4, <1>5, <1>9
<1> QED BY <1>6, <1>7, <1>8, <1>9

LEMMA FeasibilityAgrees ==
  ASSUME TypeOK, NEW left, NEW p, PlanFine(p, left), req.mode = "fresh"
  PROVE  SolverFeasible(req, Times(p)) /\ ValidatePlan(req, p) /\ PreservesSlack(req, p)
<1>1. ValidatePlan(req, p) /\ PreservesSlack(req, p)
  BY RequestedPlanAccepted DEF PlanFine
<1>2. /\ DOMAIN Times(p) = DOMAIN p
      /\ \A t \in DOMAIN p : Times(p)[t].start = p[t].start /\ Times(p)[t].end = p[t].end
  BY DEF Times
<1>3. ASSUME NEW t \in DOMAIN p
      PROVE  /\ p[t].start >= req.window.start /\ p[t].end <= req.window.end
             /\ t \in DOMAIN req.taskWindow =>
                  p[t].start >= req.taskWindow[t].start /\ p[t].end <= req.taskWindow[t].end
             /\ t \in DOMAIN req.anchor => p[t].start = req.anchor[t]
             /\ p[t].start \in Int
             /\ \A d \in req.deps[t] : d \in DOMAIN p /\ p[d].end <= p[t].start
  <2>1. RequestedIn(p, t)
    BY <1>3 DEF PlanFine
  <2>2. req.window.start \in Int /\ p[t].start \in Int
    BY <2>1, RequestFacts, TimeAssumption DEF RequestedIn, Step, Time, Window
  <2> QED BY <2>1, <2>2, RequestedStepFits DEF RequestedIn
<1>4. ASSUME NEW t \in DOMAIN p, NEW d \in req.deps[t] PROVE p[t].start - p[d].end >= 0
  <2>1. d \in DOMAIN p /\ p[d].end <= p[t].start /\ p[t].start \in Int
    BY <1>3, <1>4
  <2>2. p[d].end \in Int
    <3>1. p[d] \in Step
      BY <2>1 DEF PlanFine, RequestedIn
    <3> QED BY <3>1, TimeAssumption DEF Step, Time
  <2> QED BY <2>1, <2>2
<1>5. \A t \in DOMAIN p : \A d \in req.deps[t] : d \in DOMAIN p
  BY <1>3
<1>6. \A t, u \in DOMAIN p : t # u => ~(p[t].start < p[u].end /\ p[t].end > p[u].start)
  BY DEF PlanFine, Apart, Overlaps
<1>7. SolverFeasible(req, Times(p))
  BY <1>2, <1>3, <1>4, <1>5, <1>6 DEF SolverFeasible
<1> QED BY <1>1, <1>7


-----------------------------------------------------------------------------
(***************************************************************************)
(* The greedy generator answers with what the greedy planner ended with.   *)
(***************************************************************************)
GreedyAnswer ==
  strategy = "greedy" =>
    /\ answer = "rejected" => phase = "failed"
    /\ answer \in {"open", "planned"} => phase = "done" /\ lead = plan /\ report = unplaced

LEMMA GreedyAnswerStep ==
  ASSUME CandidateInv, GreedyAnswer, [CandidateNext]_allVars
  PROVE  GreedyAnswer'
<1>1. AnswerInv
  BY DEF CandidateInv
<1>2. CASE GreedyStep
  <2>1. Next /\ UNCHANGED <<strategy, answer, lead, report>>
    BY <1>2 DEF GreedyStep, answerVars
  <2>2. phase \notin {"done", "failed"}
    BY <2>1, EndedStays
  <2> QED BY <2>1, <2>2 DEF GreedyAnswer
<1>3. CASE SweepRuns
  BY <1>3 DEF SweepRuns, GreedyAnswer
<1>4. CASE Reject
  BY <1>4 DEF Reject, BothEnded, GreedyPlanned, vars, GreedyAnswer
<1>5. CASE OfferGreedy
  BY <1>5 DEF OfferGreedy, Offer, GreedyPlanned, vars, GreedyAnswer
<1>6. CASE OfferSweep
  <2>1. UNCHANGED vars /\ strategy' = strategy /\ Swept
    BY <1>6 DEF OfferSweep, Offer
  <2>2. strategy # "greedy"
    BY <1>1, <2>1 DEF AnswerInv, Swept
  <2> QED BY <2>1, <2>2 DEF GreedyAnswer
<1>7. CASE AddDelay \/ Answer \/ UNCHANGED allVars
  BY <1>7 DEF AddDelay, Answer, allVars, answerVars, vars, GreedyAnswer
<1> QED BY <1>2, <1>3, <1>4, <1>5, <1>6, <1>7 DEF CandidateNext

AgreeInv == SolverInv /\ GreedyAnswer

LEMMA AgreeBegins == CandidateInit => AgreeInv
<1> SUFFICES ASSUME CandidateInit PROVE AgreeInv
  OBVIOUS
<1>1. phase = "open" /\ answer = "pending"
  BY DEF CandidateInit, SweepInit, Init
<1> QED BY <1>1 DEF AgreeInv, SolverInv, GreedyAnswer, Walking

LEMMA SolverSame ==
  ASSUME SkeletonInv, SolverInv, UNCHANGED vars
  PROVE  SolverInv'
BY SolverStep

LEMMA AgreeStep == CandidateInv /\ AgreeInv /\ [CandidateNext]_allVars => AgreeInv'
<1> SUFFICES ASSUME CandidateInv, AgreeInv, [CandidateNext]_allVars PROVE AgreeInv'
  OBVIOUS
<1>1. SkeletonInv /\ SweepInv /\ ReadyInv /\ AnswerInv /\ SolverInv
  BY DEF CandidateInv, GeneratorInv, AgreeInv
<1>2. GreedyAnswer'
  BY GreedyAnswerStep DEF AgreeInv
<1>3. CASE GreedyStep
  BY <1>1, <1>2, <1>3, SolverStep DEF GreedyStep, AgreeInv
<1>4. CASE SweepRuns
  <2>1. UNCHANGED vars
    BY <1>1, <1>4, SweepRunning DEF SweepRuns
  <2> QED BY <1>1, <1>2, <2>1, SolverSame DEF AgreeInv
<1>5. CASE Reject \/ OfferGreedy \/ OfferSweep \/ AddDelay \/ Answer \/ UNCHANGED allVars
  <2>1. UNCHANGED vars
    BY <1>5 DEF Reject, OfferGreedy, OfferSweep, Offer, AddDelay, Answer, allVars
  <2> QED BY <1>1, <1>2, <2>1, SolverSame DEF AgreeInv
<1> QED BY <1>3, <1>4, <1>5 DEF CandidateNext

LEMMA AgreeMeans ==
  ASSUME CandidateInv, AgreeInv
  PROVE  WorkerAgrees
<1> DEFINE sol == Settled(req)
<1>1. SkeletonInv /\ ReadyInv /\ AnswerInv /\ SolverInv /\ GreedyAnswer /\ TypeOK
  BY DEF CandidateInv, GeneratorInv, AgreeInv, SkeletonInv
<1>2. ASSUME strategy = "greedy", req.mode = "fresh", answer = "rejected" PROVE sol.failure = Refusal
  BY <1>1, <1>2 DEF GreedyAnswer, SolverInv, SolverFails
<1>3. ASSUME strategy = "greedy", req.mode = "fresh", answer = "open", others = {}
      PROVE  /\ sol.failure = NoFailure
             /\ sol.steps = Times(lead)
             /\ [t \in sol.excluded |->
                   IF t \in DOMAIN sol.omitted THEN sol.omitted[t] ELSE "deferred_dependency"]
                  = [t \in DOMAIN report |-> report[t].reason]
             /\ \A t, u \in sol.excluded : SolverBefore(req, t, u) <=> MoreProtected(u, t)
             /\ SolverDelays(req, sol) = {Times(p) : p \in Delays}
             /\ \A p \in Delays \cup {lead} :
                  SolverFeasible(req, Times(p)) /\ ValidatePlan(req, p) /\ PreservesSlack(req, p)
  <2>1. phase = "done" /\ lead = plan /\ report = unplaced
    BY <1>1, <1>3 DEF GreedyAnswer
  <2>2. /\ SolverEnds /\ DOMAIN preserved = {}
    BY <1>1, <1>3, <2>1 DEF SolverInv, SkeletonInv, StepInv
  <2>3. /\ sol.failure = NoFailure /\ sol.steps = Times(scheduled) /\ sol.calendar = occupied
        /\ sol.omitted = Copy(omitted) /\ sol.excluded = excluded
    BY <2>2, SketchFacts DEF SolverEnds
  <2>4. DOMAIN lead = DOMAIN scheduled /\ \A t \in DOMAIN scheduled : lead[t] = scheduled[t]
    BY <2>1, <2>2 DEF SolverEnds
  <2>5. sol.steps = Times(lead)
    BY <2>3, <2>4 DEF Times
  <2>6. [t \in excluded |-> IF t \in DOMAIN Copy(omitted) THEN Copy(omitted)[t] ELSE "deferred_dependency"]
          = [t \in DOMAIN report |-> report[t].reason]
    <3>1. report = [t \in excluded |-> Report(t)]
      BY <2>1, <2>2 DEF SolverEnds
    <3>2. DOMAIN report = excluded
      BY <3>1
    <3>3. ASSUME NEW t \in excluded
          PROVE  report[t].reason =
                   IF t \in DOMAIN Copy(omitted) THEN Copy(omitted)[t] ELSE "deferred_dependency"
      <4>1. report[t].reason = Report(t).reason
        BY <3>1
      <4> QED BY <4>1 DEF Report, Copy
    <3> QED BY <3>2, <3>3
  <2>7. \A t, u \in excluded : SolverBefore(req, t, u) <=> MoreProtected(u, t)
    <3>1. excluded \subseteq Tasks
      BY <1>1 DEF TypeOK
    <3> QED BY <1>1, <3>1, OrderAgrees
  <2>8. LeadFine
    <3>1. IsSchedule(lead)
      BY <1>1, <2>1 DEF TypeOK
    <3>2. occupied = Reserved(lead)
      BY <1>1, <2>1 DEF SkeletonInv, CalendarInv, CalendarExact
    <3>3. \A t \in DOMAIN lead : AsRequested(t, lead[t])
      BY <1>1, <2>2, <2>4 DEF SkeletonInv, StepInv
    <3> QED BY <1>1, <3>1, <3>2, <3>3 DEF LeadFine
  <2>9. SolverDelays(req, sol) = {Times(p) : p \in Delays}
    BY <1>3, <2>3, <2>5, <2>8, DelaysAgree DEF Delays
  <2>10. PlanFine(lead, DOMAIN report)
    BY <1>1, <2>1 DEF ReadyInv, PlanInv
  <2>11. ASSUME NEW p \in Delays \cup {lead} PROVE PlanFine(p, DOMAIN report)
    BY <1>1, <1>3, <2>8, <2>10, <2>11, SuffixDelayFine DEF Delays, LeadFine
  <2>12. \A p \in Delays \cup {lead} :
           SolverFeasible(req, Times(p)) /\ ValidatePlan(req, p) /\ PreservesSlack(req, p)
    BY <1>1, <1>3, <2>11, FeasibilityAgrees
  <2> QED BY <2>3, <2>5, <2>6, <2>7, <2>9, <2>12
<1> QED BY <1>2, <1>3 DEF WorkerAgrees

(***************************************************************************)
(* The Python worker and the planner agree on every fresh request: they    *)
(* refuse the same ones, over the same Task and for the same reason, place *)
(* every Task at the same time, leave out the same Tasks for the same      *)
(* reasons and list them in one order, and delay the same suffixes as far, *)
(* all to Plans both find feasible (_solve in stage1.py, build_skeleton    *)
(* and bounded_perturbations).                                             *)
(***************************************************************************)
THEOREM SolverAgrees == CandidateSpec => []WorkerAgrees
<1>1. CandidateSpec => []AgreeInv
  BY AgreeBegins, AgreeStep, CandidateInvariant, PTL DEF CandidateSpec
<1>2. CandidateInv /\ AgreeInv => WorkerAgrees
  BY AgreeMeans
<1> QED BY <1>1, <1>2, CandidateInvariant, PTL

=============================================================================
