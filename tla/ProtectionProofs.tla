--------------------------- MODULE ProtectionProofs ---------------------------
(***************************************************************************)
(* For every dependency graph, with cycles too, and every set of roots:    *)
(* the worklists of protection.rs return the least closures that the       *)
(* planners' proofs stand on, in whatever order they take what is pending, *)
(* and take one turn for every Task they find.                             *)
(***************************************************************************)
EXTENDS Protection, RequestLemmas

(* What a walk may find at most: the closure it is to compute.             *)
Closure ==
  IF question.walk = "protected"
    THEN Prerequisites(question.request, Roots)
    ELSE WithDependents(question.request, Roots)

(* A set of Tasks the walk cannot leave.                                   *)
NoWayOut(S) == \A t \in S : Neighbours(t) \subseteq S

(***************************************************************************)
(* Between two turns of the loop: the roots have been found, nothing that  *)
(* the closure does not hold, and every neighbour of what is no longer     *)
(* pending.                                                                *)
(***************************************************************************)
WalkInv ==
  /\ TypeOK
  /\ Roots \subseteq found /\ found \subseteq Closure
  /\ \A t \in found \ pending : Neighbours(t) \subseteq found

(***************************************************************************)
(* A call's request, and the Tasks it starts from.                         *)
(***************************************************************************)
LEMMA QuestionFacts ==
  ASSUME question \in Question
  PROVE  /\ question.walk \in {"protected", "dependents"}
         /\ question.request.deps \in [Tasks -> SUBSET Tasks]
         /\ Roots \in SUBSET Tasks
<1>1. /\ question.walk \in {"protected", "dependents"} /\ question.named \in SUBSET Tasks
      /\ question.request \in [deps : [Tasks -> SUBSET Tasks], mandatory : SUBSET Tasks,
                                anchor : UNION {[static -> Time] : static \in SUBSET Tasks}]
  BY DEF Question
<1>2. /\ question.request.deps \in [Tasks -> SUBSET Tasks]
      /\ question.request.mandatory \in SUBSET Tasks
      /\ question.request.anchor \in UNION {[static -> Time] : static \in SUBSET Tasks}
  BY <1>1
<1>3. DOMAIN question.request.anchor \in SUBSET Tasks
  BY <1>2
<1> QED BY <1>1, <1>2, <1>3 DEF Roots

(***************************************************************************)
(* Neighbours in a walk to dependents are the Tasks that wait for a Task,  *)
(* whether the index has an entry for it or not.                           *)
(***************************************************************************)
LEMMA NeighboursAre ==
  ASSUME question \in Question, NEW t \in Tasks
  PROVE  /\ Neighbours(t) \in SUBSET Tasks
         /\ question.walk = "protected" => Neighbours(t) = question.request.deps[t]
         /\ question.walk = "dependents" =>
              Neighbours(t) = {u \in Tasks : t \in question.request.deps[u]}
<1> DEFINE r == question.request
           D == UNION {r.deps[u] : u \in Tasks}
<1>1. r.deps \in [Tasks -> SUBSET Tasks] /\ question.walk \in {"protected", "dependents"}
  BY QuestionFacts
<1>2. CASE question.walk = "protected"
  BY <1>1, <1>2 DEF Neighbours
<1>3. CASE question.walk = "dependents"
  <2>1. DOMAIN DependentIndex(r) = D
    BY DEF DependentIndex
  <2>2. CASE t \in D
    <3>1. DependentIndex(r)[t] = {u \in Tasks : t \in r.deps[u]}
      BY <2>2 DEF DependentIndex
    <3> QED BY <3>1, <2>1, <2>2, <1>3 DEF Neighbours
  <2>3. CASE t \notin D
    <3>1. {u \in Tasks : t \in r.deps[u]} = {}
      BY <2>3
    <3> QED BY <3>1, <2>1, <2>3, <1>3 DEF Neighbours
  <2> QED BY <2>2, <2>3
<1> QED BY <1>1, <1>2, <1>3

(***************************************************************************)
(* A set without a way out is closed under the relation its walk follows.  *)
(***************************************************************************)
LEMMA NoWayOutCloses ==
  ASSUME question \in Question, NEW S \in SUBSET Tasks, NoWayOut(S)
  PROVE  /\ question.walk = "protected" => ClosedUnderDeps(question.request, S)
         /\ question.walk = "dependents" => ClosedUnderDependents(question.request, S)
<1>1. CASE question.walk = "protected"
  BY <1>1, NeighboursAre DEF NoWayOut, ClosedUnderDeps
<1>2. CASE question.walk = "dependents"
  <2>1. ASSUME NEW t \in Tasks, question.request.deps[t] \cap S # {}
        PROVE  t \in S
    <3>1. PICK d \in S : d \in question.request.deps[t]
      BY <2>1
    <3>2. t \in Neighbours(d)
      BY <3>1, <1>2, NeighboursAre
    <3> QED BY <3>1, <3>2 DEF NoWayOut
  <2> QED BY <2>1, <1>2 DEF ClosedUnderDependents
<1> QED BY <1>1, <1>2

(***************************************************************************)
(* The closure contains the roots, cannot be left, and is in every set of  *)
(* Tasks of which this is true.                                            *)
(***************************************************************************)
LEMMA ClosureIsLeast ==
  ASSUME question \in Question
  PROVE  /\ Roots \subseteq Closure /\ Closure \in SUBSET Tasks
         /\ NoWayOut(Closure)
         /\ \A S \in SUBSET Tasks : Roots \subseteq S /\ NoWayOut(S) => Closure \subseteq S
<1> DEFINE r == question.request
<1>1. /\ r.deps \in [Tasks -> SUBSET Tasks] /\ Roots \in SUBSET Tasks
      /\ question.walk \in {"protected", "dependents"}
  BY QuestionFacts
<1>2. CASE question.walk = "protected"
  <2>1. Closure = Prerequisites(r, Roots)
    BY <1>2 DEF Closure
  <2>2. /\ Roots \subseteq Closure /\ Closure \in SUBSET Tasks
        /\ ClosedUnderDeps(r, Closure)
    BY <2>1, <1>1, PrerequisitesClosed
  <2>3. NoWayOut(Closure)
    BY <2>2, <1>2, NeighboursAre DEF NoWayOut, ClosedUnderDeps
  <2>4. ASSUME NEW S \in SUBSET Tasks, Roots \subseteq S, NoWayOut(S)
        PROVE  Closure \subseteq S
    <3>1. ClosedUnderDeps(r, S)
      BY <2>4, <1>2, NoWayOutCloses
    <3> QED BY <3>1, <2>1, <2>4 DEF Prerequisites
  <2> QED BY <2>2, <2>3, <2>4
<1>3. CASE question.walk = "dependents"
  <2>1. Closure = WithDependents(r, Roots)
    BY <1>3 DEF Closure
  <2>2. /\ Roots \subseteq Closure /\ Closure \in SUBSET Tasks
        /\ ClosedUnderDependents(r, Closure)
    BY <2>1, <1>1, WithDependentsClosed
  <2>3. NoWayOut(Closure)
    <3>1. ASSUME NEW d \in Closure, NEW t \in Neighbours(d) PROVE t \in Closure
      <4>1. t \in Tasks /\ d \in r.deps[t]
        BY <2>2, <1>3, NeighboursAre
      <4> QED BY <4>1, <2>2 DEF ClosedUnderDependents
    <3> QED BY <3>1 DEF NoWayOut
  <2>4. ASSUME NEW S \in SUBSET Tasks, Roots \subseteq S, NoWayOut(S)
        PROVE  Closure \subseteq S
    <3>1. ClosedUnderDependents(r, S)
      BY <2>4, <1>3, NoWayOutCloses
    <3> QED BY <3>1, <2>1, <2>4 DEF WithDependents
  <2> QED BY <2>2, <2>3, <2>4
<1> QED BY <1>1, <1>2, <1>3

-----------------------------------------------------------------------------
LEMMA WalkBegins == Init => WalkInv
<1> SUFFICES ASSUME Init PROVE WalkInv
  OBVIOUS
<1>1. question \in Question
  BY DEF Init
<1>2. Roots \in SUBSET Tasks /\ Roots \subseteq Closure
  BY <1>1, QuestionFacts, ClosureIsLeast
<1> QED BY <1>1, <1>2 DEF Init, WalkInv, TypeOK

(***************************************************************************)
(* One turn: the Task taken is found, its neighbours are too afterwards,   *)
(* and they are in the closure because it is.                              *)
(***************************************************************************)
LEMMA PopKeeps ==
  ASSUME WalkInv, NEW t \in Tasks, Pop(t)
  PROVE  WalkInv' /\ found' \ pending' = (found \ pending) \cup {t}
<1>1. /\ question \in Question /\ question' = question
      /\ t \in found /\ t \in pending /\ pending \subseteq found /\ found \subseteq Tasks
      /\ found \subseteq Closure
  BY DEF WalkInv, TypeOK, Pop
<1>2. Roots' = Roots /\ Closure' = Closure /\ \A u : Neighbours(u)' = Neighbours(u)
  BY <1>1 DEF Roots, Closure, Neighbours
<1>3. Neighbours(t) \in SUBSET Tasks /\ Neighbours(t) \subseteq Closure
  BY <1>1, NeighboursAre, ClosureIsLeast DEF NoWayOut
<1>4. /\ found' = found \cup Neighbours(t)
      /\ pending' = (pending \ {t}) \cup (Neighbours(t) \ found)
  BY DEF Pop, Inserted, Rest, Pushed
<1>5. found' \ pending' = (found \ pending) \cup {t}
  BY <1>1, <1>4
<1>6. TypeOK'
  BY <1>1, <1>3, <1>4 DEF WalkInv, TypeOK, Pop
<1>7. Roots' \subseteq found' /\ found' \subseteq Closure'
  BY <1>1, <1>2, <1>3, <1>4 DEF WalkInv
<1>8. ASSUME NEW u \in found' \ pending' PROVE Neighbours(u)' \subseteq found'
  <2>1. u = t \/ u \in found \ pending
    BY <1>8, <1>1, <1>4
  <2>2. CASE u = t
    BY <2>2, <1>2, <1>4
  <2>3. CASE u \in found \ pending
    <3>1. Neighbours(u) \subseteq found
      BY <2>3 DEF WalkInv
    <3> QED BY <3>1, <1>2, <1>4
  <2> QED BY <2>1, <2>2, <2>3
<1> QED BY <1>1, <1>5, <1>6, <1>7, <1>8 DEF WalkInv

(***************************************************************************)
(* When nothing is pending, nothing found has a way out: it is all.        *)
(***************************************************************************)
LEMMA EmptyMeansAll ==
  ASSUME WalkInv, pending = {}
  PROVE  found = Closure
<1>1. NoWayOut(found)
  BY DEF WalkInv, NoWayOut
<1> QED BY <1>1, ClosureIsLeast DEF WalkInv, TypeOK

WalkIsRight == WalkInv /\ (returned => pending = {}) /\ AnswerRight

LEMMA ReturnKeeps ==
  ASSUME WalkIsRight, Return
  PROVE  WalkIsRight'
<1>1. /\ question' = question /\ found' = found /\ pending' = pending /\ pending = {}
      /\ returned' = TRUE
      /\ answer' = IF question.walk = "protected" THEN found ELSE found \ Roots
  BY DEF Return
<1>2. Roots' = Roots /\ Closure' = Closure /\ \A u : Neighbours(u)' = Neighbours(u)
  BY <1>1 DEF Roots, Closure, Neighbours
<1>3. WalkInv'
  BY <1>1, <1>2 DEF WalkIsRight, WalkInv, TypeOK
<1>4. found = Closure
  BY <1>1, EmptyMeansAll DEF WalkIsRight
<1>5. CASE question.walk = "protected"
  <2>1. answer' = Prerequisites(question.request, Roots)
    BY <1>1, <1>4, <1>5 DEF Closure
  <2>2. AnswerRight'
    BY <2>1, <1>1, <1>5 DEF AnswerRight, ProtectedTasks, Roots
  <2> QED BY <2>2, <1>1, <1>3 DEF WalkIsRight
<1>6. CASE question.walk # "protected"
  <2>1. Roots = question.named
    BY <1>6 DEF Roots
  <2>2. answer' = WithDependents(question.request, question.named) \ question.named
    BY <2>1, <1>1, <1>4, <1>6 DEF Closure
  <2>3. AnswerRight'
    BY <2>2, <1>1, <1>6 DEF AnswerRight, DependentsOf
  <2> QED BY <2>3, <1>1, <1>3 DEF WalkIsRight
<1> QED BY <1>5, <1>6

OneMore == \E t \in pending : found' \ pending' = (found \ pending) \cup {t}

LEMMA WalkStep ==
  ASSUME WalkIsRight, [Next]_vars
  PROVE  WalkIsRight' /\ (UNCHANGED vars \/ returned' \/ OneMore)
<1>1. CASE UNCHANGED vars
  <2>1. /\ question' = question /\ found' = found /\ pending' = pending
        /\ answer' = answer /\ returned' = returned
    BY <1>1 DEF vars
  <2> QED BY <2>1, <1>1 DEF WalkIsRight, WalkInv, TypeOK, AnswerRight, Roots, Closure, Neighbours
<1>2. ASSUME NEW t \in Tasks, Pop(t)
      PROVE  WalkIsRight' /\ OneMore
  <2>1. WalkInv' /\ found' \ pending' = (found \ pending) \cup {t} /\ t \in pending
    BY <1>2, PopKeeps DEF WalkIsRight, Pop
  <2>2. ~returned /\ returned' = returned
    BY <1>2 DEF WalkIsRight, Pop
  <2> QED BY <2>1, <2>2 DEF WalkIsRight, AnswerRight, OneMore
<1>3. CASE Return
  BY <1>3, ReturnKeeps DEF Return
<1> QED BY <1>1, <1>2, <1>3 DEF Next

LEMMA WalkInvariant == Spec => []WalkIsRight
<1>1. Init => WalkIsRight
  BY WalkBegins DEF Init, WalkIsRight, AnswerRight
<1> QED BY <1>1, WalkStep, PTL DEF Spec

(***************************************************************************)
(* Every state of a walk is well typed; what is pending has been inserted. *)
(***************************************************************************)
THEOREM WalkTypes == Spec => []TypeOK
<1>1. WalkIsRight => TypeOK
  BY DEF WalkIsRight, WalkInv
<1> QED BY <1>1, WalkInvariant, PTL

(***************************************************************************)
(* protected_tasks and dependents_of return the least closures, whatever   *)
(* the graph and the roots and in whatever order Tasks are popped.         *)
(***************************************************************************)
THEOREM WorklistsAreRight == Spec => []AnswerRight
<1>1. WalkIsRight => AnswerRight
  BY DEF WalkIsRight
<1> QED BY <1>1, WalkInvariant, PTL

(***************************************************************************)
(* Every turn of protected_tasks' or dependents_of's loop has done with    *)
(* one pending Task, for good; so a loop ends after as many turns as the   *)
(* closure has Tasks.                                                      *)
(***************************************************************************)
THEOREM TurnsAreBounded == Spec => OneMoreEachTurn
<1>1. WalkIsRight /\ [Next]_vars => [returned' \/ OneMore]_vars
  BY WalkStep
<1> QED BY <1>1, WalkInvariant, PTL DEF Spec, OneMoreEachTurn, OneMore

=============================================================================
