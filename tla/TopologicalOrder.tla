-------------------------- MODULE TopologicalOrder --------------------------
(***************************************************************************)
(* From a dependency graph to an order of the Tasks.  The pipeline refuses *)
(* cyclic graphs by a depth-first search (validation.rs); the planner then *)
(* computes an order by counting unmet dependencies and falls back on it   *)
(* or checks the order the request provides (skeleton.rs).  Stage 1 of the *)
(* worker computes an order of its own by removing met dependencies        *)
(* (worker stage1.rs), and its Python child checks acyclicity once more,   *)
(* layer by layer, before it accepts that order (stage1.py).  The worker   *)
(* certifies the child's answer by comparing it with the planner's; the    *)
(* two share no state, so here one follows the other.                      *)
(*                                                                         *)
(* Task ids are naturals: the code compares ids as strings, and only their *)
(* order matters here.  A Task's dependencies are a sequence, as in the    *)
(* code, which refuses unknown ones and lets repeated ones through.        *)
(***************************************************************************)
EXTENDS Integers, Sequences, FiniteSets

CONSTANTS
  Tasks,     \* the Tasks of the request
  Graphs,    \* the dependency lists a behaviour may be about
  Provided   \* the orders a request may provide; <<>> is none

ASSUME TasksAssumption == Tasks \subseteq Nat /\ IsFiniteSet(Tasks)
ASSUME GraphsAssumption == Graphs \subseteq [Tasks -> Seq(Tasks)]
ASSUME ProvidedAssumption == Provided \subseteq Seq(Nat)

VARIABLES
  depends,    \* depends_on of every Task
  provided,   \* topological_order of the request
  phase,      \* which loop is running
  marks,      \* the search's mark of every Task
  stack,      \* the activations of visit: a Task and its children to come
  indegree,   \* the planner's count of unmet dependencies
  ready,      \* Tasks whose count reached zero
  order,      \* the planner's order so far
  cpu,        \* what requested_or_computed_order returned
  remaining,  \* Stage 1's unmet dependencies of Tasks not yet ordered
  staged,     \* Stage 1's order so far
  resolved,   \* the layers the child has passed
  stage       \* what the child made of Stage 1's order

searchVars == <<marks, stack>>
cpuVars == <<indegree, ready, order, cpu>>
stageVars == <<remaining, staged, resolved, stage>>
vars == <<depends, provided, phase, searchVars, cpuVars, stageVars>>

Dependencies(t) == {depends[t][i] : i \in DOMAIN depends[t]}

Children(t) == {u \in Tasks : t \in Dependencies(u)}

(* Mutated form: ties are broken from the other end. *)
Last(S) == CHOOSE t \in S : \A u \in S : u <= t
First(S) == CHOOSE t \in S : \A u \in S : t <= u

(* The answer of a caller who asked for an order. *)
Failed == [ok |-> FALSE, order |-> <<>>]
Ordered(s) == [ok |-> TRUE, order |-> s]

Init ==
  /\ depends \in Graphs /\ provided \in Provided
  /\ phase = "validate"
  /\ marks = [t \in Tasks |-> "unseen"] /\ stack = <<>>
  /\ indegree = [t \in Tasks |-> 0] /\ ready = {} /\ order = <<>> /\ cpu = Failed
  /\ remaining = <<>> /\ staged = <<>> /\ resolved = {} /\ stage = Failed

-----------------------------------------------------------------------------
(***************************************************************************)
(* has_cycle: depth-first search over dependents.  The order in which      *)
(* roots and children are visited is that of the request's list; any order *)
(* is allowed here.                                                        *)
(***************************************************************************)
Activation(t) == [task |-> t, todo |-> Children(t)]

Top == stack[Len(stack)]

Below == SubSeq(stack, 1, Len(stack) - 1)

VisitRoot(t) ==
  /\ phase = "validate" /\ stack = <<>> /\ marks[t] = "unseen"
  /\ marks' = [marks EXCEPT ![t] = "visiting"]
  /\ stack' = <<Activation(t)>>
  /\ UNCHANGED <<depends, provided, phase, cpuVars, stageVars>>

VisitChild(t) ==
  /\ phase = "validate" /\ stack # <<>> /\ t \in Top.todo
  /\ LET rest == Append(Below, [Top EXCEPT !.todo = @ \ {t}]) IN
     \/ /\ marks[t] = "unseen"
        /\ marks' = [marks EXCEPT ![t] = "visiting"]
        /\ stack' = Append(rest, Activation(t))
        /\ UNCHANGED phase
     \/ /\ marks[t] = "visited"
        /\ stack' = rest
        /\ UNCHANGED <<marks, phase>>
     \/ /\ marks[t] = "visiting"
        /\ phase' = "rejected"
        /\ UNCHANGED searchVars
  /\ UNCHANGED <<depends, provided, cpuVars, stageVars>>

(* Mutated form: a Task whose children are done keeps its mark.            *)
LeaveVisiting ==
  /\ phase = "validate" /\ stack # <<>> /\ Top.todo = {}
  /\ stack' = Below
  /\ UNCHANGED <<depends, provided, phase, marks, cpuVars, stageVars>>

Leave ==
  /\ phase = "validate" /\ stack # <<>> /\ Top.todo = {}
  /\ marks' = [marks EXCEPT ![Top.task] = "visited"]
  /\ stack' = Below
  /\ UNCHANGED <<depends, provided, phase, cpuVars, stageVars>>

(* Mutated form: a flag instead of a count.                                *)
UnmetAny(t) == IF depends[t] = <<>> THEN 0 ELSE 1

(* Repeated entries are counted each time. *)
Unmet(t) == Len(depends[t])

(* The planner starts: every Task without dependencies is ready. *)
Accept ==
  /\ phase = "validate" /\ stack = <<>> /\ \A t \in Tasks : marks[t] # "unseen"
  /\ phase' = "order"
  /\ indegree' = [t \in Tasks |-> Unmet(t)]
  /\ ready' = {t \in Tasks : Unmet(t) = 0}
  /\ UNCHANGED <<depends, provided, searchVars, order, cpu, stageVars>>

-----------------------------------------------------------------------------
(***************************************************************************)
(* topological_order: children are a set, counts are not.                  *)
(***************************************************************************)
(* The Tasks whose last counted dependency is t. *)
Released(t) == {u \in Children(t) : indegree[u] = 1}

Pop ==
  /\ phase = "order" /\ ready # {}
  /\ LET t == First(ready) IN
       /\ order' = Append(order, t)
       /\ indegree' = [u \in Tasks |-> IF u \in Children(t) THEN indegree[u] - 1 ELSE indegree[u]]
       /\ ready' = (ready \ {t}) \cup Released(t)
  /\ UNCHANGED <<depends, provided, phase, searchVars, cpu, stageVars>>

(* The checks of a provided order; the child repeats them word for word.   *)
(* ListsEveryTask alone is the form that forgets to compare positions.     *)
ListsEveryTask(s) ==
  /\ Len(s) = Cardinality(Tasks)
  /\ \A i \in DOMAIN s : s[i] \in Tasks
  /\ \A i, j \in DOMAIN s : s[i] = s[j] => i = j

OrderHolds(s) ==
  /\ ListsEveryTask(s)
  /\ \A i, j \in DOMAIN s : s[i] \in Dependencies(s[j]) => i < j

(* requested_or_computed_order: the computed order must exist even when    *)
(* the request provides one.                                               *)
OrderDone ==
  /\ phase = "order" /\ ready = {}
  /\ phase' = "stage"
  /\ cpu' = IF Len(order) # Cardinality(Tasks) THEN Failed
            ELSE IF provided = <<>> THEN Ordered(order)
            ELSE IF OrderHolds(provided) THEN Ordered(provided)
            ELSE Failed
  /\ remaining' = [t \in Tasks |-> Dependencies(t)]
  /\ staged' = provided
  /\ UNCHANGED <<depends, provided, searchVars, indegree, ready, order, resolved, stage>>

-----------------------------------------------------------------------------
(***************************************************************************)
(* Stage 1's own order, only when the request provides none.               *)
(***************************************************************************)
Unblocked == {t \in DOMAIN remaining : remaining[t] = {}}

Take ==
  /\ phase = "stage" /\ provided = <<>> /\ Unblocked # {}
  /\ LET key == First(Unblocked) IN
       /\ remaining' = [t \in DOMAIN remaining \ {key} |-> remaining[t] \ {key}]
       /\ staged' = Append(staged, key)
  /\ UNCHANGED <<depends, provided, phase, searchVars, cpuVars, resolved, stage>>

SendStage ==
  /\ phase = "stage" /\ (provided # <<>> \/ Unblocked = {})
  /\ phase' = "layers"
  /\ UNCHANGED <<depends, provided, searchVars, cpuVars, stageVars>>

(* The child's check, one layer a step. *)
NextLayer == {t \in Tasks \ resolved : Dependencies(t) \subseteq resolved}

Layer ==
  /\ phase = "layers" /\ resolved # Tasks /\ NextLayer # {}
  /\ resolved' = resolved \cup NextLayer
  /\ UNCHANGED <<depends, provided, phase, searchVars, cpuVars, remaining, staged, stage>>

LayersDone ==
  /\ phase = "layers" /\ (resolved = Tasks \/ NextLayer = {})
  /\ phase' = "done"
  /\ stage' = IF resolved = Tasks /\ OrderHolds(staged) THEN Ordered(staged) ELSE Failed
  /\ UNCHANGED <<depends, provided, searchVars, cpuVars, remaining, staged, resolved>>

Next ==
  \/ \E t \in Tasks : VisitRoot(t) \/ VisitChild(t)
  \/ Leave
  \/ Accept
  \/ Pop
  \/ OrderDone
  \/ Take
  \/ SendStage
  \/ Layer
  \/ LayersDone

Spec == Init /\ [][Next]_vars

-----------------------------------------------------------------------------
Answer == [ok : BOOLEAN, order : Seq(Nat)]

(* Every variable has its type; in particular no count of unmet            *)
(* dependencies goes below zero, where the code's unsigned subtraction     *)
(* would wrap.                                                             *)
TypeOK ==
  /\ depends \in Graphs /\ provided \in Provided
  /\ phase \in {"validate", "rejected", "order", "stage", "layers", "done"}
  /\ marks \in [Tasks -> {"unseen", "visiting", "visited"}]
  /\ stack \in Seq([task : Tasks, todo : SUBSET Tasks])
  /\ indegree \in [Tasks -> Nat] /\ ready \subseteq Tasks
  /\ order \in Seq(Tasks) /\ cpu \in Answer
  /\ DOMAIN remaining \subseteq Tasks
  /\ \A t \in DOMAIN remaining : remaining[t] \subseteq Tasks
  /\ staged \in Seq(Nat) /\ resolved \subseteq Tasks /\ stage \in Answer

(* Some nonempty set of Tasks only waits for itself. *)
HasCycle ==
  \E S \in SUBSET Tasks : S # {} /\ \A t \in S : Dependencies(t) \cap S # {}

(* The search refuses a request exactly when its graph has a cycle,        *)
(* whatever the order in which it meets roots, children and repeats.       *)
CycleVerdict ==
  /\ phase = "rejected" => HasCycle
  /\ phase \notin {"validate", "rejected"} => ~HasCycle

Repeats == \E t \in Tasks : \E i, j \in DOMAIN depends[t] : i # j /\ depends[t][i] = depends[t][j]

Before(s, r) ==
  \E k \in DOMAIN s : s[k] < r[k] /\ \A i \in 1 .. k - 1 : s[i] = r[i]

(* The planner never works with an order, computed or provided, that       *)
(* misses a Task or puts one before a prerequisite, whatever the lists     *)
(* repeat.                                                                 *)
AnswerHolds == cpu.ok => OrderHolds(cpu.order)

(* The order the planner computes is the lexicographically least that      *)
(* respects all dependencies: no other choice among the Tasks that were    *)
(* ready, at any point, leads to a smaller one.                            *)
LeastOrder ==
  cpu.ok /\ provided = <<>> =>
    \A s \in [1 .. Cardinality(Tasks) -> Tasks] :
      OrderHolds(s) => s = cpu.order \/ Before(cpu.order, s)

(* A request that passed validation is given an order unless it provides a *)
(* wrong one or lists a dependency twice.                                  *)
RefusedOnlyWhen ==
  phase = "stage" /\ ~cpu.ok => Repeats \/ (provided # <<>> /\ ~OrderHolds(provided))

(* Neither of the two searches refuses in vain or lets a cycle pass.       *)
RefusalsExact == CycleVerdict /\ RefusedOnlyWhen

(* Without repeated dependencies the three computations agree: Stage 1     *)
(* answers with the order of the CPU, or fails with it.                    *)
StageAgrees == phase = "done" /\ ~Repeats => stage = cpu

(* There is one right order, and both sides compute it.                    *)
OrderCanonical == LeastOrder /\ StageAgrees

(* stage1.rs, 73: "Same lexicographic Kahn tie-breaking as the CPU         *)
(* reference": the two orders are always the same.                         *)
SameOrder == phase = "done" => stage = cpu

=============================================================================
