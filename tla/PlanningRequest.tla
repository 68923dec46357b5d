--------------------------- MODULE PlanningRequest ---------------------------
(***************************************************************************)
(* The data every planner component works on: a validated PlanningRequest, *)
(* the closure that decides which Tasks are protected from omission, the   *)
(* windows Tasks may be placed in, and what the pipeline accepts as a      *)
(* candidate Plan.                                                         *)
(*                                                                         *)
(* Times are unsigned 64-bit seconds in the code; here they range over     *)
(* 0..MaxTime, and MaxTime stands for u64::MAX, so that checked and        *)
(* saturating additions meet their limit.  A field the code keeps as an    *)
(* Option per Task (its own window, its static anchor) is a function whose *)
(* domain is the set of Tasks that have one.  A Plan is a function from    *)
(* the Tasks it schedules to their steps: the code's vector lists them in  *)
(* the request's order, which Position recovers.                           *)
(***************************************************************************)
EXTENDS Integers, Sequences

CONSTANTS
  Tasks,    \* ids of the Tasks a request asks for
  Retired,  \* ids a prior Plan may still name although the request dropped them
  MaxTime   \* the largest representable time

ASSUME TimeAssumption == MaxTime \in Nat

Time == 0 .. MaxTime
Ids == Tasks \cup Retired

Window == [start : Time, end : Time]

(* The encoding of an absent time_window: it has no available duration. *)
NoWindow == [start |-> 0, end |-> 0]

Step == [task : Ids, start : Time, end : Time,
         deps : SUBSET Ids, static : BOOLEAN]

IsPossible(w) == w.start < w.end

Later(x, y) == IF x >= y THEN x ELSE y
Sooner(x, y) == IF x <= y THEN x ELSE y

(***************************************************************************)
(* Request validation.                                                     *)
(***************************************************************************)
Position(r, t) == CHOOSE i \in DOMAIN r.order : r.order[i] = t

(* The order is a permutation of the Tasks that puts every Task after its  *)
(* prerequisites: what the provided-order checks enforce, and what the     *)
(* computed order satisfies (module TopologicalOrder).                     *)
IsTopological(r) ==
  /\ r.order \in Seq(Tasks)
  /\ \A t \in Tasks : \E i \in DOMAIN r.order : r.order[i] = t
  /\ \A i, j \in DOMAIN r.order : r.order[i] = r.order[j] => i = j
  /\ \A i, j \in DOMAIN r.order : r.order[i] \in r.deps[r.order[j]] => i < j

TaskContract(r, t) ==
  /\ t \in DOMAIN r.taskWindow =>
       /\ IsPossible(r.taskWindow[t])
       /\ r.taskWindow[t].end - r.taskWindow[t].start >= r.duration[t]
  /\ t \in DOMAIN r.taskWindow \cap DOMAIN r.anchor =>
       /\ r.anchor[t] >= r.taskWindow[t].start
       /\ r.anchor[t] + r.duration[t] <= r.taskWindow[t].end

(* What validate_plan accepts, for a Plan still kept as a vector. *)
ValidStepSequence(steps) ==
  /\ steps # <<>>
  /\ \A i, j \in DOMAIN steps : steps[i].task = steps[j].task => i = j
  /\ \A i \in DOMAIN steps :
       /\ steps[i].start < steps[i].end
       /\ \A d \in steps[i].deps : \E j \in DOMAIN steps : j < i /\ steps[j].task = d

(* Only repair() supplies a prior Plan, and only one validate_plan refused. *)
IsRequest(r) ==
  /\ r.mode \in {"fresh", "repair"}
  /\ r.window \in Window /\ (IsPossible(r.window) \/ r.window = NoWindow)
  /\ r.duration \in [Tasks -> 1 .. MaxTime]
  /\ r.mandatory \subseteq Tasks
  /\ r.deps \in [Tasks -> SUBSET Tasks]
  /\ DOMAIN r.taskWindow \subseteq Tasks
  /\ \A t \in DOMAIN r.taskWindow : r.taskWindow[t] \in Window
  /\ DOMAIN r.anchor \subseteq Tasks
  /\ \A t \in DOMAIN r.anchor : r.anchor[t] \in Time
  /\ \A t \in Tasks : TaskContract(r, t)
  /\ IsTopological(r)
  /\ r.scope \in {"local", "remaining_window", "full_window"}
  /\ r.diverged \subseteq Ids
  /\ r.prior \in Seq(Step)
  /\ r.mode = "fresh" => r.prior = <<>>
  /\ r.prior # <<>> => ~ValidStepSequence(r.prior)

(***************************************************************************)
(* Protection.  The code's worklists compute least fixpoints; both are the *)
(* intersection of all sets closed under the edge relation.                *)
(***************************************************************************)
ClosedUnderDeps(r, C) == \A t \in C : r.deps[t] \subseteq C
ClosedUnderDependents(r, C) == \A t \in Tasks : r.deps[t] \cap C # {} => t \in C

Prerequisites(r, S) ==
  {t \in Tasks : \A C \in SUBSET Tasks : S \subseteq C /\ ClosedUnderDeps(r, C) => t \in C}

(* Mutated form: only direct dependents.                                   *)
WithDirectDependents(r, S) == S \cup {t \in Tasks : r.deps[t] \cap S # {}}

(* Every Task that waits, directly or not, for a member of S; S included. *)
WithDependents(r, S) ==
  {t \in Tasks : \A C \in SUBSET Tasks :
                    S \subseteq C /\ ClosedUnderDependents(r, C) => t \in C}

DependentsOf(r, S) == WithDependents(r, S) \ S

(* Mutated form: prerequisites of protected work are not protected.        *)
ProtectedAlone(r, also) == also \cup r.mandatory \cup DOMAIN r.anchor

ProtectedTasks(r, also) == Prerequisites(r, also \cup r.mandatory \cup DOMAIN r.anchor)

(***************************************************************************)
(* Placement arithmetic shared by the planners.                            *)
(***************************************************************************)
(* Mutated form: a Task's own window is ignored.                           *)
EffectivePlanWindow(r, t) == r.window

EffectiveWindow(r, t) ==
  IF t \in DOMAIN r.taskWindow
    THEN [start |-> Later(r.window.start, r.taskWindow[t].start),
          end   |-> Sooner(r.window.end, r.taskWindow[t].end)]
    ELSE r.window

WindowHolds(r, t) ==
  LET w == EffectiveWindow(r, t)
  IN  IsPossible(w) /\ w.end - w.start >= r.duration[t]

Overlaps(start, end, interval) == start < interval.end /\ end > interval.start

PlanStep(r, t, start) ==
  [task |-> t, start |-> start, end |-> start + r.duration[t],
   deps |-> r.deps[t], static |-> t \in DOMAIN r.anchor]

ShouldPreserve(r, step) ==
  \/ step.end <= r.window.start
  \/ step.start < r.window.start /\ step.end > r.window.start
  \/ step.static
  \/ r.scope = "local" /\ step.task \notin r.diverged

(***************************************************************************)
(* What the pipeline accepts of a candidate before ranking it.             *)
(***************************************************************************)
ValidatePlan(r, plan) ==
  /\ DOMAIN plan # {}
  /\ \A t \in DOMAIN plan :
       /\ plan[t].start < plan[t].end
       /\ \A d \in plan[t].deps :
            d \in DOMAIN plan /\ Position(r, d) < Position(r, t)

InPlanWindow(r, step) ==
  /\ step.end <= r.window.end \/ (r.mode = "repair" /\ step.start < r.window.start)
  /\ step.start >= r.window.start \/ r.mode = "repair"

StepAdmissible(r, plan, t) ==
  LET step == plan[t] IN
  /\ InPlanWindow(r, step)
  /\ t \in DOMAIN r.taskWindow =>
       step.start >= r.taskWindow[t].start /\ step.end <= r.taskWindow[t].end
  /\ t \in DOMAIN r.anchor => step.start = r.anchor[t]
  /\ \A d \in r.deps[t] : d \in DOMAIN plan /\ plan[d].end <= step.start

PreservesSlack(r, plan) ==
  /\ \A t \in DOMAIN plan : StepAdmissible(r, plan, t)
  /\ \A t, u \in DOMAIN plan :
       t # u => plan[t].end <= plan[u].start \/ plan[u].end <= plan[t].start

=============================================================================
