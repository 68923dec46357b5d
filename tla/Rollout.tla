------------------------------- MODULE Rollout -------------------------------
(***************************************************************************)
(* A finalist's rollouts: the same Plan walked again and again with other  *)
(* durations (rollout.rs), and the counts taken over them (coverage.rs).   *)
(* Each walk follows two clocks over one draw.  The first runs the Plan as *)
(* written and decides whether the draw is feasible.  The second is the    *)
(* continuation: within the reactive horizon it leaves out optional work   *)
(* that does not fit any more, and fails on mandatory and static work.     *)
(*                                                                         *)
(* Durations, and so the clocks, are natural numbers where the code has    *)
(* 64-bit floats.  A draw is any choice from Draws: the sampling, its      *)
(* correlation and the probabilities are left out, because the properties  *)
(* hold of every single draw.  So are the percentile and the scores taken  *)
(* from the outcomes.                                                      *)
(***************************************************************************)
EXTENDS PlanningRequest, FiniteSetsExt

CONSTANTS
  Finalists,  \* requests, each with a candidate's schedule and a horizon
  Draws,      \* durations that may be drawn
  Rollouts,   \* how many rollouts are run
  Bucket      \* seconds per bucket of lateness

(* What the planners deliver (module PlanContract): all protected work is  *)
(* placed, and steps before the window are the prior Plan's.               *)
IsDelivered(r, p) ==
  /\ DOMAIN p \subseteq Tasks
  /\ \A t \in DOMAIN p : p[t] \in Step
  /\ ProtectedTasks(r, {}) \subseteq DOMAIN p
  /\ \A t \in DOMAIN p :
       p[t].start < r.window.start => \E i \in DOMAIN r.prior : r.prior[i] = p[t]

(* What a candidate has passed before it is rolled out.  preserves_slack   *)
(* refuses a step whose Task the request does not have, so that the way    *)
(* out simulate has for one is never taken.                                *)
IsFinalist(f) ==
  /\ IsRequest(f.request)
  /\ IsDelivered(f.request, f.plan)
  /\ ValidatePlan(f.request, f.plan)
  /\ PreservesSlack(f.request, f.plan)
  /\ f.horizon \in Time \ {0}

ASSUME FinalistsAssumption == \A f \in Finalists : IsFinalist(f)
ASSUME DrawsAssumption == Draws \subseteq Nat /\ Rollouts \in Nat /\ Bucket \in Nat \ {0}

VARIABLES
  finalist,       \* the request, the schedule and the horizon
  pc,             \* "sample" between rollouts, "walk" in one
  draw,           \* the duration drawn for every step
  rest,           \* steps the walk has not reached
  ends,           \* actual_ends
  previousEnd,    \* the clock of the Plan as written
  feasible,       \* whether the Plan as written still holds
  keptEnds,       \* continued_ends
  keptEnd,        \* the clock of the continuation
  continuation,   \* "as_planned", "omission" or "failed"
  boundaryIndex,  \* static steps passed
  visited,        \* boundary states of this rollout
  total,          \* rollouts observed
  continued,      \* those whose continuation did not fail
  feasibleCount,  \* those that were feasible
  failures        \* of every state seen, how many failed rollouts visited it

planVars == <<ends, previousEnd, feasible>>
keptVars == <<keptEnds, keptEnd, continuation>>
boundaryVars == <<boundaryIndex, visited>>
walkVars == <<draw, rest, planVars, keptVars, boundaryVars>>
countVars == <<total, continued, feasibleCount, failures>>
vars == <<finalist, pc, walkVars, countVars>>

request == finalist.request
plan == finalist.plan

(* boundary_limit: without a window there is none, and the sum saturates.  *)
Limit ==
  IF request.window = NoWindow
    THEN MaxTime
    ELSE Sooner(Sooner(request.window.start + finalist.horizon, MaxTime), request.window.end)

-----------------------------------------------------------------------------
(***************************************************************************)
(* The arithmetic of a walk.                                               *)
(***************************************************************************)
DependencyEnd(done, t) ==
  Max({0} \cup {done[d] : d \in request.deps[t] \cap DOMAIN done})

Start(done, clock, t) ==
  Later(Later(plan[t].start, clock), DependencyEnd(done, t))

End(done, clock, t) == Start(done, clock, t) + draw[t]

AnchorHolds(t, start) == t \in DOMAIN request.anchor => start = request.anchor[t]

(* Mutated form: the last second of a window is lost.                      *)
WithinStrictly(window, start, end) == start >= window.start /\ end < window.end

Within(window, start, end) == start >= window.start /\ end <= window.end

Fits(t, start, end) ==
  /\ t \in DOMAIN request.taskWindow => Within(request.taskWindow[t], start, end)
  /\ request.window # NoWindow => Within(request.window, start, end)

(* Mutated form: an early arrival has a negative lateness.                 *)
LatenessSigned(seconds) == (seconds + Bucket - 1) \div Bucket

Lateness(seconds) == IF seconds <= 0 THEN 0 ELSE (seconds + Bucket - 1) \div Bucket

CompletedBy(time) == {d \in DOMAIN ends : ends[d] <= time}

Done(done, t, end) == [d \in DOMAIN done \cup {t} |-> IF d = t THEN end ELSE done[d]]

(* Steps are taken by start, end and id; no two steps of a validated Plan  *)
(* start together.                                                         *)
NextInTime == CHOOSE t \in rest : \A u \in rest : plan[t].start <= plan[u].start

-----------------------------------------------------------------------------
Init ==
  /\ finalist \in Finalists
  /\ pc = "sample"
  /\ draw = <<>> /\ rest = {}
  /\ ends = <<>> /\ previousEnd = 0 /\ feasible = TRUE
  /\ keptEnds = <<>> /\ keptEnd = 0 /\ continuation = "as_planned"
  /\ boundaryIndex = 0 /\ visited = {}
  /\ total = 0 /\ continued = 0 /\ feasibleCount = 0 /\ failures = <<>>

(* Mutated form: the clock of the last rollout runs on.                    *)
ResetContinuationButClock ==
  keptEnds' = <<>> /\ continuation' = "as_planned" /\ UNCHANGED keptEnd

ResetContinuation ==
  keptEnds' = <<>> /\ keptEnd' = 0 /\ continuation' = "as_planned"

(* Durations are drawn for every Task; those of unplaced Tasks are not     *)
(* read.                                                                   *)
Sample ==
  /\ pc = "sample" /\ total < Rollouts
  /\ pc' = "walk"
  /\ draw' \in [DOMAIN plan -> Draws]
  /\ rest' = DOMAIN plan
  /\ ends' = <<>> /\ previousEnd' = 0 /\ feasible' = TRUE
  /\ ResetContinuation
  /\ boundaryIndex' = 0 /\ visited' = {}
  /\ UNCHANGED <<finalist, countVars>>

-----------------------------------------------------------------------------
(***************************************************************************)
(* One step of the walk.                                                   *)
(***************************************************************************)
OutcomeState(t) ==
  [index     |-> boundaryIndex,
   task      |-> t,
   completed |-> CompletedBy(plan[t].start),
   lateness  |-> Lateness(previousEnd - plan[t].start)]

PassBoundary(t) ==
  /\ boundaryIndex' = IF plan[t].static THEN boundaryIndex + 1 ELSE boundaryIndex
  /\ visited' = IF plan[t].static /\ plan[t].start <= Limit
                  THEN visited \cup {OutcomeState(t)}
                  ELSE visited

(* Mutated form: only the last step decides.                               *)
StillFeasibleAtLast(t, start, end) == AnchorHolds(t, start) /\ Fits(t, start, end)

StillFeasible(t, start, end) ==
  feasible /\ AnchorHolds(t, start) /\ Fits(t, start, end)

RunAsWritten(t) ==
  LET start == Start(ends, previousEnd, t)
      end   == End(ends, previousEnd, t)
  IN  /\ feasible' = StillFeasible(t, start, end)
      /\ ends' = Done(ends, t, end)
      /\ previousEnd' = end

Judged(t) == continuation # "failed" /\ plan[t].start <= Limit

(* Mutated form: a prerequisite may have been left out.                    *)
ContinuesAlone(t) ==
  /\ AnchorHolds(t, Start(keptEnds, keptEnd, t))
  /\ Fits(t, Start(keptEnds, keptEnd, t), End(keptEnds, keptEnd, t))

Continues(t) ==
  /\ request.deps[t] \subseteq DOMAIN keptEnds
  /\ AnchorHolds(t, Start(keptEnds, keptEnd, t))
  /\ Fits(t, Start(keptEnds, keptEnd, t), End(keptEnds, keptEnd, t))

MayBeDropped(t) == t \notin request.mandatory \cup DOMAIN request.anchor

Continue(t) ==
  \/ /\ ~Judged(t)
     /\ UNCHANGED keptVars
  \/ /\ Judged(t) /\ Continues(t)
     /\ keptEnds' = Done(keptEnds, t, End(keptEnds, keptEnd, t))
     /\ keptEnd' = End(keptEnds, keptEnd, t)
     /\ UNCHANGED continuation
  \/ /\ Judged(t) /\ ~Continues(t)
     /\ continuation' = IF MayBeDropped(t) THEN "omission" ELSE "failed"
     /\ UNCHANGED <<keptEnds, keptEnd>>

Walk ==
  /\ pc = "walk" /\ rest # {}
  /\ rest' = rest \ {NextInTime}
  /\ PassBoundary(NextInTime)
  /\ RunAsWritten(NextInTime)
  /\ Continue(NextInTime)
  /\ UNCHANGED <<finalist, pc, draw, countVars>>

-----------------------------------------------------------------------------
(***************************************************************************)
(* The counts.                                                             *)
(***************************************************************************)
One(condition) == IF condition THEN 1 ELSE 0

FailuresOf(s) == IF s \in DOMAIN failures THEN failures[s] ELSE 0

(* Mutated form: a state seen before is not counted again.                 *)
FirstFailures ==
  [s \in DOMAIN failures \cup visited |->
     IF s \in DOMAIN failures THEN failures[s] ELSE One(continuation = "failed")]

AddedFailures ==
  [s \in DOMAIN failures \cup visited |->
     FailuresOf(s) + One(s \in visited /\ continuation = "failed")]

Observe ==
  /\ pc = "walk" /\ rest = {}
  /\ pc' = "sample"
  /\ total' = total + 1
  /\ continued' = continued + One(continuation # "failed")
  /\ feasibleCount' = feasibleCount + One(feasible)
  /\ failures' = AddedFailures
  /\ UNCHANGED <<finalist, walkVars>>

Next == Sample \/ Walk \/ Observe

Spec == Init /\ [][Next]_vars

(* failed_visits of a boundary's summary: over all rollouts, its           *)
(* uncovered_mass.                                                         *)
FailedVisits(t) ==
  SumFunction([s \in {s \in DOMAIN failures : s.task = t} |-> failures[s]])

-----------------------------------------------------------------------------
OutcomeStates ==
  [index : Nat, task : Tasks, completed : SUBSET Tasks, lateness : Nat]

(* Every variable has its type: clocks and counts are naturals, and the    *)
(* continuation's Tasks are among those walked.                            *)
TypeOK ==
  /\ finalist \in Finalists
  /\ pc \in {"sample", "walk"}
  /\ rest \subseteq DOMAIN plan
  /\ pc = "walk" =>
       draw \in [DOMAIN plan -> Draws] /\ DOMAIN ends = DOMAIN plan \ rest
  /\ ends \in [DOMAIN ends -> Nat] /\ previousEnd \in Nat /\ feasible \in BOOLEAN
  /\ keptEnds \in [DOMAIN keptEnds -> Nat] /\ keptEnd \in Nat
  /\ DOMAIN keptEnds \subseteq DOMAIN ends /\ DOMAIN ends \subseteq DOMAIN plan
  /\ continuation \in {"as_planned", "omission", "failed"}
  /\ boundaryIndex \in Nat /\ visited \subseteq OutcomeStates
  /\ total \in Nat /\ continued \in Nat /\ feasibleCount \in Nat
  /\ failures \in [DOMAIN failures -> Nat] /\ DOMAIN failures \subseteq OutcomeStates

(* A rollout that holds as written also continues, step by step: the       *)
(* second walk repeats the first's conditions on a clock of its own        *)
(* (rollout.rs, 262-288), and the estimate of coverage would fall below    *)
(* the displayed probability if they came apart (CONTRACT.md, 86).         *)
CoverageCounts ==
  /\ feasible => continuation = "as_planned"
  /\ feasibleCount <= continued

(* Leaving work out never makes the rest later (rollout.rs, 262-287): no   *)
(* step of the continuation ends after its end in the Plan as written,     *)
(* though the walk may have left out steps before it.                      *)
NeverLater ==
  /\ keptEnd <= previousEnd
  /\ \A t \in DOMAIN keptEnds : keptEnds[t] <= ends[t]

(* Unless it failed, the continuation keeps all mandatory and static work  *)
(* within the horizon with all its prerequisites, to any depth, although   *)
(* each step looks at its own only (rollout.rs, 271-287).                  *)
KeptWithPrerequisites ==
  continuation # "failed" =>
    \A t \in DOMAIN ends :
      plan[t].start <= Limit /\ ~MayBeDropped(t) =>
        Prerequisites(request, {t}) \subseteq DOMAIN keptEnds

(* However draws merge into states, the rollouts that failed are all       *)
(* accounted for at every boundary within the horizon (coverage.rs, 101-   *)
(* 157): its uncovered mass is that of the whole estimate.                 *)
FailuresAccounted ==
  \A t \in DOMAIN plan :
    plan[t].static /\ plan[t].start <= Limit => FailedVisits(t) = total - continued

(* A Plan whose steps all take as long as planned runs as planned: the     *)
(* rollout agrees with the planner and the cheap checks on what fits       *)
(* (rollout.rs, 244-258; legitimization.rs, 50-76).                        *)
AsWritten ==
  pc = "walk" /\ (\A t \in DOMAIN plan : draw[t] = plan[t].end - plan[t].start) =>
    feasible

(* The same of fresh Plans, which hold no history.                         *)
FreshAsWritten == request.mode = "fresh" => AsWritten

(* What README.md:108 says: a continuation that counts as covered drops no *)
(* protected work.                                                         *)
ProtectedNeverDropped ==
  pc = "walk" /\ rest = {} /\ continuation # "failed" =>
    \A t \in ProtectedTasks(request, {}) \cap DOMAIN plan :
      plan[t].start <= Limit => t \in DOMAIN keptEnds
=============================================================================
