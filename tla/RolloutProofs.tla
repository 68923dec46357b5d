---------------------------- MODULE RolloutProofs ----------------------------
(***************************************************************************)
(* What holds of every rollout, whatever the Plan, the horizon and the     *)
(* durations drawn.  The walk rests on one observation: a clock is never   *)
(* behind an end it has passed, so that the dependencies, which both walks *)
(* consult, never delay a step beyond what the clock does (StartIsClock).  *)
(* The counts taken over the rollouts rest on another: a rollout visits    *)
(* one state at every boundary within the horizon (VisitsOnce).            *)
(***************************************************************************)
EXTENDS Rollout, RequestLemmas

-----------------------------------------------------------------------------
(***************************************************************************)
(* Facts about the finalist, which no step changes.                        *)
(***************************************************************************)
Delivered ==
  /\ finalist \in Finalists /\ IsRequest(request)
  /\ DOMAIN plan \subseteq Tasks
  /\ \A t \in DOMAIN plan :
       /\ plan[t] \in Step /\ plan[t].start \in Nat /\ plan[t].end \in Nat
       /\ plan[t].static \in BOOLEAN
       /\ plan[t].start < plan[t].end
       /\ request.deps[t] \subseteq DOMAIN plan
       /\ \A d \in request.deps[t] : plan[d].end <= plan[t].start
  /\ \A t, u \in DOMAIN plan :
       t # u => plan[t].end <= plan[u].start \/ plan[u].end <= plan[t].start

(***************************************************************************)
(* What legitimization and validate_plan leave of a candidate.             *)
(***************************************************************************)
LEMMA FinalistDelivered ==
  ASSUME finalist \in Finalists
  PROVE  Delivered
<1>1. /\ IsRequest(request) /\ DOMAIN plan \subseteq Tasks
      /\ \A t \in DOMAIN plan : plan[t] \in Step
      /\ ValidatePlan(request, plan) /\ PreservesSlack(request, plan)
  BY FinalistsAssumption DEF IsFinalist, IsDelivered, request, plan
<1>2. ASSUME NEW t \in DOMAIN plan
      PROVE  /\ plan[t].start \in Nat /\ plan[t].end \in Nat /\ plan[t].static \in BOOLEAN
             /\ plan[t].start < plan[t].end
             /\ request.deps[t] \subseteq DOMAIN plan
             /\ \A d \in request.deps[t] : plan[d].end <= plan[t].start
  <2>1. plan[t] \in Step
    BY <1>1
  <2>2. plan[t].start \in Nat /\ plan[t].end \in Nat /\ plan[t].static \in BOOLEAN
    BY <2>1, TimeAssumption DEF Step, Time
  <2>3. plan[t].start < plan[t].end
    BY <1>1 DEF ValidatePlan
  <2>4. \A d \in request.deps[t] : d \in DOMAIN plan /\ plan[d].end <= plan[t].start
    BY <1>1 DEF PreservesSlack, StepAdmissible
  <2> QED BY <2>2, <2>3, <2>4
<1>3. \A t, u \in DOMAIN plan :
        t # u => plan[t].end <= plan[u].start \/ plan[u].end <= plan[t].start
  BY <1>1 DEF PreservesSlack
<1> QED BY <1>1, <1>2, <1>3 DEF Delivered

(***************************************************************************)
(* The walk always has a next step, and no remaining step starts earlier.  *)
(***************************************************************************)
LEMMA NextIsEarliest ==
  ASSUME Delivered, rest \subseteq DOMAIN plan, rest # {}
  PROVE  /\ NextInTime \in rest
         /\ \A u \in rest : plan[NextInTime].start <= plan[u].start
<1> DEFINE S == {plan[u].start : u \in rest}
<1>1. S \in SUBSET Nat /\ S # {}
  BY DEF Delivered
<1>2. PICK m \in S : \A k \in S : m <= k
  <2> HIDE DEF S
  <2> QED BY <1>1, LeastNatural
<1>3. \E t \in rest : \A u \in rest : plan[t].start <= plan[u].start
  BY <1>2
<1> QED BY <1>3 DEF NextInTime

(***************************************************************************)
(* A set of naturals below a bound has a maximum.                          *)
(***************************************************************************)
LEMMA MaxOfBounded ==
  ASSUME NEW b \in Nat, NEW S \in SUBSET (0 .. b), S # {}
  PROVE  Max(S) \in S
<1> DEFINE U == {b - k : k \in S}
<1>1. U \in SUBSET Nat /\ U # {}
  OBVIOUS
<1>2. PICK m \in U : \A k \in U : m <= k
  <2> HIDE DEF U
  <2> QED BY <1>1, LeastNatural
<1>3. PICK x \in S : m = b - x
  BY <1>2
<1>4. \A y \in S : x >= y
  <2> TAKE y \in S
  <2>1. b - x <= b - y
    BY <1>2, <1>3
  <2> QED BY <2>1
<1> QED BY <1>3, <1>4 DEF Max

(***************************************************************************)
(* While a clock is not behind the ends it has passed, dependencies never  *)
(* delay a step: it starts when planned, or when the clock is there.       *)
(***************************************************************************)
LEMMA StartIsClock ==
  ASSUME NEW done, done \in [DOMAIN done -> Nat], NEW clock \in Nat,
         \A d \in DOMAIN done : done[d] <= clock,
         NEW t, plan[t].start \in Nat
  PROVE  Start(done, clock, t) = Later(plan[t].start, clock)
<1> DEFINE S == {0} \cup {done[d] : d \in request.deps[t] \cap DOMAIN done}
<1>1. S \in SUBSET (0 .. clock) /\ S # {}
  OBVIOUS
<1>2. Max(S) \in S
  <2> HIDE DEF S
  <2> QED BY <1>1, MaxOfBounded
<1>3. DependencyEnd(done, t) \in 0 .. clock
  BY <1>1, <1>2 DEF DependencyEnd
<1> QED BY <1>3 DEF Start, Later

-----------------------------------------------------------------------------
(***************************************************************************)
(* The inductive invariant: the types, what the two clocks have passed,    *)
(* the order of the walk, and how the two walks differ.                    *)
(***************************************************************************)
Counts ==
  /\ total \in Nat /\ continued \in Nat /\ feasibleCount \in Nat
  /\ failures \in [DOMAIN failures -> Nat] /\ DOMAIN failures \subseteq OutcomeStates

Clocks ==
  /\ ends \in [DOMAIN ends -> Nat] /\ previousEnd \in Nat
  /\ keptEnds \in [DOMAIN keptEnds -> Nat] /\ keptEnd \in Nat
  /\ DOMAIN keptEnds \subseteq DOMAIN ends
  /\ \A t \in DOMAIN ends : ends[t] <= previousEnd
  /\ \A t \in DOMAIN keptEnds : keptEnds[t] <= keptEnd

InTimeOrder ==
  /\ rest \subseteq DOMAIN plan /\ DOMAIN ends \subseteq DOMAIN plan
  /\ pc = "walk" => draw \in [DOMAIN plan -> Draws] /\ DOMAIN ends = DOMAIN plan \ rest
  /\ \A t \in rest, u \in DOMAIN ends : plan[u].start <= plan[t].start

Agrees ==
  feasible =>
    /\ continuation = "as_planned"
    /\ \A u \in DOMAIN ends : plan[u].start <= Limit => u \in DOMAIN keptEnds
    /\ (\A u \in DOMAIN ends : plan[u].start <= Limit) => keptEnd = previousEnd

KeepsRequired ==
  /\ \A t \in DOMAIN keptEnds : request.deps[t] \subseteq DOMAIN keptEnds
  /\ continuation # "failed" =>
       \A t \in DOMAIN ends :
         plan[t].start <= Limit /\ ~MayBeDropped(t) => t \in DOMAIN keptEnds

Flags ==
  /\ pc \in {"sample", "walk"} /\ feasible \in BOOLEAN
  /\ continuation \in {"as_planned", "omission", "failed"}
  /\ boundaryIndex \in Nat /\ visited \subseteq OutcomeStates

RolloutInv ==
  /\ finalist \in Finalists /\ Flags /\ Counts /\ feasibleCount <= continued
  /\ InTimeOrder /\ Clocks /\ NeverLater /\ Agrees /\ KeepsRequired

(***************************************************************************)
(* The invariant holds before the first rollout.                           *)
(***************************************************************************)
LEMMA RolloutInvInit == Init => RolloutInv
<1> SUFFICES ASSUME Init PROVE RolloutInv
  OBVIOUS
<1>1. DOMAIN ends = {} /\ DOMAIN keptEnds = {} /\ DOMAIN failures = {}
  BY DEF Init
<1>2. /\ ends \in [DOMAIN ends -> Nat] /\ keptEnds \in [DOMAIN keptEnds -> Nat]
      /\ failures \in [DOMAIN failures -> Nat]
  BY <1>1 DEF Init
<1> QED
  BY <1>1, <1>2 DEF Init, RolloutInv, Flags, Counts, InTimeOrder, Clocks, NeverLater, Agrees,
     KeepsRequired

(***************************************************************************)
(* A new rollout starts both walks from nothing (rollout.rs, 120-132,      *)
(* 205-212).                                                               *)
(***************************************************************************)
LEMMA SampleKeeps == RolloutInv /\ Sample => RolloutInv'
<1> SUFFICES ASSUME RolloutInv, Sample PROVE RolloutInv'
  OBVIOUS
<1>1. DOMAIN ends' = {} /\ DOMAIN keptEnds' = {}
  BY DEF Sample, ResetContinuation
<1>2. ends' \in [DOMAIN ends' -> Nat] /\ keptEnds' \in [DOMAIN keptEnds' -> Nat]
  BY <1>1 DEF Sample, ResetContinuation
<1>3. plan' = plan
  BY DEF Sample, plan
<1>4. draw' \in [DOMAIN plan' -> Draws] /\ rest' = DOMAIN plan'
  BY <1>3 DEF Sample
<1>5. Flags' /\ finalist' \in Finalists
  BY DEF Sample, ResetContinuation, RolloutInv, Flags
<1>6. Counts' /\ feasibleCount' <= continued'
  BY DEF Sample, countVars, RolloutInv, Counts
<1>7. InTimeOrder'
  BY <1>1, <1>4 DEF InTimeOrder
<1>8. Clocks' /\ NeverLater'
  BY <1>1, <1>2 DEF Sample, ResetContinuation, Clocks, NeverLater
<1>9. Agrees' /\ KeepsRequired'
  BY <1>1 DEF Sample, ResetContinuation, Agrees, KeepsRequired
<1> QED BY <1>5, <1>6, <1>7, <1>8, <1>9 DEF RolloutInv

(***************************************************************************)
(* A feasible rollout is counted as continued too (rollout.rs, 131-134;    *)
(* coverage.rs, 101-107).                                                  *)
(***************************************************************************)
LEMMA ObserveKeeps == RolloutInv /\ Observe => RolloutInv'
<1> SUFFICES ASSUME RolloutInv, Observe PROVE RolloutInv'
  OBVIOUS
<1>1. /\ UNCHANGED <<finalist, draw, rest, ends, previousEnd, feasible, keptEnds, keptEnd,
                     continuation, boundaryIndex, visited>>
      /\ pc' = "sample" /\ UNCHANGED <<plan, request, Limit>>
  BY DEF Observe, walkVars, planVars, keptVars, boundaryVars, plan, request, Limit
<1>2. feasibleCount' <= continued' /\ {total', continued', feasibleCount'} \subseteq Nat
  BY DEF Observe, One, RolloutInv, Counts, Flags, Agrees
<1>3. DOMAIN failures' \subseteq OutcomeStates /\ failures' \in [DOMAIN failures' -> Nat]
  <2>1. \A s \in DOMAIN failures \cup visited :
          FailuresOf(s) + One(s \in visited /\ continuation = "failed") \in Nat
    BY DEF FailuresOf, One, RolloutInv, Counts
  <2> QED BY <2>1 DEF Observe, AddedFailures, RolloutInv, Counts, Flags
<1>4. Flags' /\ Counts' /\ finalist' \in Finalists
  BY <1>1, <1>2, <1>3 DEF RolloutInv, Flags, Counts
<1>5. InTimeOrder'
  BY <1>1 DEF RolloutInv, InTimeOrder
<1>6. Clocks' /\ NeverLater'
  BY <1>1 DEF RolloutInv, Clocks, NeverLater
<1>7. Agrees' /\ KeepsRequired'
  BY <1>1 DEF RolloutInv, Agrees, KeepsRequired, MayBeDropped
<1> QED BY <1>2, <1>4, <1>5, <1>6, <1>7 DEF RolloutInv

-----------------------------------------------------------------------------
(***************************************************************************)
(* One step of the walk.  Its two starts, both without the dependencies.   *)
(***************************************************************************)
Reached(t) ==
  /\ t \in rest /\ \A u \in rest : plan[t].start <= plan[u].start
  /\ rest' = rest \ {t}
  /\ PassBoundary(t) /\ RunAsWritten(t) /\ Continue(t)
  /\ UNCHANGED <<finalist, pc, draw, total, continued, feasibleCount, failures>>
  /\ UNCHANGED <<plan, request, Limit>>

(***************************************************************************)
(* What a walk's step does, with its Task named.                           *)
(***************************************************************************)
LEMMA WalkReaches ==
  ASSUME RolloutInv, Walk
  PROVE  Delivered /\ \E t \in rest : Reached(t)
<1>1. Delivered
  BY FinalistDelivered DEF RolloutInv
<1>2. NextInTime \in rest /\ \A u \in rest : plan[NextInTime].start <= plan[u].start
  BY <1>1, NextIsEarliest DEF RolloutInv, InTimeOrder, Walk
<1>3. UNCHANGED <<finalist, pc, draw, total, continued, feasibleCount, failures>>
  BY DEF Walk, countVars
<1>4. UNCHANGED <<plan, request, Limit>>
  BY <1>3 DEF plan, request, Limit
<1> QED BY <1>1, <1>2, <1>3, <1>4 DEF Walk, Reached

(***************************************************************************)
(* Where both walks start a step (rollout.rs, 238-244, 263-269).           *)
(***************************************************************************)
LEMMA WalkStarts ==
  ASSUME RolloutInv, Delivered, NEW t \in rest, pc = "walk"
  PROVE  /\ t \in DOMAIN plan /\ t \in Tasks /\ t \notin DOMAIN ends /\ draw[t] \in Nat
         /\ Start(ends, previousEnd, t) = Later(plan[t].start, previousEnd)
         /\ Start(keptEnds, keptEnd, t) = Later(plan[t].start, keptEnd)
<1>1. t \in DOMAIN plan /\ t \in Tasks /\ t \notin DOMAIN ends
  BY DEF RolloutInv, InTimeOrder, Delivered
<1>2. draw[t] \in Nat
  BY <1>1, DrawsAssumption DEF RolloutInv, InTimeOrder
<1>3. plan[t].start \in Nat
  BY <1>1 DEF Delivered
<1>4. Start(ends, previousEnd, t) = Later(plan[t].start, previousEnd)
  BY <1>3, StartIsClock DEF RolloutInv, Clocks
<1>5. Start(keptEnds, keptEnd, t) = Later(plan[t].start, keptEnd)
  BY <1>3, StartIsClock DEF RolloutInv, Clocks
<1> QED BY <1>1, <1>2, <1>4, <1>5

(***************************************************************************)
(* Lateness in whole buckets is a natural number.                          *)
(***************************************************************************)
LEMMA LatenessType ==
  ASSUME NEW x \in Int
  PROVE  Lateness(x) \in Nat
<1>1. CASE x <= 0
  BY <1>1 DEF Lateness
<1>2. CASE ~(x <= 0)
  <2>1. Bucket \in Nat \ {0} /\ x + Bucket - 1 \in Nat
    BY <1>2, DrawsAssumption
  <2>2. (x + Bucket - 1) \div Bucket \in Nat
    BY <2>1
  <2> QED BY <1>2, <2>2 DEF Lateness
<1> QED BY <1>1, <1>2

(***************************************************************************)
(* A step keeps the types and the order of the walk.                       *)
(***************************************************************************)
LEMMA WalkTypes ==
  ASSUME RolloutInv, Delivered, NEW t, Reached(t), pc = "walk"
  PROVE  Flags' /\ Counts' /\ InTimeOrder'
<1>1. /\ t \in DOMAIN plan /\ t \in Tasks /\ t \notin DOMAIN ends
      /\ plan[t].start \in Nat /\ plan[t].static \in BOOLEAN
  BY WalkStarts DEF Reached, Delivered
<1>2. OutcomeState(t) \in OutcomeStates
  <2>1. Lateness(previousEnd - plan[t].start) \in Nat
    BY <1>1, LatenessType DEF RolloutInv, Clocks
  <2>2. CompletedBy(plan[t].start) \in SUBSET Tasks
    BY DEF CompletedBy, RolloutInv, InTimeOrder, Delivered
  <2> QED BY <1>1, <2>1, <2>2 DEF OutcomeState, OutcomeStates, RolloutInv, Flags
<1>3. boundaryIndex' \in Nat /\ visited' \subseteq OutcomeStates
  BY <1>1, <1>2 DEF Reached, PassBoundary, RolloutInv, Flags
<1>4. feasible' \in BOOLEAN
  BY DEF Reached, RunAsWritten, StillFeasible, RolloutInv, Flags, AnchorHolds, Fits
<1>5. continuation' \in {"as_planned", "omission", "failed"}
  BY DEF Reached, Continue, keptVars, RolloutInv, Flags
<1>6. pc' \in {"sample", "walk"} /\ Counts'
  BY DEF Reached, RolloutInv, Flags, Counts
<1>7. DOMAIN ends' = DOMAIN ends \cup {t} /\ rest' = rest \ {t}
  BY DEF Reached, RunAsWritten, Done
<1>8. InTimeOrder'
  <2>1. rest' \subseteq DOMAIN plan' /\ DOMAIN ends' \subseteq DOMAIN plan'
    BY <1>1, <1>7 DEF Reached, RolloutInv, InTimeOrder
  <2>2. draw' \in [DOMAIN plan' -> Draws] /\ DOMAIN ends' = DOMAIN plan' \ rest'
    BY <1>1, <1>7 DEF Reached, RolloutInv, InTimeOrder
  <2>3. \A v \in rest', u \in DOMAIN ends' : plan'[u].start <= plan'[v].start
    BY <1>7 DEF Reached, RolloutInv, InTimeOrder
  <2> QED BY <2>1, <2>2, <2>3 DEF InTimeOrder
<1> QED BY <1>3, <1>4, <1>5, <1>6, <1>8 DEF Flags

(***************************************************************************)
(* Both clocks pass what they have ended, and the continuation's stays     *)
(* behind: each step starts at its planned start or at its clock.          *)
(***************************************************************************)
LEMMA WalkClocks ==
  ASSUME RolloutInv, Delivered, NEW t, Reached(t), pc = "walk"
  PROVE  Clocks' /\ NeverLater'
<1> DEFINE e == Later(plan[t].start, previousEnd) + draw[t]
           k == Later(plan[t].start, keptEnd) + draw[t]
<1>1. /\ t \in DOMAIN plan /\ t \notin DOMAIN ends /\ draw[t] \in Nat
      /\ plan[t].start \in Nat
      /\ End(ends, previousEnd, t) = e /\ End(keptEnds, keptEnd, t) = k
  BY WalkStarts DEF Reached, Delivered, End
<1>2. e \in Nat /\ k \in Nat /\ k <= e /\ previousEnd <= e /\ keptEnd <= k
  BY <1>1 DEF Later, RolloutInv, Clocks, NeverLater
<1>3. /\ previousEnd' = e /\ DOMAIN ends' = DOMAIN ends \cup {t} /\ ends'[t] = e
      /\ \A u \in DOMAIN ends : ends'[u] = ends[u]
  BY <1>1 DEF Reached, RunAsWritten, Done
<1>4. ends' \in [DOMAIN ends' -> Nat] /\ \A u \in DOMAIN ends' : ends'[u] <= previousEnd'
  <2>1. ends' = [u \in DOMAIN ends' |-> ends'[u]]
    BY <1>1, <1>3 DEF Reached, RunAsWritten, Done
  <2>2. \A u \in DOMAIN ends' : ends'[u] \in Nat /\ ends'[u] <= previousEnd'
    BY <1>2, <1>3 DEF RolloutInv, Clocks
  <2> QED BY <2>1, <2>2
<1> HIDE DEF e, k
<1>5. CASE UNCHANGED <<keptEnds, keptEnd>>
  BY <1>2, <1>3, <1>4, <1>5 DEF RolloutInv, Clocks, NeverLater
<1>6. CASE keptEnds' = Done(keptEnds, t, k) /\ keptEnd' = k
  <2>1. /\ DOMAIN keptEnds' = DOMAIN keptEnds \cup {t} /\ keptEnds'[t] = k
        /\ \A u \in DOMAIN keptEnds : keptEnds'[u] = keptEnds[u]
        /\ keptEnds' = [u \in DOMAIN keptEnds' |-> keptEnds'[u]]
    BY <1>1, <1>6 DEF Done, RolloutInv, Clocks
  <2>2. \A u \in DOMAIN keptEnds' :
          keptEnds'[u] \in Nat /\ keptEnds'[u] <= keptEnd' /\ keptEnds'[u] <= ends'[u]
    BY <2>1, <1>2, <1>3, <1>6 DEF RolloutInv, Clocks, NeverLater
  <2>3. keptEnds' \in [DOMAIN keptEnds' -> Nat]
    BY <2>1, <2>2
  <2> QED BY <2>1, <2>2, <2>3, <1>2, <1>3, <1>4, <1>6 DEF RolloutInv, Clocks, NeverLater
<1> QED BY <1>1, <1>5, <1>6 DEF Reached, Continue, keptVars

(***************************************************************************)
(* A feasible draw's two walks are one within the horizon: the step just   *)
(* judged was preceded by steps within the horizon only, so the clocks     *)
(* agree, and its prerequisites have been kept.                            *)
(***************************************************************************)
LEMMA WalkAgrees ==
  ASSUME RolloutInv, Delivered, NEW t, Reached(t), pc = "walk"
  PROVE  Agrees'
<1> SUFFICES ASSUME feasible'
             PROVE  /\ continuation' = "as_planned"
                    /\ \A u \in DOMAIN ends' : plan[u].start <= Limit => u \in DOMAIN keptEnds'
                    /\ (\A u \in DOMAIN ends' : plan[u].start <= Limit) => keptEnd' = previousEnd'
  BY DEF Agrees, Reached
<1>1. /\ t \in DOMAIN plan /\ t \notin DOMAIN ends /\ plan[t].start \in Nat
      /\ Start(ends, previousEnd, t) = Later(plan[t].start, previousEnd)
      /\ Start(keptEnds, keptEnd, t) = Later(plan[t].start, keptEnd)
  BY WalkStarts DEF Reached, Delivered
<1>2. /\ feasible
      /\ AnchorHolds(t, Start(ends, previousEnd, t))
      /\ Fits(t, Start(ends, previousEnd, t), End(ends, previousEnd, t))
      /\ previousEnd' = End(ends, previousEnd, t)
      /\ DOMAIN ends' = DOMAIN ends \cup {t}
  BY DEF Reached, RunAsWritten, StillFeasible, Done
<1>3. /\ continuation = "as_planned"
      /\ \A u \in DOMAIN ends : plan[u].start <= Limit => u \in DOMAIN keptEnds
      /\ (\A u \in DOMAIN ends : plan[u].start <= Limit) => keptEnd = previousEnd
  BY <1>2 DEF RolloutInv, Agrees
<1>4. CASE ~(plan[t].start <= Limit)
  <2>1. UNCHANGED <<keptEnds, keptEnd, continuation>>
    BY <1>4 DEF Reached, Continue, Judged, keptVars
  <2> QED BY <2>1, <1>2, <1>3, <1>4
<1>5. CASE plan[t].start <= Limit
  <2>1. \A u \in DOMAIN ends : u \in DOMAIN plan /\ plan[u].start \in Nat /\ plan[u].start <= Limit
    <3>1. Limit \in Int
      BY TimeAssumption, FinalistsAssumption
      DEF Limit, Sooner, RolloutInv, IsFinalist, IsDelivered, Delivered, IsRequest, Window, Time,
          request
    <3> QED BY <1>1, <1>5, <3>1 DEF RolloutInv, InTimeOrder, Reached, Delivered
  <2>2. keptEnd = previousEnd
    BY <2>1, <1>3
  <2>3. /\ Start(keptEnds, keptEnd, t) = Start(ends, previousEnd, t)
        /\ End(keptEnds, keptEnd, t) = End(ends, previousEnd, t)
    BY <2>2, <1>1 DEF End
  <2>4. request.deps[t] \subseteq DOMAIN keptEnds
    <3> SUFFICES ASSUME NEW d \in request.deps[t] PROVE d \in DOMAIN keptEnds
      OBVIOUS
    <3>1. d \in DOMAIN plan /\ plan[d].end <= plan[t].start
      BY <1>1 DEF Delivered
    <3>2. plan[d].start < plan[t].start
      <4>1. plan[d].start \in Nat /\ plan[d].end \in Nat /\ plan[d].start < plan[d].end
        BY <3>1 DEF Delivered
      <4> QED BY <4>1, <3>1, <1>1
    <3>3. d \notin rest
      <4>1. plan[d].start \in Nat
        BY <3>1 DEF Delivered
      <4> QED BY <4>1, <3>2, <1>1 DEF Reached
    <3>4. d \in DOMAIN ends
      BY <3>1, <3>3 DEF RolloutInv, InTimeOrder
    <3> QED BY <3>4, <2>1, <1>3
  <2>5. Judged(t) /\ Continues(t)
    BY <2>3, <2>4, <1>2, <1>3, <1>5 DEF Judged, Continues
  <2>6. /\ DOMAIN keptEnds' = DOMAIN keptEnds \cup {t}
        /\ keptEnd' = End(keptEnds, keptEnd, t) /\ continuation' = continuation
    BY <2>5 DEF Reached, Continue, Done
  <2> QED BY <2>3, <2>6, <1>2, <1>3
<1> QED BY <1>4, <1>5

(***************************************************************************)
(* What is kept is kept with its direct prerequisites, and what may not be *)
(* dropped is kept unless the continuation fails.                          *)
(***************************************************************************)
LEMMA WalkRequired ==
  ASSUME RolloutInv, Delivered, NEW t, Reached(t), pc = "walk"
  PROVE  KeepsRequired'
<1>1. /\ DOMAIN ends' = DOMAIN ends \cup {t} /\ UNCHANGED <<plan, request, Limit>>
      /\ \A u : MayBeDropped(u)' <=> MayBeDropped(u)
  BY DEF Reached, RunAsWritten, Done, MayBeDropped
<1>2. CASE ~Judged(t) /\ UNCHANGED keptVars
  BY <1>1, <1>2 DEF Judged, keptVars, RolloutInv, KeepsRequired
<1>3. CASE /\ Judged(t) /\ Continues(t) /\ UNCHANGED continuation
           /\ keptEnds' = Done(keptEnds, t, End(keptEnds, keptEnd, t))
  <2>1. DOMAIN keptEnds' = DOMAIN keptEnds \cup {t} /\ request.deps[t] \subseteq DOMAIN keptEnds
    BY <1>3 DEF Done, Continues
  <2> QED BY <2>1, <1>1, <1>3 DEF RolloutInv, KeepsRequired
<1>4. CASE /\ Judged(t) /\ ~Continues(t) /\ UNCHANGED <<keptEnds, keptEnd>>
           /\ continuation' = IF MayBeDropped(t) THEN "omission" ELSE "failed"
  BY <1>1, <1>4 DEF Judged, RolloutInv, KeepsRequired
<1> QED BY <1>2, <1>3, <1>4 DEF Reached, Continue

(***************************************************************************)
(* Every step keeps the invariant.                                         *)
(***************************************************************************)
LEMMA RolloutInvNext == RolloutInv /\ [Next]_vars => RolloutInv'
<1> SUFFICES ASSUME RolloutInv, [Next]_vars PROVE RolloutInv'
  OBVIOUS
<1>1. CASE Sample
  BY <1>1, SampleKeeps
<1>2. CASE Walk
  <2>1. Delivered /\ pc = "walk"
    BY <1>2, WalkReaches DEF Walk
  <2>2. PICK t \in rest : Reached(t)
    BY <1>2, WalkReaches
  <2>3. Flags' /\ Counts' /\ InTimeOrder'
    BY <2>1, <2>2, WalkTypes
  <2>4. Clocks' /\ NeverLater'
    BY <2>1, <2>2, WalkClocks
  <2>5. Agrees' /\ KeepsRequired'
    BY <2>1, <2>2, WalkAgrees, WalkRequired
  <2>6. finalist' \in Finalists /\ feasibleCount' <= continued'
    BY <2>2 DEF Reached, RolloutInv
  <2> QED BY <2>3, <2>4, <2>5, <2>6 DEF RolloutInv
<1>3. CASE Observe
  BY <1>3, ObserveKeeps
<1>4. CASE UNCHANGED vars
  <2>1. UNCHANGED <<plan, request, Limit>> /\ UNCHANGED vars
    BY <1>4 DEF vars, plan, request, Limit
  <2> QED BY <2>1 DEF vars, walkVars, planVars, keptVars, boundaryVars, countVars, RolloutInv,
            Flags, Counts, InTimeOrder, Clocks, NeverLater, Agrees, KeepsRequired, MayBeDropped
<1> QED BY <1>1, <1>2, <1>3, <1>4 DEF Next

(***************************************************************************)
(* The invariant of all rollouts of a finalist (rollout.rs, 101-170,       *)
(* 193-303).                                                               *)
(***************************************************************************)
THEOREM RolloutInvariant == Spec => []RolloutInv
BY RolloutInvInit, RolloutInvNext, PTL DEF Spec

-----------------------------------------------------------------------------
(***************************************************************************)
(* Every state of a rollout is well typed: the clocks never leave the      *)
(* naturals and the boundary states name Tasks of the request (rollout.rs, *)
(* 193-303).                                                               *)
(***************************************************************************)
THEOREM TypeCorrect == Spec => []TypeOK
<1>1. RolloutInv => TypeOK
  BY FinalistDelivered
  DEF RolloutInv, Flags, Counts, InTimeOrder, Clocks, TypeOK
<1> QED BY <1>1, RolloutInvariant, PTL

(***************************************************************************)
(* The estimate of coverage is never below the displayed probability       *)
(* (CONTRACT.md, 86): a draw that is feasible also continues.              *)
(***************************************************************************)
THEOREM CoverageNeverBelow == Spec => []CoverageCounts
<1>1. RolloutInv => CoverageCounts
  BY DEF RolloutInv, Agrees, CoverageCounts
<1> QED BY <1>1, RolloutInvariant, PTL

(***************************************************************************)
(* No step of the continuation ends later than in the Plan as written      *)
(* (rollout.rs, 262-287).                                                  *)
(***************************************************************************)
THEOREM DroppingNeverDelays == Spec => []NeverLater
<1>1. RolloutInv => NeverLater
  BY DEF RolloutInv
<1> QED BY <1>1, RolloutInvariant, PTL

(***************************************************************************)
(* A continuation that has not failed keeps all mandatory and static work  *)
(* of the horizon with its prerequisites to any depth (rollout.rs, 271-    *)
(* 287): what is kept is closed under prerequisites.                       *)
(***************************************************************************)
THEOREM PrerequisitesKept == Spec => []KeptWithPrerequisites
<1>1. RolloutInv => KeptWithPrerequisites
  <2> SUFFICES ASSUME RolloutInv, continuation # "failed",
                      NEW t \in DOMAIN ends, plan[t].start <= Limit, ~MayBeDropped(t)
               PROVE  Prerequisites(request, {t}) \subseteq DOMAIN keptEnds
    BY DEF KeptWithPrerequisites
  <2>1. {t} \subseteq DOMAIN keptEnds /\ ClosedUnderDeps(request, DOMAIN keptEnds)
    BY DEF RolloutInv, KeepsRequired, ClosedUnderDeps
  <2>2. DOMAIN keptEnds \in SUBSET Tasks
    BY FinalistDelivered DEF RolloutInv, InTimeOrder, Clocks, Delivered
  <2> QED BY <2>1, <2>2, PrerequisitesLeast
<1> QED BY <1>1, RolloutInvariant, PTL

-----------------------------------------------------------------------------
(***************************************************************************)
(* The boundaries of a rollout: it visits one state at every static step   *)
(* within the horizon, and none elsewhere.                                 *)
(***************************************************************************)
IsBoundary(t) == plan[t].static /\ plan[t].start <= Limit

VisitsOnce ==
  /\ \A s \in visited : s.task \in DOMAIN ends
  /\ \A s, r \in visited : s.task = r.task => s = r
  /\ \A t \in DOMAIN ends : IsBoundary(t) => \E s \in visited : s.task = t

StatesAt(f, t) == {s \in DOMAIN f : s.task = t}

SumAt(f, t) == SumFunction([s \in StatesAt(f, t) |-> f[s]])

Accounted ==
  \A t \in DOMAIN plan : IsBoundary(t) =>
    IsFiniteSet(StatesAt(failures, t)) /\ SumAt(failures, t) = total - continued

LEMMA VisitsStep ==
  ASSUME RolloutInv, VisitsOnce, [Next]_vars
  PROVE  VisitsOnce'
<1>1. CASE Sample
  <2>1. visited' = {} /\ DOMAIN ends' = {}
    BY <1>1 DEF Sample
  <2> QED BY <2>1 DEF VisitsOnce
<1>2. CASE Walk
  <2>1. PICK t \in rest : Reached(t)
    BY <1>2, WalkReaches
  <2>2. t \notin DOMAIN ends
    BY <1>2, WalkReaches, WalkStarts DEF Walk
  <2>3. /\ DOMAIN ends' = DOMAIN ends \cup {t}
        /\ visited' = IF IsBoundary(t) THEN visited \cup {OutcomeState(t)} ELSE visited
        /\ OutcomeState(t).task = t
    BY <2>1 DEF Reached, RunAsWritten, Done, PassBoundary, IsBoundary, OutcomeState
  <2>4. \A u : IsBoundary(u)' <=> IsBoundary(u)
    BY <2>1 DEF Reached, IsBoundary
  <2> QED BY <2>2, <2>3, <2>4 DEF VisitsOnce
<1>3. CASE Observe \/ UNCHANGED vars
  <2>1. UNCHANGED <<visited, ends, plan, Limit>>
    BY <1>3 DEF Observe, vars, walkVars, planVars, boundaryVars, plan, Limit, request
  <2> QED BY <2>1 DEF VisitsOnce, IsBoundary
<1> QED BY <1>1, <1>2, <1>3 DEF Next

(***************************************************************************)
(* A rollout adds itself to the one state it visited at a boundary.        *)
(***************************************************************************)
LEMMA ObserveAccounts ==
  ASSUME RolloutInv, VisitsOnce, Accounted, Observe
  PROVE  Accounted'
<1> DEFINE k == One(continuation = "failed")
<1>1. UNCHANGED <<plan, Limit>> /\ pc = "walk" /\ rest = {} /\ failures' = AddedFailures
  BY DEF Observe, plan, Limit, request
<1>2. \A t : IsBoundary(t)' <=> IsBoundary(t)
  BY <1>1 DEF IsBoundary
<1>3. k \in Int /\ total' - continued' = (total - continued) + k
  BY DEF Observe, One, RolloutInv, Counts
<1> HIDE DEF k
<1>4. ASSUME NEW t \in DOMAIN plan, IsBoundary(t)
      PROVE  IsFiniteSet(StatesAt(failures', t)) /\ SumAt(failures', t) = SumAt(failures, t) + k
  <2> DEFINE S == StatesAt(failures, t)
             w == [s \in S |-> failures[s]]
  <2>1. t \in DOMAIN ends
    BY <1>1, <1>4 DEF RolloutInv, InTimeOrder
  <2>2. PICK x \in visited : x.task = t
    BY <1>4, <2>1 DEF VisitsOnce
  <2>3. \A s \in visited : s.task = t => s = x
    BY <2>2 DEF VisitsOnce
  <2> DEFINE v == [s \in S \cup {x} |-> failures'[s]]
  <2>4. DOMAIN failures' = DOMAIN failures \cup visited
    BY <1>1 DEF AddedFailures
  <2>5. StatesAt(failures', t) = S \cup {x}
    BY <2>2, <2>3, <2>4 DEF StatesAt
  <2>6. IsFiniteSet(S)
    BY <1>4 DEF Accounted
  <2>7. \A s \in S : s \in DOMAIN failures /\ failures[s] \in Nat /\ s.task = t
    BY DEF StatesAt, RolloutInv, Counts
  <2>8. \A s \in S : s # x => failures'[s] = failures[s]
    <3> SUFFICES ASSUME NEW s \in S, s # x PROVE failures'[s] = failures[s]
      OBVIOUS
    <3>1. s \notin visited
      BY <2>3, <2>7
    <3>2. failures'[s] = failures[s] + 0
      BY <1>1, <2>4, <2>7, <3>1 DEF AddedFailures, FailuresOf, One
    <3> QED BY <2>7, <3>2
  <2>9. failures'[x] = (IF x \in S THEN failures[x] ELSE 0) + k
    <3>1. x \in S <=> x \in DOMAIN failures
      BY <2>2 DEF StatesAt
    <3>2. failures'[x] = FailuresOf(x) + One(x \in visited /\ continuation = "failed")
      BY <1>1, <2>2 DEF AddedFailures
    <3>3. One(x \in visited /\ continuation = "failed") = k
      BY <2>2 DEF One, k
    <3> QED BY <3>1, <3>2, <3>3 DEF FailuresOf
  <2> HIDE DEF S
  <2>10. w \in [S -> Int]
    BY <2>7
  <2>11. (IF x \in S THEN failures[x] ELSE 0) \in Int
    BY <2>7
  <2>12. v \in [S \cup {x} -> Int]
    BY <1>3, <2>7, <2>8, <2>9, <2>11
  <2>13. \A y \in S : y # x => v[y] = w[y]
    BY <2>8
  <2>14. v[x] = (IF x \in S THEN w[x] ELSE 0) + k
    BY <2>9
  <2> HIDE DEF v, w
  <2>15. SumFunction(v) = SumFunction(w) + k
    BY <1>3, <2>6, <2>10, <2>12, <2>13, <2>14, SumWithOneMore
  <2>16. SumAt(failures, t) = SumFunction(w) /\ SumAt(failures', t) = SumFunction(v)
    BY <2>5 DEF SumAt, v, w, S
  <2>17. IsFiniteSet(S \cup {x})
    BY <2>6, FS_AddElement
  <2> QED BY <2>5, <2>15, <2>16, <2>17
<1> QED BY <1>1, <1>2, <1>3, <1>4 DEF Accounted

(***************************************************************************)
(* However draws merge into states, every failed rollout is counted once   *)
(* at every boundary within the horizon: the uncovered mass of a boundary  *)
(* is that of the whole estimate (coverage.rs, 101-157).                   *)
(***************************************************************************)
THEOREM FailuresAreAccounted == Spec => []FailuresAccounted
<1>1. Init => VisitsOnce /\ Accounted
  <2> SUFFICES ASSUME Init PROVE VisitsOnce /\ Accounted
    OBVIOUS
  <2>1. visited = {} /\ DOMAIN ends = {} /\ DOMAIN failures = {} /\ total = 0 /\ continued = 0
    BY DEF Init
  <2>2. \A t : StatesAt(failures, t) = {}
    BY <2>1 DEF StatesAt
  <2>3. ASSUME NEW t PROVE SumAt(failures, t) = 0
    <3> DEFINE w == [s \in StatesAt(failures, t) |-> failures[s]]
    <3>1. w \in [{} -> Int]
      BY <2>2
    <3> HIDE DEF w
    <3>2. SumFunction(w) = 0
      BY <3>1, SumOfNothing
    <3> QED BY <3>2 DEF SumAt, w
  <2>4. IsFiniteSet({})
    BY FS_EmptySet
  <2> QED BY <2>1, <2>2, <2>3, <2>4 DEF VisitsOnce, Accounted
<1>2. RolloutInv /\ VisitsOnce /\ Accounted /\ [Next]_vars => VisitsOnce' /\ Accounted'
  <2> SUFFICES ASSUME RolloutInv, VisitsOnce, Accounted, [Next]_vars PROVE VisitsOnce' /\ Accounted'
    OBVIOUS
  <2>1. ASSUME Sample \/ Walk \/ UNCHANGED vars PROVE Accounted'
    <3>1. UNCHANGED <<plan, Limit, failures, total, continued>>
      BY <2>1 DEF Sample, Walk, vars, countVars, plan, Limit, request
    <3>2. \A t : IsBoundary(t)' <=> IsBoundary(t)
      BY <3>1 DEF IsBoundary
    <3> QED BY <3>1, <3>2 DEF Accounted
  <2> QED BY <2>1, VisitsStep, ObserveAccounts DEF Next
<1>3. Accounted => FailuresAccounted
  BY DEF Accounted, FailuresAccounted, IsBoundary, FailedVisits, SumAt, StatesAt
<1> QED BY <1>1, <1>2, <1>3, RolloutInvariant, PTL DEF Spec

-----------------------------------------------------------------------------
(***************************************************************************)
(* A fresh Plan with the durations it was made for: the clock stands where *)
(* a step of the Plan ends, and no step that is to come starts before.     *)
(***************************************************************************)
DrawnAsPlanned ==
  pc = "walk" /\ request.mode = "fresh" /\ \A t \in DOMAIN plan : draw[t] = plan[t].end - plan[t].start

RunsAsPlanned ==
  DrawnAsPlanned =>
    feasible /\ (previousEnd = 0 \/ \E u \in DOMAIN ends : previousEnd = plan[u].end)

LEMMA AsPlannedStep ==
  ASSUME RolloutInv, RunsAsPlanned, [Next]_vars
  PROVE  RunsAsPlanned'
<1>1. CASE Sample
  BY <1>1 DEF Sample, RunsAsPlanned
<1>2. CASE Walk
  <2>1. Delivered /\ pc = "walk"
    BY <1>2, WalkReaches DEF Walk
  <2>2. PICK t \in rest : Reached(t)
    BY <1>2, WalkReaches
  <2> SUFFICES ASSUME DrawnAsPlanned'
               PROVE  feasible' /\ \E u \in DOMAIN ends' : previousEnd' = plan'[u].end
    BY DEF RunsAsPlanned
  <2>3. DrawnAsPlanned /\ plan' = plan
    BY <2>1, <2>2 DEF Reached, DrawnAsPlanned
  <2>4. /\ t \in DOMAIN plan /\ t \notin DOMAIN ends
        /\ Start(ends, previousEnd, t) = Later(plan[t].start, previousEnd)
        /\ plan[t].start \in Nat /\ plan[t].end \in Nat /\ plan[t].start < plan[t].end
        /\ draw[t] = plan[t].end - plan[t].start
    BY <2>1, <2>3, WalkStarts DEF Delivered, DrawnAsPlanned
  <2>5. previousEnd \in Nat /\ previousEnd <= plan[t].start
    <3>1. previousEnd \in Nat
      BY DEF RolloutInv, Clocks
    <3>2. CASE previousEnd = 0
      BY <2>4, <3>1, <3>2
    <3>3. ASSUME NEW u \in DOMAIN ends, previousEnd = plan[u].end PROVE previousEnd <= plan[t].start
      <4>1. u \in DOMAIN plan /\ u # t /\ plan[u].start <= plan[t].start
        BY <2>4 DEF RolloutInv, InTimeOrder
      <4>2. plan[u].end <= plan[t].start \/ plan[t].end <= plan[u].start
        BY <2>1, <2>4, <4>1 DEF Delivered
      <4>3. plan[u].start \in Nat
        BY <2>1, <4>1 DEF Delivered
      <4> QED BY <2>4, <3>3, <4>1, <4>2, <4>3
    <3> QED BY <2>3, <3>1, <3>2, <3>3 DEF RunsAsPlanned
  <2>6. Start(ends, previousEnd, t) = plan[t].start
    BY <2>4, <2>5 DEF Later
  <2>7. End(ends, previousEnd, t) = plan[t].end
    BY <2>4, <2>6 DEF End
  <2>8. StepAdmissible(request, plan, t) /\ request.mode = "fresh"
    BY <2>3, <2>4, FinalistsAssumption
    DEF RolloutInv, IsFinalist, PreservesSlack, DrawnAsPlanned, request, plan
  <2>9. AnchorHolds(t, plan[t].start) /\ Fits(t, plan[t].start, plan[t].end)
    BY <2>8 DEF StepAdmissible, InPlanWindow, AnchorHolds, Fits, Within
  <2>10. feasible'
    BY <2>2, <2>3, <2>6, <2>7, <2>9 DEF Reached, RunAsWritten, StillFeasible, RunsAsPlanned
  <2>11. previousEnd' = plan[t].end /\ t \in DOMAIN ends'
    BY <2>2, <2>7 DEF Reached, RunAsWritten, Done
  <2> QED BY <2>3, <2>10, <2>11
<1>3. CASE Observe
  BY <1>3 DEF Observe, RunsAsPlanned, DrawnAsPlanned
<1>4. CASE UNCHANGED vars
  <2>1. UNCHANGED <<plan, request, pc, draw, feasible, previousEnd, ends>>
    BY <1>4 DEF vars, walkVars, planVars, plan, request
  <2> QED BY <2>1 DEF RunsAsPlanned, DrawnAsPlanned
<1> QED BY <1>1, <1>2, <1>3, <1>4 DEF Next

(***************************************************************************)
(* A fresh Plan whose steps all take as long as planned is feasible at     *)
(* every step of its rollout: the walk agrees with the planner and the     *)
(* cheap checks on what fits (rollout.rs, 244-258; legitimization.rs, 50-  *)
(* 76).                                                                    *)
(***************************************************************************)
THEOREM FreshRunsAsWritten == Spec => []FreshAsWritten
<1>1. Init => RunsAsPlanned
  BY DEF Init, RunsAsPlanned, DrawnAsPlanned
<1>2. RolloutInv /\ RunsAsPlanned /\ [Next]_vars => RunsAsPlanned'
  BY AsPlannedStep
<1>3. RunsAsPlanned => FreshAsWritten
  BY DEF RunsAsPlanned, DrawnAsPlanned, FreshAsWritten, AsWritten
<1> QED BY <1>1, <1>2, <1>3, RolloutInvariant, PTL DEF Spec


=============================================================================
