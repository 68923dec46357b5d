--------------------------- MODULE SkeletonProofs ---------------------------
(***************************************************************************)
(* What the greedy skeleton guarantees for every set of requests, every    *)
(* number of Tasks and every largest time: its steps and its calendar, and *)
(* what its answers mean.  Each theorem states one of the properties of    *)
(* module Skeleton; the inductive invariants that carry them are defined   *)
(* beside their proofs.                                                    *)
(***************************************************************************)
EXTENDS Skeleton, RequestLemmas

(***************************************************************************)
(* The request of a state is a validated request.                          *)
(***************************************************************************)
LEMMA RequestFacts ==
  ASSUME TypeOK
  PROVE  /\ IsRequest(req)
         /\ req.deps \in [Tasks -> SUBSET Tasks]
         /\ req.duration \in [Tasks -> 1 .. MaxTime]
         /\ req.window \in Window
         /\ req.mandatory \subseteq Tasks
         /\ DOMAIN req.anchor \subseteq Tasks
         /\ \A t \in DOMAIN req.anchor : req.anchor[t] \in Time
         /\ req.order \in Seq(Tasks)
         /\ req.prior \in Seq(Step)
<1>1. IsRequest(req)
  BY RequestsAssumption DEF TypeOK
<1> QED BY <1>1 DEF IsRequest, IsTopological

(***************************************************************************)
(* The latest end among some steps of a schedule, zero if there are none.  *)
(***************************************************************************)
LatestEnd(map, deps) ==
  CHOOSE e \in {0} \cup {map[d].end : d \in deps} : \A d \in deps : map[d].end <= e

LEMMA LatestEndBounds ==
  ASSUME NEW map, NEW deps, \A d \in deps : map[d].end \in Time
  PROVE  /\ LatestEnd(map, deps) \in {0} \cup {map[d].end : d \in deps}
         /\ LatestEnd(map, deps) \in Time
         /\ \A d \in deps : map[d].end <= LatestEnd(map, deps)
<1> DEFINE Ends == {0} \cup {map[d].end : d \in deps}
<1>1. Ends \in SUBSET Time /\ Ends # {}
  BY TimeAssumption DEF Time
<1>2. \E e \in Ends : \A k \in Ends : k <= e
  <2> HIDE DEF Ends
  <2> QED BY <1>1, GreatestTime
<1>3. \E e \in Ends : \A d \in deps : map[d].end <= e
  BY <1>2
<1>4. LatestEnd(map, deps) \in Ends /\ \A d \in deps : map[d].end <= LatestEnd(map, deps)
  BY <1>3 DEF LatestEnd
<1> QED BY <1>1, <1>4

LEMMA LatestEndOfEqual ==
  ASSUME NEW map, NEW copy, NEW deps, \A d \in deps : map[d].end \in Time,
         \A d \in deps : copy[d] = map[d]
  PROVE  LatestEnd(copy, deps) = LatestEnd(map, deps)
<1> DEFINE x == LatestEnd(map, deps)
           y == LatestEnd(copy, deps)
<1>1. /\ x \in {0} \cup {map[d].end : d \in deps} /\ x \in Int
      /\ \A d \in deps : map[d].end <= x
  BY LatestEndBounds DEF Time
<1>2. /\ y \in {0} \cup {map[d].end : d \in deps} /\ y \in Int
      /\ \A d \in deps : map[d].end <= y
  <2>1. \A d \in deps : copy[d].end \in Time
    OBVIOUS
  <2>2. /\ y \in {0} \cup {copy[d].end : d \in deps} /\ y \in Time
        /\ \A d \in deps : copy[d].end <= y
    BY <2>1, LatestEndBounds
  <2> QED BY <2>2 DEF Time
<1>3. 0 <= x /\ 0 <= y
  <2>1. \A d \in deps : 0 <= map[d].end
    BY DEF Time
  <2> QED BY <1>1, <1>2, <2>1
<1> HIDE DEF x, y
<1>4. x <= y /\ y <= x
  BY <1>1, <1>2, <1>3
<1> QED BY <1>1, <1>2, <1>4 DEF x, y

(***************************************************************************)
(* dependency_end returns the latest end of the Task's prerequisites.      *)
(***************************************************************************)
LEMMA DependencyEndBounds ==
  ASSUME TypeOK, NEW t \in Tasks, DependenciesScheduled(t)
  PROVE  /\ DependencyEnd(t) \in Time
         /\ \A d \in req.deps[t] : scheduled[d].end <= DependencyEnd(t)
<1>1. \A d \in req.deps[t] : scheduled[d].end \in Time
  BY DEF TypeOK, IsSchedule, DependenciesScheduled, Step
<1>2. DependencyEnd(t) = LatestEnd(scheduled, req.deps[t])
  BY DEF DependencyEnd, LatestEnd
<1> QED BY <1>1, <1>2, LatestEndBounds

(***************************************************************************)
(* The search starts at a representable time, after the prerequisites and  *)
(* not before the windows open.                                            *)
(***************************************************************************)
LEMMA MinimumStartBounds ==
  ASSUME TypeOK, NEW t \in Tasks, DependenciesScheduled(t)
  PROVE  /\ EarliestStart(t) \in Time
         /\ MinimumStart(t) \in Time
         /\ EarliestStart(t) <= MinimumStart(t)
         /\ EffectiveWindow(req, t).start <= MinimumStart(t)
         /\ req.window.start <= EarliestStart(t)
         /\ \A d \in req.deps[t] : scheduled[d].end <= EarliestStart(t)
<1>1. EffectiveWindow(req, t) \in Window /\ req.window \in Window
  BY RequestFacts, EffectiveWindowType
<1>2. DependencyEnd(t) \in Time /\ \A d \in req.deps[t] : scheduled[d].end <= DependencyEnd(t)
  BY DependencyEndBounds
<1>3. \A d \in req.deps[t] : scheduled[d].end \in Time
  BY DEF TypeOK, IsSchedule, DependenciesScheduled, Step
<1> QED BY <1>1, <1>2, <1>3 DEF EarliestStart, MinimumStart, Later, Window, Time

(***************************************************************************)
(* first_overlap finds an overlapping interval whenever there is one.      *)
(***************************************************************************)
LEMMA FirstOverlapClashes ==
  ASSUME TypeOK, NEW start, NEW end, Clashing(start, end) # {}
  PROVE  FirstOverlap(start, end) \in Clashing(start, end)
<1> DEFINE C == Clashing(start, end)
           Starts == {o.start : o \in C}
<1>1. \A o \in C : o.start \in Nat /\ o.end \in Nat
  BY DEF TypeOK, Clashing, Time
<1>2. PICK first \in C : \A p \in C : first.start <= p.start
  <2>1. Starts \in SUBSET Nat /\ Starts # {}
    BY <1>1
  <2>2. \E m \in Starts : \A k \in Starts : m <= k
    <3> HIDE DEF Starts
    <3> QED BY <2>1, LeastNatural
  <2> QED BY <2>2
<1> DEFINE Ends == {o.end : o \in {p \in C : p.start = first.start}}
<1>3. \E m \in Ends : \A k \in Ends : m <= k
  <2>1. Ends \in SUBSET Nat /\ Ends # {}
    BY <1>1
  <2> HIDE DEF Ends
  <2> QED BY <2>1, LeastNatural
<1>4. PICK o \in C : o.start = first.start /\ \A p \in C : p.start = first.start => o.end <= p.end
  BY <1>3
<1>5. \A p \in C : o.start < p.start \/ (o.start = p.start /\ o.end <= p.end)
  <2> SUFFICES ASSUME NEW p \in C
               PROVE  o.start < p.start \/ (o.start = p.start /\ o.end <= p.end)
    OBVIOUS
  <2>1. first.start <= p.start /\ p.start \in Nat /\ first.start \in Nat
    BY <1>1, <1>2
  <2> QED BY <2>1, <1>4
<1> QED BY <1>5 DEF FirstOverlap

(***************************************************************************)
(* Insertion keeps a map a schedule; a step made from a request is a step. *)
(***************************************************************************)
LEMMA WithFacts ==
  ASSUME NEW map, NEW t, NEW value
  PROVE  /\ DOMAIN With(map, t, value) = DOMAIN map \cup {t}
         /\ With(map, t, value)[t] = value
         /\ \A u \in DOMAIN map : u # t => With(map, t, value)[u] = map[u]
BY DEF With

LEMMA WithSchedule ==
  ASSUME NEW map, IsSchedule(map), NEW t \in Tasks, NEW step \in Step, step.task = t
  PROVE  IsSchedule(With(map, t, step))
<1> DEFINE new == With(map, t, step)
<1>1. /\ DOMAIN new = DOMAIN map \cup {t}
      /\ new[t] = step
      /\ \A u \in DOMAIN map : u # t => new[u] = map[u]
  BY DEF With
<1>2. ASSUME NEW u \in DOMAIN new PROVE new[u] \in Step /\ new[u].task = u
  <2> HIDE DEF new
  <2> QED BY <1>1, <1>2 DEF IsSchedule
<1>3. DOMAIN new \subseteq Tasks
  BY <1>1 DEF IsSchedule
<1> QED BY <1>2, <1>3, Zenon DEF IsSchedule

LEMMA PlanStepType ==
  ASSUME TypeOK, NEW t \in Tasks, NEW start \in Time, start + req.duration[t] <= MaxTime
  PROVE  /\ PlanStep(req, t, start) \in Step
         /\ PlanStep(req, t, start).task = t
         /\ start < start + req.duration[t]
<1>1. req.duration[t] \in 1 .. MaxTime /\ req.deps[t] \subseteq Ids
  BY RequestFacts DEF Ids
<1>2. start + req.duration[t] \in Time /\ start < start + req.duration[t]
  BY <1>1, TimeAssumption DEF Time
<1> QED BY <1>1, <1>2 DEF PlanStep, Step, Ids

LEMMA PlacedInTime ==
  ASSUME TypeOK, NEW t \in Tasks, Place(t)
  PROVE  cursor \in Time /\ cursor + req.duration[t] <= MaxTime
<1>1. cursor \in Time /\ cursor \in Nat /\ req.duration[t] \in Nat /\ MaxTime \in Nat
  BY RequestFacts, TimeAssumption DEF TypeOK, Time
<1>2. ~(cursor + req.duration[t] > MaxTime)
  BY DEF Place, NoRoom
<1> QED BY <1>1, <1>2

LEMMA CurrentTask ==
  ASSUME TypeOK, InOrder
  PROVE  Current \in Tasks /\ next \in DOMAIN req.order /\ req.order[next] = Current
<1>1. req.order \in Seq(Tasks) /\ next \in Nat /\ next >= 1
  BY RequestFacts DEF TypeOK
<1> QED BY <1>1 DEF InOrder, Current

-----------------------------------------------------------------------------
(***************************************************************************)
(* Every reachable state is well typed: in particular no time the code     *)
(* stores exceeds the largest one, so its additions do not overflow.       *)
(***************************************************************************)
LEMMA TypeInit == Init => TypeOK
BY TimeAssumption DEF Init, TypeOK, Phases, Time, IsSchedule, Empty

LEMMA TypeStep == TypeOK /\ [Next]_vars => TypeOK'
<1> SUFFICES ASSUME TypeOK, [Next]_vars PROVE TypeOK'
  OBVIOUS
<1> USE DEF Phases
<1>f. ASSUME NEW reason, Fail(reason) PROVE TypeOK'
  BY <1>f DEF Fail, TypeOK, IsSchedule
<1>1. CASE Open
  BY <1>1, <1>f DEF Open, EnterPhase, TypeOK, IsSchedule
<1>2. CASE CollectPrior
  <2>1. req.prior[next] \in Step
    BY <1>2, RequestFacts DEF CollectPrior, TypeOK
  <2>2. IsSchedule(preserved')
    BY <1>2, <2>1, WithSchedule DEF CollectPrior, TypeOK
  <2> QED BY <1>2, <2>2 DEF CollectPrior, Advance, TypeOK, IsSchedule
<1>3. CASE CollectDone
  BY <1>3 DEF CollectDone, EnterPhase, TypeOK, IsSchedule
<1>4. CASE PreserveDone
  BY <1>4 DEF PreserveDone, EnterPhase, TypeOK, IsSchedule
<1>5. CASE AffixSkip
  BY <1>5 DEF AffixSkip, Advance, TypeOK, IsSchedule
<1>6. CASE AffixAnchor
  <2> DEFINE step == PlanStep(req, Current, req.anchor[Current])
  <2>1. Current \in Tasks /\ Current \in DOMAIN req.anchor
    BY <1>6, CurrentTask DEF AffixAnchor, NeedsAffixing
  <2>2. step \in Step /\ step.task = Current
    BY <1>6, <2>1, PlanStepType, RequestFacts DEF AffixAnchor, AnchorFits
  <2>3. IsSchedule(affixed') /\ DOMAIN affixed' \subseteq DOMAIN req.anchor
    <3>1. affixed' = With(affixed, Current, step)
      BY <1>6 DEF AffixAnchor
    <3>2. IsSchedule(With(affixed, Current, step))
      BY <2>1, <2>2, WithSchedule DEF TypeOK
    <3>3. DOMAIN With(affixed, Current, step) = DOMAIN affixed \cup {Current}
      BY WithFacts, Zenon
    <3>4. req' = req
      BY <1>6 DEF AffixAnchor, Advance
    <3> QED BY <2>1, <3>1, <3>2, <3>3, <3>4 DEF TypeOK
  <2>4. Interval(step) \in [task : Tasks, start : Time, end : Time]
    BY <2>1, <2>2 DEF Interval, Step
  <2> QED BY <1>6, <2>3, <2>4 DEF AffixAnchor, Advance, TypeOK, IsSchedule
<1>7. CASE AffixReject
  BY <1>7, <1>f DEF AffixReject
<1>8. CASE AffixDone
  <2>1. protected' \subseteq Tasks
    BY <1>8 DEF AffixDone, ProtectedTasks, Prerequisites
  <2>2. /\ phase' = "schedule" /\ next' = 1
        /\ UNCHANGED <<req, cursor, preserved, occupied, affixed,
                       scheduled, omitted, excluded, plan, unplaced, failure>>
    BY <1>8 DEF AffixDone, EnterPhase
  <2> QED BY <2>1, <2>2 DEF TypeOK, IsSchedule
<1>9. CASE SkipExcluded
  BY <1>9 DEF SkipExcluded, Advance, TypeOK, IsSchedule
<1>10. CASE Emit
  <2>1. CASE phase' = "failed"
    BY <1>10, <2>1, <1>f DEF Emit
  <2>2. CASE phase' # "failed"
    <3>1. /\ Tasks \ excluded \subseteq DOMAIN scheduled
          /\ plan' = [t \in Tasks \ excluded |-> scheduled[t]]
          /\ unplaced' = [t \in excluded |-> Report(t)]
          /\ phase' = "done"
          /\ UNCHANGED <<req, next, cursor, preserved, occupied, affixed, protected,
                         scheduled, omitted, excluded, failure>>
      BY <1>10, <2>2 DEF Emit, Fail
    <3>2. IsSchedule(plan')
      BY <3>1 DEF TypeOK, IsSchedule
    <3>3. DOMAIN unplaced' \subseteq Tasks
      BY <3>1 DEF TypeOK
    <3> QED BY <3>1, <3>2, <3>3 DEF TypeOK, IsSchedule
  <2> QED BY <2>1, <2>2
<1>11. ASSUME NEW t \in Tasks, PushPreserved(t) PROVE TypeOK'
  <2>1. Interval(preserved[t]) \in [task : Tasks, start : Time, end : Time]
    BY <1>11 DEF PushPreserved, Unpushed, TypeOK, IsSchedule, Interval, Step
  <2> QED BY <1>11, <1>f, <2>1 DEF PushPreserved, TypeOK, IsSchedule
<1>12. ASSUME NEW t \in Tasks, KeepPreserved(t) PROVE TypeOK'
  <2>1. preserved[t] \in Step /\ preserved[t].task = t
    BY <1>12 DEF KeepPreserved, TypeOK, IsSchedule
  <2>2. IsSchedule(With(scheduled, t, preserved[t]))
    BY <2>1, WithSchedule DEF TypeOK
  <2> QED BY <1>12, <1>f, <2>2 DEF KeepPreserved, Scheduling, Schedule, Advance, TypeOK, IsSchedule
<1>13. ASSUME NEW t \in Tasks, KeepAffixed(t) PROVE TypeOK'
  <2>1. affixed[t] \in Step /\ affixed[t].task = t
    BY <1>13 DEF KeepAffixed, TypeOK, IsSchedule
  <2>2. IsSchedule(With(scheduled, t, affixed[t]))
    BY <2>1, WithSchedule DEF TypeOK
  <2>3. IsSchedule([u \in DOMAIN affixed \ {t} |-> affixed[u]])
    BY DEF TypeOK, IsSchedule
  <2> QED BY <1>13, <1>f, <2>2, <2>3 DEF KeepAffixed, Scheduling, Schedule, Advance, TypeOK, IsSchedule
<1>14. ASSUME NEW t \in Tasks, StartPlacement(t) PROVE TypeOK'
  <2>1. DependenciesScheduled(t) => MinimumStart(t) \in Time
    BY MinimumStartBounds
  <2> QED BY <1>14, <1>f, <2>1 DEF StartPlacement, Scheduling, InOrder, TypeOK, IsSchedule
<1>15. ASSUME NEW t \in Tasks, Bump(t) PROVE TypeOK'
  <2>1. FirstOverlap(cursor, CandidateEnd(t)) \in occupied
    BY <1>15, FirstOverlapClashes DEF Bump, Clashing
  <2>2. NextStart(t) \in Time
    BY <2>1, TimeAssumption DEF TypeOK, NextStart, Later, Sooner, Time
  <2> QED BY <1>15, <2>2 DEF Bump, TypeOK, IsSchedule, InOrder
<1>16. ASSUME NEW t \in Tasks, Place(t) PROVE TypeOK'
  <2> DEFINE step == PlanStep(req, t, cursor)
  <2>1. cursor \in Time /\ cursor + req.duration[t] <= MaxTime
    BY <1>16, PlacedInTime
  <2>2. step \in Step /\ step.task = t
    BY <2>1, PlanStepType
  <2>3. IsSchedule(With(scheduled, t, step))
    BY <2>2, WithSchedule DEF TypeOK
  <2>4. Interval(step) \in [task : Tasks, start : Time, end : Time]
    BY <2>2 DEF Interval, Step
  <2> QED BY <1>16, <2>3, <2>4 DEF Place, TypeOK, IsSchedule
<1>17. ASSUME NEW t \in Tasks, Omit(t) PROVE TypeOK'
  <2>1. WithDependents(req, {t}) \in SUBSET Tasks /\ t \in WithDependents(req, {t})
    BY WithDependentsClosed, RequestFacts
  <2>2. GreedyReason(t) \in Reasons
    BY DEF GreedyReason, Reasons
  <2>3. DOMAIN omitted' \subseteq excluded' /\ \A u \in DOMAIN omitted' : omitted'[u] \in Reasons
    <3>1. omitted' = With(omitted, t, GreedyReason(t))
      BY <1>17 DEF Omit
    <3>2. /\ DOMAIN omitted' = DOMAIN omitted \cup {t}
          /\ omitted'[t] = GreedyReason(t)
          /\ \A u \in DOMAIN omitted : u # t => omitted'[u] = omitted[u]
      BY <3>1 DEF With
    <3>3. excluded' = excluded \cup WithDependents(req, {t})
      BY <1>17 DEF Omit
    <3> QED BY <2>1, <2>2, <3>2, <3>3 DEF TypeOK
  <2>4. /\ phase' = "schedule" /\ next' = next + 1
        /\ excluded' = excluded \cup WithDependents(req, {t})
        /\ UNCHANGED <<req, cursor, preserved, occupied, affixed, protected, scheduled,
                       plan, unplaced, failure>>
    BY <1>17 DEF Omit
  <2>5. excluded' \subseteq Tasks
    BY <2>1, <2>4 DEF TypeOK
  <2>6. next' \in Nat \ {0} /\ phase' \in Phases /\ phase' # "place"
    BY <2>4 DEF TypeOK
  <2>7. IsSchedule(preserved)' /\ IsSchedule(affixed)' /\ IsSchedule(scheduled)' /\ IsSchedule(plan)'
    BY <2>4 DEF TypeOK
  <2> QED BY <2>3, <2>4, <2>5, <2>6, <2>7 DEF TypeOK
<1>18. ASSUME NEW t \in Tasks, RejectProtected(t) PROVE TypeOK'
  BY <1>18, <1>f DEF RejectProtected
<1>19. CASE UNCHANGED vars
  BY <1>19 DEF vars, TypeOK, IsSchedule, InOrder
<1> QED
  BY <1>1, <1>2, <1>3, <1>4, <1>5, <1>6, <1>7, <1>8, <1>9, <1>10, <1>11, <1>12, <1>13,
     <1>14, <1>15, <1>16, <1>17, <1>18, <1>19 DEF Next, TaskStep

THEOREM TypeCorrect == Spec => []TypeOK
BY TypeInit, TypeStep, PTL DEF Spec

-----------------------------------------------------------------------------
(***************************************************************************)
(* Overlap is symmetric, so testing a new interval against the calendar    *)
(* (first_overlap) is enough to keep the calendar free of overlaps.        *)
(***************************************************************************)
LEMMA BookingKeepsApart ==
  ASSUME TypeOK, NoDoubleBooking, NEW step \in Step, Clashing(step.start, step.end) = {},
         occupied' = occupied \cup {Interval(step)}
  PROVE  NoDoubleBooking'
<1> DEFINE new == Interval(step)
<1>1. new.start = step.start /\ new.end = step.end
  BY DEF Interval
<1>2. step.start \in Int /\ step.end \in Int /\ \A o \in occupied : o.start \in Int /\ o.end \in Int
  BY DEF TypeOK, Step, Time
<1>3. ASSUME NEW o \in occupied
      PROVE  ~Overlaps(new.start, new.end, o) /\ ~Overlaps(o.start, o.end, new)
  <2>1. ~Overlaps(step.start, step.end, o)
    BY DEF Clashing
  <2> QED BY <2>1, <1>1, <1>2 DEF Overlaps
<1>4. ASSUME NEW o \in occupied \cup {new}, NEW p \in occupied \cup {new}, o # p
      PROVE  ~Overlaps(o.start, o.end, p)
  <2> HIDE DEF new
  <2> QED BY <1>3, <1>4 DEF NoDoubleBooking
<1> QED BY <1>4 DEF NoDoubleBooking

LEMMA BookingStep == TypeOK /\ NoDoubleBooking /\ [Next]_vars => NoDoubleBooking'
<1> SUFFICES ASSUME TypeOK, NoDoubleBooking, [Next]_vars PROVE NoDoubleBooking'
  OBVIOUS
<1>u. ASSUME UNCHANGED occupied PROVE NoDoubleBooking'
  BY <1>u DEF NoDoubleBooking
<1>1. CASE AffixAnchor
  <2> DEFINE step == PlanStep(req, Current, req.anchor[Current])
  <2>1. Current \in Tasks /\ Current \in DOMAIN req.anchor
    BY <1>1, CurrentTask DEF AffixAnchor, NeedsAffixing
  <2>2. step \in Step
    BY <1>1, <2>1, PlanStepType, RequestFacts DEF AffixAnchor, AnchorFits
  <2>3. Clashing(step.start, step.end) = {} /\ occupied' = occupied \cup {Interval(step)}
    BY <1>1 DEF AffixAnchor, AnchorFits, PlanStep
  <2> QED BY <2>2, <2>3, BookingKeepsApart
<1>2. ASSUME NEW t \in Tasks, PushPreserved(t) PROVE NoDoubleBooking'
  <2>1. CASE Clashing(preserved[t].start, preserved[t].end) = {}
    <3>1. preserved[t] \in Step /\ occupied' = occupied \cup {Interval(preserved[t])}
      BY <1>2, <2>1 DEF PushPreserved, Unpushed, TypeOK, IsSchedule
    <3> QED BY <2>1, <3>1, BookingKeepsApart
  <2>2. CASE Clashing(preserved[t].start, preserved[t].end) # {}
    BY <1>2, <2>2, <1>u DEF PushPreserved, Fail
  <2> QED BY <2>1, <2>2
<1>3. ASSUME NEW t \in Tasks, Place(t) PROVE NoDoubleBooking'
  <2> DEFINE step == PlanStep(req, t, cursor)
  <2>1. cursor \in Time /\ cursor + req.duration[t] <= MaxTime
    BY <1>3, PlacedInTime
  <2>2. step \in Step
    BY <2>1, PlanStepType
  <2>3. Clashing(step.start, step.end) = {} /\ occupied' = occupied \cup {Interval(step)}
    BY <1>3 DEF Place, CandidateEnd, PlanStep
  <2> QED BY <2>2, <2>3, BookingKeepsApart
<1>4. CASE UNCHANGED vars
  BY <1>4, <1>u DEF vars
<1> QED
  BY <1>u, <1>1, <1>2, <1>3, <1>4
     DEF Next, TaskStep, Open, CollectPrior, CollectDone, PreserveDone, AffixSkip, AffixReject,
         AffixDone, SkipExcluded, Emit, KeepPreserved, KeepAffixed, StartPlacement, Bump, Omit,
         RejectProtected, Fail, Advance, EnterPhase, Schedule

(***************************************************************************)
(* No two intervals of the calendar ever overlap.                          *)
(***************************************************************************)
THEOREM CalendarNeverOverlaps == Spec => []NoDoubleBooking
<1>1. Init => NoDoubleBooking
  BY DEF Init, NoDoubleBooking
<1> QED BY <1>1, BookingStep, TypeCorrect, PTL DEF Spec

-----------------------------------------------------------------------------
(***************************************************************************)
(* Why omission stops short of protected work: the protected set contains  *)
(* its own prerequisites, so its complement contains its own dependents,   *)
(* and nothing is excluded before the protected set is known.              *)
(***************************************************************************)
Fixing == phase \in {"open", "collect", "preserve", "affix"}

ProtectionInv ==
  /\ ProtectedKept
  /\ ClosedUnderDeps(req, protected)
  /\ Fixing => excluded = {}

LEMMA ProtectionStep == TypeOK /\ ProtectionInv /\ [Next]_vars => ProtectionInv'
<1> SUFFICES ASSUME TypeOK, ProtectionInv, [Next]_vars PROVE ProtectionInv'
  OBVIOUS
<1>u. ASSUME UNCHANGED <<req, protected, excluded>>, Fixing' => Fixing
      PROVE  ProtectionInv'
  BY <1>u DEF ProtectionInv, ProtectedKept, ClosedUnderDeps
<1>1. CASE AffixDone
  <2> DEFINE also == DOMAIN preserved \cup DOMAIN affixed \cup req.mandatory \cup DOMAIN req.anchor
  <2>1. also \in SUBSET Tasks
    BY RequestFacts DEF TypeOK, IsSchedule
  <2>2. protected' = Prerequisites(req, also) /\ req' = req /\ excluded' = excluded
    BY <1>1, Zenon DEF AffixDone, EnterPhase, ProtectedTasks
  <2>3. ClosedUnderDeps(req, Prerequisites(req, also))
    BY <2>1, PrerequisitesClosed, RequestFacts
  <2>4. excluded = {} /\ ~Fixing'
    BY <1>1 DEF AffixDone, EnterPhase, ProtectionInv, Fixing
  <2> QED BY <2>2, <2>3, <2>4 DEF ProtectionInv, ProtectedKept
<1>2. ASSUME NEW t \in Tasks, Omit(t) PROVE ProtectionInv'
  <2>1. t \notin protected /\ ~Fixing' /\ UNCHANGED <<req, protected>>
        /\ excluded' = excluded \cup WithDependents(req, {t})
    BY <1>2 DEF Omit, Fixing
  <2>2. WithDependents(req, {t}) \cap protected = {}
    BY <2>1, DroppingSparesClosedSets, RequestFacts DEF TypeOK, ProtectionInv
  <2> QED BY <2>1, <2>2 DEF ProtectionInv, ProtectedKept
<1>3. CASE UNCHANGED vars
  BY <1>3, <1>u DEF vars, Fixing
<1> QED
  BY <1>u, <1>1, <1>2, <1>3
     DEF Next, TaskStep, Open, CollectPrior, CollectDone, PreserveDone, AffixSkip, AffixAnchor,
         AffixReject, SkipExcluded, Emit, PushPreserved, KeepPreserved, KeepAffixed,
         StartPlacement, Bump, Place, RejectProtected, Fail, Advance, EnterPhase, Schedule,
         Scheduling, Fixing

LEMMA ProtectionInvariant == Spec => []ProtectionInv
<1>1. Init => ProtectionInv
  BY DEF Init, ProtectionInv, ProtectedKept, ClosedUnderDeps
<1> QED BY <1>1, ProtectionStep, TypeCorrect, PTL DEF Spec

(***************************************************************************)
(* Whatever the dependency graph, omitting an optional Task never reaches  *)
(* mandatory, static or kept work or a prerequisite of it.                 *)
(***************************************************************************)
THEOREM ProtectedNeverExcluded == Spec => []ProtectedKept
BY ProtectionInvariant, PTL DEF ProtectionInv

-----------------------------------------------------------------------------
(***************************************************************************)
(* Why the walk over the order never meets a Task whose prerequisites are  *)
(* neither scheduled nor excluded: every position already passed is one or *)
(* the other, and exclusion spreads to dependents at once.                 *)
(***************************************************************************)
Walking == phase \in {"schedule", "place"}

PassedOnly == \A t \in DOMAIN scheduled : \E i \in DOMAIN req.order : i < next /\ req.order[i] = t

PassedAll ==
  \A i \in DOMAIN req.order : i < next => req.order[i] \in DOMAIN scheduled \cup excluded

WalkInv ==
  /\ Fixing => DOMAIN scheduled = {} /\ excluded = {}
  /\ ExclusionClosed
  /\ excluded \cap DOMAIN scheduled = {}
  /\ Walking => PassedOnly /\ PassedAll
  /\ phase = "place" =>
       /\ Current \notin excluded \cup DOMAIN affixed \cup DOMAIN preserved
       /\ DependenciesScheduled(Current)
       /\ MinimumStart(Current) <= cursor
  /\ DependencyOrder
  /\ NoInternalError

(* A Task the walk reaches without its being excluded has all its          *)
(* prerequisites scheduled.                                                *)
LEMMA ReachedReady ==
  ASSUME TypeOK, WalkInv, Walking, InOrder, Current \notin excluded
  PROVE  DependenciesScheduled(Current) /\ Current \notin DOMAIN scheduled
<1>1. Current \in Tasks /\ next \in DOMAIN req.order /\ req.order[next] = Current
  BY CurrentTask
<1>2. ASSUME NEW d \in req.deps[Current] PROVE d \in DOMAIN scheduled
  <2>1. PICK j \in DOMAIN req.order : j < next /\ req.order[j] = d
    BY <1>1, PrerequisitesFirst, RequestFacts
  <2>2. d \in DOMAIN scheduled \cup excluded
    BY <2>1 DEF WalkInv, PassedAll
  <2>3. d \notin excluded
    BY <1>1, <1>2 DEF WalkInv, ExclusionClosed, ClosedUnderDependents
  <2> QED BY <2>2, <2>3
<1>3. Current \notin DOMAIN scheduled
  <2> SUFFICES ASSUME Current \in DOMAIN scheduled PROVE FALSE
    OBVIOUS
  <2>1. PICK i \in DOMAIN req.order : i < next /\ req.order[i] = Current
    BY DEF WalkInv, PassedOnly
  <2>2. i = next
    BY <1>1, <2>1, RequestFacts DEF IsRequest, IsTopological
  <2> QED BY <2>1, <2>2 DEF TypeOK
<1> QED BY <1>2, <1>3 DEF DependenciesScheduled

(* The scheduled Tasks contain their own prerequisites.                    *)
LEMMA ScheduledClosed ==
  ASSUME TypeOK, WalkInv, Walking
  PROVE  ClosedUnderDeps(req, DOMAIN scheduled)
<1> SUFFICES ASSUME NEW t \in DOMAIN scheduled, NEW d \in req.deps[t]
             PROVE  d \in DOMAIN scheduled
  BY DEF ClosedUnderDeps
<1>1. PICK i \in DOMAIN req.order : i < next /\ req.order[i] = t
  BY DEF WalkInv, PassedOnly
<1>2. PICK j \in DOMAIN req.order : j < i /\ req.order[j] = d
  BY <1>1, PrerequisitesFirst, RequestFacts
<1>3. j < next
  <2>1. i \in Int /\ j \in Int /\ next \in Int
    BY RequestFacts DEF TypeOK
  <2> QED BY <1>1, <1>2, <2>1
<1>4. d \in DOMAIN scheduled \cup excluded
  BY <1>2, <1>3 DEF WalkInv, PassedAll
<1>5. t \in Tasks /\ t \notin excluded
  BY DEF WalkInv, TypeOK, IsSchedule
<1>6. d \notin excluded
  BY <1>5 DEF WalkInv, ExclusionClosed, ClosedUnderDependents
<1> QED BY <1>4, <1>6

(* Scheduling the Task the walk has reached, at a start no earlier than    *)
(* its prerequisites end, or as it was kept, preserves the invariant.      *)
LEMMA WalkForward ==
  ASSUME TypeOK, WalkInv, Walking, InOrder, Current \notin excluded,
         NEW step, scheduled' = With(scheduled, Current, step),
         \/ Current \in DOMAIN preserved
         \/ \A d \in req.deps[Current] : scheduled[d].end <= step.start,
         next' = next + 1, phase' = "schedule",
         UNCHANGED <<req, preserved, excluded, failure>>
  PROVE  WalkInv'
<1>1. Current \in Tasks /\ next \in DOMAIN req.order /\ req.order[next] = Current
  BY CurrentTask
<1>2. DependenciesScheduled(Current) /\ Current \notin DOMAIN scheduled
  BY ReachedReady
<1>3. /\ DOMAIN scheduled' = DOMAIN scheduled \cup {Current}
      /\ scheduled'[Current] = step
      /\ \A u \in DOMAIN scheduled : scheduled'[u] = scheduled[u]
  BY <1>2 DEF With
<1>4. PassedOnly' /\ PassedAll'
  <2>1. next \in Int /\ \A i \in DOMAIN req.order : i \in Int
    BY RequestFacts DEF TypeOK
  <2>2. \A t \in DOMAIN scheduled' : \E i \in DOMAIN req.order : i < next + 1 /\ req.order[i] = t
    BY <1>1, <1>3, <2>1 DEF WalkInv, PassedOnly
  <2>3. \A i \in DOMAIN req.order :
          i < next + 1 => req.order[i] \in DOMAIN scheduled' \cup excluded
    BY <1>1, <1>3, <2>1 DEF WalkInv, PassedAll
  <2> QED BY <2>2, <2>3 DEF PassedOnly, PassedAll
<1>5. DependencyOrder'
  <2> SUFFICES ASSUME NEW t \in DOMAIN scheduled' \ DOMAIN preserved, NEW d \in req.deps[t]
               PROVE  d \in DOMAIN scheduled' /\ scheduled'[d].end <= scheduled'[t].start
    BY DEF DependencyOrder
  <2>1. CASE t = Current
    BY <1>2, <1>3, <2>1 DEF DependenciesScheduled
  <2>2. CASE t # Current
    <3>1. t \in DOMAIN scheduled \ DOMAIN preserved
      BY <1>3, <2>2
    <3>2. d \in DOMAIN scheduled /\ scheduled[d].end <= scheduled[t].start
      BY <3>1 DEF WalkInv, DependencyOrder
    <3> QED BY <1>3, <3>1, <3>2
  <2> QED BY <2>1, <2>2
<1>6. excluded' \cap DOMAIN scheduled' = {} /\ ExclusionClosed' /\ NoInternalError'
  BY <1>3 DEF WalkInv, ExclusionClosed, NoInternalError, ClosedUnderDependents
<1> QED BY <1>4, <1>5, <1>6 DEF WalkInv, Fixing, Walking

(* The earliest start of a Task depends on the request and on the steps of *)
(* its prerequisites alone.                                                *)
LEMMA MinimumStartStable ==
  ASSUME NEW t, UNCHANGED <<req, scheduled>>
  PROVE  MinimumStart(t)' = MinimumStart(t)
BY DEF MinimumStart, EarliestStart, DependencyEnd, EffectiveWindow

(* The search moves to the right.                                          *)
LEMMA BumpForward ==
  ASSUME TypeOK, NEW t \in Tasks, Bump(t)
  PROVE  cursor < cursor' /\ cursor' \in Int /\ cursor' = NextStart(t)
<1> DEFINE o == FirstOverlap(cursor, CandidateEnd(t))
<1>1. o \in Clashing(cursor, CandidateEnd(t))
  BY FirstOverlapClashes DEF Bump
<1>2. o.end \in Int /\ cursor < o.end
  BY <1>1 DEF Clashing, Overlaps, TypeOK, Time
<1>3. cursor' = Later(o.end, Sooner(cursor + 1, MaxTime))
  BY DEF Bump, NextStart
<1>4. cursor \in Int /\ MaxTime \in Int
  BY TimeAssumption DEF TypeOK, Time
<1> HIDE DEF o
<1> QED BY <1>2, <1>3, <1>4 DEF Later, Sooner, Bump, NextStart, o

LEMMA WalkStep == TypeOK /\ ProtectionInv /\ WalkInv /\ [Next]_vars => WalkInv'
<1> SUFFICES ASSUME TypeOK, ProtectionInv, WalkInv, [Next]_vars PROVE WalkInv'
  OBVIOUS
<1>u. ASSUME UNCHANGED <<req, preserved, scheduled, excluded, failure>>,
             Fixing' => Fixing, phase' # "place",
             Walking' => Walking /\ PassedOnly' /\ PassedAll'
      PROVE  WalkInv'
  BY <1>u DEF WalkInv, ExclusionClosed, ClosedUnderDependents, DependencyOrder, NoInternalError
<1>f. ASSUME NEW reason, Fail(reason), reason \notin {"dependency_missing", "task_not_scheduled"}
      PROVE  WalkInv'
  BY <1>f DEF Fail, WalkInv, ExclusionClosed, ClosedUnderDependents, DependencyOrder,
              NoInternalError, Fixing, Walking
<1>1. CASE Open
  BY <1>1, <1>u, <1>f DEF Open, EnterPhase, Fixing, Walking
<1>2. CASE CollectPrior
  BY <1>2 DEF CollectPrior, Advance, WalkInv, ExclusionClosed, ClosedUnderDependents,
              DependencyOrder, NoInternalError, Fixing, Walking
<1>3. CASE CollectDone \/ PreserveDone
  BY <1>3, <1>u DEF CollectDone, PreserveDone, EnterPhase, Fixing, Walking
<1>4. CASE AffixSkip \/ AffixAnchor
  BY <1>4, <1>u DEF AffixSkip, AffixAnchor, Advance, Fixing, Walking
<1>5. CASE AffixReject
  BY <1>5, <1>f DEF AffixReject
<1>6. CASE AffixDone
  <2>1. /\ DOMAIN scheduled = {} /\ phase' = "schedule" /\ next' = 1
        /\ UNCHANGED <<req, preserved, scheduled, excluded, failure>>
    BY <1>6 DEF AffixDone, EnterPhase, WalkInv, Fixing
  <2>2. PassedOnly' /\ PassedAll'
    <3>1. \A i \in DOMAIN req.order : ~(i < 1)
      BY RequestFacts
    <3> QED BY <2>1, <3>1 DEF PassedOnly, PassedAll
  <2> QED BY <2>1, <2>2 DEF WalkInv, ExclusionClosed, ClosedUnderDependents, DependencyOrder,
                            NoInternalError, Fixing, Walking
<1>7. CASE SkipExcluded
  <2>1. Current \in excluded /\ InOrder /\ phase = "schedule" /\ phase' = phase /\ next' = next + 1
        /\ UNCHANGED <<req, preserved, scheduled, excluded, failure>>
    BY <1>7 DEF SkipExcluded, Advance
  <2>2. next \in DOMAIN req.order /\ req.order[next] = Current
    BY <2>1, CurrentTask
  <2>3. next \in Int /\ \A i \in DOMAIN req.order : i \in Int
    BY RequestFacts DEF TypeOK
  <2>4. PassedOnly /\ PassedAll
    BY <2>1 DEF WalkInv, Walking
  <2>5. \A t \in DOMAIN scheduled : \E i \in DOMAIN req.order : i < next + 1 /\ req.order[i] = t
    BY <2>3, <2>4 DEF PassedOnly
  <2>6. \A i \in DOMAIN req.order : i < next + 1 => req.order[i] \in DOMAIN scheduled \cup excluded
    BY <2>1, <2>2, <2>3, <2>4 DEF PassedAll
  <2>7. PassedOnly' /\ PassedAll'
    BY <2>1, <2>5, <2>6 DEF PassedOnly, PassedAll
  <2> QED BY <2>1, <2>7, <1>u DEF Fixing, Walking
<1>8. CASE Emit
  <2>1. PassedAll /\ ~InOrder
    BY <1>8 DEF Emit, WalkInv, Walking
  <2>2. Tasks \ excluded \subseteq DOMAIN scheduled
    <3> SUFFICES ASSUME NEW t \in Tasks, t \notin excluded PROVE t \in DOMAIN scheduled
      OBVIOUS
    <3>1. PICK i \in DOMAIN req.order : req.order[i] = t
      BY RequestFacts DEF IsRequest, IsTopological
    <3>2. i < next
      BY <2>1, RequestFacts DEF InOrder, TypeOK
    <3> QED BY <2>1, <3>1, <3>2 DEF PassedAll
  <2>3. CASE Tasks \ excluded = {}
    BY <1>8, <2>2, <2>3, <1>f DEF Emit
  <2>4. CASE Tasks \ excluded # {}
    BY <1>8, <2>2, <2>4, <1>u DEF Emit, Fixing, Walking
  <2> QED BY <2>3, <2>4
<1>9. ASSUME NEW t \in Tasks, PushPreserved(t) PROVE WalkInv'
  BY <1>9, <1>u, <1>f DEF PushPreserved, Fixing, Walking
<1>10. ASSUME NEW t \in Tasks, KeepPreserved(t) PROVE WalkInv'
  <2>1. CASE PreservedHolds(t)
    <3>1. /\ t = Current /\ Walking /\ InOrder /\ Current \notin excluded
          /\ Current \in DOMAIN preserved
      BY <1>10 DEF KeepPreserved, Scheduling, Walking
    <3>2. /\ scheduled' = With(scheduled, Current, preserved[t])
          /\ next' = next + 1 /\ phase' = "schedule"
          /\ UNCHANGED <<req, preserved, excluded, failure>>
      BY <1>10, <2>1 DEF KeepPreserved, Scheduling, Schedule, Advance
    <3> QED BY <3>1, <3>2, WalkForward
  <2>2. CASE ~PreservedHolds(t)
    BY <1>10, <2>2, <1>f DEF KeepPreserved
  <2> QED BY <2>1, <2>2
<1>11. ASSUME NEW t \in Tasks, KeepAffixed(t) PROVE WalkInv'
  <2>1. t = Current /\ Walking /\ InOrder /\ Current \notin excluded /\ phase = "schedule"
    BY <1>11 DEF KeepAffixed, Scheduling, Walking
  <2>2. DependenciesScheduled(t)
    BY <2>1, ReachedReady
  <2>3. CASE affixed[t].start < EarliestStart(t)
    BY <1>11, <2>2, <2>3, <1>f DEF KeepAffixed
  <2>4. CASE ~(affixed[t].start < EarliestStart(t))
    <3>1. /\ scheduled' = With(scheduled, Current, affixed[t])
          /\ next' = next + 1 /\ phase' = "schedule"
          /\ UNCHANGED <<req, preserved, excluded, failure>>
      BY <1>11, <2>1, <2>2, <2>4 DEF KeepAffixed, Schedule, Advance
    <3>2. \A d \in req.deps[t] : scheduled[d].end <= affixed[t].start
      <4>1. EarliestStart(t) \in Int /\ affixed[t].start \in Int
        BY <1>11, <2>2, MinimumStartBounds DEF KeepAffixed, TypeOK, IsSchedule, Step, Time
      <4>2. \A d \in req.deps[t] : scheduled[d].end \in Int /\ scheduled[d].end <= EarliestStart(t)
        BY <2>2, MinimumStartBounds DEF DependenciesScheduled, TypeOK, IsSchedule, Step, Time
      <4> QED BY <2>4, <4>1, <4>2
    <3> QED BY <2>1, <3>1, <3>2, WalkForward
  <2> QED BY <2>3, <2>4
<1>12. ASSUME NEW t \in Tasks, StartPlacement(t) PROVE WalkInv'
  <2>1. t = Current /\ Walking /\ InOrder /\ Current \notin excluded /\ phase = "schedule"
    BY <1>12 DEF StartPlacement, Scheduling, Walking
  <2>2. DependenciesScheduled(t)
    BY <2>1, ReachedReady
  <2>3. /\ phase' = "place" /\ t \notin DOMAIN affixed \cup DOMAIN preserved
        /\ UNCHANGED <<req, next, preserved, affixed, scheduled, excluded, failure>>
    BY <1>12, <2>2 DEF StartPlacement
  <2>4. PassedOnly /\ PassedAll /\ Current' = Current
    BY <2>1, <2>3 DEF WalkInv, Current
  <2>5. PassedOnly' /\ PassedAll' /\ DependenciesScheduled(Current)'
    BY <2>1, <2>2, <2>3, <2>4 DEF PassedOnly, PassedAll, DependenciesScheduled
  <2>6. MinimumStart(t)' = MinimumStart(t) /\ cursor' = MinimumStart(t) /\ MinimumStart(t) \in Int
    BY <1>12, <2>2, <2>3, MinimumStartStable, MinimumStartBounds DEF StartPlacement, Time
  <2>7. MinimumStart(Current)' <= cursor'
    BY <2>1, <2>4, <2>6
  <2> QED BY <2>7, <2>1, <2>3, <2>4, <2>5 DEF WalkInv, ExclusionClosed, ClosedUnderDependents,
                                      DependencyOrder, NoInternalError, Fixing, Walking
<1>13. ASSUME NEW t \in Tasks, Bump(t) PROVE WalkInv'
  <2>1. /\ phase = "place" /\ InOrder /\ t = Current /\ Current' = Current
        /\ UNCHANGED <<req, phase, next, preserved, affixed, scheduled, excluded, failure>>
    BY <1>13 DEF Bump, TypeOK, Current
  <2>2. MinimumStart(t)' = MinimumStart(t) /\ MinimumStart(t) \in Int
    BY <2>1, MinimumStartStable, MinimumStartBounds DEF WalkInv, Time
  <2>3. MinimumStart(t) <= cursor /\ cursor \in Int
    BY <2>1 DEF WalkInv, TypeOK, Time
  <2>4. MinimumStart(Current)' <= cursor'
    BY <2>1, <2>2, <2>3, BumpForward, <1>13
  <2> QED BY <2>1, <2>4 DEF WalkInv, ExclusionClosed, ClosedUnderDependents, DependencyOrder,
               NoInternalError, Fixing, Walking, PassedOnly, PassedAll, DependenciesScheduled
<1>14. ASSUME NEW t \in Tasks, Place(t) PROVE WalkInv'
  <2> DEFINE step == PlanStep(req, t, cursor)
  <2>1. t = Current /\ Walking /\ InOrder /\ Current \notin excluded /\ DependenciesScheduled(t)
    BY <1>14 DEF Place, Walking, WalkInv, TypeOK
  <2>2. /\ scheduled' = With(scheduled, Current, step)
        /\ next' = next + 1 /\ phase' = "schedule"
        /\ UNCHANGED <<req, preserved, excluded, failure>>
    BY <1>14, <2>1 DEF Place
  <2>3. \A d \in req.deps[Current] : scheduled[d].end <= step.start
    <3>1. cursor \in Int /\ step.start = cursor
      BY DEF TypeOK, Time, PlanStep
    <3>2. MinimumStart(t) <= cursor
      BY <1>14, <2>1 DEF Place, WalkInv
    <3>3. EarliestStart(t) \in Int /\ MinimumStart(t) \in Int /\ EarliestStart(t) <= MinimumStart(t)
      BY <2>1, MinimumStartBounds DEF Time
    <3>4. \A d \in req.deps[t] : scheduled[d].end \in Int /\ scheduled[d].end <= EarliestStart(t)
      BY <2>1, MinimumStartBounds DEF DependenciesScheduled, TypeOK, IsSchedule, Step, Time
    <3> QED BY <2>1, <3>1, <3>2, <3>3, <3>4
  <2> HIDE DEF step
  <2> QED BY <2>1, <2>2, <2>3, WalkForward
<1>15. ASSUME NEW t \in Tasks, Omit(t) PROVE WalkInv'
  <2> DEFINE dropped == WithDependents(req, {t})
  <2>1. /\ t = Current /\ phase = "place" /\ Walking /\ InOrder /\ Current \notin excluded
        /\ PassedOnly /\ PassedAll
    BY <1>15 DEF Omit, Walking, WalkInv, TypeOK
  <2>2. /\ excluded' = excluded \cup dropped /\ next' = next + 1 /\ phase' = "schedule"
        /\ UNCHANGED <<req, preserved, scheduled, failure>>
    BY <1>15 DEF Omit
  <2>3. /\ t \in dropped
        /\ ClosedUnderDependents(req, dropped)
    BY RequestFacts, WithDependentsClosed
  <2>4. dropped \cap DOMAIN scheduled = {}
    <3>1. t \notin DOMAIN scheduled /\ ClosedUnderDeps(req, DOMAIN scheduled)
      BY <2>1, ReachedReady, ScheduledClosed
    <3>2. DOMAIN scheduled \in SUBSET Tasks
      BY DEF TypeOK, IsSchedule
    <3> QED BY <3>1, <3>2, DroppingSparesClosedSets, RequestFacts
  <2>5. next \in DOMAIN req.order /\ req.order[next] = t
    BY <2>1, CurrentTask
  <2>6. next \in Int /\ \A i \in DOMAIN req.order : i \in Int
    BY RequestFacts DEF TypeOK
  <2> HIDE DEF dropped
  <2>7. \A u \in DOMAIN scheduled : \E i \in DOMAIN req.order : i < next + 1 /\ req.order[i] = u
    BY <2>1, <2>6 DEF PassedOnly
  <2>8. \A i \in DOMAIN req.order :
          i < next + 1 => req.order[i] \in DOMAIN scheduled \cup excluded'
    BY <2>1, <2>2, <2>3, <2>5, <2>6 DEF PassedAll
  <2>9. PassedOnly' /\ PassedAll'
    BY <2>2, <2>7, <2>8 DEF PassedOnly, PassedAll
  <2>10. ExclusionClosed' /\ excluded' \cap DOMAIN scheduled' = {}
    BY <2>2, <2>3, <2>4 DEF WalkInv, ExclusionClosed, ClosedUnderDependents
  <2> QED BY <2>2, <2>9, <2>10 DEF WalkInv, DependencyOrder, NoInternalError, Fixing, Walking
<1>16. ASSUME NEW t \in Tasks, RejectProtected(t) PROVE WalkInv'
  BY <1>16, <1>f DEF RejectProtected
<1>17. CASE UNCHANGED vars
  <2>1. \A t : MinimumStart(t)' = MinimumStart(t)
    BY <1>17, MinimumStartStable DEF vars
  <2>2. Current' = Current
    BY <1>17 DEF vars, Current
  <2>3. (MinimumStart(Current) <= cursor) => (MinimumStart(Current)' <= cursor')
    BY <1>17, <2>1, <2>2 DEF vars
  <2> QED BY <1>17, <2>2, <2>3
             DEF vars, WalkInv, ExclusionClosed, ClosedUnderDependents, DependencyOrder,
                 NoInternalError, Fixing, Walking, PassedOnly, PassedAll, DependenciesScheduled
<1> QED
  BY <1>1, <1>2, <1>3, <1>4, <1>5, <1>6, <1>7, <1>8, <1>9, <1>10, <1>11, <1>12, <1>13,
     <1>14, <1>15, <1>16, <1>17 DEF Next, TaskStep

LEMMA WalkInvariant == Spec => []WalkInv
<1>1. Init => WalkInv
  BY DEF Init, WalkInv, ExclusionClosed, ClosedUnderDependents, DependencyOrder, NoInternalError,
         Walking, Empty
<1> QED BY <1>1, WalkStep, TypeCorrect, ProtectionInvariant, PTL DEF Spec

(***************************************************************************)
(* Every step the skeleton chooses waits for all its prerequisites, for    *)
(* every dependency graph and every mix of kept and anchored steps.        *)
(***************************************************************************)
THEOREM DependenciesRespected == Spec => []DependencyOrder
BY WalkInvariant, PTL DEF WalkInv

(***************************************************************************)
(* The two diagnostics for an inconsistent walk are unreachable.           *)
(***************************************************************************)
THEOREM WalkIsConsistent == Spec => []NoInternalError
BY WalkInvariant, PTL DEF WalkInv

-----------------------------------------------------------------------------
(***************************************************************************)
(* The calendar.  In the walk, kept and anchored work is protected, what   *)
(* has been kept enters the schedule as it is, and no Task is fixed twice; *)
(* without that an insertion would replace a step and leave its interval.  *)
(***************************************************************************)
AffixedOnly == \A t \in DOMAIN affixed : \E i \in DOMAIN req.order : i < next /\ req.order[i] = t

KeptAsIs == \A t \in DOMAIN preserved \cap DOMAIN scheduled : scheduled[t] = preserved[t]

FixedProtected ==
  DOMAIN preserved \cup DOMAIN affixed \cup ProtectedTasks(req, {}) \subseteq protected

CalendarInv ==
  /\ phase \in {"open", "collect"} => occupied = {}
  /\ phase = "preserve" => occupied \subseteq Reserved(preserved)
  /\ phase \in {"open", "collect", "preserve"} => DOMAIN affixed = {}
  /\ phase = "affix" => AffixedOnly
  /\ DOMAIN affixed \cap (DOMAIN preserved \cup DOMAIN scheduled) = {}
  /\ KeptAsIs
  /\ Walking => FixedProtected
  /\ failure # "none" => phase = "failed"
  /\ CalendarExact /\ PreservedVerdict

(* The search for a start, and what has been found out by it.              *)
AsRequested(t, step) ==
  /\ step = PlanStep(req, t, step.start)
  /\ EffectiveWindow(req, t).start <= step.start
  /\ step.end <= EffectiveWindow(req, t).end
  /\ t \in DOMAIN req.anchor => step.start = req.anchor[t]

AnchorsFixed == DOMAIN req.anchor \subseteq DOMAIN preserved \cup DOMAIN affixed \cup DOMAIN scheduled

AnchorsPassed ==
  \A i \in DOMAIN req.order :
    i < next /\ req.order[i] \in DOMAIN req.anchor =>
      req.order[i] \in DOMAIN preserved \cup DOMAIN affixed

StepInv ==
  /\ \A t \in DOMAIN affixed : AsRequested(t, affixed[t])
  /\ \A t \in DOMAIN scheduled \ DOMAIN preserved : AsRequested(t, scheduled[t])
  /\ phase = "affix" => AnchorsPassed
  /\ Walking => AnchorsFixed
  /\ req.mode = "fresh" => DOMAIN preserved = {}

Searched ==
  \A s \in MinimumStart(Current) .. cursor - 1 : Clashing(s, s + req.duration[Current]) # {}

ReasonTrue(t) ==
  /\ DependenciesScheduled(t)
  /\ omitted[t] = "outside_allowed_window" => NoRoom(t, MinimumStart(t))
  /\ omitted[t] = "omitted_lower_value" =>
       \E u \in DOMAIN scheduled \ protected :
         Overlaps(MinimumStart(t), EffectiveWindow(req, t).end, scheduled[u])

FirstFitting(t) ==
  /\ scheduled[t].start >= MinimumStart(t)
  /\ \A s \in MinimumStart(t) .. scheduled[t].start - 1 :
       \E o \in Clashing(s, s + req.duration[t]) : o.task # t

DeferredWait == \A t \in excluded \ DOMAIN omitted : req.deps[t] \cap excluded # {}

SearchInv ==
  /\ Fixing => DOMAIN omitted = {}
  /\ phase = "place" => Searched
  /\ \A t \in DOMAIN omitted : NoSlot(t) /\ ReasonTrue(t)
  /\ RejectionJustified
  /\ \A t \in GreedilyPlaced : FirstFitting(t)
  /\ DeferredWait
  /\ ReportHonest

-----------------------------------------------------------------------------
LEMMA ReservedWith ==
  ASSUME NEW map, NEW t, t \notin DOMAIN map, NEW step
  PROVE  Reserved(With(map, t, step)) = Reserved(map) \cup {Interval(step)}
<1> DEFINE new == With(map, t, step)
<1>1. /\ DOMAIN new = DOMAIN map \cup {t} /\ new[t] = step
      /\ \A u \in DOMAIN map : new[u] = map[u]
  BY DEF With
<1> HIDE DEF new
<1>2. {Interval(new[u]) : u \in DOMAIN new} = {Interval(map[u]) : u \in DOMAIN map} \cup {Interval(step)}
  BY <1>1
<1> QED BY <1>2 DEF Reserved, new

LEMMA ReservedWithout ==
  ASSUME NEW map, NEW t \in DOMAIN map
  PROVE  Reserved(map) = Reserved([u \in DOMAIN map \ {t} |-> map[u]]) \cup {Interval(map[t])}
BY DEF Reserved

(* A call that fails keeps what is known of the calendar.                  *)
LEMMA CalendarOfFailure ==
  ASSUME CalendarInv, NEW reason, reason # "preserved_collision", Fail(reason)
  PROVE  CalendarInv'
BY DEF Fail, CalendarInv, KeptAsIs, CalendarExact, PreservedVerdict, Walking

(* The kept steps in the calendar belong to the Tasks already entered.     *)
LEMMA PushStep ==
  ASSUME TypeOK, NoDoubleBooking, CalendarInv, WalkInv, NEW t \in Tasks, PushPreserved(t)
  PROVE  CalendarInv'
<1>1. /\ phase = "preserve" /\ t \in DOMAIN preserved /\ t \notin {o.task : o \in occupied}
      /\ occupied \subseteq Reserved(preserved) /\ failure = "none" /\ DOMAIN affixed = {}
  BY DEF PushPreserved, Unpushed, CalendarInv
<1>2. CASE Clashing(preserved[t].start, preserved[t].end) = {}
  <2>1. /\ occupied' = occupied \cup {Interval(preserved[t])}
        /\ UNCHANGED <<req, phase, preserved, affixed, protected, scheduled, plan, failure>>
    BY <1>2 DEF PushPreserved
  <2>2. Interval(preserved[t]) \in Reserved(preserved)
    BY <1>1 DEF Reserved
  <2>3. occupied' \subseteq Reserved(preserved)'
    BY <1>1, <2>1, <2>2 DEF Reserved
  <2> QED BY <1>1, <2>1, <2>3 DEF CalendarInv, KeptAsIs, CalendarExact, PreservedVerdict, Walking
<1>3. CASE Clashing(preserved[t].start, preserved[t].end) # {}
  <2>1. PICK o \in occupied : Overlaps(preserved[t].start, preserved[t].end, o)
    BY <1>3 DEF Clashing
  <2>2. PICK u \in DOMAIN preserved : o = Interval(preserved[u])
    BY <1>1, <2>1 DEF Reserved
  <2>3. o.task = u /\ o.start = preserved[u].start /\ o.end = preserved[u].end
    BY <2>2 DEF Interval, TypeOK, IsSchedule
  <2>4. t # u /\ Overlaps(preserved[t].start, preserved[t].end, preserved[u])
    BY <1>1, <2>1, <2>3 DEF Overlaps
  <2>5. /\ phase' = "failed" /\ failure' = "preserved_collision"
        /\ UNCHANGED <<req, preserved, occupied, affixed, protected, scheduled, plan>>
    BY <1>3 DEF PushPreserved, Fail
  <2>6. PreservedVerdict'
    BY <1>1, <2>2, <2>4, <2>5 DEF PreservedVerdict
  <2> QED BY <2>5, <2>6 DEF CalendarInv, KeptAsIs, CalendarExact, Walking
<1> QED BY <1>2, <1>3

(* When every kept Task has its interval, the calendar is those intervals, *)
(* and no two of them overlap.                                             *)
LEMMA PreserveDoneStep ==
  ASSUME TypeOK, NoDoubleBooking, CalendarInv, WalkInv, PreserveDone
  PROVE  CalendarInv'
<1>1. /\ phase = "preserve" /\ occupied \subseteq Reserved(preserved) /\ DOMAIN affixed = {}
      /\ failure = "none" /\ DOMAIN scheduled = {} /\ Unpushed = {}
      /\ phase' = "affix"
      /\ UNCHANGED <<req, preserved, occupied, affixed, protected, scheduled, plan, failure>>
  BY DEF PreserveDone, EnterPhase, CalendarInv, WalkInv, Fixing
<1>2. ASSUME NEW t \in DOMAIN preserved
      PROVE  /\ Interval(preserved[t]) \in occupied
             /\ Interval(preserved[t]).task = t
             /\ Interval(preserved[t]).start = preserved[t].start
             /\ Interval(preserved[t]).end = preserved[t].end
  <2>1. PICK o \in occupied : o.task = t
    BY <1>1 DEF Unpushed
  <2>2. PICK u \in DOMAIN preserved : o = Interval(preserved[u])
    BY <1>1 DEF Reserved
  <2>3. o.task = u
    BY <2>2 DEF Interval, TypeOK, IsSchedule
  <2> QED BY <2>1, <2>2, <2>3 DEF Interval
<1>3. occupied = Reserved(preserved) /\ Reserved(affixed) = {} /\ Reserved(scheduled) = {}
  BY <1>1, <1>2 DEF Reserved
<1>4. CalendarExact'
  BY <1>1, <1>3 DEF CalendarExact, Reserved
<1>5. ASSUME NEW t \in DOMAIN preserved, NEW u \in DOMAIN preserved, t # u
      PROVE  ~Overlaps(preserved[t].start, preserved[t].end, preserved[u])
  <2> DEFINE o == Interval(preserved[t])
             p == Interval(preserved[u])
  <2>1. /\ o \in occupied /\ o.task = t /\ o.start = preserved[t].start /\ o.end = preserved[t].end
        /\ p \in occupied /\ p.task = u /\ p.start = preserved[u].start /\ p.end = preserved[u].end
    BY <1>2
  <2> HIDE DEF o, p
  <2>2. ~Overlaps(o.start, o.end, p)
    BY <1>5, <2>1 DEF NoDoubleBooking
  <2> QED BY <2>1, <2>2 DEF Overlaps
<1>6. PreservedVerdict'
  BY <1>1, <1>5 DEF PreservedVerdict
<1> QED BY <1>1, <1>4, <1>6 DEF CalendarInv, AffixedOnly, KeptAsIs, Walking

(***************************************************************************)
(* An anchored Task is affixed at its own turn, and so only once.          *)
(***************************************************************************)
LEMMA AffixAnchorStep ==
  ASSUME TypeOK, CalendarInv, WalkInv, AffixAnchor
  PROVE  CalendarInv'
<1> DEFINE step == PlanStep(req, Current, req.anchor[Current])
<1>1. /\ phase = "affix" /\ AffixedOnly /\ failure = "none" /\ DOMAIN scheduled = {}
      /\ Current \notin DOMAIN preserved
      /\ affixed' = With(affixed, Current, step) /\ occupied' = occupied \cup {Interval(step)}
      /\ next' = next + 1
      /\ UNCHANGED <<req, phase, preserved, protected, scheduled, plan, failure>>
  BY DEF AffixAnchor, NeedsAffixing, Advance, CalendarInv, WalkInv, Fixing
<1>2. next \in DOMAIN req.order /\ req.order[next] = Current /\ next \in Int
      /\ \A i \in DOMAIN req.order : i \in Int
  BY CurrentTask, RequestFacts DEF AffixAnchor, TypeOK
<1>3. Current \notin DOMAIN affixed
  <2> SUFFICES ASSUME Current \in DOMAIN affixed PROVE FALSE
    OBVIOUS
  <2>1. PICK i \in DOMAIN req.order : i < next /\ req.order[i] = Current
    BY <1>1 DEF AffixedOnly
  <2> QED BY <2>1, <1>2, RequestFacts DEF IsRequest, IsTopological
<1> HIDE DEF step
<1>4. Reserved(affixed') = Reserved(affixed) \cup {Interval(step)}
  BY <1>1, <1>3, ReservedWith
<1>5. Reserved(preserved') = Reserved(preserved) /\ Reserved(scheduled') = Reserved(scheduled)
  BY <1>1
<1>6. CalendarExact'
  BY <1>1, <1>4, <1>5 DEF CalendarExact, CalendarInv
<1>7. DOMAIN affixed' = DOMAIN affixed \cup {Current}
  BY <1>1 DEF With
<1>8. AffixedOnly'
  BY <1>1, <1>2, <1>7 DEF AffixedOnly
<1> QED BY <1>1, <1>6, <1>7, <1>8 DEF CalendarInv, KeptAsIs, PreservedVerdict, Walking

LEMMA AffixDoneStep ==
  ASSUME TypeOK, CalendarInv, AffixDone
  PROVE  CalendarInv'
<1> DEFINE also == DOMAIN preserved \cup DOMAIN affixed \cup req.mandatory \cup DOMAIN req.anchor
           least == {} \cup req.mandatory \cup DOMAIN req.anchor
<1>1. also \in SUBSET Tasks /\ least \subseteq also
  BY RequestFacts DEF TypeOK, IsSchedule
<1>2. /\ phase = "affix" /\ phase' = "schedule" /\ protected' = Prerequisites(req, also)
      /\ UNCHANGED <<req, preserved, occupied, affixed, scheduled, plan, failure>>
  BY DEF AffixDone, EnterPhase, ProtectedTasks
<1>g. req.deps \in [Tasks -> SUBSET Tasks]
  BY RequestFacts
<1> HIDE DEF also, least
<1>3. /\ also \subseteq Prerequisites(req, also) /\ Prerequisites(req, also) \in SUBSET Tasks
      /\ ClosedUnderDeps(req, Prerequisites(req, also))
  BY <1>g, <1>1, PrerequisitesClosed
<1> USE DEF also, least
<1>4. Prerequisites(req, least) \subseteq Prerequisites(req, also)
  <2> DEFINE C == Prerequisites(req, also)
  <2>1. C \in SUBSET Tasks /\ least \subseteq C /\ ClosedUnderDeps(req, C)
    <3> HIDE DEF also, least
    <3> QED BY <1>1, <1>3
  <2> HIDE DEF C, least
  <2>2. Prerequisites(req, least) \subseteq C
    BY <2>1, PrerequisitesLeast
  <2> QED BY <2>2 DEF C
<1>5. FixedProtected'
  BY <1>2, <1>3, <1>4 DEF FixedProtected, ProtectedTasks
<1>6. CalendarExact'
  BY <1>2 DEF CalendarInv, CalendarExact, Reserved
<1> QED BY <1>2, <1>5, <1>6 DEF CalendarInv, KeptAsIs, PreservedVerdict, Walking

(***************************************************************************)
(* A Task enters the schedule once: with its kept step, with the step      *)
(* taken from the affixed ones, or with a new one that is booked.          *)
(***************************************************************************)
LEMMA KeepPreservedStep ==
  ASSUME TypeOK, CalendarInv, WalkInv, NEW t \in Tasks, KeepPreserved(t)
  PROVE  CalendarInv'
<1>1. CASE ~PreservedHolds(t)
  BY <1>1, CalendarOfFailure DEF KeepPreserved
<1>2. CASE PreservedHolds(t)
  <2>1. /\ Walking /\ InOrder /\ t = Current /\ t \notin excluded /\ t \in DOMAIN preserved
        /\ phase = "schedule"
        /\ scheduled' = With(scheduled, t, preserved[t])
        /\ UNCHANGED <<req, phase, preserved, occupied, affixed, protected, plan, failure>>
    BY <1>2 DEF KeepPreserved, Scheduling, Schedule, Advance, Walking
  <2>2. t \notin DOMAIN scheduled
    BY <2>1, ReachedReady
  <2>3. Reserved(scheduled') = Reserved(scheduled) \cup {Interval(preserved[t])}
    BY <2>1, <2>2, ReservedWith
  <2>4. CalendarExact'
    <3>1. Interval(preserved[t]) \in Reserved(preserved)
      BY <2>1 DEF Reserved
    <3> QED BY <2>1, <2>3, <3>1 DEF CalendarExact, CalendarInv
  <2>5. /\ DOMAIN scheduled' = DOMAIN scheduled \cup {t} /\ scheduled'[t] = preserved[t]
        /\ \A u \in DOMAIN scheduled : scheduled'[u] = scheduled[u]
    BY <2>1, <2>2 DEF With
  <2> QED BY <2>1, <2>4, <2>5 DEF CalendarInv, KeptAsIs, FixedProtected, PreservedVerdict, Walking
<1> QED BY <1>1, <1>2

LEMMA KeepAffixedStep ==
  ASSUME TypeOK, CalendarInv, WalkInv, NEW t \in Tasks, KeepAffixed(t)
  PROVE  CalendarInv'
<1>1. CASE ~DependenciesScheduled(t) \/ affixed[t].start < EarliestStart(t)
  BY <1>1, CalendarOfFailure DEF KeepAffixed
<1>2. CASE DependenciesScheduled(t) /\ ~(affixed[t].start < EarliestStart(t))
  <2>1. /\ Walking /\ InOrder /\ t = Current /\ t \notin excluded /\ t \in DOMAIN affixed
        /\ t \notin DOMAIN preserved /\ phase = "schedule"
        /\ scheduled' = With(scheduled, t, affixed[t])
        /\ affixed' = [u \in DOMAIN affixed \ {t} |-> affixed[u]]
        /\ UNCHANGED <<req, phase, preserved, occupied, protected, plan, failure>>
    BY <1>2 DEF KeepAffixed, Scheduling, Schedule, Advance, Walking
  <2>2. t \notin DOMAIN scheduled
    BY <2>1, ReachedReady
  <2>3. /\ Reserved(scheduled') = Reserved(scheduled) \cup {Interval(affixed[t])}
        /\ Reserved(affixed) = Reserved(affixed') \cup {Interval(affixed[t])}
    BY <2>1, <2>2, ReservedWith, ReservedWithout
  <2>4. CalendarExact'
    BY <2>1, <2>3 DEF CalendarExact, CalendarInv
  <2>5. /\ DOMAIN scheduled' = DOMAIN scheduled \cup {t}
        /\ \A u \in DOMAIN scheduled : scheduled'[u] = scheduled[u]
        /\ DOMAIN affixed' = DOMAIN affixed \ {t}
    BY <2>1, <2>2 DEF With
  <2> QED BY <2>1, <2>4, <2>5 DEF CalendarInv, KeptAsIs, FixedProtected, PreservedVerdict, Walking
<1> QED BY <1>1, <1>2

LEMMA PlaceStep ==
  ASSUME TypeOK, CalendarInv, WalkInv, NEW t \in Tasks, Place(t)
  PROVE  CalendarInv'
<1> DEFINE step == PlanStep(req, t, cursor)
<1>1. /\ Walking /\ InOrder /\ t = Current /\ phase = "place"
      /\ Current \notin excluded \cup DOMAIN affixed \cup DOMAIN preserved
      /\ occupied' = occupied \cup {Interval(step)}
      /\ scheduled' = With(scheduled, t, step)
      /\ phase' = "schedule"
      /\ UNCHANGED <<req, preserved, affixed, protected, plan, failure>>
  BY DEF Place, Walking, WalkInv, TypeOK
<1>2. t \notin DOMAIN scheduled
  BY <1>1, ReachedReady
<1> HIDE DEF step
<1>3. Reserved(scheduled') = Reserved(scheduled) \cup {Interval(step)}
  BY <1>1, <1>2, ReservedWith
<1>4. CalendarExact'
  BY <1>1, <1>3 DEF CalendarExact, CalendarInv
<1>5. /\ DOMAIN scheduled' = DOMAIN scheduled \cup {t}
      /\ \A u \in DOMAIN scheduled : scheduled'[u] = scheduled[u]
  BY <1>1, <1>2 DEF With
<1> QED BY <1>1, <1>4, <1>5 DEF CalendarInv, KeptAsIs, FixedProtected, PreservedVerdict, Walking

(***************************************************************************)
(* At the end all fixed work, being protected, is in the schedule, so that *)
(* the calendar is exactly the Plan.                                       *)
(***************************************************************************)
LEMMA AllPassed ==
  ASSUME TypeOK, WalkInv, Walking, ~InOrder
  PROVE  Tasks \ excluded = DOMAIN scheduled
<1> SUFFICES ASSUME NEW t \in Tasks, t \notin excluded PROVE t \in DOMAIN scheduled
  BY DEF WalkInv, TypeOK, IsSchedule
<1>1. PICK i \in DOMAIN req.order : req.order[i] = t
  BY RequestFacts DEF IsRequest, IsTopological
<1>2. i < next
  BY RequestFacts DEF InOrder, TypeOK
<1> QED BY <1>1, <1>2 DEF WalkInv, PassedAll

LEMMA EmitStep ==
  ASSUME TypeOK, ProtectionInv, CalendarInv, WalkInv, Emit
  PROVE  CalendarInv'
<1>1. Walking /\ ~InOrder /\ phase = "schedule"
  BY DEF Emit, Walking
<1>2. Tasks \ excluded = DOMAIN scheduled
  BY <1>1, AllPassed
<1>3. CASE DOMAIN scheduled = {}
  BY <1>2, <1>3, CalendarOfFailure DEF Emit
<1>4. CASE DOMAIN scheduled # {}
  <2>1. /\ plan' = [t \in DOMAIN scheduled |-> scheduled[t]] /\ phase' = "done"
        /\ UNCHANGED <<req, preserved, occupied, affixed, protected, scheduled, failure>>
    BY <1>2, <1>4 DEF Emit
  <2>2. DOMAIN preserved \cup DOMAIN affixed \subseteq DOMAIN scheduled
    <3>1. (DOMAIN preserved \cup DOMAIN affixed) \cap excluded = {}
      BY <1>1 DEF CalendarInv, FixedProtected, ProtectionInv, ProtectedKept
    <3> QED BY <1>2, <3>1 DEF TypeOK, IsSchedule
  <2>3. DOMAIN affixed = {}
    BY <2>2 DEF CalendarInv
  <2>4. Reserved(preserved) \subseteq Reserved(scheduled) /\ Reserved(affixed) = {}
    BY <2>2, <2>3 DEF CalendarInv, KeptAsIs, Reserved
  <2>5. occupied = Reserved(scheduled)
    BY <1>1, <2>4 DEF CalendarInv, CalendarExact
  <2>6. Reserved(plan)' = Reserved(scheduled)
    BY <2>1 DEF Reserved
  <2>7. CalendarExact'
    BY <2>1, <2>5, <2>6 DEF CalendarExact
  <2> QED BY <1>1, <2>1, <2>3, <2>7 DEF CalendarInv, KeptAsIs, PreservedVerdict, Walking
<1> QED BY <1>3, <1>4

LEMMA CalendarStep ==
  TypeOK /\ NoDoubleBooking /\ ProtectionInv /\ WalkInv /\ CalendarInv /\ [Next]_vars => CalendarInv'
<1> SUFFICES ASSUME TypeOK, NoDoubleBooking, ProtectionInv, WalkInv, CalendarInv, [Next]_vars
             PROVE  CalendarInv'
  OBVIOUS
<1>1. CASE Open
  BY <1>1, CalendarOfFailure DEF Open, EnterPhase, CalendarInv, AffixedOnly, KeptAsIs, CalendarExact,
                           PreservedVerdict, Walking
<1>2. CASE CollectPrior
  BY <1>2 DEF CollectPrior, Advance, CalendarInv, WalkInv, Fixing, KeptAsIs, CalendarExact,
              PreservedVerdict, Walking
<1>3. CASE CollectDone
  BY <1>3 DEF CollectDone, EnterPhase, CalendarInv, KeptAsIs, CalendarExact, PreservedVerdict, Walking
<1>4. CASE AffixSkip
  <2>1. AffixedOnly'
    BY <1>4, RequestFacts DEF AffixSkip, Advance, CalendarInv, AffixedOnly, TypeOK
  <2> QED BY <1>4, <2>1 DEF AffixSkip, Advance, CalendarInv, KeptAsIs, CalendarExact, Reserved,
                            PreservedVerdict, Walking
<1>5. CASE AffixReject
  BY <1>5, CalendarOfFailure DEF AffixReject
<1>u. ASSUME UNCHANGED <<req, preserved, occupied, affixed, protected, scheduled, plan, failure>>,
             phase \in {"schedule", "place"}, phase' \in {"schedule", "place"}
      PROVE  CalendarInv'
  BY <1>u DEF CalendarInv, KeptAsIs, FixedProtected, CalendarExact, Reserved, PreservedVerdict, Walking
<1>6. CASE SkipExcluded
  BY <1>6, <1>u DEF SkipExcluded, Advance
<1>7. ASSUME NEW t \in Tasks, StartPlacement(t) PROVE CalendarInv'
  BY <1>7, <1>u, CalendarOfFailure DEF StartPlacement, Scheduling
<1>8. ASSUME NEW t \in Tasks, Bump(t) \/ Omit(t) PROVE CalendarInv'
  BY <1>8, <1>u DEF Bump, Omit
<1>9. ASSUME NEW t \in Tasks, RejectProtected(t) PROVE CalendarInv'
  BY <1>9, CalendarOfFailure DEF RejectProtected
<1>10. CASE UNCHANGED vars
  BY <1>10 DEF vars, CalendarInv, AffixedOnly, KeptAsIs, FixedProtected, CalendarExact, Reserved,
               PreservedVerdict, Walking
<1> QED
  BY <1>1, <1>2, <1>3, <1>4, <1>5, <1>6, <1>7, <1>8, <1>9, <1>10, PushStep, PreserveDoneStep,
     AffixAnchorStep, AffixDoneStep, KeepPreservedStep, KeepAffixedStep, PlaceStep, EmitStep
     DEF Next, TaskStep

LEMMA CalendarInvariant == Spec => []CalendarInv
<1>1. Init => CalendarInv
  BY DEF Init, CalendarInv, KeptAsIs, CalendarExact, PreservedVerdict, Walking, Empty
<1> QED BY <1>1, CalendarStep, TypeCorrect, CalendarNeverOverlaps, ProtectionInvariant, WalkInvariant,
           PTL DEF Spec

(***************************************************************************)
(* The calendar is at every moment exactly the fixed and placed steps, at  *)
(* the end exactly the Plan, and the order in which the map of kept steps  *)
(* is iterated decides nothing: for any number of Tasks and prior steps.   *)
(***************************************************************************)
THEOREM CalendarIsExact == Spec => []CalendarHolds
BY CalendarInvariant, PTL DEF CalendarInv, CalendarHolds

-----------------------------------------------------------------------------
(***************************************************************************)
(* The steps.  Whatever the skeleton affixes or places is the request's    *)
(* own step of the Task, inside its effective window and at its anchor.    *)
(***************************************************************************)
LEMMA StepStep == TypeOK /\ WalkInv /\ CalendarInv /\ StepInv /\ [Next]_vars => StepInv'
<1> SUFFICES ASSUME TypeOK, WalkInv, CalendarInv, StepInv, [Next]_vars PROVE StepInv'
  OBVIOUS
<1>r. req' = req
  BY DEF Next, TaskStep, Open, CollectPrior, CollectDone, PreserveDone, AffixSkip, AffixAnchor,
         AffixReject, AffixDone, SkipExcluded, Emit, PushPreserved, KeepPreserved, KeepAffixed,
         StartPlacement, Bump, Place, Omit, RejectProtected, Fail, Advance, EnterPhase, Schedule,
         vars
<1>a. \A t, step : AsRequested(t, step)' = AsRequested(t, step)
  BY <1>r DEF AsRequested
<1>u. ASSUME UNCHANGED <<preserved, affixed, scheduled>>, Walking' => Walking,
             phase' = "affix" => AnchorsPassed'
      PROVE  StepInv'
  BY <1>u, <1>r, <1>a DEF StepInv, AnchorsFixed
<1>f. ASSUME NEW reason, Fail(reason) PROVE StepInv'
  BY <1>f, <1>u DEF Fail, Walking
<1>o. \A i \in DOMAIN req.order : i \in Int /\ 1 <= i
  BY RequestFacts
<1>1. CASE Open
  BY <1>1, <1>f, <1>u DEF Open, EnterPhase, Walking
<1>2. CASE CollectPrior
  <2>1. /\ phase = "collect" /\ phase' = "collect" /\ UNCHANGED <<affixed, scheduled>>
        /\ DOMAIN affixed = {} /\ DOMAIN scheduled = {}
    BY <1>2 DEF CollectPrior, Advance, CalendarInv, WalkInv, Fixing
  <2>2. req.mode # "fresh"
    <3>1. IsRequest(req) /\ next <= Len(req.prior) /\ next \in Nat \ {0}
      BY <1>2, RequestFacts DEF CollectPrior, TypeOK
    <3>2. req.prior # <<>>
      BY <3>1
    <3> QED BY <3>1, <3>2 DEF IsRequest
  <2> QED BY <2>1, <2>2, <1>r DEF StepInv, Walking
<1>3. CASE CollectDone
  BY <1>3, <1>u DEF CollectDone, EnterPhase, Walking
<1>4. CASE PreserveDone
  <2>1. AnchorsPassed'
    BY <1>4, <1>r, <1>o DEF PreserveDone, EnterPhase, AnchorsPassed
  <2> QED BY <1>4, <2>1, <1>u DEF PreserveDone, EnterPhase, Walking
<1>5. CASE AffixSkip
  <2>1. /\ phase = "affix" /\ phase' = phase /\ next' = next + 1
        /\ UNCHANGED <<preserved, affixed, scheduled>>
        /\ Current \in DOMAIN req.anchor => Current \in DOMAIN preserved
    BY <1>5 DEF AffixSkip, Advance, NeedsAffixing
  <2>2. next \in Int /\ Current = req.order[next] /\ AnchorsPassed
    BY <2>1 DEF TypeOK, Current, StepInv
  <2>3. AnchorsPassed'
    BY <2>1, <2>2, <1>r, <1>o DEF AnchorsPassed
  <2> QED BY <2>1, <2>3, <1>u DEF Walking
<1>6. CASE AffixAnchor
  <2> DEFINE step == PlanStep(req, Current, req.anchor[Current])
  <2>1. /\ phase = "affix" /\ phase' = phase /\ next' = next + 1
        /\ UNCHANGED <<preserved, scheduled>>
        /\ affixed' = With(affixed, Current, step) /\ DOMAIN scheduled = {}
    BY <1>6 DEF AffixAnchor, Advance, WalkInv, Fixing
  <2>2. AsRequested(Current, step)
    BY <1>6 DEF AffixAnchor, AnchorFits, AsRequested, PlanStep
  <2> HIDE DEF step
  <2>3. /\ DOMAIN affixed' = DOMAIN affixed \cup {Current} /\ affixed'[Current] = step
        /\ \A t \in DOMAIN affixed : t # Current => affixed'[t] = affixed[t]
    BY <2>1 DEF With
  <2>4. \A t \in DOMAIN affixed' : AsRequested(t, affixed'[t])
    BY <2>2, <2>3 DEF StepInv
  <2>5. next \in Int /\ Current = req.order[next] /\ AnchorsPassed
    BY <2>1 DEF TypeOK, Current, StepInv
  <2>6. AnchorsPassed'
    BY <2>1, <2>3, <2>5, <1>r, <1>o DEF AnchorsPassed
  <2> QED BY <2>1, <2>4, <2>6, <1>r, <1>a DEF StepInv, Walking
<1>7. CASE AffixReject
  BY <1>7, <1>f DEF AffixReject
<1>8. CASE AffixDone
  <2>1. /\ phase = "affix" /\ phase' = "schedule" /\ ~InOrder
        /\ UNCHANGED <<preserved, affixed, scheduled>> /\ AnchorsPassed
    BY <1>8 DEF AffixDone, EnterPhase, StepInv
  <2>2. ASSUME NEW t \in DOMAIN req.anchor PROVE t \in DOMAIN preserved \cup DOMAIN affixed
    <3>1. t \in Tasks
      BY RequestFacts
    <3>2. PICK i \in DOMAIN req.order : req.order[i] = t
      BY <3>1, RequestFacts DEF IsRequest, IsTopological
    <3>3. i < next
      BY <2>1, RequestFacts DEF InOrder, TypeOK
    <3> QED BY <2>1, <3>2, <3>3 DEF AnchorsPassed
  <2>3. AnchorsFixed'
    BY <2>1, <2>2, <1>r DEF AnchorsFixed
  <2> QED BY <2>1, <2>3, <1>r, <1>a DEF StepInv
<1>9. CASE SkipExcluded
  BY <1>9, <1>u DEF SkipExcluded, Advance, Walking
<1>10. CASE Emit
  BY <1>10, <1>f, <1>u DEF Emit, Walking
<1>11. ASSUME NEW t \in Tasks, PushPreserved(t) PROVE StepInv'
  BY <1>11, <1>f, <1>u DEF PushPreserved, Walking
<1>12. ASSUME NEW t \in Tasks, KeepPreserved(t) PROVE StepInv'
  <2>1. CASE PreservedHolds(t)
    <3>1. /\ phase = "schedule" /\ phase' = phase /\ t \in DOMAIN preserved
          /\ scheduled' = With(scheduled, t, preserved[t]) /\ UNCHANGED <<preserved, affixed>>
      BY <1>12, <2>1 DEF KeepPreserved, Scheduling, Schedule, Advance
    <3>2. /\ DOMAIN scheduled' = DOMAIN scheduled \cup {t}
          /\ \A u \in DOMAIN scheduled : u # t => scheduled'[u] = scheduled[u]
      BY <3>1 DEF With
    <3> QED BY <3>1, <3>2, <1>r, <1>a DEF StepInv, AnchorsFixed, Walking
  <2>2. CASE ~PreservedHolds(t)
    BY <1>12, <2>2, <1>f DEF KeepPreserved
  <2> QED BY <2>1, <2>2
<1>13. ASSUME NEW t \in Tasks, KeepAffixed(t) PROVE StepInv'
  <2>1. CASE phase' = "failed"
    BY <1>13, <2>1, <1>f DEF KeepAffixed, Scheduling, Schedule, Advance
  <2>2. CASE phase' # "failed"
    <3>1. /\ phase = "schedule" /\ phase' = phase /\ t \in DOMAIN affixed
          /\ scheduled' = With(scheduled, t, affixed[t]) /\ UNCHANGED preserved
          /\ affixed' = [u \in DOMAIN affixed \ {t} |-> affixed[u]]
      BY <1>13, <2>2 DEF KeepAffixed, Scheduling, Schedule, Advance, Fail
    <3>2. /\ DOMAIN scheduled' = DOMAIN scheduled \cup {t} /\ scheduled'[t] = affixed[t]
          /\ \A u \in DOMAIN scheduled : u # t => scheduled'[u] = scheduled[u]
      BY <3>1 DEF With
    <3>3. DOMAIN affixed' = DOMAIN affixed \ {t} /\ \A u \in DOMAIN affixed' : affixed'[u] = affixed[u]
      BY <3>1
    <3>4. AnchorsFixed'
      BY <3>1, <3>2, <3>3, <1>r DEF StepInv, AnchorsFixed, Walking
    <3> QED BY <3>1, <3>2, <3>3, <3>4, <1>r, <1>a DEF StepInv, Walking
  <2> QED BY <2>1, <2>2
<1>14. ASSUME NEW t \in Tasks, StartPlacement(t) PROVE StepInv'
  BY <1>14, <1>f, <1>u DEF StartPlacement, Scheduling, Walking
<1>15. ASSUME NEW t \in Tasks, Bump(t) \/ Omit(t) PROVE StepInv'
  BY <1>15, <1>u DEF Bump, Omit, Walking
<1>16. ASSUME NEW t \in Tasks, Place(t) PROVE StepInv'
  <2> DEFINE step == PlanStep(req, t, cursor)
  <2>1. /\ phase = "place" /\ phase' = "schedule" /\ t = Current /\ InOrder
        /\ scheduled' = With(scheduled, t, step) /\ UNCHANGED <<preserved, affixed>>
        /\ t \notin excluded \cup DOMAIN affixed \cup DOMAIN preserved
        /\ DependenciesScheduled(t) /\ MinimumStart(t) <= cursor
    BY <1>16 DEF Place, TypeOK, WalkInv
  <2>2. t \notin DOMAIN scheduled
    BY <2>1, ReachedReady DEF Walking
  <2>3. t \notin DOMAIN req.anchor
    BY <2>1, <2>2 DEF StepInv, AnchorsFixed, Walking
  <2>4. step.start = cursor /\ step = PlanStep(req, t, step.start)
        /\ step.end = cursor + req.duration[t]
    BY DEF PlanStep
  <2>5. EffectiveWindow(req, t).start <= cursor
    <3>1. EffectiveWindow(req, t).start <= MinimumStart(t) /\ MinimumStart(t) \in Int
      BY <2>1, MinimumStartBounds DEF Time
    <3>2. EffectiveWindow(req, t).start \in Int /\ cursor \in Int
      BY EffectiveWindowType, RequestFacts DEF TypeOK, Window, Time
    <3> QED BY <2>1, <3>1, <3>2
  <2>6. cursor + req.duration[t] <= EffectiveWindow(req, t).end
    <3>1. ~(cursor + req.duration[t] > EffectiveWindow(req, t).end)
      BY <1>16 DEF Place, NoRoom
    <3>2. cursor + req.duration[t] \in Int /\ EffectiveWindow(req, t).end \in Int
      BY EffectiveWindowType, RequestFacts DEF TypeOK, Window, Time
    <3> QED BY <3>1, <3>2
  <2>7. AsRequested(t, step)
    BY <2>3, <2>4, <2>5, <2>6 DEF AsRequested
  <2> HIDE DEF step
  <2>8. /\ DOMAIN scheduled' = DOMAIN scheduled \cup {t} /\ scheduled'[t] = step
        /\ \A u \in DOMAIN scheduled : u # t => scheduled'[u] = scheduled[u]
    BY <2>1 DEF With
  <2> QED BY <2>1, <2>7, <2>8, <1>r, <1>a DEF StepInv, AnchorsFixed, Walking
<1>17. ASSUME NEW t \in Tasks, RejectProtected(t) PROVE StepInv'
  BY <1>17, <1>f DEF RejectProtected
<1>18. CASE UNCHANGED vars
  BY <1>18, <1>u DEF vars, Walking, AnchorsPassed, StepInv
<1> QED
  BY <1>1, <1>2, <1>3, <1>4, <1>5, <1>6, <1>7, <1>8, <1>9, <1>10, <1>11, <1>12, <1>13, <1>14,
     <1>15, <1>16, <1>17, <1>18 DEF Next, TaskStep

LEMMA StepInvariant == Spec => []StepInv
<1>1. Init => StepInv
  BY DEF Init, StepInv, Walking, Empty
<1> QED BY <1>1, StepStep, TypeCorrect, WalkInvariant, CalendarInvariant, PTL DEF Spec

-----------------------------------------------------------------------------
(***************************************************************************)
(* The search.  What it has found out about a Task stays true, because the *)
(* prerequisites that bound its start are scheduled and no step is moved,  *)
(* and because the calendar only grows.                                    *)
(***************************************************************************)
Grows ==
  /\ UNCHANGED <<req, preserved, protected>>
  /\ occupied \subseteq occupied'
  /\ \A d \in DOMAIN scheduled : d \in DOMAIN scheduled' /\ scheduled'[d] = scheduled[d]

LEMMA SearchStartStays ==
  ASSUME TypeOK, Grows, NEW t \in Tasks, DependenciesScheduled(t)
  PROVE  MinimumStart(t)' = MinimumStart(t)
<1>1. /\ \A d \in req.deps[t] : scheduled[d].end \in Time
      /\ \A d \in req.deps[t] : scheduled'[d] = scheduled[d]
  BY DEF TypeOK, IsSchedule, DependenciesScheduled, Step, Grows
<1>2. LatestEnd(scheduled', req.deps[t]) = LatestEnd(scheduled, req.deps[t])
  BY <1>1, LatestEndOfEqual
<1>3. DependencyEnd(t) = LatestEnd(scheduled, req.deps[t])
  BY DEF DependencyEnd, LatestEnd
<1>4. DependencyEnd(t)' = LatestEnd(scheduled', req.deps[t])
  BY DEF DependencyEnd, LatestEnd, Grows
<1>5. DependencyEnd(t)' = DependencyEnd(t) /\ req' = req
  BY <1>2, <1>3, <1>4 DEF Grows
<1> QED BY <1>5 DEF MinimumStart, EarliestStart

LEMMA FoundStays ==
  ASSUME TypeOK, Grows, NEW t \in Tasks, DependenciesScheduled(t)
  PROVE  /\ NoSlot(t) => NoSlot(t)'
         /\ UNCHANGED omitted[t] /\ ReasonTrue(t) => ReasonTrue(t)'
         /\ t \in DOMAIN scheduled /\ FirstFitting(t) => FirstFitting(t)'
<1>1. MinimumStart(t)' = MinimumStart(t) /\ req' = req /\ protected' = protected
  BY SearchStartStays DEF Grows
<1>2. \A start, end : Clashing(start, end) \subseteq Clashing(start, end)'
  BY DEF Clashing, Grows
<1>3. \A start : NoRoom(t, start)' = NoRoom(t, start)
  BY <1>1 DEF NoRoom
<1>4. NoSlot(t) => NoSlot(t)'
  BY <1>1, <1>2, <1>3 DEF NoSlot
<1>5. UNCHANGED omitted[t] /\ ReasonTrue(t) => ReasonTrue(t)'
  BY <1>1, <1>3 DEF ReasonTrue, Grows, DependenciesScheduled
<1>6. t \in DOMAIN scheduled /\ FirstFitting(t) => FirstFitting(t)'
  BY <1>1, <1>2 DEF FirstFitting, Grows
<1> QED BY <1>4, <1>5, <1>6

(* The Tasks a search was made for have all prerequisites scheduled.       *)
LEMMA SearchedReady ==
  ASSUME TypeOK, WalkInv, SearchInv, NEW t \in DOMAIN omitted \cup GreedilyPlaced
  PROVE  t \in Tasks /\ DependenciesScheduled(t)
BY DEF TypeOK, IsSchedule, SearchInv, ReasonTrue, GreedilyPlaced, WalkInv, DependencyOrder,
       DependenciesScheduled

(* Before the walk nothing has been searched for.                          *)
LEMMA SearchNotBegun ==
  ASSUME DOMAIN omitted = {}, excluded = {}, DOMAIN scheduled = {}, failure # "no_room",
         phase \notin {"place", "done"}
  PROVE  SearchInv
BY DEF SearchInv, RejectionJustified, GreedilyPlaced, DeferredWait, ReportHonest

LEMMA SearchKept ==
  ASSUME TypeOK, WalkInv, SearchInv, Grows, UNCHANGED <<omitted, excluded>>,
         Fixing' => Fixing, phase' = "place" => Searched',
         failure' # "no_room", phase' # "done",
         \A t \in GreedilyPlaced' : t \in GreedilyPlaced \/ FirstFitting(t)'
  PROVE  SearchInv'
<1>1. ASSUME NEW t \in DOMAIN omitted' PROVE NoSlot(t)' /\ ReasonTrue(t)'
  BY <1>1, SearchedReady, FoundStays DEF SearchInv
<1>2. ASSUME NEW t \in GreedilyPlaced' PROVE FirstFitting(t)'
  <2>1. CASE t \in GreedilyPlaced
    BY <2>1, SearchedReady, FoundStays DEF SearchInv, GreedilyPlaced
  <2>2. CASE t \notin GreedilyPlaced
    BY <2>2
  <2> QED BY <2>1, <2>2
<1>3. DeferredWait'
  BY DEF DeferredWait, SearchInv, Grows
<1>4. RejectionJustified' /\ ReportHonest'
  BY DEF RejectionJustified, ReportHonest
<1> QED BY <1>1, <1>2, <1>3, <1>4 DEF SearchInv

(***************************************************************************)
(* The jump to the end of the first overlap passes no free start: every    *)
(* start it skips overlaps that same interval.                             *)
(***************************************************************************)
LEMMA BumpSearched ==
  ASSUME TypeOK, WalkInv, SearchInv, NEW t \in Tasks, Bump(t)
  PROVE  Searched'
<1> DEFINE o == FirstOverlap(cursor, CandidateEnd(t))
<1>1. /\ phase = "place" /\ t = Current /\ DependenciesScheduled(t) /\ Searched
      /\ UNCHANGED <<req, next, occupied, scheduled, preserved, protected>>
  BY DEF Bump, WalkInv, SearchInv
<1>2. MinimumStart(t)' = MinimumStart(t) /\ Current' = Current /\ MinimumStart(t) \in Int
  BY <1>1, SearchStartStays, MinimumStartBounds DEF Grows, Current, Time
<1>3. o \in Clashing(cursor, CandidateEnd(t))
  BY FirstOverlapClashes DEF Bump
<1>4. /\ o \in occupied /\ o.start \in Int /\ o.end \in Int
      /\ o.start < cursor + req.duration[t] /\ o.end > cursor
  BY <1>3 DEF Clashing, Overlaps, TypeOK, Time, CandidateEnd
<1>5. cursor' = Later(o.end, Sooner(cursor + 1, MaxTime))
  BY DEF Bump, NextStart
<1>6. cursor \in Int /\ MaxTime \in Int /\ req.duration[t] \in Int
  BY TimeAssumption, RequestFacts DEF TypeOK, Time
<1> HIDE DEF o
<1>7. cursor' <= o.end /\ cursor' \in Int
  BY <1>4, <1>5, <1>6 DEF Later, Sooner
<1>8. ASSUME NEW s \in MinimumStart(t) .. cursor' - 1
      PROVE  Clashing(s, s + req.duration[t]) # {}
  <2>1. CASE s < cursor
    BY <1>1, <1>2, <1>6, <2>1 DEF Searched
  <2>2. CASE cursor <= s
    <3>1. Overlaps(s, s + req.duration[t], o)
      <4>1. s \in Int /\ s < o.end /\ s + req.duration[t] > o.start
        BY <1>2, <1>4, <1>6, <1>7, <2>2
      <4> QED BY <4>1 DEF Overlaps
    <3> QED BY <1>4, <3>1 DEF Clashing
  <2> QED BY <1>2, <1>6, <2>1, <2>2
<1>9. \A s, e : Clashing(s, e)' = Clashing(s, e)
  BY <1>1 DEF Clashing
<1> QED BY <1>1, <1>2, <1>8, <1>9 DEF Searched

(***************************************************************************)
(* When the search gives up, no start is left: those before the cursor are *)
(* taken, those from it on leave no room.                                  *)
(***************************************************************************)
LEMMA SearchExhausted ==
  ASSUME TypeOK, WalkInv, SearchInv, phase = "place", NoRoom(Current, cursor)
  PROVE  NoSlot(Current)
<1> DEFINE t == Current
<1>1. t \in Tasks /\ DependenciesScheduled(t) /\ Searched
  BY CurrentTask DEF TypeOK, WalkInv, SearchInv
<1>2. /\ MinimumStart(t) \in Int /\ cursor \in Int /\ MaxTime \in Int /\ req.duration[t] \in Int
      /\ EffectiveWindow(req, t).end \in Int
  BY <1>1, MinimumStartBounds, EffectiveWindowType, RequestFacts, TimeAssumption
     DEF TypeOK, Time, Window
<1>3. ASSUME NEW s \in MinimumStart(t) .. MaxTime
      PROVE  NoRoom(t, s) \/ Clashing(s, s + req.duration[t]) # {}
  <2>1. CASE s < cursor
    BY <1>1, <1>2, <2>1 DEF Searched
  <2>2. CASE cursor <= s
    BY <1>2, <2>2 DEF NoRoom
  <2> QED BY <1>2, <2>1, <2>2
<1> QED BY <1>3 DEF NoSlot

LEMMA PlaceSearch ==
  ASSUME TypeOK, WalkInv, CalendarInv, StepInv, SearchInv, NEW t \in Tasks, Place(t)
  PROVE  SearchInv'
<1> DEFINE step == PlanStep(req, t, cursor)
<1>1. /\ phase = "place" /\ t = Current /\ InOrder /\ phase' = "schedule"
      /\ Current \notin excluded \cup DOMAIN affixed \cup DOMAIN preserved
      /\ DependenciesScheduled(t) /\ MinimumStart(t) <= cursor /\ Searched
      /\ occupied' = occupied \cup {Interval(step)} /\ scheduled' = With(scheduled, t, step)
      /\ UNCHANGED <<req, preserved, affixed, protected, omitted, excluded, failure>>
      /\ failure = "none"
  BY DEF Place, TypeOK, WalkInv, SearchInv, CalendarInv
<1>2. t \notin DOMAIN scheduled
  BY <1>1, ReachedReady DEF Walking
<1>3. step.start = cursor
  BY DEF PlanStep
<1> HIDE DEF step
<1>4. /\ DOMAIN scheduled' = DOMAIN scheduled \cup {t} /\ scheduled'[t] = step
      /\ \A u \in DOMAIN scheduled : scheduled'[u] = scheduled[u]
  BY <1>1, <1>2 DEF With
<1>5. Grows
  BY <1>1, <1>4 DEF Grows
<1>6. \A o \in occupied : o.task # t
  <2>1. occupied = Reserved(preserved) \cup Reserved(affixed) \cup Reserved(scheduled)
    BY <1>1 DEF CalendarInv, CalendarExact
  <2>2. \A o \in occupied : o.task \in DOMAIN preserved \cup DOMAIN affixed \cup DOMAIN scheduled
    BY <2>1 DEF Reserved, Interval, TypeOK, IsSchedule
  <2> QED BY <1>1, <1>2, <2>2
<1>7. FirstFitting(t)'
  <2>1. MinimumStart(t)' = MinimumStart(t) /\ MinimumStart(t) \in Int /\ cursor \in Int
    BY <1>1, <1>5, SearchStartStays, MinimumStartBounds DEF Time, TypeOK
  <2>2. ASSUME NEW s \in MinimumStart(t) .. cursor - 1
        PROVE  \E o \in Clashing(s, s + req.duration[t])' : o.task # t
    <3>1. PICK o \in Clashing(s, s + req.duration[t]) : TRUE
      BY <1>1, <2>1 DEF Searched
    <3>2. o \in occupied /\ o.task # t
      BY <1>6, <3>1 DEF Clashing
    <3> QED BY <1>1, <3>1, <3>2 DEF Clashing
  <2> QED BY <1>1, <1>3, <1>4, <2>1, <2>2 DEF FirstFitting
<1>8. \A u \in GreedilyPlaced' : u \in GreedilyPlaced \/ u = t
  BY <1>1, <1>4 DEF GreedilyPlaced
<1> QED BY <1>1, <1>5, <1>7, <1>8, SearchKept DEF Fixing


(***************************************************************************)
(* The closures of PlanningRequest are dual: who waits for t needs t.      *)
(***************************************************************************)
LEMMA WaitsMeansNeeds ==
  ASSUME NEW r, r.deps \in [Tasks -> SUBSET Tasks], NEW t \in Tasks,
         NEW u \in WithDependents(r, {t})
  PROVE  t \in Prerequisites(r, {u})
<1>1. u \in Tasks
  BY DEF WithDependents
<1>2. ASSUME NEW C \in SUBSET Tasks, {u} \subseteq C, ClosedUnderDeps(r, C), t \notin C
      PROVE  FALSE
  BY <1>2, DroppingSparesClosedSets
<1> QED BY <1>1, <1>2 DEF Prerequisites

(* A Task that is dropped with another waits for a Task that is dropped.   *)
LEMMA DroppedWait ==
  ASSUME NEW r, r.deps \in [Tasks -> SUBSET Tasks], NEW t \in Tasks,
         NEW u \in WithDependents(r, {t}), u # t
  PROVE  r.deps[u] \cap WithDependents(r, {t}) # {}
<1> DEFINE W == WithDependents(r, {t})
           C == {t} \cup {v \in W : r.deps[v] \cap W # {}}
<1>1. {t} \subseteq W /\ W \in SUBSET Tasks /\ ClosedUnderDependents(r, W)
  BY WithDependentsClosed
<1> HIDE DEF W
<1>2. C \in SUBSET Tasks /\ {t} \subseteq C /\ C \subseteq W
  BY <1>1
<1>3. ClosedUnderDependents(r, C)
  <2>1. ASSUME NEW v \in Tasks, r.deps[v] \cap C # {} PROVE v \in C
    <3>1. r.deps[v] \cap W # {}
      BY <1>2, <2>1
    <3>2. v \in W
      BY <1>1, <3>1 DEF ClosedUnderDependents
    <3> QED BY <3>1, <3>2
  <2> HIDE DEF C
  <2> QED BY <2>1 DEF ClosedUnderDependents
<1>4. u \in C
  <2> HIDE DEF C
  <2> QED BY <1>2, <1>3 DEF WithDependents
<1> QED BY <1>4 DEF W

(***************************************************************************)
(* The reason given for an omission is true when it is given.              *)
(***************************************************************************)
LEMMA GreedyReasonTrue ==
  ASSUME TypeOK, CalendarInv, phase = "place", NEW t \in Tasks, DependenciesScheduled(t)
  PROVE  /\ GreedyReason(t) = "outside_allowed_window" => NoRoom(t, MinimumStart(t))
         /\ GreedyReason(t) = "omitted_lower_value" =>
              \E u \in DOMAIN scheduled \ protected :
                Overlaps(MinimumStart(t), EffectiveWindow(req, t).end, scheduled[u])
<1> DEFINE start == MinimumStart(t)
           end == EffectiveWindow(req, t).end
<1>1. start \in Int /\ end \in Int /\ MaxTime \in Int /\ req.duration[t] \in Int
  BY MinimumStartBounds, EffectiveWindowType, RequestFacts, TimeAssumption DEF Time, Window
<1>2. ASSUME GreedyReason(t) = "outside_allowed_window" PROVE NoRoom(t, start)
  <2>1. start + req.duration[t] > Sooner(MaxTime, end)
    BY <1>2 DEF GreedyReason
  <2> HIDE DEF start, end
  <2>2. start + req.duration[t] > MaxTime \/ start + req.duration[t] > end
    BY <1>1, <2>1 DEF Sooner
  <2> QED BY <2>2 DEF NoRoom, end
<1>3. ASSUME GreedyReason(t) = "omitted_lower_value"
      PROVE  \E u \in DOMAIN scheduled \ protected : Overlaps(start, end, scheduled[u])
  <2>1. PICK o \in Clashing(start, end) : o.task \notin protected
    BY <1>3 DEF GreedyReason
  <2>2. o \in occupied /\ Overlaps(start, end, o)
    BY <2>1 DEF Clashing
  <2>3. /\ occupied = Reserved(preserved) \cup Reserved(affixed) \cup Reserved(scheduled)
        /\ DOMAIN preserved \cup DOMAIN affixed \subseteq protected
    BY DEF CalendarInv, CalendarExact, FixedProtected, Walking
  <2>4. o \notin Reserved(preserved) \cup Reserved(affixed)
    BY <2>1, <2>3 DEF Reserved, Interval, TypeOK, IsSchedule
  <2>5. PICK u \in DOMAIN scheduled : o = Interval(scheduled[u])
    BY <2>2, <2>3, <2>4 DEF Reserved
  <2>6. o.task = u /\ o.start = scheduled[u].start /\ o.end = scheduled[u].end
    BY <2>5 DEF Interval, TypeOK, IsSchedule
  <2>7. Overlaps(start, end, scheduled[u])
    BY <2>2, <2>6 DEF Overlaps
  <2> QED BY <2>1, <2>6, <2>7
<1> QED BY <1>2, <1>3

LEMMA OmitSearch ==
  ASSUME TypeOK, WalkInv, CalendarInv, SearchInv, NEW t \in Tasks, Omit(t)
  PROVE  SearchInv'
<1> DEFINE dropped == WithDependents(req, {t})
<1>1. /\ phase = "place" /\ t = Current /\ phase' = "schedule" /\ NoRoom(t, cursor)
      /\ DependenciesScheduled(t)
      /\ omitted' = With(omitted, t, GreedyReason(t))
      /\ excluded' = excluded \cup dropped
      /\ UNCHANGED <<req, preserved, protected, occupied, scheduled, failure>>
      /\ failure = "none"
  BY DEF Omit, WalkInv, CalendarInv
<1>2. Grows
  BY <1>1 DEF Grows
<1>3. /\ DOMAIN omitted' = DOMAIN omitted \cup {t} /\ omitted'[t] = GreedyReason(t)
      /\ \A u \in DOMAIN omitted : u # t => omitted'[u] = omitted[u]
  BY <1>1 DEF With
<1>4. NoSlot(t)
  BY <1>1, SearchExhausted
<1>5. NoSlot(t)' /\ ReasonTrue(t)'
  <2>1. NoSlot(t)'
    BY <1>1, <1>2, <1>4, FoundStays
  <2>2. MinimumStart(t)' = MinimumStart(t)
    BY <1>1, <1>2, SearchStartStays
  <2>3. NoRoom(t, MinimumStart(t))' = NoRoom(t, MinimumStart(t))
    BY <1>1, <2>2 DEF NoRoom
  <2>4. ReasonTrue(t)'
    BY <1>1, <1>3, <2>2, <2>3, GreedyReasonTrue DEF ReasonTrue, DependenciesScheduled
  <2> QED BY <2>1, <2>4
<1>6. ASSUME NEW u \in DOMAIN omitted' PROVE NoSlot(u)' /\ ReasonTrue(u)'
  <2>1. CASE u = t
    BY <1>5, <2>1
  <2>2. CASE u # t
    BY <1>2, <1>3, <1>6, <2>2, SearchedReady, FoundStays DEF SearchInv
  <2> QED BY <2>1, <2>2
<1>7. ASSUME NEW u \in GreedilyPlaced' PROVE FirstFitting(u)'
  <2>1. u \in GreedilyPlaced
    BY <1>1, <1>7 DEF GreedilyPlaced
  <2> QED BY <1>2, <2>1, SearchedReady, FoundStays DEF SearchInv, GreedilyPlaced
<1>8. DeferredWait'
  <2>1. ASSUME NEW u \in excluded', u \notin DOMAIN omitted' PROVE req.deps[u] \cap excluded' # {}
    <3>1. CASE u \in excluded
      BY <1>1, <1>3, <2>1, <3>1 DEF SearchInv, DeferredWait
    <3>2. CASE u \in dropped
      <4>1. u # t /\ req.deps \in [Tasks -> SUBSET Tasks]
        BY <1>3, <2>1, RequestFacts
      <4>2. req.deps[u] \cap dropped # {}
        BY <3>2, <4>1, DroppedWait
      <4> HIDE DEF dropped
      <4> QED BY <1>1, <4>2
    <3> QED BY <1>1, <2>1, <3>1, <3>2
  <2> QED BY <1>1, <2>1 DEF DeferredWait
<1> HIDE DEF dropped
<1>9. RejectionJustified' /\ ReportHonest' /\ ~Fixing'
  BY <1>1 DEF RejectionJustified, ReportHonest, Fixing
<1> QED BY <1>1, <1>6, <1>7, <1>8, <1>9 DEF SearchInv

(***************************************************************************)
(* The report reads the reasons when the Plan is finished: those given in  *)
(* the walk are still true then, now of the Plan.                          *)
(***************************************************************************)
LEMMA EmitSearch ==
  ASSUME TypeOK, WalkInv, CalendarInv, SearchInv, Emit
  PROVE  SearchInv'
<1>1. Walking /\ ~InOrder /\ phase = "schedule" /\ failure = "none" /\ failure' # "no_room"
      /\ UNCHANGED <<req, preserved, occupied, protected, scheduled, omitted, excluded>>
  BY DEF Emit, Walking, Fail, CalendarInv
<1>2. Tasks \ excluded = DOMAIN scheduled
  BY <1>1, AllPassed
<1>3. Grows
  BY <1>1 DEF Grows
<1>4. CASE DOMAIN scheduled = {}
  <2>1. phase' = "failed" /\ GreedilyPlaced' = GreedilyPlaced
    BY <1>1, <1>2, <1>4 DEF Emit, Fail, GreedilyPlaced
  <2> QED BY <1>1, <1>3, <2>1, SearchKept DEF Fixing
<1>5. CASE DOMAIN scheduled # {}
  <2>1. /\ phase' = "done" /\ plan' = [t \in DOMAIN scheduled |-> scheduled[t]]
        /\ unplaced' = [t \in excluded |-> Report(t)]
    BY <1>2, <1>5 DEF Emit
  <2>2. ASSUME NEW t \in DOMAIN omitted' PROVE NoSlot(t)' /\ ReasonTrue(t)'
    BY <1>1, <1>3, <2>2, SearchedReady, FoundStays DEF SearchInv
  <2>3. ASSUME NEW t \in GreedilyPlaced' PROVE FirstFitting(t)'
    <3>1. t \in GreedilyPlaced
      BY <1>1, <2>3 DEF GreedilyPlaced
    <3> QED BY <1>3, <3>1, SearchedReady, FoundStays DEF SearchInv, GreedilyPlaced
  <2>4. ASSUME NEW t \in DOMAIN unplaced'
        PROVE  /\ unplaced'[t].reason = "outside_allowed_window" => NoRoom(t, MinimumStart(t))'
               /\ unplaced'[t].reason = "omitted_lower_value" =>
                    \E u \in DOMAIN plan' \ protected' :
                      Overlaps(MinimumStart(t)', EffectiveWindow(req', t).end, plan'[u])
               /\ unplaced'[t].reason = "deferred_dependency" =>
                    unplaced'[t].deferred # {} /\ unplaced'[t].deferred \subseteq DOMAIN unplaced'
               /\ \A u \in unplaced'[t].affected : t \in Prerequisites(req', {u})
    <3>1. /\ t \in excluded /\ t \in Tasks /\ unplaced'[t] = Report(t) /\ DOMAIN unplaced' = excluded
          /\ DOMAIN plan' = DOMAIN scheduled /\ \A u \in DOMAIN scheduled : plan'[u] = scheduled[u]
      BY <2>1, <2>4 DEF TypeOK
    <3>2. CASE t \in DOMAIN omitted
      <4>1. Report(t).reason = omitted[t] /\ omitted[t] \in Reasons /\ omitted'[t] = omitted[t]
        BY <1>1, <3>2 DEF Report, TypeOK
      <4>2. ReasonTrue(t)'
        BY <1>1, <2>2, <3>2
      <4>3. /\ omitted[t] = "outside_allowed_window" => NoRoom(t, MinimumStart(t))'
            /\ omitted[t] = "omitted_lower_value" =>
                 \E u \in DOMAIN scheduled \ protected' :
                   Overlaps(MinimumStart(t)', EffectiveWindow(req', t).end, scheduled[u])
        BY <1>1, <4>1, <4>2 DEF ReasonTrue
      <4>4. omitted[t] = "omitted_lower_value" =>
              \E u \in DOMAIN plan' \ protected' :
                Overlaps(MinimumStart(t)', EffectiveWindow(req', t).end, plan'[u])
        BY <3>1, <4>3
      <4>5. omitted[t] # "deferred_dependency"
        BY <4>1 DEF Reasons
      <4>6. \A u \in Report(t).affected : t \in Prerequisites(req, {u})
        BY <3>1, WaitsMeansNeeds, RequestFacts DEF Report, DependentsOf
      <4> QED BY <1>1, <3>1, <4>1, <4>3, <4>4, <4>5, <4>6
    <3>3. CASE t \notin DOMAIN omitted
      <4>1. Report(t).reason = "deferred_dependency" /\ Report(t).deferred = req.deps[t] \cap excluded
        BY <3>3 DEF Report
      <4>2. req.deps[t] \cap excluded # {}
        BY <3>1, <3>3 DEF SearchInv, DeferredWait
      <4>3. \A u \in Report(t).affected : t \in Prerequisites(req, {u})
        BY <3>1, WaitsMeansNeeds, RequestFacts DEF Report, DependentsOf
      <4> QED BY <1>1, <3>1, <4>1, <4>2, <4>3
    <3> QED BY <3>2, <3>3
  <2>5. ReportHonest'
    BY <2>4 DEF ReportHonest
  <2>6. DeferredWait' /\ RejectionJustified' /\ ~Fixing' /\ phase' # "place"
    BY <1>1, <2>1 DEF DeferredWait, SearchInv, RejectionJustified, Fixing
  <2> QED BY <2>2, <2>3, <2>5, <2>6 DEF SearchInv
<1> QED BY <1>4, <1>5


(* A call that fails otherwise than for want of room has found out nothing *)
(* new; one that fails for want of room has searched to the end.           *)
LEMMA SearchOfFailure ==
  ASSUME TypeOK, WalkInv, SearchInv, NEW reason, Fail(reason),
         reason = "no_room" => Current \in protected /\ NoSlot(Current)
  PROVE  SearchInv'
<1>1. /\ phase' = "failed" /\ failure' = reason
      /\ UNCHANGED <<req, next, preserved, occupied, protected, scheduled, omitted, excluded>>
  BY DEF Fail
<1>2. ASSUME NEW t PROVE /\ MinimumStart(t)' = MinimumStart(t)
                         /\ \A s : NoRoom(t, s)' = NoRoom(t, s)
                         /\ \A s, e : Clashing(s, e)' = Clashing(s, e)
  BY <1>1, MinimumStartStable DEF NoRoom, Clashing
<1>3. \A t : NoSlot(t)' = NoSlot(t) /\ ReasonTrue(t)' = ReasonTrue(t)
             /\ FirstFitting(t)' = FirstFitting(t)
  BY <1>1, <1>2 DEF NoSlot, ReasonTrue, FirstFitting, DependenciesScheduled
<1>4. Current' = Current /\ GreedilyPlaced' = GreedilyPlaced /\ DeferredWait' = DeferredWait
  BY <1>1 DEF Current, GreedilyPlaced, DeferredWait
<1>5. RejectionJustified'
  BY <1>1, <1>3, <1>4 DEF RejectionJustified
<1>6. ReportHonest' /\ ~Fixing' /\ phase' # "place"
  BY <1>1 DEF ReportHonest, Fixing
<1> QED BY <1>1, <1>3, <1>4, <1>5, <1>6 DEF SearchInv

LEMMA SearchStep ==
  TypeOK /\ WalkInv /\ CalendarInv /\ StepInv /\ SearchInv /\ [Next]_vars => SearchInv'
<1> SUFFICES ASSUME TypeOK, WalkInv, CalendarInv, StepInv, SearchInv, [Next]_vars
             PROVE  SearchInv'
  OBVIOUS
<1>f. ASSUME NEW reason, reason # "no_room", Fail(reason) PROVE SearchInv'
  BY <1>f, SearchOfFailure
<1>b. ASSUME Fixing, UNCHANGED <<scheduled, omitted, excluded, failure>>,
             phase' \notin {"place", "done", "failed"}, phase # "failed"
      PROVE  SearchInv'
  <2>1. DOMAIN omitted' = {} /\ excluded' = {} /\ DOMAIN scheduled' = {} /\ failure' # "no_room"
    BY <1>b DEF SearchInv, WalkInv, CalendarInv
  <2> QED BY <1>b, <2>1 DEF SearchInv, RejectionJustified, GreedilyPlaced, DeferredWait, ReportHonest
<1>1. CASE Open
  BY <1>1, <1>f, <1>b DEF Open, EnterPhase, Fixing
<1>2. CASE CollectPrior
  BY <1>2, <1>b DEF CollectPrior, Advance, Fixing
<1>3. CASE CollectDone
  BY <1>3, <1>b DEF CollectDone, EnterPhase, Fixing
<1>4. CASE PreserveDone
  BY <1>4, <1>b DEF PreserveDone, EnterPhase, Fixing
<1>5. CASE AffixSkip
  BY <1>5, <1>b DEF AffixSkip, Advance, Fixing
<1>6. CASE AffixAnchor
  BY <1>6, <1>b DEF AffixAnchor, Advance, Fixing
<1>7. CASE AffixReject
  BY <1>7, <1>f DEF AffixReject
<1>8. CASE AffixDone
  BY <1>8, <1>b DEF AffixDone, EnterPhase, Fixing
<1>9. CASE SkipExcluded
  <2>1. Grows /\ GreedilyPlaced' = GreedilyPlaced
    BY <1>9 DEF SkipExcluded, Advance, Grows, GreedilyPlaced
  <2> QED BY <1>9, <2>1, SearchKept DEF SkipExcluded, Advance, Fixing, CalendarInv
<1>10. CASE Emit
  BY <1>10, EmitSearch
<1>11. ASSUME NEW t \in Tasks, PushPreserved(t) PROVE SearchInv'
  BY <1>11, <1>f, <1>b DEF PushPreserved, Fixing
<1>12. ASSUME NEW t \in Tasks, KeepPreserved(t) PROVE SearchInv'
  <2>1. CASE PreservedHolds(t)
    <3>1. /\ phase = "schedule" /\ phase' = phase /\ t = Current /\ t \notin excluded /\ InOrder
          /\ t \in DOMAIN preserved /\ failure' = failure
          /\ scheduled' = With(scheduled, t, preserved[t])
          /\ UNCHANGED <<req, preserved, protected, occupied, omitted, excluded>>
      BY <1>12, <2>1 DEF KeepPreserved, Scheduling, Schedule, Advance
    <3>2. t \notin DOMAIN scheduled
      BY <3>1, ReachedReady DEF Walking
    <3>3. Grows /\ GreedilyPlaced' \subseteq GreedilyPlaced
      BY <3>1, <3>2 DEF Grows, With, GreedilyPlaced
    <3> QED BY <3>1, <3>3, SearchKept DEF Fixing, CalendarInv
  <2>2. CASE ~PreservedHolds(t)
    BY <1>12, <2>2, <1>f DEF KeepPreserved
  <2> QED BY <2>1, <2>2
<1>13. ASSUME NEW t \in Tasks, KeepAffixed(t) PROVE SearchInv'
  <2>1. CASE phase' = "failed"
    BY <1>13, <2>1, <1>f DEF KeepAffixed, Scheduling, Schedule, Advance
  <2>2. CASE phase' # "failed"
    <3>1. /\ phase = "schedule" /\ phase' = phase /\ t = Current /\ t \notin excluded /\ InOrder
          /\ t \in DOMAIN affixed /\ failure' = failure
          /\ scheduled' = With(scheduled, t, affixed[t])
          /\ UNCHANGED <<req, preserved, protected, occupied, omitted, excluded>>
      BY <1>13, <2>2 DEF KeepAffixed, Scheduling, Schedule, Advance, Fail
    <3>2. t \notin DOMAIN scheduled /\ t \in DOMAIN req.anchor
      BY <3>1, ReachedReady DEF Walking, TypeOK
    <3>3. Grows /\ GreedilyPlaced' \subseteq GreedilyPlaced
      BY <3>1, <3>2 DEF Grows, With, GreedilyPlaced
    <3> QED BY <3>1, <3>3, SearchKept DEF Fixing, CalendarInv
  <2> QED BY <2>1, <2>2
<1>14. ASSUME NEW t \in Tasks, StartPlacement(t) PROVE SearchInv'
  <2>1. CASE phase' = "failed"
    BY <1>14, <2>1, <1>f DEF StartPlacement, Scheduling
  <2>2. CASE phase' # "failed"
    <3>1. /\ phase = "schedule" /\ t = Current /\ DependenciesScheduled(t)
          /\ cursor' = MinimumStart(t) /\ phase' = "place"
          /\ UNCHANGED <<req, next, preserved, protected, occupied, scheduled, omitted, excluded,
                         failure>>
      BY <1>14, <2>2 DEF StartPlacement, Scheduling, Fail
    <3>2. Grows /\ GreedilyPlaced' = GreedilyPlaced /\ Current' = Current
      BY <3>1 DEF Grows, GreedilyPlaced, Current
    <3>3. cursor' = MinimumStart(Current)' /\ cursor' \in Int
      BY <1>14, <3>1, <3>2, MinimumStartStable, MinimumStartBounds DEF Time
    <3>4. Searched'
      <4>1. MinimumStart(Current)' .. cursor' - 1 = {}
        BY <3>3
      <4> QED BY <4>1 DEF Searched
    <3> QED BY <3>1, <3>2, <3>4, SearchKept DEF Fixing, CalendarInv
  <2> QED BY <2>1, <2>2
<1>15. ASSUME NEW t \in Tasks, Bump(t) PROVE SearchInv'
  <2>1. /\ phase = "place" /\ phase' = phase /\ failure' = failure
        /\ UNCHANGED <<req, preserved, protected, occupied, scheduled, omitted, excluded>>
    BY <1>15 DEF Bump
  <2>2. Grows /\ GreedilyPlaced' = GreedilyPlaced
    BY <2>1 DEF Grows, GreedilyPlaced
  <2>3. Searched'
    BY <1>15, BumpSearched
  <2> QED BY <2>1, <2>2, <2>3, SearchKept DEF Fixing, CalendarInv
<1>16. ASSUME NEW t \in Tasks, Place(t) PROVE SearchInv'
  BY <1>16, PlaceSearch
<1>17. ASSUME NEW t \in Tasks, Omit(t) PROVE SearchInv'
  BY <1>17, OmitSearch
<1>18. ASSUME NEW t \in Tasks, RejectProtected(t) PROVE SearchInv'
  <2>1. phase = "place" /\ NoRoom(Current, cursor) /\ Current \in protected /\ Fail("no_room")
    BY <1>18 DEF RejectProtected
  <2> QED BY <2>1, SearchExhausted, SearchOfFailure
<1>19. CASE UNCHANGED vars
  <2>1. /\ UNCHANGED <<req, phase, next, cursor, preserved, occupied, protected, scheduled,
                       omitted, excluded, plan, unplaced, failure>>
    BY <1>19 DEF vars
  <2>2. ASSUME NEW t PROVE /\ MinimumStart(t)' = MinimumStart(t)
                           /\ \A s : NoRoom(t, s)' = NoRoom(t, s)
                           /\ \A s, e : Clashing(s, e)' = Clashing(s, e)
    BY <2>1, MinimumStartStable DEF NoRoom, Clashing
  <2>3. \A t : NoSlot(t)' = NoSlot(t) /\ ReasonTrue(t)' = ReasonTrue(t)
               /\ FirstFitting(t)' = FirstFitting(t)
    BY <2>1, <2>2 DEF NoSlot, ReasonTrue, FirstFitting, DependenciesScheduled
  <2>4. /\ Current' = Current /\ GreedilyPlaced' = GreedilyPlaced /\ DeferredWait' = DeferredWait
        /\ Fixing' = Fixing
    BY <2>1 DEF Current, GreedilyPlaced, DeferredWait, Fixing
  <2>5. RejectionJustified' = RejectionJustified
    BY <2>1, <2>3, <2>4 DEF RejectionJustified
  <2>6. ReportHonest' = ReportHonest
    BY <2>1, <2>2 DEF ReportHonest
  <2>7. Searched' = Searched
    BY <2>1, <2>2, <2>4 DEF Searched
  <2> QED BY <2>1, <2>3, <2>4, <2>5, <2>6, <2>7 DEF SearchInv
<1> QED
  BY <1>1, <1>2, <1>3, <1>4, <1>5, <1>6, <1>7, <1>8, <1>9, <1>10, <1>11, <1>12, <1>13, <1>14,
     <1>15, <1>16, <1>17, <1>18, <1>19 DEF Next, TaskStep

LEMMA SearchInvariant == Spec => []SearchInv
<1>1. Init => SearchInv
  BY SearchNotBegun DEF Init, Empty
<1> QED BY <1>1, SearchStep, TypeCorrect, WalkInvariant, CalendarInvariant, StepInvariant,
           PTL DEF Spec

(***************************************************************************)
(* Nothing is omitted or refused in vain: at every moment no start is left *)
(* in the calendar for an omitted Task, nor for the protected Task over    *)
(* which a call failed.                                                    *)
(***************************************************************************)
THEOREM RefusalsAreJustified == Spec => []RefusalsJustified
<1>1. SearchInv /\ NoInternalError => RefusalsJustified
  BY DEF SearchInv, RefusalsJustified, OmissionJustified
<1> QED BY <1>1, SearchInvariant, WalkIsConsistent, PTL

(***************************************************************************)
(* The search is first fit: every start before the chosen one overlaps     *)
(* another Task's interval, however the jumps skipped over it.             *)
(***************************************************************************)
THEOREM SearchIsFirstFit == Spec => []FirstFit
<1>1. SearchInv => FirstFit
  BY DEF SearchInv, FirstFit, FirstFitting
<1> QED BY <1>1, SearchInvariant, PTL

(***************************************************************************)
(* The report that comes with a Plan is true of that Plan, though its      *)
(* reasons were written when the schedule was still growing.               *)
(***************************************************************************)
THEOREM ReportIsHonest == Spec => []ReportHonest
BY SearchInvariant, PTL DEF SearchInv


-----------------------------------------------------------------------------
(***************************************************************************)
(* The contract of a candidate generator (PlanContract).  The steps of the *)
(* code that build an answer leave the contract's state alone; the last    *)
(* one delivers an acceptable Plan or refuses.                             *)
(***************************************************************************)
LEMMA PositionOf ==
  ASSUME NEW r, IsRequest(r), NEW i \in DOMAIN r.order
  PROVE  Position(r, r.order[i]) = i
BY DEF IsRequest, IsTopological, Position

(* A step the skeleton chose lies in the windows, at the anchor if there   *)
(* is one, and takes time.                                                 *)
LEMMA RequestedStepFits ==
  ASSUME TypeOK, NEW t \in Tasks, NEW step \in Step, AsRequested(t, step)
  PROVE  /\ step.start < step.end /\ step.deps = req.deps[t]
         /\ req.window.start <= step.start /\ step.end <= req.window.end
         /\ t \in DOMAIN req.taskWindow =>
              step.start >= req.taskWindow[t].start /\ step.end <= req.taskWindow[t].end
         /\ t \in DOMAIN req.anchor => step.start = req.anchor[t]
<1>1. /\ step = PlanStep(req, t, step.start)
      /\ EffectiveWindow(req, t).start <= step.start
      /\ step.end <= EffectiveWindow(req, t).end
      /\ t \in DOMAIN req.anchor => step.start = req.anchor[t]
  BY DEF AsRequested
<1>2. step.end = step.start + req.duration[t] /\ step.deps = req.deps[t]
  BY <1>1 DEF PlanStep
<1>3. /\ step.start \in Int /\ step.end \in Int /\ req.duration[t] \in Int /\ req.duration[t] > 0
      /\ req.window.start \in Int /\ req.window.end \in Int
  BY RequestFacts, TimeAssumption DEF Step, Time, Window
<1>4. CASE t \in DOMAIN req.taskWindow
  <2>1. req.taskWindow[t].start \in Int /\ req.taskWindow[t].end \in Int
    BY <1>4, RequestFacts DEF IsRequest, Window, Time
  <2>2. /\ Later(req.window.start, req.taskWindow[t].start) <= step.start
        /\ step.end <= Sooner(req.window.end, req.taskWindow[t].end)
    BY <1>1, <1>4 DEF EffectiveWindow
  <2>3. /\ req.window.start <= step.start /\ req.taskWindow[t].start <= step.start
        /\ step.end <= req.window.end /\ step.end <= req.taskWindow[t].end
    BY <1>3, <2>1, <2>2 DEF Later, Sooner
  <2> QED BY <1>1, <1>2, <1>3, <2>1, <2>3
<1>5. CASE t \notin DOMAIN req.taskWindow
  <2>1. EffectiveWindow(req, t) = req.window
    BY <1>5 DEF EffectiveWindow
  <2> QED BY <1>1, <1>2, <1>3, <1>5, <2>1
<1> QED BY <1>4, <1>5

(* The steps of a Plan stand in the calendar, and so apart.                *)
LEMMA PlanStepsApart ==
  ASSUME TypeOK, NoDoubleBooking, CalendarInv, phase = "schedule",
         NEW t \in DOMAIN scheduled, NEW u \in DOMAIN scheduled, t # u
  PROVE  ~Overlaps(scheduled[t].start, scheduled[t].end, scheduled[u])
<1> DEFINE o == Interval(scheduled[t])
           p == Interval(scheduled[u])
<1>1. Reserved(scheduled) \subseteq occupied
  BY DEF CalendarInv, CalendarExact
<1>2. o \in occupied /\ p \in occupied
  BY <1>1 DEF Reserved
<1>3. /\ o.task = t /\ o.start = scheduled[t].start /\ o.end = scheduled[t].end
      /\ p.task = u /\ p.start = scheduled[u].start /\ p.end = scheduled[u].end
  BY DEF Interval, TypeOK, IsSchedule
<1> HIDE DEF o, p
<1>4. ~Overlaps(o.start, o.end, p)
  BY <1>2, <1>3 DEF NoDoubleBooking
<1> QED BY <1>3, <1>4 DEF Overlaps

(* A Plan of requested steps that stand apart, each after its              *)
(* prerequisites, passes the pipeline's checks.                            *)
RequestedIn(p, t) ==
  /\ t \in Tasks /\ p[t] \in Step /\ AsRequested(t, p[t])
  /\ \A d \in req.deps[t] : d \in DOMAIN p /\ p[d].end <= p[t].start

Apart(p) == \A t, u \in DOMAIN p : t # u => ~Overlaps(p[t].start, p[t].end, p[u])

LEMMA RequestedPlanAccepted ==
  ASSUME TypeOK, NEW p, DOMAIN p # {}, \A t \in DOMAIN p : RequestedIn(p, t),
         Apart(p)
  PROVE  ValidatePlan(req, p) /\ PreservesSlack(req, p)
<1>2. ASSUME NEW t \in DOMAIN p
      PROVE  /\ t \in Tasks /\ p[t] \in Step /\ AsRequested(t, p[t])
             /\ \A d \in req.deps[t] : d \in DOMAIN p /\ p[d].end <= p[t].start
  BY DEF RequestedIn
<1>3. ASSUME NEW t \in DOMAIN p, NEW d \in req.deps[t]
      PROVE  Position(req, d) < Position(req, t)
  <2>1. PICK i \in DOMAIN req.order : req.order[i] = t
    BY <1>2, RequestFacts DEF IsRequest, IsTopological
  <2>2. PICK j \in DOMAIN req.order : j < i /\ req.order[j] = d
    BY <2>1, RequestFacts, PrerequisitesFirst
  <2>3. Position(req, req.order[i]) = i /\ Position(req, req.order[j]) = j
    BY PositionOf, RequestFacts
  <2> QED BY <2>1, <2>2, <2>3
<1>4. ValidatePlan(req, p)
  <2>1. ASSUME NEW t \in DOMAIN p
        PROVE  /\ p[t].start < p[t].end
               /\ \A d \in p[t].deps : d \in DOMAIN p /\ Position(req, d) < Position(req, t)
    <3>1. p[t].start < p[t].end /\ p[t].deps = req.deps[t]
      BY <1>2, <2>1, RequestedStepFits
    <3> QED BY <1>2, <1>3, <2>1, <3>1
  <2> QED BY <2>1 DEF ValidatePlan
<1>5. ASSUME NEW t \in DOMAIN p PROVE StepAdmissible(req, p, t)
  <2>2. /\ t \in Tasks /\ p[t] \in Step /\ AsRequested(t, p[t])
        /\ \A d \in req.deps[t] : d \in DOMAIN p /\ p[d].end <= p[t].start
    BY <1>2, <1>5
  <2>3. /\ p[t].start \in Int /\ p[t].end \in Int /\ req.window.start \in Int
    BY <2>2, RequestFacts DEF Step, Time, Window
  <2>4. /\ req.window.start <= p[t].start /\ p[t].end <= req.window.end
        /\ t \in DOMAIN req.taskWindow =>
             p[t].start >= req.taskWindow[t].start /\ p[t].end <= req.taskWindow[t].end
        /\ t \in DOMAIN req.anchor => p[t].start = req.anchor[t]
    BY <2>2, RequestedStepFits
  <2>5. InPlanWindow(req, p[t])
    BY <2>3, <2>4 DEF InPlanWindow
  <2> QED BY <2>2, <2>4, <2>5 DEF StepAdmissible
<1>6. ASSUME NEW t \in DOMAIN p, NEW u \in DOMAIN p, t # u
      PROVE  p[t].end <= p[u].start \/ p[u].end <= p[t].start
  <2>1. ~Overlaps(p[t].start, p[t].end, p[u])
    BY <1>6 DEF Apart
  <2>2. /\ p[t].start \in Int /\ p[t].end \in Int /\ p[u].start \in Int /\ p[u].end \in Int
    BY <1>2, <1>6 DEF Step, Time
  <2> QED BY <2>1, <2>2 DEF Overlaps
<1> QED BY <1>4, <1>5, <1>6 DEF PreservesSlack

(* What is scheduled when the walk is over is such a Plan.                 *)
LEMMA FreshPlanRequested ==
  ASSUME TypeOK, WalkInv, StepInv, req.mode = "fresh",
         NEW p, p = [t \in DOMAIN scheduled |-> scheduled[t]], NEW t \in DOMAIN p
  PROVE  RequestedIn(p, t)
<1>1. DOMAIN p = DOMAIN scheduled /\ \A u \in DOMAIN scheduled : p[u] = scheduled[u]
  OBVIOUS
<1>2. t \in Tasks /\ p[t] \in Step
  BY <1>1 DEF TypeOK, IsSchedule
<1>3. DOMAIN preserved = {}
  BY DEF StepInv
<1>4. AsRequested(t, p[t])
  BY <1>1, <1>3 DEF StepInv
<1>5. \A d \in req.deps[t] : d \in DOMAIN p /\ p[d].end <= p[t].start
  BY <1>1, <1>3 DEF WalkInv, DependencyOrder
<1> QED BY <1>2, <1>4, <1>5 DEF RequestedIn

(* What a generator promises of a Plan that leaves out the Tasks in u: it  *)
(* spares protected work, drops whole branches of dependents, shares no    *)
(* time and, for a fresh request, holds requested steps only.              *)
PlanFine(p, u) ==
  /\ DOMAIN p # {} /\ u = Tasks \ DOMAIN p
  /\ ProtectedTasks(req, {}) \cap u = {}
  /\ ClosedUnderDependents(req, u)
  /\ Apart(p)
  /\ req.mode = "fresh" => \A t \in DOMAIN p : RequestedIn(p, t)

(* The Plan that is emitted is acceptable, in repair as well.              *)
LEMMA EmittedAcceptable ==
  ASSUME TypeOK, NoDoubleBooking, ProtectionInv, WalkInv, CalendarInv, StepInv,
         Emit, phase' = "done"
  PROVE  /\ plan' = [t \in DOMAIN scheduled |-> scheduled[t]]
         /\ PlanFine(plan', DOMAIN unplaced')
         /\ excluded = Tasks \ DOMAIN plan'
<1>1. phase = "schedule" /\ Walking /\ ~InOrder
  BY DEF Emit, Walking
<1>2. Tasks \ excluded = DOMAIN scheduled
  BY <1>1, AllPassed
<1>3. /\ DOMAIN scheduled # {} /\ plan' = [t \in DOMAIN scheduled |-> scheduled[t]]
      /\ unplaced' = [t \in excluded |-> Report(t)]
  BY <1>2 DEF Emit, Fail
<1>4. /\ DOMAIN plan' = DOMAIN scheduled /\ \A t \in DOMAIN scheduled : plan'[t] = scheduled[t]
      /\ DOMAIN unplaced' = excluded /\ excluded \subseteq Tasks
  BY <1>3 DEF TypeOK
<1>5. ProtectedTasks(req, {}) \cap excluded = {}
  BY <1>1 DEF ProtectionInv, ProtectedKept, CalendarInv, FixedProtected
<1>6. ClosedUnderDependents(req, excluded)
  BY DEF WalkInv, ExclusionClosed
<1>7. Apart(plan')
  BY <1>1, <1>4, PlanStepsApart DEF Apart
<1>8. req.mode = "fresh" => \A t \in DOMAIN plan' : RequestedIn(plan', t)
  BY <1>3, FreshPlanRequested
<1> QED BY <1>2, <1>3, <1>4, <1>5, <1>6, <1>7, <1>8 DEF PlanFine

(* The contract's own words for the operators of PlanningRequest.          *)
LEMMA ContractWords ==
  ASSUME NEW r, NEW p, NEW u
  PROVE  /\ IsRequest(r) => Contract!IsRequest(r)
         /\ /\ DOMAIN p # {} /\ u = Tasks \ DOMAIN p
            /\ ProtectedTasks(r, {}) \cap u = {}
            /\ ClosedUnderDependents(r, u)
            /\ Apart(p)
            /\ r.mode = "fresh" => ValidatePlan(r, p) /\ PreservesSlack(r, p)
            => Contract!Acceptable(r, p, u)
<1>1. Contract!IsRequest(r) <=> IsRequest(r)
  BY DEF IsRequest, Contract!IsRequest, Contract!IsPossible, IsPossible, Contract!Window, Window,
         NoWindow, Contract!NoWindow, Time, Contract!Time, TaskContract, Contract!TaskContract,
         IsTopological, Contract!IsTopological, Ids, Contract!Ids, Step, Contract!Step,
         ValidStepSequence, Contract!ValidStepSequence
<1>2. Contract!ProtectedTasks(r, {}) = ProtectedTasks(r, {})
  BY DEF Contract!ProtectedTasks, ProtectedTasks, Contract!Prerequisites, Prerequisites,
         Contract!ClosedUnderDeps, ClosedUnderDeps
<1>3. Contract!ClosedUnderDependents(r, u) <=> ClosedUnderDependents(r, u)
  BY DEF Contract!ClosedUnderDependents, ClosedUnderDependents
<1>4. Contract!NothingShared(p) <=> Apart(p)
  BY DEF Apart, Contract!NothingShared, Contract!Overlaps, Overlaps
<1>5. Contract!ValidatePlan(r, p) <=> ValidatePlan(r, p)
  BY DEF Contract!ValidatePlan, ValidatePlan, Contract!Position, Position
<1>6. Contract!PreservesSlack(r, p) <=> PreservesSlack(r, p)
  BY DEF Contract!PreservesSlack, PreservesSlack, Contract!StepAdmissible, StepAdmissible,
         Contract!InPlanWindow, InPlanWindow
<1> QED BY <1>1, <1>2, <1>3, <1>4, <1>5, <1>6 DEF Contract!Acceptable

(* Every step answers the request, once, or does not touch the answer.     *)
LEMMA ContractStep ==
  TypeOK /\ NoDoubleBooking /\ ProtectionInv /\ WalkInv /\ CalendarInv /\ StepInv /\ [Next]_vars
    => [Contract!ContractNext]_(Contract!contractVars)
<1> SUFFICES ASSUME TypeOK, NoDoubleBooking, ProtectionInv, WalkInv, CalendarInv, StepInv,
                    [Next]_vars
             PROVE  [Contract!ContractNext]_(Contract!contractVars)
  OBVIOUS
<1>r. req' = req
  BY DEF Next, TaskStep, Open, CollectPrior, CollectDone, PreserveDone, AffixSkip, AffixAnchor,
         AffixReject, AffixDone, SkipExcluded, Emit, PushPreserved, KeepPreserved, KeepAffixed,
         StartPlacement, Bump, Place, Omit, RejectProtected, Fail, Advance, EnterPhase, Schedule,
         vars
<1>u. ASSUME phase \notin {"done", "failed"}, phase' \notin {"done", "failed"},
             UNCHANGED <<plan, unplaced>>
      PROVE  UNCHANGED Contract!contractVars
  BY <1>u, <1>r DEF Contract!contractVars
<1>f. ASSUME NEW reason, phase \notin {"done", "failed"}, Fail(reason) PROVE Contract!Refuse
  BY <1>f, <1>r DEF Fail, Contract!Refuse
<1> DEFINE Answers == UNCHANGED Contract!contractVars \/ Contract!Refuse
<1>1. CASE Open
  BY <1>1, <1>f, <1>u DEF Open, EnterPhase, Contract!ContractNext
<1>2. CASE CollectPrior \/ AffixSkip \/ AffixAnchor \/ SkipExcluded
  BY <1>2, <1>u DEF CollectPrior, AffixSkip, AffixAnchor, SkipExcluded, Advance
<1>3. CASE CollectDone \/ PreserveDone \/ AffixDone
  BY <1>3, <1>u DEF CollectDone, PreserveDone, AffixDone, EnterPhase
<1>4. CASE AffixReject
  BY <1>4, <1>f DEF AffixReject, Contract!ContractNext
<1>5. CASE Emit
  <2>1. CASE phase' = "done"
    <3>1. phase = "schedule"
      BY <1>5 DEF Emit
    <3>2. Contract!Acceptable(req, plan', DOMAIN unplaced')
      <4>1. PlanFine(plan', DOMAIN unplaced')
        BY <1>5, <2>1, EmittedAcceptable
      <4>2. req.mode = "fresh" => ValidatePlan(req, plan') /\ PreservesSlack(req, plan')
        BY <4>1, RequestedPlanAccepted DEF PlanFine
      <4> QED BY <4>1, <4>2, ContractWords DEF PlanFine
    <3>3. Contract!CandidateAcceptable'
      BY <3>2, <1>r DEF Contract!CandidateAcceptable
    <3>4. Contract!Deliver
      BY <2>1, <3>1, <3>3, <1>r DEF Contract!Deliver
    <3> QED BY <3>4 DEF Contract!ContractNext
  <2>2. CASE phase' # "done"
    BY <1>5, <2>2, <1>f DEF Emit, Contract!ContractNext
  <2> QED BY <2>1, <2>2
<1>6. ASSUME NEW t \in Tasks, TaskStep(t) PROVE Answers
  <2>1. CASE PushPreserved(t)
    BY <2>1, <1>f, <1>u DEF PushPreserved
  <2>2. CASE KeepPreserved(t)
    BY <2>2, <1>f, <1>u DEF KeepPreserved, Scheduling, Schedule, Advance
  <2>3. CASE KeepAffixed(t)
    BY <2>3, <1>f, <1>u DEF KeepAffixed, Scheduling, Schedule, Advance
  <2>4. CASE StartPlacement(t)
    BY <2>4, <1>f, <1>u DEF StartPlacement, Scheduling
  <2>5. CASE Bump(t) \/ Place(t) \/ Omit(t)
    BY <2>5, <1>u DEF Bump, Place, Omit
  <2>6. CASE RejectProtected(t)
    BY <2>6, <1>f DEF RejectProtected
  <2> QED BY <1>6, <2>1, <2>2, <2>3, <2>4, <2>5, <2>6 DEF TaskStep
<1>7. CASE UNCHANGED vars
  BY <1>7 DEF vars, Contract!contractVars
<1> QED BY <1>1, <1>2, <1>3, <1>4, <1>5, <1>6, <1>7 DEF Next, Contract!ContractNext

(***************************************************************************)
(* The greedy skeleton implements the contract of a generator: for every   *)
(* request it answers at most once, with a rejection or with a Plan that   *)
(* accounts for every Task, spares protected work, drops whole branches of *)
(* dependents, shares no time and, for a fresh request, passes both checks *)
(* of the pipeline.                                                        *)
(***************************************************************************)
THEOREM SkeletonImplementsContract == Spec => ImplementsContract
<1>1. Init => Contract!ContractInit
  <2> SUFFICES ASSUME Init PROVE Contract!ContractInit
    OBVIOUS
  <2>1. IsRequest(req)
    BY RequestsAssumption DEF Init
  <2>2. Contract!IsRequest(req)
    BY <2>1, ContractWords
  <2> QED BY <2>2 DEF Init, Contract!ContractInit, Empty
<1>2. Spec => [][Contract!ContractNext]_(Contract!contractVars)
  BY ContractStep, TypeCorrect, CalendarNeverOverlaps, ProtectionInvariant, WalkInvariant,
     CalendarInvariant, StepInvariant, PTL DEF Spec
<1> QED BY <1>1, <1>2, PTL DEF Spec, ImplementsContract, Contract!ContractSpec

=============================================================================
