------------------------------ MODULE Skeleton ------------------------------
(***************************************************************************)
(* The greedy first-fit skeleton (ubu-planning-cpu, skeleton.rs):          *)
(* affix_fixed keeps the preserved steps of a prior Plan and affixes every *)
(* static Task at its anchor; build_skeleton then walks the Tasks in       *)
(* topological order, places each dynamic Task at the first start that     *)
(* does not overlap what is already occupied, and omits an optional Task   *)
(* that finds no room together with everything that waits for it.          *)
(*                                                                         *)
(* One step is one turn of one of the code's loops: over the prior steps,  *)
(* over the preserved map (a HashMap: any order), over the order for the   *)
(* anchors, over the order for the schedule, and the search for a start.   *)
(***************************************************************************)
EXTENDS PlanningRequest

CONSTANT Requests   \* the requests a behaviour may be about

ASSUME RequestsAssumption == \A r \in Requests : IsRequest(r)

VARIABLES
  req,        \* the request; never changes
  phase,      \* which loop is running, or how the call ended
  next,       \* position of the loop over req.prior or req.order
  cursor,     \* the start place_task tries
  preserved,  \* steps kept from the prior Plan, by Task
  occupied,   \* intervals no further step may overlap
  affixed,    \* anchored steps not yet taken over by the schedule
  protected,  \* Tasks that may not be omitted
  scheduled,  \* steps by Task
  omitted,    \* the reason of every Task that found no room
  excluded,   \* omitted Tasks and all their dependents
  plan,       \* the emitted Plan, by Task
  unplaced,   \* the emitted report, by Task
  failure     \* reason of a failed call

vars == <<req, phase, next, cursor, preserved, occupied, affixed, protected,
          scheduled, omitted, excluded, plan, unplaced, failure>>

Empty == <<>>

(* Insertion into a map. *)
With(map, t, value) ==
  [u \in DOMAIN map \cup {t} |-> IF u = t THEN value ELSE map[u]]

Interval(step) == [task |-> step.task, start |-> step.start, end |-> step.end]

(* Mutated form: only the start of a candidate is tested.                  *)
ClashingAtStart(start, end) == {o \in occupied : o.start <= start /\ start < o.end}

Clashing(start, end) == {o \in occupied : Overlaps(start, end, o)}

(* The vector is sorted by start and end, so its first overlap has least   *)
(* start, then least end; only that end matters to the search.             *)
FirstOverlap(start, end) ==
  CHOOSE o \in Clashing(start, end) :
    \A p \in Clashing(start, end) : o.start < p.start \/ (o.start = p.start /\ o.end <= p.end)

Current == req.order[next]

InOrder == next <= Len(req.order)

DependenciesScheduled(t) == req.deps[t] \subseteq DOMAIN scheduled

DependencyEnd(t) ==
  CHOOSE e \in {0} \cup {scheduled[d].end : d \in req.deps[t]} :
    \A d \in req.deps[t] : scheduled[d].end <= e

(* Mutated form: prerequisites are not waited for.                         *)
EarliestStartOfWindow(t) == req.window.start

EarliestStart(t) == Later(req.window.start, DependencyEnd(t))

MinimumStart(t) == Later(EarliestStart(t), EffectiveWindow(req, t).start)

(* Mutated form: the end of the candidate is not tested.                   *)
NoRoomAtStart(t, start) == ~WindowHolds(req, t) \/ start > EffectiveWindow(req, t).end

NoRoom(t, start) ==
  \/ ~WindowHolds(req, t)
  \/ start + req.duration[t] > MaxTime
  \/ start + req.duration[t] > EffectiveWindow(req, t).end

(* Mutated form: protected work is blamed on optional work.                *)
GreedyReasonAnyWork(t) ==
  IF Clashing(MinimumStart(t), EffectiveWindow(req, t).end) # {}
    THEN "omitted_lower_value" ELSE "insufficient_total_capacity"

GreedyReason(t) ==
  LET w == EffectiveWindow(req, t)
      start == MinimumStart(t)
  IN  IF start + req.duration[t] > Sooner(MaxTime, w.end)
        THEN "outside_allowed_window"
      ELSE IF \E o \in Clashing(start, w.end) : o.task \notin protected
        THEN "omitted_lower_value"
      ELSE "insufficient_total_capacity"

(* The report entry of an excluded Task. *)
Report(t) ==
  [reason   |-> IF t \in DOMAIN omitted THEN omitted[t] ELSE "deferred_dependency",
   deferred |-> IF t \in DOMAIN omitted THEN {} ELSE req.deps[t] \cap excluded,
   affected |-> DependentsOf(req, {t}) \cap excluded]

-----------------------------------------------------------------------------
Init ==
  /\ req \in Requests
  /\ phase = "open" /\ next = 1 /\ cursor = 0
  /\ preserved = Empty /\ occupied = {} /\ affixed = Empty
  /\ protected = {} /\ scheduled = Empty
  /\ omitted = Empty /\ excluded = {}
  /\ plan = Empty /\ unplaced = Empty
  /\ failure = "none"

Fail(reason) ==
  /\ phase' = "failed" /\ failure' = reason
  /\ UNCHANGED <<req, next, cursor, preserved, occupied, affixed, protected,
                 scheduled, omitted, excluded, plan, unplaced>>

Advance == next' = next + 1 /\ UNCHANGED <<req, phase, cursor, plan, unplaced, failure>>

EnterPhase(p) ==
  /\ phase' = p /\ next' = 1
  /\ UNCHANGED <<req, cursor, preserved, occupied, affixed,
                 scheduled, omitted, excluded, plan, unplaced, failure>>

(* affix_fixed: no window, no plan. *)
Open ==
  /\ phase = "open"
  /\ IF IsPossible(req.window)
       THEN EnterPhase("collect") /\ UNCHANGED protected
       ELSE Fail("no_window")

(* preserved_steps: a later step of the same Task replaces an earlier one. *)
CollectPrior ==
  /\ phase = "collect" /\ next <= Len(req.prior)
  /\ LET step == req.prior[next] IN
       preserved' = IF step.task \in Tasks /\ ShouldPreserve(req, step)
                      THEN With(preserved, step.task, step)
                      ELSE preserved
  /\ Advance
  /\ UNCHANGED <<occupied, affixed, protected, scheduled, omitted, excluded>>

CollectDone ==
  /\ phase = "collect" /\ next > Len(req.prior)
  /\ EnterPhase("preserve") /\ UNCHANGED protected

Unpushed == DOMAIN preserved \ {o.task : o \in occupied}

PushPreserved(t) ==
  /\ phase = "preserve" /\ t \in Unpushed
  /\ IF Clashing(preserved[t].start, preserved[t].end) = {}
       THEN /\ occupied' = occupied \cup {Interval(preserved[t])}
            /\ UNCHANGED <<req, phase, next, cursor, preserved, affixed, protected,
                           scheduled, omitted, excluded, plan, unplaced, failure>>
       ELSE Fail("preserved_collision")

PreserveDone ==
  /\ phase = "preserve" /\ Unpushed = {}
  /\ EnterPhase("affix") /\ UNCHANGED protected

(***************************************************************************)
(* affix_fixed: every static Task not preserved takes its anchor.          *)
(***************************************************************************)
(* Mutated form: a kept static Task is affixed again.                      *)
NeedsAffixingAgain(t) == t \in DOMAIN req.anchor

NeedsAffixing(t) == t \in DOMAIN req.anchor \ DOMAIN preserved

AnchorFits(t) ==
  LET start == req.anchor[t]
      end == start + req.duration[t]
  IN  /\ WindowHolds(req, t)
      /\ start >= EffectiveWindow(req, t).start
      /\ end <= MaxTime
      /\ end <= EffectiveWindow(req, t).end
      /\ Clashing(start, end) = {}

AffixSkip ==
  /\ phase = "affix" /\ InOrder /\ ~NeedsAffixing(Current)
  /\ Advance
  /\ UNCHANGED <<preserved, occupied, affixed, protected, scheduled, omitted, excluded>>

AffixAnchor ==
  /\ phase = "affix" /\ InOrder /\ NeedsAffixing(Current) /\ AnchorFits(Current)
  /\ LET step == PlanStep(req, Current, req.anchor[Current]) IN
       /\ affixed' = With(affixed, Current, step)
       /\ occupied' = occupied \cup {Interval(step)}
  /\ Advance
  /\ UNCHANGED <<preserved, protected, scheduled, omitted, excluded>>

AffixReject ==
  /\ phase = "affix" /\ InOrder /\ NeedsAffixing(Current) /\ ~AnchorFits(Current)
  /\ Fail("anchor_rejected")

(* build_skeleton computes what is protected before its loop. *)
AffixDone ==
  /\ phase = "affix" /\ ~InOrder
  /\ EnterPhase("schedule")
  /\ protected' = ProtectedTasks(req, DOMAIN preserved \cup DOMAIN affixed)

(***************************************************************************)
(* build_skeleton: the schedule.                                           *)
(***************************************************************************)
Scheduling(t) == phase = "schedule" /\ InOrder /\ t = Current /\ t \notin excluded

Schedule(t, step) ==
  /\ scheduled' = With(scheduled, t, step)
  /\ Advance
  /\ UNCHANGED <<preserved, protected, omitted, excluded>>

SkipExcluded ==
  /\ phase = "schedule" /\ InOrder /\ Current \in excluded
  /\ Advance
  /\ UNCHANGED <<preserved, occupied, affixed, protected, scheduled, omitted, excluded>>

(* A preserved step is held to the dependencies it names itself. *)
PreservedHolds(t) ==
  \A d \in preserved[t].deps :
    d \in DOMAIN scheduled /\ scheduled[d].end <= preserved[t].start

KeepPreserved(t) ==
  /\ Scheduling(t) /\ t \in DOMAIN preserved
  /\ IF PreservedHolds(t)
       THEN Schedule(t, preserved[t]) /\ UNCHANGED <<occupied, affixed>>
       ELSE Fail("preserved_dependency")

KeepAffixed(t) ==
  /\ Scheduling(t) /\ t \in DOMAIN affixed \ DOMAIN preserved
  /\ IF ~DependenciesScheduled(t) THEN Fail("dependency_missing")
     ELSE IF affixed[t].start < EarliestStart(t) THEN Fail("anchor_rejected")
     ELSE /\ Schedule(t, affixed[t])
          /\ affixed' = [u \in DOMAIN affixed \ {t} |-> affixed[u]]
          /\ UNCHANGED occupied

(* place_task's own branch for anchors is dead: a static Task is affixed.  *)
StartPlacement(t) ==
  /\ Scheduling(t) /\ t \notin DOMAIN affixed \cup DOMAIN preserved
  /\ IF ~DependenciesScheduled(t) THEN Fail("dependency_missing")
     ELSE /\ phase' = "place" /\ cursor' = MinimumStart(t)
          /\ UNCHANGED <<req, next, preserved, occupied, affixed, protected,
                         scheduled, omitted, excluded, plan, unplaced, failure>>

(***************************************************************************)
(* place_task: one step per candidate start.                               *)
(***************************************************************************)
CandidateEnd(t) == cursor + req.duration[t]

(* Mutated forms: the search skips a start; the search does not move.      *)
NextStartSkipping(t) == Sooner(FirstOverlap(cursor, CandidateEnd(t)).end + 1, MaxTime)
NextStartStuck(t) == Later(FirstOverlap(cursor, CandidateEnd(t)).start, cursor)

NextStart(t) ==
  Later(FirstOverlap(cursor, CandidateEnd(t)).end, Sooner(cursor + 1, MaxTime))

Bump(t) ==
  /\ phase = "place" /\ t = Current
  /\ ~NoRoom(t, cursor) /\ Clashing(cursor, CandidateEnd(t)) # {}
  /\ cursor' = NextStart(t)
  /\ UNCHANGED <<req, phase, next, preserved, occupied, affixed, protected,
                 scheduled, omitted, excluded, plan, unplaced, failure>>

Place(t) ==
  /\ phase = "place" /\ t = Current
  /\ ~NoRoom(t, cursor) /\ Clashing(cursor, CandidateEnd(t)) = {}
  /\ occupied' = occupied \cup {Interval(PlanStep(req, t, cursor))}
  /\ scheduled' = With(scheduled, t, PlanStep(req, t, cursor))
  /\ phase' = "schedule" /\ next' = next + 1
  /\ UNCHANGED <<req, cursor, preserved, affixed, protected, omitted, excluded,
                 plan, unplaced, failure>>

Omit(t) ==
  /\ phase = "place" /\ t = Current
  /\ NoRoom(t, cursor) /\ t \notin protected
  /\ omitted' = With(omitted, t, GreedyReason(t))
  /\ excluded' = excluded \cup WithDependents(req, {t})
  /\ phase' = "schedule" /\ next' = next + 1
  /\ UNCHANGED <<req, cursor, preserved, occupied, affixed, protected, scheduled,
                 plan, unplaced, failure>>

RejectProtected(t) ==
  /\ phase = "place" /\ t = Current
  /\ NoRoom(t, cursor) /\ t \in protected
  /\ Fail("no_room")

(* The Plan lists every Task that is not excluded. *)
Emit ==
  /\ phase = "schedule" /\ ~InOrder
  /\ LET kept == Tasks \ excluded IN
     IF ~(kept \subseteq DOMAIN scheduled) THEN Fail("task_not_scheduled")
     ELSE IF kept = {} THEN Fail("empty_plan")
     ELSE /\ plan' = [t \in kept |-> scheduled[t]]
          /\ unplaced' = [t \in excluded |-> Report(t)]
          /\ phase' = "done"
          /\ UNCHANGED <<req, next, cursor, preserved, occupied, affixed, protected,
                         scheduled, omitted, excluded, failure>>

TaskStep(t) ==
  \/ PushPreserved(t)
  \/ KeepPreserved(t)
  \/ KeepAffixed(t)
  \/ StartPlacement(t)
  \/ Bump(t)
  \/ Place(t)
  \/ Omit(t)
  \/ RejectProtected(t)

Next ==
  \/ Open
  \/ CollectPrior
  \/ CollectDone
  \/ PreserveDone
  \/ AffixSkip
  \/ AffixAnchor
  \/ AffixReject
  \/ AffixDone
  \/ SkipExcluded
  \/ Emit
  \/ \E t \in Tasks : TaskStep(t)

(* A single thread runs the call to its end: it never stops halfway. *)
Spec == Init /\ [][Next]_vars /\ WF_vars(Next)

-----------------------------------------------------------------------------
Phases == {"open", "collect", "preserve", "affix", "schedule", "place", "done", "failed"}

Reasons == {"outside_allowed_window", "omitted_lower_value", "insufficient_total_capacity"}

IsSchedule(map) ==
  /\ DOMAIN map \subseteq Tasks
  /\ \A t \in DOMAIN map : map[t] \in Step /\ map[t].task = t

(* Every variable has its type: times stay representable, so no sum that   *)
(* the code stores can have overflowed.                                    *)
TypeOK ==
  /\ req \in Requests
  /\ phase \in Phases
  /\ next \in Nat \ {0}
  /\ phase = "place" => InOrder
  /\ cursor \in Time
  /\ occupied \subseteq [task : Tasks, start : Time, end : Time]
  /\ IsSchedule(preserved) /\ IsSchedule(affixed) /\ IsSchedule(scheduled)
  /\ DOMAIN affixed \subseteq DOMAIN req.anchor
  /\ protected \subseteq Tasks /\ excluded \subseteq Tasks
  /\ DOMAIN omitted \subseteq excluded
  /\ \A t \in DOMAIN omitted : omitted[t] \in Reasons
  /\ IsSchedule(plan)
  /\ DOMAIN unplaced \subseteq Tasks

(* No two intervals of the calendar overlap, whatever mix of kept,         *)
(* anchored and placed steps they come from (push_occupied, place_task).   *)
NoDoubleBooking ==
  \A o, p \in occupied : o # p => ~Overlaps(o.start, o.end, p)

Reserved(map) == {Interval(map[t]) : t \in DOMAIN map}

(* Once the fixed steps are in, the calendar is exactly the kept, anchored *)
(* and scheduled steps, and at the end exactly the Plan: an omitted or     *)
(* doubly fixed Task leaves no ghost interval behind and no step of the    *)
(* Plan escapes the overlap test.                                          *)
CalendarExact ==
  /\ phase \in {"affix", "schedule", "place"} =>
       occupied = Reserved(preserved) \cup Reserved(affixed) \cup Reserved(scheduled)
  /\ phase = "done" => occupied = Reserved(plan)

(* Omission never reaches protected work: what is dropped with an optional *)
(* Task, its dependents to any depth, contains no mandatory, static or     *)
(* kept Task and none of their prerequisites.                              *)
ProtectedKept == excluded \cap protected = {}

(* What is dropped is closed under dependents.                             *)
ExclusionClosed == ClosedUnderDependents(req, excluded)

(* A step the skeleton chose, or an anchor, starts after every             *)
(* prerequisite the request gives its Task has ended.                      *)
DependencyOrder ==
  \A t \in DOMAIN scheduled \ DOMAIN preserved :
    \A d \in req.deps[t] : d \in DOMAIN scheduled /\ scheduled[d].end <= scheduled[t].start

(* The two diagnostics the code keeps for its own inconsistency,           *)
(* "dependency was not scheduled first" and "task was not scheduled", are  *)
(* never returned.                                                         *)
NoInternalError == failure \notin {"dependency_missing", "task_not_scheduled"}

(* No start from the earliest one on holds the Task in the calendar.       *)
NoSlot(t) ==
  \A s \in MinimumStart(t) .. MaxTime :
    NoRoom(t, s) \/ Clashing(s, s + req.duration[t]) # {}

(* An optional Task is omitted only when no start in its window, after its *)
(* prerequisites, fits the calendar, and nothing placed later changes      *)
(* that: at the end, no omitted Task could still be added to the Plan.     *)
OmissionJustified == \A t \in DOMAIN omitted : NoSlot(t)

(* A call fails for want of room only over a protected Task that fits      *)
(* nowhere in the calendar built so far.                                   *)
RejectionJustified ==
  failure = "no_room" => Current \in protected /\ NoSlot(Current)

(* Nothing is given up or refused in vain, and never for a reason of the   *)
(* code's own making.                                                      *)
RefusalsJustified == OmissionJustified /\ RejectionJustified /\ NoInternalError

GreedilyPlaced == DOMAIN scheduled \ (DOMAIN preserved \cup DOMAIN req.anchor)

(* First fit: the search jumps from the end of one overlap to the next and *)
(* skips no start that would have fitted.                                  *)
FirstFit ==
  \A t \in GreedilyPlaced :
    /\ scheduled[t].start >= MinimumStart(t)
    /\ \A s \in MinimumStart(t) .. scheduled[t].start - 1 :
         \E o \in Clashing(s, s + req.duration[t]) : o.task # t

(* The report tells the truth when the call ends: a Task said to be        *)
(* outside its window would not fit an empty calendar, one said to have    *)
(* lost to optional work really has an optional step in its window, and a  *)
(* deferred Task names a prerequisite that is itself reported.             *)
ReportHonest ==
  phase = "done" => \A t \in DOMAIN unplaced :
    LET entry == unplaced[t] IN
    /\ entry.reason = "outside_allowed_window" => NoRoom(t, MinimumStart(t))
    /\ entry.reason = "omitted_lower_value" =>
         \E u \in DOMAIN plan \ protected :
           Overlaps(MinimumStart(t), EffectiveWindow(req, t).end, plan[u])
    /\ entry.reason = "deferred_dependency" =>
         entry.deferred # {} /\ entry.deferred \subseteq DOMAIN unplaced
    /\ \A u \in entry.affected : t \in Prerequisites(req, {u})

(* The order in which the preserved map is iterated decides nothing: the   *)
(* call fails with a collision exactly when two kept steps overlap.        *)
PreservedVerdict ==
  LET collide == \E t, u \in DOMAIN preserved :
                   /\ t # u
                   /\ Overlaps(preserved[t].start, preserved[t].end, preserved[u])
  IN  /\ failure = "preserved_collision" => collide
      /\ phase \in {"affix", "schedule", "place", "done"} => ~collide

(* The calendar is exact, and so is the verdict on what opens it.          *)
CalendarHolds == CalendarExact /\ PreservedVerdict

(* Every call returns: the search for a start always moves right.          *)
Returns == <>(phase \in {"done", "failed"})

(* The skeleton implements the contract of a candidate generator.          *)
Contract ==
  INSTANCE PlanContract WITH
    request   <- req,
    status    <- CASE phase = "done" -> "planned"
                   [] phase = "failed" -> "rejected"
                   [] OTHER -> "pending",
    candidate <- plan,
    left      <- DOMAIN unplaced

(* The greedy planner answers every request once, with a rejection or with *)
(* a Plan that meets the contract.                                         *)
ImplementsContract == Contract!ContractSpec

=============================================================================
