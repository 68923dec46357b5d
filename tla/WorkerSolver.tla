---------------------------- MODULE WorkerSolver ----------------------------
(***************************************************************************)
(* _solve of the Python worker (gpu-advisory, stage1.py): the greedy Plan, *)
(* its delays and its report computed a second time, by code that shares   *)
(* nothing with ubu-planning-cpu.  The planner takes the worker's answer   *)
(* only if it equals its own in every field (module Stage1), so that a     *)
(* worker that works as written is of use only where the two agree.        *)
(*                                                                         *)
(* The solver is a function of the request.  Its two loops over the order  *)
(* apply one turn after another to a record of its local variables; a      *)
(* failure, which raises an exception in the code, leaves the rest of the  *)
(* turns without effect.  What it checks of graph and order again is in    *)
(* TopologicalOrder.  The wire holds whole-second UTC: no sum overflows.   *)
(***************************************************************************)
EXTENDS CandidateGeneration

NoFailure == [task |-> "none", kind |-> "none"]
Failure(t, why) == [task |-> t, kind |-> why]

Span(start, length) == [start |-> start, end |-> start + length]

(* Everything not yet excluded that waits for an excluded Task is excluded *)
(* too, and so on until nothing changes; likewise what protected work      *)
(* needs.  No chain is longer than the Tasks.                              *)
Spread(S, edges) ==
  LET after[n \in 0 .. Cardinality(Tasks)] ==
        IF n = 0 THEN S ELSE after[n - 1] \cup UNION {edges[t] : t \in after[n - 1]}
  IN  after[Cardinality(Tasks)]

SolverProtected(r) == Spread(r.mandatory \cup DOMAIN r.anchor, r.deps)

Waiters(r) == [t \in Tasks |-> {u \in Tasks : t \in r.deps[u]}]

ExcludeWith(r, S) == Spread(S, Waiters(r))

(* bounds: where there is no room at all, an empty span.                   *)
NoBounds == Span(0, 0)

Bounds(r, t) ==
  LET own == IF t \in DOMAIN r.taskWindow THEN r.taskWindow[t] ELSE r.window
      lo == Later(r.window.start, own.start)
      hi == Sooner(r.window.end, own.end)
  IN  IF lo >= hi \/ hi - lo < r.duration[t] THEN NoBounds ELSE [start |-> lo, end |-> hi]

Hits(calendar, span) == {o \in calendar : span.start < o.end /\ span.end > o.start}

(* overlap: the calendar is sorted for every look at it.                   *)
FirstHit(calendar, span) ==
  LET hits == Hits(calendar, span)
  IN  CHOOSE o \in hits : \A p \in hits : o.start < p.start \/ (o.start = p.start /\ o.end <= p.end)

-----------------------------------------------------------------------------
(* One turn of the loop that affixes.                                      *)
Affix(r, sol, t) ==
  LET bounds == Bounds(r, t)
      span == Span(r.anchor[t], r.duration[t])
      stands == /\ bounds # NoBounds
                /\ span.start >= bounds.start /\ span.end <= bounds.end
                /\ Hits(sol.calendar, span) = {}
  IN  IF sol.failure # NoFailure \/ t \notin DOMAIN r.anchor THEN sol
      ELSE IF ~stands THEN [sol EXCEPT !.failure = Failure(t, "anchor_rejected")]
      ELSE [sol EXCEPT !.fixed = With(@, t, span),
                      !.calendar = @ \cup {[task |-> t, start |-> span.start, end |-> span.end]}]

(* Where the search for a start ends: past the end if it finds none.       *)
SearchEnd(r, calendar, t, first, last) ==
  LET stop[s \in Time] ==
        LET span == Span(s, r.duration[t])
        IN  IF span.end > last \/ Hits(calendar, span) = {} THEN s
            ELSE stop[Later(FirstHit(calendar, span).end, s + 1)]
  IN  stop[first]

(* Mutated form: the Task's own window is forgotten.                       *)
WhyOmittedInPlan(r, sol, t, earliest) ==
  IF earliest + r.duration[t] > r.window.end THEN "outside_allowed_window"
  ELSE IF \E o \in Hits(sol.calendar, [start |-> earliest, end |-> r.window.end]) :
            o.task \notin SolverProtected(r) THEN "omitted_lower_value"
  ELSE "insufficient_total_capacity"

WhyOmitted(r, sol, t, earliest) ==
  LET own == IF t \in DOMAIN r.taskWindow THEN r.taskWindow[t] ELSE r.window
      lo == Later(earliest, own.start)
      hi == Sooner(r.window.end, own.end)
  IN  IF lo + r.duration[t] > hi THEN "outside_allowed_window"
      ELSE IF \E o \in Hits(sol.calendar, [start |-> lo, end |-> hi]) :
                o.task \notin SolverProtected(r) THEN "omitted_lower_value"
      ELSE "insufficient_total_capacity"

(* One turn of the loop that schedules.                                    *)
Settle(r, sol, t) ==
  LET earliest == Max({r.window.start} \cup {sol.steps[d].end : d \in r.deps[t]})
      bounds == Bounds(r, t)
      start == SearchEnd(r, sol.calendar, t, Later(earliest, bounds.start), bounds.end)
      span == Span(start, r.duration[t])
      found == bounds # NoBounds /\ span.end <= bounds.end
  IN  IF sol.failure # NoFailure \/ t \in sol.excluded THEN sol
      ELSE IF t \in DOMAIN sol.fixed THEN
        IF sol.fixed[t].start < earliest THEN [sol EXCEPT !.failure = Failure(t, "anchor_rejected")]
        ELSE [sol EXCEPT !.steps = With(@, t, sol.fixed[t])]
      ELSE IF found THEN
        [sol EXCEPT !.steps = With(@, t, span),
                   !.calendar = @ \cup {[task |-> t, start |-> span.start, end |-> span.end]}]
      ELSE IF t \in SolverProtected(r) THEN [sol EXCEPT !.failure = Failure(t, "no_room")]
      ELSE [sol EXCEPT !.omitted = With(@, t, WhyOmitted(r, sol, t, earliest)),
                      !.excluded = ExcludeWith(r, @ \cup {t})]

Unsettled ==
  [fixed |-> Empty, steps |-> Empty, calendar |-> {}, omitted |-> Empty, excluded |-> {},
   failure |-> NoFailure]

(* The local variables after every turn of the two loops.                  *)
AfterAffixing(r) ==
  LET after[n \in 0 .. Len(r.order)] ==
        IF n = 0 THEN Unsettled ELSE Affix(r, after[n - 1], r.order[n])
  IN  after

AfterSettling(r) ==
  LET after[n \in 0 .. Len(r.order)] ==
        IF n = 0 THEN AfterAffixing(r)[Len(r.order)] ELSE Settle(r, after[n - 1], r.order[n])
  IN  after

Settled(r) ==
  LET settled == AfterSettling(r)[Len(r.order)]
  IN  IF r.window.start >= r.window.end
        THEN [Unsettled EXCEPT !.failure = Failure("none", "no_window")]
      ELSE IF settled.failure = NoFailure /\ DOMAIN settled.steps = {}
        THEN [settled EXCEPT !.failure = Failure("none", "empty_plan")]
      ELSE settled

-----------------------------------------------------------------------------
(* The proposals: suffixes of the base Plan, each shifted up to 15 ways.   *)
SolverShift(r, sol, suffix) ==
  LET base == sol.steps
      room(t) ==
        {r.window.end - base[t].end}
          \cup (IF t \in DOMAIN r.taskWindow THEN {Later(0, r.taskWindow[t].end - base[t].end)} ELSE {})
          \cup {o.start - base[t].end : o \in {p \in sol.calendar :
                  p.task \notin suffix /\ p.start >= base[t].end}}
  IN  Min({Later(0, m) : m \in UNION {room(t) : t \in suffix}})

SolverDelays(r, sol) ==
  LET base == sol.steps
      tail(t) == {u \in DOMAIN base : Position(r, u) >= Position(r, t)}
      rigid(t) == t \in DOMAIN r.anchor \/ base[t].end <= r.window.start
                                        \/ base[t].start < r.window.start
      pivots == {t \in DOMAIN base : \A u \in tail(t) : ~rigid(u)}
      moved(S, by) == [u \in DOMAIN base |->
                         IF u \in S THEN Span(base[u].start + by, r.duration[u]) ELSE base[u]]
      most(t) == SolverShift(r, sol, tail(t))
      count(t) == Sooner(most(t), 15)
  IN  UNION {{moved(tail(t), (k * most(t)) \div count(t)) : k \in 1 .. count(t)} : t \in pivots}

(* The checks reported with every candidate. *)
SolverFeasible(r, p) ==
  /\ \A t \in DOMAIN p : \A d \in r.deps[t] : p[t].start - p[d].end >= 0
  /\ \A t \in DOMAIN p :
       /\ p[t].start >= r.window.start /\ p[t].end <= r.window.end
       /\ t \in DOMAIN r.taskWindow =>
            p[t].start >= r.taskWindow[t].start /\ p[t].end <= r.taskWindow[t].end
       /\ t \in DOMAIN r.anchor => p[t].start = r.anchor[t]
  /\ \A t, u \in DOMAIN p : t # u => ~(p[t].start < p[u].end /\ p[t].end > p[u].start)

(* least_protected_first, for Tasks of equal worth an absent deadline and  *)
(* then a later one first. *)
SolverBefore(r, t, u) ==
  LET due(x) == x \in DOMAIN r.taskWindow
      end(x) == r.taskWindow[x].end
  IN  \/ r.value[t] < r.value[u]
      \/ /\ r.value[t] = r.value[u]
         /\ \/ ~due(t) /\ due(u)
            \/ due(t) /\ due(u) /\ end(t) > end(u)
            \/ due(t) = due(u) /\ (due(t) => end(t) = end(u)) /\ Ordinal[t] > Ordinal[u]

-----------------------------------------------------------------------------
Times(p) == [t \in DOMAIN p |-> [start |-> p[t].start, end |-> p[t].end]]

(* Who the planner refused a request over, and why.                        *)
Refusal ==
  IF failure \in {"anchor_rejected", "no_room"} THEN Failure(Current, failure)
                                                ELSE Failure("none", failure)

(* The two programs agree on every fresh request: they refuse the same     *)
(* ones, over the same Task and for the same reason; they place every Task *)
(* at the same time, leave out the same Tasks for the same reasons and     *)
(* list them in one order; and they delay the same suffixes as far, all to *)
(* candidates both find feasible.  Certification never refuses a worker    *)
(* that computes what stage1.py says.                                      *)
WorkerAgrees ==
  LET sol == Settled(req) IN
  strategy = "greedy" /\ req.mode = "fresh" =>
    /\ answer = "rejected" => sol.failure = Refusal
    /\ answer = "open" /\ others = {} =>
         /\ sol.failure = NoFailure
         /\ sol.steps = Times(lead)
         /\ [t \in sol.excluded |->
               IF t \in DOMAIN sol.omitted THEN sol.omitted[t] ELSE "deferred_dependency"]
              = [t \in DOMAIN report |-> report[t].reason]
         /\ \A t, u \in sol.excluded : SolverBefore(req, t, u) <=> MoreProtected(u, t)
         /\ SolverDelays(req, sol) = {Times(p) : p \in Delays}
         /\ \A p \in Delays \cup {lead} :
              SolverFeasible(req, Times(p)) /\ ValidatePlan(req, p) /\ PreservesSlack(req, p)

=============================================================================
