---------------------------- MODULE ChunkedSweep ----------------------------
(***************************************************************************)
(* The bounded beam of ubu-planning-cpu, chunked.rs: sweep_plans cuts the  *)
(* window into the free chunks between fixed steps and sweeps them from    *)
(* left to right.  In each chunk every branch of the beam is filled by up  *)
(* to four rules; a filled branch gives up the work that fits no later     *)
(* chunk, branches in the same situation merge, and the best few go on.    *)
(*                                                                         *)
(* The sweep starts from what affix_fixed returns, which is the state the  *)
(* skeleton reaches when it begins to schedule (module Skeleton): the code *)
(* calls the same pure function once for each.  A chunk is its interval;   *)
(* the index the code gives it is its place in time.                       *)
(*                                                                         *)
(* Utilities are exact here and floating-point in the code: with the time  *)
(* a step ends before the window does as the unit, the quotient by the     *)
(* window's length, the same for all, is left out.                         *)
(***************************************************************************)
EXTENDS Skeleton, FiniteSetsExt

CONSTANTS
  Alternatives,  \* alternatives_per_chunk: how many rules fill a chunk
  BeamWidth,     \* beam_width: how many branches go on
  Ordinal        \* the place of every Task's id in the order of ids

FillRules == <<"value_first", "most_constrained_first", "value_density", "protected_first">>

ASSUME SweepAssumption ==
  /\ Alternatives \in DOMAIN FillRules /\ BeamWidth \in Nat \ {0}
  /\ Ordinal \in [Tasks -> Nat]
  /\ \A t, u \in Tasks : Ordinal[t] = Ordinal[u] => t = u
  /\ \A r \in Requests : r.value \in [Tasks -> Nat] /\ r.priority \in [Tasks -> Nat]

VARIABLES
  stage,     \* which loop of sweep_plans is running, or how it ended
  sweep,     \* what it is about: the fixed steps, chunks and releases
  turn,      \* position of the pass over the order
  here,      \* the chunk being swept
  beam,      \* the branches of this chunk, best first
  at, rule,  \* the branch and the rule whose turn it is
  child,     \* the branch being built
  failed,    \* Tasks that found no slot in this chunk
  seeking,   \* the Task looking for a slot, if any
  from,      \* the start it tries
  merged,    \* the branches built so far for the next chunk
  stranded,  \* protected Tasks for which a branch was given up
  trouble    \* reason of a failed sweep

search == <<seeking, from>>
place == <<turn, here, beam, at, rule>>
sweepVars == <<stage, sweep, place, child, failed, search, merged, stranded, trouble>>

NoChunk == [start |-> 0, end |-> 0]

-----------------------------------------------------------------------------
(* What is swept.                                                          *)
Gaps(window, busy) ==
  {c \in [start : {window.start} \cup {b.end : b \in busy},
          end   : {window.end} \cup {b.start : b \in busy}] :
     c.start < c.end /\ \A b \in busy : ~Overlaps(c.start, c.end, b)}

Clipped(window, intervals) ==
  {b \in {[start |-> Later(i.start, window.start), end |-> Sooner(i.end, window.end)] :
            i \in intervals} : b.start < b.end}

(* The free time of the window. *)
Partition(window, intervals) == Gaps(window, Clipped(window, intervals))

(* The earliest start of every Task that is not fixed, counting the time   *)
(* all its prerequisites take one after another.                           *)
Releases(fixed) ==
  LET release[i \in DOMAIN req.order] ==
        LET t == req.order[i] IN
        Max({EffectiveWindow(req, t).start} \cup
            {IF d \in DOMAIN fixed THEN fixed[d].end
               ELSE Sooner(release[Position(req, d)] + req.duration[d], MaxTime) :
               d \in req.deps[t]})
  IN  [t \in Tasks \ DOMAIN fixed |-> release[Position(req, t)]]

Units == Tasks \ DOMAIN sweep.fixed
Weight(t) == req.value[t] * req.priority[t]
BaseDeadline(t) == EffectiveWindow(req, t).end

(* A fixed step is held to the dependencies it names itself. *)
Named(t) == IF t \in DOMAIN sweep.fixed THEN sweep.fixed[t].deps ELSE req.deps[t]

Waiting(t, gone) == {u \in Tasks \ gone : t \in Named(u)}

(* Mutated form: the dependents of a Task do not bound it.                 *)
DeadlinesOfWindow(gone) == [t \in Units |-> BaseDeadline(t)]

(* The time by which a Task must have ended for those that wait for it and *)
(* are not given up.  The code walks the order backwards: a fixed step     *)
(* that waits for a later Task bounds it, but no longer its prerequisites. *)
Deadlines(gone) ==
  LET latest[i \in DOMAIN req.order] ==
        LET t == req.order[i]
            seen == {u \in Waiting(t, gone) : Position(req, u) > i}
        IN  IF t \in DOMAIN sweep.fixed THEN sweep.fixed[t].start
            ELSE Later(0, Min({BaseDeadline(t)} \cup {latest[Position(req, u)] : u \in seen})
                            - req.duration[t])
  IN  [t \in Units |->
         Min({BaseDeadline(t)} \cup {latest[Position(req, u)] : u \in Waiting(t, gone)})]

(* The chunks that hold a Task between its release and its deadline. *)
Eligible(t, gone) ==
  {c \in sweep.chunks : Later(c.start, sweep.release[t]) + req.duration[t]
                          <= Sooner(c.end, Deadlines(gone)[t])}

After(c) == {d \in sweep.chunks : d.start > c.start}

FirstOf(S) == CHOOSE c \in S : \A d \in S : c.start <= d.start

-----------------------------------------------------------------------------
(* Orders.  An Ordering chained with then is a list of differences of      *)
(* which the first that is not zero decides.                               *)
Precedes(differences) ==
  \E i \in DOMAIN differences :
    differences[i] < 0 /\ \A j \in 1 .. i - 1 : differences[j] = 0

Flag(b) == IF b THEN 1 ELSE 0

OwnDeadline(t) == IF t \in DOMAIN req.taskWindow THEN req.taskWindow[t].end ELSE MaxTime + 1

(* compare_protection: of more value, earlier deadline, smaller id. *)
Protection(l, r) ==
  <<req.value[r] - req.value[l], OwnDeadline(l) - OwnDeadline(r), Ordinal[l] - Ordinal[r]>>

MoreProtected(l, r) == Precedes(Protection(l, r))

MostProtected(S) == CHOOSE t \in S : \A u \in S \ {t} : MoreProtected(t, u)
LeastProtected(S) == CHOOSE t \in S : \A u \in S \ {t} : MoreProtected(u, t)

(* compare_omissions: the first difference between two sets sorted by      *)
(* protection is the most protected Task that only one of them gives up.   *)
GivesUpLess(S, T) == S # T /\ MostProtected(SymDiff(S, T)) \in T

Triples(placed) ==
  {<<placed[t].start, placed[t].end, Ordinal[t]>> : t \in DOMAIN placed}

TripleBefore(x, y) == Precedes(<<x[1] - y[1], x[2] - y[2], x[3] - y[3]>>)

(* placement_key: sorted vectors of starts, ends and ids in lexical order; *)
(* a vector that ends where the other goes on comes first.                 *)
KeyBefore(p, q) ==
  LET P == Triples(p)
      Q == Triples(q)
      only == SymDiff(P, Q)
      first == CHOOSE x \in only : \A y \in only \ {x} : TripleBefore(x, y)
  IN  /\ only # {}
      /\ IF first \in P THEN \E y \in Q : TripleBefore(first, y)
                        ELSE ~\E y \in P : TripleBefore(first, y)

(* Weight times the part of the window left when the Task ends. *)
UtilityOf(t, end) == Weight(t) * (req.window.end - end)

Utility(b) == SumFunction([t \in DOMAIN b.placed |-> UtilityOf(t, b.placed[t].end)])

-----------------------------------------------------------------------------
(* Branches.                                                               *)
Root == [remaining |-> Units, omitted |-> Empty, excluded |-> {},
         offered |-> Empty, placed |-> Empty]

(* A Task is given up with everything that waits for it; each keeps the    *)
(* chunks it could have gone to.                                           *)
Exclude(b, t, reason) ==
  LET out == WithDependents(req, {t})
      new == out \ b.excluded
  IN  [b EXCEPT !.remaining = @ \ new,
                !.omitted = With(@, t, reason),
                !.excluded = @ \cup out,
                !.offered = [u \in DOMAIN @ \cup (new \cap Units) |->
                               IF u \in new THEN Eligible(u, b.excluded) ELSE @[u]]]

(* Mutated form: required work in the way counts as optional work.         *)
StrandReasonAnyWork(b, t) ==
  IF \E u \in DOMAIN b.placed :
       \E c \in Eligible(t, b.excluded) : Overlaps(c.start, c.end, b.placed[u])
    THEN "omitted_lower_value" ELSE "insufficient_total_capacity"

StrandReason(b, t) ==
  IF \E u \in DOMAIN b.placed \ protected :
       \E c \in Eligible(t, b.excluded) : Overlaps(c.start, c.end, b.placed[u])
    THEN "omitted_lower_value" ELSE "insufficient_total_capacity"

EndOf(b, t) == IF t \in DOMAIN sweep.fixed THEN sweep.fixed[t].end ELSE b.placed[t].end

DepsPlaced(b, t) == req.deps[t] \subseteq DOMAIN sweep.fixed \cup DOMAIN b.placed

(* A branch's utility if every Task it has left went to its next chunk. *)
OptimisticScore(b) ==
  Utility(b) +
    SumFunction([t \in b.remaining |->
        LET later == Eligible(t, b.excluded) \cap After(here) IN
        IF later = {} THEN 0
        ELSE UtilityOf(t, Later(FirstOf(later).start, sweep.release[t]) + req.duration[t])])

RanksBefore(b, c) ==
  \/ GivesUpLess(b.excluded, c.excluded)
  \/ /\ b.excluded = c.excluded
     /\ \/ OptimisticScore(b) > OptimisticScore(c)
        \/ OptimisticScore(b) = OptimisticScore(c) /\ KeyBefore(b.placed, c.placed)

(* Mutated form: the beam is not cut to its width.                         *)
RankedAll(S) ==
  [i \in 1 .. Cardinality(S) |->
     CHOOSE b \in S : Cardinality({c \in S : RanksBefore(c, b)}) = i - 1]

Ranked(S) ==
  [i \in 1 .. Sooner(BeamWidth, Cardinality(S)) |->
     CHOOSE b \in S : Cardinality({c \in S : RanksBefore(c, b)}) = i - 1]

(* The report of a branch, as unplaced_report makes it. *)
SweepReport(b) ==
  [t \in b.excluded |->
     [reason   |-> IF t \in DOMAIN b.omitted THEN b.omitted[t] ELSE "deferred_dependency",
      deferred |-> IF t \in DOMAIN b.omitted THEN {} ELSE req.deps[t] \cap b.excluded,
      affected |-> DependentsOf(req, {t}) \cap b.excluded,
      chunks   |-> b.offered[t]]]

SweepPlan(b) ==
  [t \in DOMAIN sweep.fixed \cup DOMAIN b.placed |->
     IF t \in DOMAIN sweep.fixed THEN sweep.fixed[t] ELSE b.placed[t]]

-----------------------------------------------------------------------------
SweepInit ==
  /\ Init
  /\ stage = "idle"
  /\ sweep = [fixed |-> Empty, chunks |-> {}, release |-> Empty]
  /\ turn = 1 /\ here = NoChunk
  /\ beam = <<>> /\ at = 1 /\ rule = 1
  /\ child = [remaining |-> {}, omitted |-> Empty, excluded |-> {},
              offered |-> Empty, placed |-> Empty]
  /\ failed = {} /\ seeking = {} /\ from = 0
  /\ merged = {} /\ stranded = {} /\ trouble = "none"

Abandon(reason) ==
  /\ stage' = "failed" /\ trouble' = reason
  /\ UNCHANGED <<vars, sweep, place, child, failed, search, merged, stranded>>

Sets(c) == child' = c /\ UNCHANGED <<vars, sweep, place, failed, search, merged, stranded, trouble>>

Goes(s) ==
  /\ stage' = s
  /\ UNCHANGED <<vars, sweep, place, child, failed, search, merged, stranded, trouble>>

(* The step of a fixed Task begins before one it names has ended. *)
FixedCollide(fixed) ==
  \E t \in DOMAIN fixed : \E d \in fixed[t].deps \cap DOMAIN fixed :
    fixed[d].end > fixed[t].start

(* affix_fixed has returned. *)
Prepare ==
  /\ stage = "idle" /\ phase = "schedule" /\ next = 1
  /\ LET fixed == [t \in DOMAIN preserved \cup DOMAIN affixed |->
                     IF t \in DOMAIN preserved THEN preserved[t] ELSE affixed[t]]
     IN  /\ sweep' = [fixed |-> fixed, chunks |-> Partition(req.window, occupied),
                      release |-> Releases(fixed)]
         /\ IF FixedCollide(fixed)
              THEN /\ stage' = "failed" /\ trouble' = "fixed_dependency"
                   /\ UNCHANGED child
              ELSE /\ stage' = "outside" /\ child' = Root'
                   /\ UNCHANGED trouble
  /\ UNCHANGED <<vars, place, failed, search, merged, stranded>>

(***************************************************************************)
(* The root branch gives up what no chunk can hold.                        *)
(***************************************************************************)
FitsWindow(t) == sweep.release[t] + req.duration[t] <= BaseDeadline(t)

PassOutside ==
  /\ stage = "outside" /\ turn <= Len(req.order)
  /\ LET t == req.order[turn] IN
     IF t \notin child.remaining \/ FitsWindow(t)
       THEN turn' = turn + 1 /\ UNCHANGED <<stage, trouble, child>>
     ELSE IF t \in protected
       THEN stage' = "failed" /\ trouble' = "window" /\ UNCHANGED <<turn, child>>
     ELSE /\ turn' = turn + 1 /\ child' = Exclude(child, t, "outside_allowed_window")
          /\ UNCHANGED <<stage, trouble>>
  /\ UNCHANGED <<vars, sweep, here, beam, at, rule, failed, search, merged, stranded>>

OutsideDone ==
  /\ stage = "outside" /\ turn > Len(req.order)
  /\ Goes("homeless")

Homeless == {t \in child.remaining : Eligible(t, child.excluded) = {}}

(* Tasks nobody else in the branch waits for go first, then by id. *)
HomelessBefore(l, r) ==
  LET needed(t) == Flag(\E u \in child.remaining : t \in req.deps[u])
  IN  Precedes(<<needed(l) - needed(r), Ordinal[l] - Ordinal[r]>>)

Evict(t) ==
  /\ stage = "homeless" /\ t \in Homeless
  /\ \A u \in Homeless \ {t} : HomelessBefore(t, u)
  /\ IF t \in protected THEN Abandon("no_chunk")
     ELSE /\ Sets(Exclude(child, t, "no_eligible_chunk_large_enough"))
          /\ UNCHANGED stage

EvictDone ==
  /\ stage = "homeless" /\ Homeless = {}
  /\ beam' = <<child>>
  /\ IF sweep.chunks = {}
       THEN stage' = "over" /\ UNCHANGED here
       ELSE stage' = "fill" /\ here' = FirstOf(sweep.chunks)
  /\ UNCHANGED <<vars, sweep, turn, at, rule, child, failed, search, merged,
                 stranded, trouble>>

(***************************************************************************)
(* fill: one rule, one branch, one chunk.                                  *)
(***************************************************************************)
Ready(t) ==
  /\ t \in child.remaining \ failed
  /\ here \in Eligible(t, child.excluded)
  /\ DepsPlaced(child, t)

(* No chunk after this one. *)
Forced(t) == Eligible(t, child.excluded) \cap After(here) = {}

Options(t) == Cardinality(Eligible(t, child.excluded) \cap (After(here) \cup {here}))

ByRule(l, r) ==
  LET deadline(t) == Deadlines(child.excluded)[t]
      weight == Weight(r) - Weight(l)
      sooner == deadline(l) - deadline(r)
  IN  CASE FillRules[rule] = "value_first" -> <<weight, sooner>>
        [] FillRules[rule] = "most_constrained_first" -> <<Options(l) - Options(r), sooner, weight>>
        [] FillRules[rule] = "value_density" ->
             <<Weight(r) * req.duration[l] - Weight(l) * req.duration[r], sooner>>
        [] OTHER -> <<Flag(r \in protected) - Flag(l \in protected)>> \o Protection(l, r)

(* compare_units *)
Preferred(l, r) ==
  Precedes(<<Flag(Forced(r)) - Flag(Forced(l)),
             IF Forced(l) /\ Forced(r) THEN Flag(r \in protected) - Flag(l \in protected) ELSE 0>>
           \o ByRule(l, r) \o <<Ordinal[l] - Ordinal[r]>>)

EarliestIn(t) ==
  Max({here.start, sweep.release[t]} \cup {EndOf(child, d) : d \in req.deps[t]})

Choose(t) ==
  /\ stage = "fill" /\ Ready(t)
  /\ \A u \in Tasks \ {t} : Ready(u) => Preferred(t, u)
  /\ stage' = "seek" /\ seeking' = {t} /\ from' = EarliestIn(t)
  /\ UNCHANGED <<vars, sweep, place, child, failed, merged, stranded, trouble>>

Limit(t) == Sooner(here.end, Deadlines(child.excluded)[t])

InWay(start, end) == {u \in DOMAIN child.placed : Overlaps(start, end, child.placed[u])}

(* In time order: in any other order an earlier gap is skipped. *)
FirstInWay(S) ==
  CHOOSE u \in S : \A v \in S \ {u} :
    TripleBefore(<<child.placed[u].start, child.placed[u].end, Ordinal[u]>>,
                 <<child.placed[v].start, child.placed[v].end, Ordinal[v]>>)

SkipTarget(S) == child.placed[FirstInWay(S)].end

(* The slot at from ends in time. *)
InTime(t) == from + req.duration[t] <= Limit(t)

Blocking(t) == InWay(from, from + req.duration[t])

Skip(t) ==
  /\ stage = "seek" /\ t \in seeking /\ InTime(t) /\ Blocking(t) # {}
  /\ from' = SkipTarget(Blocking(t))
  /\ UNCHANGED <<vars, stage, sweep, place, child, failed, seeking, merged, stranded, trouble>>

PlaceUnit(t) ==
  /\ stage = "seek" /\ t \in seeking /\ InTime(t) /\ Blocking(t) = {}
  /\ child' = [child EXCEPT !.remaining = @ \ {t},
                            !.placed = With(@, t, PlanStep(req, t, from))]
  /\ stage' = "fill" /\ seeking' = {}
  /\ UNCHANGED <<vars, sweep, place, failed, from, merged, stranded, trouble>>

NoSlotLeft(t) ==
  /\ stage = "seek" /\ t \in seeking /\ ~InTime(t)
  /\ failed' = failed \cup {t}
  /\ stage' = "fill" /\ seeking' = {}
  /\ UNCHANGED <<vars, sweep, place, child, from, merged, stranded, trouble>>

FillDone ==
  /\ stage = "fill" /\ \A t \in Tasks : ~Ready(t)
  /\ Goes("strand")

(* The next rule for this branch, or the first for the next branch. *)
NextAlternative ==
  /\ failed' = {}
  /\ IF rule < Alternatives
       THEN rule' = rule + 1 /\ at' = at /\ child' = beam[at] /\ stage' = "fill"
     ELSE IF at < Len(beam)
       THEN rule' = 1 /\ at' = at + 1 /\ child' = beam[at + 1] /\ stage' = "fill"
     ELSE stage' = "cut" /\ UNCHANGED <<rule, at, child>>
  /\ UNCHANGED <<vars, sweep, turn, here, beam, search, trouble>>

(***************************************************************************)
(* Every Task left must have a chunk ahead; the rest is given up.          *)
(* project_omissions begins with the same loop, which then finds nothing.  *)
(***************************************************************************)
Stuck == {t \in child.remaining : Forced(t)}

StuckBefore(l, r) ==
  Precedes(<<Flag(~DepsPlaced(child, l)) - Flag(~DepsPlaced(child, r)), Ordinal[l] - Ordinal[r]>>)

Strand(t) ==
  /\ stage = "strand" /\ t \in Stuck
  /\ \A u \in Stuck \ {t} : StuckBefore(t, u)
  /\ IF t \notin protected
       THEN Sets(Exclude(child, t, StrandReason(child, t))) /\ UNCHANGED stage
       ELSE stranded' = stranded \cup {t} /\ NextAlternative /\ UNCHANGED merged

StrandDone ==
  /\ stage = "strand" /\ Stuck = {}
  /\ Goes("capacity")

(* Tasks that must be done by the end of a chunk ahead. *)
Due(c) ==
  {t \in child.remaining :
     LET chunks == Eligible(t, child.excluded) IN
     chunks # {} /\ \A d \in chunks : d.start <= c.start}

Capacity(c) ==
  MapThenSumSet(LAMBDA d : d.end - d.start, {d \in After(here) : d.start <= c.start})

Overfull ==
  {c \in After(here) : MapThenSumSet(LAMBDA t : req.duration[t], Due(c)) > Capacity(c)}

(* Giving up work only eases the chunks before, so the first overfull one  *)
(* is where the code's loop over the chunks stands.                        *)
Trim ==
  /\ stage = "capacity" /\ Overfull # {}
  /\ LET optional == Due(FirstOf(Overfull)) \ protected IN
     IF optional = {}
       THEN NextAlternative /\ UNCHANGED <<merged, stranded>>
       ELSE LET t == LeastProtected(optional) IN
            Sets(Exclude(child, t, StrandReason(child, t))) /\ UNCHANGED stage

(***************************************************************************)
(* Branches that omit and still have to place the same Tasks merge.  The   *)
(* code drops a filled branch at once if the same branch made it before;   *)
(* here it loses to the entry that one made.                               *)
(***************************************************************************)
SameCase(b, c) == b.excluded = c.excluded /\ b.remaining = c.remaining

BetterThan(b, old) ==
  \/ Utility(b) > Utility(old)
  \/ Utility(b) = Utility(old) /\ KeyBefore(b.placed, old.placed)

Merge ==
  /\ stage = "capacity" /\ Overfull = {}
  /\ LET rivals == {m \in merged : SameCase(m, child)} IN
       merged' = IF \A m \in rivals : BetterThan(child, m)
                   THEN (merged \ rivals) \cup {child} ELSE merged
  /\ NextAlternative
  /\ UNCHANGED stranded

(* The end of a chunk: the best branches go on to the next. *)
Cut ==
  /\ stage = "cut" /\ merged # {}
  /\ beam' = Ranked(merged) /\ at' = 1 /\ rule' = 1
  /\ merged' = {} /\ stranded' = {}
  /\ IF After(here) = {}
       THEN stage' = "over" /\ UNCHANGED <<here, child>>
       ELSE stage' = "fill" /\ here' = FirstOf(After(here)) /\ child' = beam'[1]
  /\ UNCHANGED <<vars, sweep, turn, failed, search, trouble>>

CutEmpty ==
  /\ stage = "cut" /\ merged = {}
  /\ Abandon("cannot_place_every_task")

Finish ==
  /\ stage = "over"
  /\ IF DOMAIN beam[1].placed \cup DOMAIN sweep.fixed = {}
       THEN Abandon("no_task_in_plan")
       ELSE Goes("done")

SweepTask(t) == Evict(t) \/ Choose(t) \/ Skip(t) \/ PlaceUnit(t) \/ NoSlotLeft(t) \/ Strand(t)

SweepStep ==
  \/ Prepare
  \/ PassOutside
  \/ OutsideDone
  \/ EvictDone
  \/ FillDone
  \/ StrandDone
  \/ Trim
  \/ Merge
  \/ Cut
  \/ CutEmpty
  \/ Finish
  \/ \E t \in Tasks : SweepTask(t)

-----------------------------------------------------------------------------
Stages == {"idle", "outside", "homeless", "fill", "seek", "strand", "capacity",
           "cut", "over", "done", "failed"}

SweepReasons == {"outside_allowed_window", "no_eligible_chunk_large_enough",
                 "omitted_lower_value", "insufficient_total_capacity"}

IsBranch(b) ==
  /\ b.remaining \subseteq Tasks /\ b.excluded \subseteq Tasks
  /\ IsSchedule(b.placed)
  /\ DOMAIN b.omitted \subseteq b.excluded
  /\ \A t \in DOMAIN b.omitted : b.omitted[t] \in SweepReasons
  /\ DOMAIN b.offered = b.excluded
  /\ \A t \in DOMAIN b.offered : b.offered[t] \subseteq sweep.chunks

Branches == {child} \cup {beam[i] : i \in DOMAIN beam} \cup merged

(* Every variable of the sweep has its type: no search runs past the end   *)
(* of time, and only movable Tasks are placed, given up or left, so the    *)
(* map of units is never asked for a fixed one.                            *)
SweepTypeOK ==
  /\ stage \in Stages
  /\ IsSchedule(sweep.fixed)
  /\ sweep.chunks \subseteq Window
  /\ sweep.release \in [Tasks \ DOMAIN sweep.fixed -> Time] \/ stage = "idle"
  /\ turn \in Nat \ {0} /\ here \in sweep.chunks \cup {NoChunk}
  /\ Len(beam) <= BeamWidth /\ at \in Nat \ {0} /\ rule \in 1 .. Alternatives
  /\ \A b \in Branches : IsBranch(b) /\ b.remaining \cup b.excluded \cup DOMAIN b.placed \subseteq Units
  /\ failed \subseteq Tasks
  /\ seeking \subseteq Units /\ from \in Time
  /\ stranded \subseteq protected

Sweeping == stage \notin {"idle", "failed"}

(* No branch loses a Task: every movable Task is placed, given up or still *)
(* to come, only one of them, what is given up is closed under dependents  *)
(* and unprotected, and after the last chunk nothing is still to come.     *)
BranchesAccount ==
  Sweeping => \A b \in Branches :
    /\ Units = b.remaining \cup b.excluded \cup DOMAIN b.placed
    /\ b.remaining \cap (b.excluded \cup DOMAIN b.placed) = {}
    /\ b.excluded \cap DOMAIN b.placed = {}
    /\ b.excluded \cap protected = {}
    /\ ClosedUnderDependents(req, b.excluded)
    /\ stage \in {"over", "done"} /\ b # child => b.remaining = {}

(* In every branch, at every moment, the steps placed so far lie in free   *)
(* chunks, do not overlap, keep their Tasks' windows, start after every    *)
(* prerequisite has ended and end before every fixed step that names them. *)
BranchesSound ==
  Sweeping => \A b \in Branches : \A t \in DOMAIN b.placed :
    LET step == b.placed[t] IN
    /\ \E c \in sweep.chunks : c.start <= step.start /\ step.end <= c.end
    /\ EffectiveWindow(req, t).start <= step.start /\ step.end <= EffectiveWindow(req, t).end
    /\ \A u \in DOMAIN b.placed \ {t} : ~Overlaps(step.start, step.end, b.placed[u])
    /\ DepsPlaced(b, t) /\ \A d \in req.deps[t] : EndOf(b, d) <= step.start
    /\ \A u \in DOMAIN sweep.fixed : t \in sweep.fixed[u].deps => step.end <= sweep.fixed[u].start

(* The search for a slot skips none: every start before the one it tries   *)
(* is in the way of a step of the branch.                                  *)
FirstSlot ==
  \A t \in seeking : \A s \in EarliestIn(t) .. from - 1 : InWay(s, s + req.duration[t]) # {}

(* What filling, trimming, merging and cutting keep true of every branch.  *)
BranchesHold == BranchesAccount /\ BranchesSound /\ FirstSlot

=============================================================================
