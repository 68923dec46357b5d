------------------------- MODULE CandidateGeneration -------------------------
(***************************************************************************)
(* The two candidate generators of ubu-planning-cpu.  CpuStrategy          *)
(* (candidate_generation.rs) takes the greedy Plan and delays suffixes of  *)
(* it; ChunkedSweepStrategy (generate_candidates in chunked.rs) runs the   *)
(* sweep and the greedy planner, keeps the one that gives up less, or      *)
(* both, and delays tails of its chunks.                                   *)
(*                                                                         *)
(* The delays are tried in the order of a hash of the seed: here, in any   *)
(* order.  The sweep runs before the greedy walk goes on from where        *)
(* affix_fixed left it (see ChunkedSweep).                                 *)
(***************************************************************************)
EXTENDS ChunkedSweep

CONSTANT MaxCandidates   \* MAX_CANDIDATES and MAX_SWEEP_CANDIDATES

ASSUME CandidatesAssumption == MaxCandidates \in Nat \ {0, 1}

VARIABLES
  strategy,  \* "greedy" or "chunked"; never changes
  answer,    \* "pending", "open" while delays are added, "planned", "rejected"
  lead,      \* the first candidate
  others,    \* the further candidates
  report     \* the report all of them share

answerVars == <<answer, lead, others, report>>
allVars == <<vars, sweepVars, strategy, answerVars>>

Candidates == {lead} \cup others

-----------------------------------------------------------------------------
(* At most fifteen shifts, spread over the longest.                        *)
Shifts(longest) ==
  LET count == Sooner(longest, 15)
  IN  {(k * longest) \div count : k \in 1 .. count}

Delayed(tasks, shift) ==
  [t \in DOMAIN lead |->
     IF t \in tasks THEN [lead[t] EXCEPT !.start = @ + shift, !.end = @ + shift]
                    ELSE lead[t]]

OwnEnd(t, otherwise) == IF t \in DOMAIN req.taskWindow THEN req.taskWindow[t].end ELSE otherwise

(* The distance to the next interval that stays where it is. *)
RoomBehind(tasks, t) ==
  {o.start - lead[t].end : o \in {p \in occupied : p.task \notin tasks /\ p.start >= lead[t].end}}

(* bounded_perturbations: a suffix in the order of the Plan moves as one. *)
Suffix(t) == {u \in DOMAIN lead : Position(req, u) >= Position(req, t)}

Movable(tasks) ==
  \A t \in tasks : ~lead[t].static /\ lead[t].end > req.window.start
                                   /\ lead[t].start >= req.window.start

SuffixSlack(tasks) ==
  Min(UNION {{Later(0, req.window.end - lead[t].end),
              Later(0, OwnEnd(t, MaxTime) - lead[t].end)} \cup RoomBehind(tasks, t) : t \in tasks})

SuffixDelays ==
  UNION {{Delayed(Suffix(t), shift) : shift \in Shifts(SuffixSlack(Suffix(t)))} :
           t \in {u \in DOMAIN lead : Movable(Suffix(u))}}

(* add_tail_delays: the steps of a chunk from one of them on move as one. *)
InChunk(c) ==
  {t \in DOMAIN lead : /\ ~lead[t].static /\ t \notin DOMAIN preserved
                       /\ lead[t].start >= c.start /\ lead[t].end <= c.end}

ChunkTail(c, t) ==
  {u \in InChunk(c) : u = t \/ TripleBefore(<<lead[t].start, lead[t].end, Ordinal[t]>>,
                                            <<lead[u].start, lead[u].end, Ordinal[u]>>)}

TailSlack(c, tasks) ==
  Min({Later(0, Sooner(OwnEnd(t, c.end), c.end) - lead[t].end) : t \in tasks})

TailDelays ==
  UNION {UNION {{Delayed(ChunkTail(c, t), shift) : shift \in Shifts(TailSlack(c, ChunkTail(c, t)))} :
                  t \in InChunk(c)} : c \in sweep.chunks}

Delays == IF strategy = "greedy" THEN SuffixDelays ELSE TailDelays

-----------------------------------------------------------------------------
CandidateInit ==
  /\ SweepInit
  /\ strategy \in {"greedy", "chunked"}
  /\ answer = "pending" /\ lead = Empty /\ others = {} /\ report = Empty

(* Where affix_fixed has returned, and the sweep comes first. *)
SweepsFirst == strategy = "chunked" /\ stage = "idle" /\ phase = "schedule"

GreedyStep ==
  /\ stage \in {"idle", "done", "failed"} /\ ~SweepsFirst
  /\ Next
  /\ UNCHANGED <<sweepVars, strategy, answerVars>>

SweepRuns ==
  /\ strategy = "chunked"
  /\ SweepStep
  /\ UNCHANGED <<strategy, answerVars>>

Swept == stage = "done"
GreedyPlanned == phase = "done"

BothEnded ==
  /\ answer = "pending" /\ phase \in {"done", "failed"}
  /\ stage \in {"done", "failed"} \/ strategy = "greedy" \/ phase = "failed"

Offer(first, more, left) ==
  /\ answer' = "open" /\ lead' = first /\ others' = more \ {first} /\ report' = left
  /\ UNCHANGED <<vars, sweepVars, strategy>>

Reject ==
  /\ BothEnded /\ ~Swept /\ ~GreedyPlanned
  /\ answer' = "rejected"
  /\ UNCHANGED <<vars, sweepVars, strategy, lead, others, report>>

GreedyGivesUpLess == Swept => GivesUpLess(DOMAIN unplaced, beam[1].excluded)

OfferGreedy ==
  /\ BothEnded /\ GreedyPlanned /\ GreedyGivesUpLess
  /\ Offer(plan, {}, unplaced)

(* The branches that give up what the best one gives up.  There is one:    *)
(* branches with nothing left that give up the same have merged, and so    *)
(* the cap of the code never bites here.                                   *)
SweepPlans ==
  {SweepPlan(beam[i]) : i \in {j \in DOMAIN beam : beam[j].excluded = beam[1].excluded}}

(* Mutated form: the greedy Plan joins whatever it gives up.               *)
GreedyJoinsAlways == GreedyPlanned

GreedyJoins == GreedyPlanned /\ DOMAIN unplaced = beam[1].excluded

OfferSweep ==
  /\ BothEnded /\ Swept /\ ~(GreedyPlanned /\ GreedyGivesUpLess)
  /\ Offer(SweepPlan(beam[1]), SweepPlans \cup (IF GreedyJoins THEN {plan} ELSE {}),
           SweepReport(beam[1]))

AddDelay ==
  /\ answer = "open" /\ Cardinality(Candidates) < MaxCandidates
  /\ \E p \in Delays \ Candidates : others' = others \cup {p}
  /\ UNCHANGED <<vars, sweepVars, strategy, answer, lead, report>>

Answer ==
  /\ answer = "open"
  /\ Cardinality(Candidates) >= MaxCandidates \/ Delays \subseteq Candidates
  /\ answer' = "planned"
  /\ UNCHANGED <<vars, sweepVars, strategy, lead, others, report>>

CandidateNext ==
  \/ GreedyStep
  \/ SweepRuns
  \/ Reject
  \/ OfferGreedy
  \/ OfferSweep
  \/ AddDelay
  \/ Answer

CandidateSpec == CandidateInit /\ [][CandidateNext]_allVars

-----------------------------------------------------------------------------
(* The delays of the sweep leave every kept step where it was.             *)
KeptStepsStay ==
  \A p \in Candidates : \A t \in DOMAIN preserved \cap DOMAIN p : p[t] = preserved[t]

(* The sweep cuts the window around the fixed steps that take time; a kept *)
(* step that takes none, or ends before it starts, it does not see.        *)
KeptWellFormed == \A t \in DOMAIN preserved : preserved[t].start < preserved[t].end

(* Every candidate offered, delayed ones included, can be relied on like   *)
(* the greedy Plan (module PlanContract), and all leave out exactly the    *)
(* Tasks of the one report, so that their scores can be compared.  The     *)
(* greedy generator promises it whatever a repair keeps.                   *)
GeneratorContract ==
  INSTANCE PlanContract WITH request <- req, status <- answer, candidate <- lead,
                             left <- DOMAIN report

CandidatesAcceptable ==
  answer \in {"open", "planned"} /\ (strategy = "chunked" => KeptWellFormed) =>
    /\ \A p \in Candidates : GeneratorContract!Acceptable(req, p, DOMAIN report)
    /\ strategy = "chunked" => KeptStepsStay

OptionalIn(start, end, p) == \E u \in DOMAIN p \ protected : Overlaps(start, end, p[u])

(* Where the Task could have gone: the chunks the sweep offered it, or the *)
(* window the greedy planner looked in.                                    *)
Offered(t) ==
  IF "chunks" \in DOMAIN report[t] THEN report[t].chunks ELSE {EffectiveWindow(req, t)}

(* The report is true of the first candidate, whichever planner it is of   *)
(* and whatever was placed or given up after a reason was found: optional  *)
(* work that a Task lost to stands where the Task could have gone, and the *)
(* prerequisites and dependents an entry names are reported themselves.    *)
ReportTrue ==
  \A t \in DOMAIN report :
    LET entry == report[t] IN
    /\ entry.reason = "omitted_lower_value" =>
         \E c \in Offered(t) : OptionalIn(c.start, c.end, lead)
    /\ entry.reason = "deferred_dependency" =>
         entry.deferred # {} /\ entry.deferred \subseteq DOMAIN report
    /\ entry.affected \subseteq DOMAIN report

(* unplaced.rs, line 97, tells the user of such a Task that "other        *)
(* optional work uses the available time": optional work lies in the part  *)
(* of the window in which the Task may run.                                *)
LostToOptionalWork ==
  \A t \in DOMAIN report : report[t].reason = "omitted_lower_value" =>
    OptionalIn(EffectiveWindow(req, t).start, EffectiveWindow(req, t).end, lead)

=============================================================================
