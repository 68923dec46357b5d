------------------------------ MODULE Planning ------------------------------
(***************************************************************************)
(* The planning pipeline of ubu-planning-core: plan() and repair()         *)
(* (lib.rs) over any strategy that keeps the contract of module            *)
(* PlanContract, with request validation, legitimization, scoring and the  *)
(* ranking by rollouts.  One call follows the other; nothing is kept       *)
(* between calls.                                                          *)
(*                                                                         *)
(* A candidate is named by its place in the strategy's answer: plan ids    *)
(* compare in that order.  Scores are whole numbers, each proportional to  *)
(* the code's fraction within one answer; what is the same for all         *)
(* candidates of an answer (the spread of the durations) is left out, and  *)
(* the weights of the request absorb the scales.  What a rollout measures  *)
(* is any member of Draws: module Rollout models the walk itself.          *)
(* Diagnostics are the set of their codes.                                 *)
(***************************************************************************)
EXTENDS PlanningRequest, FiniteSetsExt

CONSTANTS
  Asks,         \* the calls made: a request with what surrounds it
  CpuSets(_),   \* the answers the CPU strategy may give to a request
  Draws,        \* what the rollouts of one candidate may measure
  DefaultTopK,  \* DEFAULT_ROLLOUT_TOP_K
  MaxTopK       \* MAX_ROLLOUT_TOP_K

VARIABLES
  pc,        \* "idle", "called", "built", "accepted", "offered", "scored",
             \* "reranked" or "answered"
  ask,       \* the call being answered
  oracle,    \* what the CPU strategy answers to it
  offer,     \* what the strategy in use answered
  next,      \* the candidate to be looked at
  kept,      \* the candidates that may be ranked
  codes,     \* the diagnostics so far
  cards,     \* scores, role and probability quality of the kept candidates
  stage3,    \* the ranking by scores alone
  order,     \* the ranking
  response   \* the answer

planningVars ==
  <<pc, ask, oracle, offer, next, kept, codes, cards, stage3, order, response>>

Contract == INSTANCE PlanContract WITH request <- ask, status <- pc,
                                       candidate <- offer, left <- offer

(* How the planner describes a Task it leaves out (Skeleton!Report).       *)
Entry(r, excluded, t, why) ==
  [reason   |-> why,
   deferred |-> IF why = "deferred_dependency" THEN r.deps[t] \cap excluded ELSE {},
   affected |-> DependentsOf(r, {t}) \cap excluded]

(* CandidateSet: Plans and one report, both by Task.                       *)
IsPlan(p) == DOMAIN p \subseteq Tasks /\ p \in [DOMAIN p -> Step]

IsReport(left) ==
  /\ DOMAIN left \subseteq Tasks
  /\ left \in [DOMAIN left ->
                [reason : STRING, deferred : SUBSET Tasks, affected : SUBSET Tasks]]

IsCandidateSet(set) ==
  /\ set = [plans |-> set.plans, left |-> set.left, failure |-> set.failure]
  /\ set.plans \in Seq({set.plans[i] : i \in DOMAIN set.plans})
  /\ \A i \in DOMAIN set.plans : IsPlan(set.plans[i])
  /\ IsReport(set.left)

(* An answer of the CPU strategy: a failure, or candidates that all keep   *)
(* the contract and leave out the Tasks of the one report; but for what a  *)
(* repair kept, every step is one the planner made of the request.         *)
KeepsContract(r, set) ==
  LET left == DOMAIN set.left IN
  /\ IsCandidateSet(set)
  /\ set.plans = <<>> =>
       left = {} /\ set.failure \in {"skeleton_failure", "dependency_cycle"}
  /\ set.plans # <<>> =>
       /\ set.failure = "none"
       /\ \A t \in left : set.left[t] = Entry(r, left, t, set.left[t].reason)
       /\ \A i \in DOMAIN set.plans :
            /\ Contract!Acceptable(r, set.plans[i], left)
            /\ r.mode = "fresh" => \A t \in DOMAIN set.plans[i] :
                 set.plans[i][t] = PlanStep(r, t, set.plans[i][t].start)

NoSet == [plans |-> <<>>, left |-> <<>>, failure |-> "none"]
NoAsk == [entry |-> "none"]
NoResponse == [status |-> "none", plans |-> <<>>, left |-> <<>>, codes |-> {}]

-----------------------------------------------------------------------------
(* Request validation.  What the model does not keep apart (Tasks, their   *)
(* windows, the weights) arrives as codes in flaws; a cycle is looked for  *)
(* only where nothing else is wrong.                                       *)
SchemaCode(a) == {a.schema} \ {"current"}

HorizonCode(a) == IF a.horizon THEN {} ELSE {"rollout_validation"}

ContextCode(a) ==
  IF a.request.mode = "repair" /\ ~a.context THEN {"skeleton_failure"} ELSE {}

Diagnoses(a) ==
  LET plain == SchemaCode(a) \cup HorizonCode(a) \cup ContextCode(a)
                 \cup (a.flaws \ {"cyclic_dependency"})
  IN  IF plain = {} THEN a.flaws ELSE plain

(* What repair() looks at before it builds a request: one code at most.    *)
RepairCodes(a) == IF SchemaCode(a) # {} THEN SchemaCode(a) ELSE HorizonCode(a)

(* candidate_time_window: the span of the steps, where there is one.       *)
SpanOf(steps) ==
  LET span == [start |-> Min({steps[i].start : i \in DOMAIN steps}),
               end   |-> Max({steps[i].end : i \in DOMAIN steps})]
  IN  IF steps # <<>> /\ IsPossible(span) THEN span ELSE NoWindow

(* The request repair() makes of its own, which replaces the caller's      *)
(* settings for rollouts and scoring by the defaults.                      *)
Built(a) ==
  LET r == a.request
      made == [r EXCEPT !.mode = "repair", !.prior = a.candidate,
                        !.window = IF r.window = NoWindow THEN SpanOf(a.candidate) ELSE r.window,
                        !.scope = IF a.context THEN r.scope ELSE "remaining_window",
                        !.diverged = IF a.context THEN r.diverged ELSE {}]
  IN  [a EXCEPT
         !.request = made, !.context = TRUE, !.rollouts = "some", !.topK = DefaultTopK,
         !.strict = FALSE,
         !.weights = [utility |-> 1, robustness |-> 1, margin |-> 1, diversity |-> 1]]

ByTask(steps) ==
  [t \in {steps[i].task : i \in DOMAIN steps} |->
     CHOOSE s \in {steps[i] : i \in DOMAIN steps} : s.task = t]

-----------------------------------------------------------------------------
(* Legitimization.  Every dimension of the affect profile has a standing:  *)
(* "unseen" without an observation, "unusable" where the numbers yield no  *)
(* satisfaction, else "short" of the threshold or "met".                   *)
Usable(a) == {d \in DOMAIN a.affect.dims : a.affect.dims[d].standing \in {"short", "met"}}

AffectPassed(a) == \A d \in DOMAIN a.affect.dims : a.affect.dims[d].standing = "met"

(* Mutated form: a profile that only warns refuses as well.                *)
WarningsRefuse(a) == AffectPassed(a)

AffectAdmits(a) == a.affect.mode = "enforce" => AffectPassed(a)

EvaluationPoint(plan) == Min({plan[t].start : t \in DOMAIN plan})

StaleCode(a, plan) ==
  {"stale_affect" : d \in {e \in Usable(a) :
     Later(0, EvaluationPoint(plan) - a.affect.dims[e].at) > a.affect.dims[e].fresh}}

-----------------------------------------------------------------------------
(* Scoring.                                                                *)
Length(r) == Later(1, r.window.end - r.window.start)
Distance(x, y) == Later(x, y) - Sooner(x, y)

(* Without a window for the Plan nothing is measured. *)
Measured(a, value) == IF a.request.window = NoWindow THEN 0 ELSE value

Utility(a, plan) ==
  LET r == a.request
      Earned(t) ==
        a.worth[t] * (Length(r) - Sooner(Length(r), Later(0, plan[t].end - r.window.start)))
  IN  Measured(a, SumFunction([t \in DOMAIN plan |-> Earned(t)]))

(* The distance to prerequisites, or to the end of the window where no     *)
(* Task has any; the mean is cut to the length of the window.              *)
Slack(a, plan) ==
  LET r == a.request
      placed == DOMAIN plan
      edges == {e \in Tasks \X Tasks : e[1] \in r.deps[e[2]]}
      Between(e) == Later(0, plan[e[2]].start - plan[e[1]].end)
      Behind(t) == Later(0, r.window.end - plan[t].end)
      sum == IF edges = {} THEN SumFunction([t \in placed |-> Behind(t)])
                           ELSE SumFunction([e \in edges \cap (placed \X placed) |-> Between(e)])
  IN  Measured(a, Sooner(sum, Length(r) * Cardinality(IF edges = {} THEN placed ELSE edges)))

(* schedule_distance: how far the starts are apart. *)
Diversity(a, plan, reference) ==
  LET common == DOMAIN plan \cap DOMAIN reference
      Apart(t) == Distance(plan[t].start, reference[t].start)
  IN  Measured(a, Sooner(SumFunction([t \in common |-> Apart(t)]), Cardinality(common) * Length(a.request)))

(* The same for all candidates: satisfaction less threshold knows no Plan. *)
Margin(a) ==
  IF Usable(a) = {} THEN 2
  ELSE IF \E d \in Usable(a) : a.affect.dims[d].standing = "short" THEN 0 ELSE 1

(* grounded is twice the robustness, or robustness and probability.        *)
Total(a, score, grounded) ==
  LET w == a.weights
  IN  w.utility * score.utility + w.robustness * grounded
        + w.margin * score.margin + w.diversity * score.diversity

Winner(S, m) ==
  CHOOSE i \in S : \A j \in S : m[j] < m[i] \/ (m[j] = m[i] /\ i <= j)

Scored(a, plans, S) ==
  LET reference == plans[Winner(S, [i \in S |-> Utility(a, plans[i])])]
      Plain(i) == [utility |-> Utility(a, plans[i]), robustness |-> Slack(a, plans[i]),
                   margin |-> Margin(a), diversity |-> Diversity(a, plans[i], reference),
                   total |-> 0]
  IN  [i \in S |-> [Plain(i) EXCEPT !.total = Total(a, Plain(i), 2 * Plain(i).robustness)]]

Roles(scores) ==
  LET S == DOMAIN scores
      Best(field) == Winner(S, [i \in S |-> scores[i][field]])
  IN  [i \in S |-> CASE i = Best("utility") -> "highest_utility"
                     [] i = Best("robustness") /\ i # Best("utility") -> "most_robust"
                     [] i = Best("diversity") /\ i \notin {Best("utility"), Best("robustness")}
                          -> "most_schedule_diverse"
                     [] OTHER -> "other"]

(* compare_candidates. *)
Ranks(score) ==
  <<score.total, score.utility, score.robustness, score.margin, score.diversity>>

Precedes(scores, i, j) ==
  LET x == Ranks(scores[i])
      y == Ranks(scores[j])
  IN  \/ \E n \in DOMAIN x : x[n] > y[n] /\ \A m \in 1 .. n - 1 : x[m] = y[m]
      \/ x = y /\ i < j

Ranked(scores, S) ==
  [n \in 1 .. Cardinality(S) |->
     CHOOSE i \in S : Cardinality({j \in S : Precedes(scores, j, i)}) = n - 1]

ScoresOf(c) == [i \in DOMAIN c |-> c[i].score]

WithRoles(scores, qualities) ==
  [i \in DOMAIN scores |->
     [score |-> scores[i], role |-> Roles(scores)[i], quality |-> qualities[i]]]

-----------------------------------------------------------------------------
Plannable(a) == Diagnoses(a) = {}

CorrelationQualities ==
  {"full", "degraded_numeric_jitter", "degraded_independence", "invalid"}

Weights == [utility : Int, robustness : Int, margin : Int, diversity : Int]

(* The form of a call, and of what is measured in answering it.            *)
ASSUME FormsAssumption ==
  /\ IsFiniteSet(Tasks) /\ DefaultTopK \in Nat /\ MaxTopK \in Nat
  /\ Draws \subseteq [robustness : Int, probability : Int]
  /\ \A a \in Asks :
       /\ DOMAIN a = {"entry", "schema", "horizon", "flaws", "context", "request", "candidate",
                      "affect", "rollouts", "topK", "strict", "correlation", "weights", "worth",
                      "wire"}
       /\ a.entry \in {"plan", "repair", "stage1", "transport"}
       /\ {"mode", "prior", "window", "scope", "diverged"} \subseteq DOMAIN a.request
       /\ a.topK \in Nat /\ a.correlation \in CorrelationQualities
       /\ a.worth \in [Tasks -> Int] /\ a.weights \in Weights

(* A call that is not refused is about a valid request, one that repair()  *)
(* built included, and the CPU strategy answers it.                        *)
ASSUME AsksAssumption ==
  \A a \in Asks :
    LET made == IF a.entry = "repair" THEN Built(a) ELSE a IN
    Plannable(made) /\ ~(a.entry = "repair" /\ ValidStepSequence(a.candidate)) =>
      /\ IsRequest(made.request)
      /\ CpuSets(made.request) # {}
      /\ \A set \in CpuSets(made.request) : KeepsContract(made.request, set)

PlanningInit ==
  /\ pc = "idle" /\ ask = NoAsk
  /\ oracle = NoSet /\ offer = NoSet /\ next = 1 /\ kept = {} /\ codes = {}
  /\ cards = <<>> /\ stage3 = <<>> /\ order = <<>> /\ response = NoResponse

Begin(a) ==
  /\ pc = "idle" /\ pc' = "called"
  /\ ask' = a
  /\ UNCHANGED <<oracle, offer, next, kept, codes, cards, stage3, order, response>>

Respond(status, plans, left, cs) ==
  /\ pc' = "answered"
  /\ response' = [status |-> status, plans |-> plans, left |-> left, codes |-> cs]
  /\ UNCHANGED <<ask, oracle, offer, next, kept, codes, cards, stage3, order>>

Reject(cs) == Respond("rejected", <<>>, <<>>, cs)

RepairRefused ==
  /\ pc = "called" /\ ask.entry = "repair"
  /\ RepairCodes(ask) # {}
  /\ Reject(RepairCodes(ask))

RepairUnchanged ==
  /\ pc = "called" /\ ask.entry = "repair"
  /\ RepairCodes(ask) = {} /\ ValidStepSequence(ask.candidate)
  /\ Respond("ok", <<ByTask(ask.candidate)>>, <<>>, {})

RepairBuilt ==
  /\ pc = "called" /\ ask.entry = "repair"
  /\ RepairCodes(ask) = {} /\ ~ValidStepSequence(ask.candidate)
  /\ pc' = "built" /\ ask' = Built(ask)
  /\ UNCHANGED <<oracle, offer, next, kept, codes, cards, stage3, order, response>>

AtPlan == pc = "built" \/ (pc = "called" /\ ask.entry # "repair")

Refuse ==
  /\ AtPlan /\ Diagnoses(ask) # {}
  /\ Reject(Diagnoses(ask))

(* What the CPU strategy will answer is settled by the request alone.      *)
Accept ==
  /\ AtPlan /\ Diagnoses(ask) = {}
  /\ pc' = "accepted"
  /\ oracle' \in CpuSets(ask.request)
  /\ UNCHANGED <<ask, offer, next, kept, codes, cards, stage3, order, response>>

Take(set) ==
  /\ pc' = "offered" /\ offer' = set
  /\ UNCHANGED <<ask, oracle, next, kept, codes, cards, stage3, order, response>>

(* CpuStrategy itself is asked.                                            *)
Generate == pc = "accepted" /\ Take(oracle)

GenerationFailed ==
  /\ pc = "offered" /\ offer.plans = <<>>
  /\ Reject({"skeleton_failure"})

(* One candidate after the other is looked at.                             *)
Looking == pc = "offered" /\ next \in DOMAIN offer.plans

Looked(cs, ks) ==
  /\ next' = next + 1 /\ codes' = codes \cup cs /\ kept' = kept \cup ks
  /\ UNCHANGED <<pc, ask, oracle, offer, cards, stage3, order, response>>

RefuseInvalid ==
  /\ Looking /\ ~ValidatePlan(ask.request, offer.plans[next])
  /\ Looked({"invalid_plan"}, {})

RefuseAffect ==
  /\ Looking /\ ValidatePlan(ask.request, offer.plans[next])
  /\ ~AffectAdmits(ask)
  /\ Looked(StaleCode(ask, offer.plans[next]), {})

(* No diagnostic says so. *)
RefuseObvious ==
  /\ Looking /\ ValidatePlan(ask.request, offer.plans[next])
  /\ AffectAdmits(ask) /\ ~PreservesSlack(ask.request, offer.plans[next])
  /\ Looked(StaleCode(ask, offer.plans[next]), {})

Keep ==
  /\ Looking /\ ValidatePlan(ask.request, offer.plans[next])
  /\ AffectAdmits(ask) /\ PreservesSlack(ask.request, offer.plans[next])
  /\ Looked(StaleCode(ask, offer.plans[next]), {next})

AllLooked == pc = "offered" /\ offer.plans # <<>> /\ next \notin DOMAIN offer.plans

NothingKept ==
  /\ AllLooked /\ kept = {}
  /\ Reject(codes)

Score ==
  /\ AllLooked /\ kept # {}
  /\ \E scores \in {Scored(ask, offer.plans, kept)} :
       /\ cards' = WithRoles(scores, [i \in kept |-> "not_estimated"])
       /\ stage3' = Ranked(scores, kept)
       /\ order' = stage3'
  /\ pc' = "scored"
  /\ UNCHANGED <<ask, oracle, offer, next, kept, codes, response>>

-----------------------------------------------------------------------------
(* Stage 4: the first in rank are tried out and ranked anew.               *)
TopK == Sooner(Sooner(ask.topK, MaxTopK), Cardinality(kept))

CapCode ==
  IF ask.rollouts = "over" \/ ask.topK > MaxTopK THEN {"rollout_degraded"} ELSE {}

(* Loadings above the cap are scaled, with a warning, and leave the        *)
(* quality full; every other warning lowers it.                            *)
QualityCode(scaled) ==
  IF ask.correlation = "full" /\ ~scaled THEN {} ELSE {"rollout_degraded"}

NoRollout == ask.rollouts = "none" \/ TopK = 0

SkipRollout ==
  /\ pc = "scored" /\ NoRollout
  /\ pc' = "reranked" /\ codes' = codes \cup CapCode
  /\ UNCHANGED <<ask, oracle, offer, next, kept, cards, stage3, order, response>>

(* A correlation matrix that is none, or one that cannot be factored where *)
(* the caller asked for strict validation.                                 *)
NoFactor ==
  ask.correlation = "invalid" \/ (ask.correlation = "degraded_independence" /\ ask.strict)

RolloutFails ==
  /\ pc = "scored" /\ ~NoRollout /\ NoFactor
  /\ Reject(codes \cup {"rollout_validation"})

Finalists == {stage3[n] : n \in 1 .. TopK}

Grounded(score, draw) ==
  [score EXCEPT !.robustness = draw.robustness,
                !.total = Total(ask, score, draw.robustness + draw.probability)]

Rolled(draws) ==
  [i \in kept |-> IF i \in Finalists THEN Grounded(cards[i].score, draws[i]) ELSE cards[i].score]

Qualities == [i \in kept |-> IF i \in Finalists THEN ask.correlation ELSE "not_estimated"]

(* Mutated form: the roles of Stage 3 stay.                                *)
KeepRoles(scores) ==
  [i \in kept |-> [score |-> scores[i], role |-> cards[i].role, quality |-> Qualities[i]]]

Reassigned(scores) == WithRoles(scores, Qualities)

(* Mutated form: one ranking of all candidates.                            *)
RankedTogether(scores) == Ranked(scores, kept)

Cohorts(scores) == Ranked(scores, Finalists) \o Ranked(scores, kept \ Finalists)

Rollout ==
  /\ pc = "scored" /\ ~NoRollout /\ ~NoFactor
  /\ \E draws \in [Finalists -> Draws] : \E scores \in {Rolled(draws)} :
       /\ cards' = Reassigned(scores)
       /\ order' = Cohorts(scores)
  /\ \E scaled \in BOOLEAN : codes' = codes \cup CapCode \cup QualityCode(scaled)
  /\ pc' = "reranked"
  /\ UNCHANGED <<ask, oracle, offer, next, kept, stage3, response>>

(* repair() hands on the first candidate alone.                            *)
Listed ==
  LET plans == [n \in DOMAIN order |-> offer.plans[order[n]]]
  IN  IF ask.entry = "repair" THEN <<plans[1]>> ELSE plans

(* Mutated form: an answer with candidates is always complete.             *)
StatusOfAny(left) == "ok"

StatusOf(left) == IF DOMAIN left = {} THEN "ok" ELSE "partial"

Deliver ==
  /\ pc = "reranked"
  /\ Respond(StatusOf(offer.left), Listed, offer.left, codes)

Return ==
  /\ pc = "answered" /\ pc' = "idle" /\ ask' = NoAsk
  /\ oracle' = NoSet /\ offer' = NoSet /\ next' = 1 /\ kept' = {} /\ codes' = {}
  /\ cards' = <<>> /\ stage3' = <<>> /\ order' = <<>> /\ response' = NoResponse

(* Everything after the strategy has answered.                             *)
AfterOffer ==
  \/ GenerationFailed \/ RefuseInvalid \/ RefuseAffect \/ RefuseObvious \/ Keep
  \/ NothingKept \/ Score \/ SkipRollout \/ RolloutFails \/ Rollout \/ Deliver

BeforeOffer == RepairRefused \/ RepairUnchanged \/ RepairBuilt \/ Refuse \/ Accept

PlanningNext ==
  \/ pc = "idle" /\ \E a \in Asks : Begin(a)
  \/ BeforeOffer
  \/ Generate
  \/ AfterOffer
  \/ Return

PlanningSpec == PlanningInit /\ [][PlanningNext]_planningVars

-----------------------------------------------------------------------------
Statuses == {"none", "ok", "partial", "rejected"}

AskForms == {NoAsk} \cup Asks \cup {Built(a) : a \in {x \in Asks : x.entry = "repair"}}

PlanningTypeOK ==
  /\ pc \in {"idle", "called", "built", "accepted", "offered", "scored", "reranked", "answered"}
  /\ ask \in AskForms /\ (ask = NoAsk <=> pc = "idle")
  /\ kept \subseteq DOMAIN offer.plans
  /\ next \in 1 .. Len(offer.plans) + 1
  /\ DOMAIN cards \in {{}, kept}
  /\ response.status \in Statuses
  /\ pc = "answered" => response.status # "none"

(* lib.rs, line 121, and response.rs, line 117: the one report of a        *)
(* strategy's answer is true of every candidate that is left of it, so     *)
(* that "ok" and "partial" mean what they say of each: complete, or short  *)
(* of exactly the reported Tasks, none of them protected or with a         *)
(* dependent in the Plan.  What surfaces is what repair() would hand back  *)
(* unchanged, and a rejection brings nothing.                              *)
StatusMeans ==
  pc = "answered" =>
    LET r == ask.request
        left == DOMAIN response.left
    IN
    /\ response.status = "rejected" => response.plans = <<>> /\ left = {}
    /\ order # <<>> /\ response.status # "rejected" =>
         /\ response.plans # <<>>
         /\ response.status = "ok" <=> left = {}
         /\ ProtectedTasks(r, {}) \cap left = {}
         /\ \A n \in DOMAIN response.plans :
              /\ DOMAIN response.plans[n] = Tasks \ left
              /\ ValidatePlan(r, response.plans[n]) /\ PreservesSlack(r, response.plans[n])

Ranking == pc = "answered" /\ response.status # "rejected" /\ order # <<>>

Estimated(i) == cards[i].quality # "not_estimated"

(* rollout.rs, line 26: the answer retains all of Stage 3's candidates;    *)
(* those that were tried out are Stage 3's first, all precede the rest,    *)
(* and either cohort is in the order of the scores as they are now.        *)
RankingWhole ==
  Ranking =>
    LET m == IF NoRollout THEN 0 ELSE TopK IN
    /\ Len(order) = Cardinality(kept) /\ {order[n] : n \in DOMAIN order} = kept
    /\ {i \in kept : Estimated(i)} = {stage3[n] : n \in 1 .. m}
    /\ \A n, l \in DOMAIN order : n < l =>
         /\ Estimated(order[l]) => Estimated(order[n])
         /\ Estimated(order[l]) = Estimated(order[n]) =>
              Precedes(ScoresOf(cards), order[n], order[l])

(* Roles are told of the scores the answer shows, of all its candidates:   *)
(* rollouts change what the most robust one is after roles were given.     *)
RolesCurrent ==
  Ranking =>
    LET best(i, field) == \A j \in kept : cards[j].score[field] <= cards[i].score[field] IN
    /\ \E i \in kept : cards[i].role = "highest_utility"
    /\ \A i \in kept :
         /\ cards[i].role = "highest_utility" => best(i, "utility")
         /\ cards[i].role = "most_robust" => best(i, "robustness")
         /\ cards[i].role = "most_schedule_diverse" => best(i, "diversity")
    /\ \A i, j \in kept : i # j /\ cards[i].role # "other" => cards[i].role # cards[j].role

(* The ranking and the roles are told of one set of scores.                *)
RankingHolds == RankingWhole /\ RolesCurrent

(* Of a fresh request's candidates none is lost between strategy and       *)
(* answer: all are listed, or all are refused because an enforced affect   *)
(* profile is not met (lib.rs, line 90) or the durations cannot be drawn   *)
(* (line 113).  A profile that only warns refuses nothing.                 *)
NothingLost ==
  pc = "answered" /\ offer.plans # <<>> /\ ask.request.mode = "fresh" =>
    \/ Len(response.plans) = Len(offer.plans)
    \/ /\ response.status = "rejected"
       /\ \/ /\ ask.affect.mode = "enforce"
             /\ \E d \in DOMAIN ask.affect.dims : ask.affect.dims[d].standing # "met"
          \/ /\ ask.rollouts # "none"
             /\ ask.correlation \in {"invalid", "degraded_independence"}

=============================================================================
