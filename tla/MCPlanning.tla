----------------------------- MODULE MCPlanning -----------------------------
(***************************************************************************)
(* Small instances of the planning pipeline: three Tasks, candidates of    *)
(* any strategy that keeps the contract, every way a request, its affect   *)
(* profile and its rollouts can fail; and strategies of Stage 1, over a    *)
(* request short enough to let a worker answer wrongly in every field.     *)
(***************************************************************************)
EXTENDS Stage1, TLC

CONSTANTS a, b, c

W(start, end) == [start |-> start, end |-> end]
Deps(pairs) == [t \in Tasks |-> {p[2] : p \in {q \in pairs : q[1] = t}}]

Request(window, mandatory, graph, taskWindow, anchor) ==
  [mode |-> "fresh", window |-> window, duration |-> [t \in Tasks |-> 1], mandatory |-> mandatory,
   deps |-> graph, taskWindow |-> taskWindow, anchor |-> anchor, order |-> <<a, b, c>>,
   scope |-> "remaining_window", diverged |-> {}, prior |-> <<>>]

Chained == Request(W(1, 4), {}, Deps({<<b, a>>}), <<>>, <<>>)
Bound == Request(W(1, 4), {a}, Deps({<<b, a>>}), (b :> W(2, 4)), (c :> 2))
Short == Request(W(1, 3), {}, Deps({<<b, a>>}), <<>>, <<>>)
Repaired == [Chained EXCEPT !.mode = "repair"]

NoProfile == [mode |-> "enforce", dims |-> <<>>]
Dims(x, y) == [energy |-> x, focus |-> y]
Dim(standing, at, fresh) == [standing |-> standing, at |-> at, fresh |-> fresh]
Even == [utility |-> 1, robustness |-> 1, margin |-> 1, diversity |-> 1]

Plain(request) ==
  [entry |-> "plan", schema |-> "current", horizon |-> TRUE, flaws |-> {}, context |-> FALSE,
   request |-> request, candidate |-> <<>>, affect |-> NoProfile, rollouts |-> "none",
   topK |-> 2, strict |-> FALSE, correlation |-> "full", weights |-> Even,
   worth |-> (a :> 1 @@ b :> 2 @@ c :> 1), wire |-> TRUE]

-----------------------------------------------------------------------------
(* Every way to be refused, alone and together. *)
Refused(entry, request) ==
  {[Plain(request) EXCEPT !.entry = entry, !.schema = s, !.horizon = h, !.flaws = f] :
     s \in {"current", "missing_schema_version", "unknown_schema_version"}, h \in BOOLEAN,
     f \in {{}, {"cyclic_dependency"}, {"duplicate_task_id", "cyclic_dependency"}}}

Affected ==
  {[Plain(r) EXCEPT !.affect = [mode |-> m, dims |-> Dims(x, y)]] :
     r \in {Bound}, m \in {"enforce", "warn_only"},
     x \in {Dim("met", 0, 1), Dim("short", 0, 1), Dim("met", 0, MaxTime)},
     y \in {Dim("met", 1, 1), Dim("unseen", 0, 0), Dim("unusable", 0, 0)}}

RolledOut ==
  {[Plain(Chained) EXCEPT !.rollouts = n, !.topK = k, !.weights = w] :
     n \in {"some", "over"}, k \in {0, 1, 3}, w \in {Even, [Even EXCEPT !.utility = 0, !.diversity = 0]}}
  \cup
  {[Plain(Bound) EXCEPT !.rollouts = "some", !.strict = s, !.correlation = q] :
     s \in BOOLEAN,
     q \in {"full", "degraded_numeric_jitter", "degraded_independence", "invalid"}}

P(t, start, end, deps) == [task |-> t, start |-> start, end |-> end, deps |-> deps, static |-> FALSE]

(* Valid with and without every Task; a prerequisite behind or missing; a  *)
(* step without length; none at all.                                       *)
Given == {<<P(a, 1, 2, {}), P(b, 2, 3, {a}), P(c, 3, 4, {})>>, <<P(c, 1, 2, {})>>,
          <<P(b, 1, 2, {a}), P(a, 2, 3, {})>>, <<P(c, 3, 3, {})>>, <<P(a, 2, 1, {}), P(c, 0, 2, {b})>>,
          <<>>}

Repairs ==
  {[Plain(r) EXCEPT !.entry = "repair", !.candidate = g, !.context = x, !.affect = f,
                    !.rollouts = "over", !.topK = 0, !.strict = TRUE] :
     r \in {[Chained EXCEPT !.scope = "local", !.diverged = {a}],
            [Chained EXCEPT !.window = NoWindow]},
     g \in Given, x \in BOOLEAN, f \in {NoProfile, [mode |-> "enforce", dims |-> Dims(Dim("met", 0, 1), Dim("short", 0, 1))]}}

PipelineAsks ==
  {Plain(Chained), Plain(Bound), Plain(Repaired)} \cup Refused("plan", Chained)
    \cup {[x EXCEPT !.candidate = g] : x \in Refused("repair", Chained), g \in Given}
    \cup Affected \cup RolledOut \cup Repairs

-----------------------------------------------------------------------------
(* One request, through every door of Stage 1.                             *)
Stage1Asks ==
  {[Plain(Short) EXCEPT !.entry = e, !.schema = s] :
     e \in {"plan", "stage1", "transport"}, s \in {"current", "missing_schema_version"}}
    \cup {[Plain(Short) EXCEPT !.entry = "stage1", !.wire = FALSE]}
    \cup {[Plain(Short) EXCEPT !.entry = "repair", !.candidate = <<P(c, 3, 3, {})>>]}

GateAsks == {[Plain(Short) EXCEPT !.entry = "stage1"]}

Probes ==
  [budget : BOOLEAN, root : {"ok", "absent", "no_package"}, spawn : {"ok", "not_found", "failed"},
   sent : BOOLEAN, received : {"answer", "failed", "late"},
   answer : [kind : BOOLEAN, importable : {"yes", "no", "malformed"},
             version : {"pinned", "other", "null", "malformed"}]]

Ready == [failure |-> "none", python |-> TRUE, implemented |-> TRUE, importable |-> TRUE]

(* An environment is a plain value: tests build others than a probe finds. *)
Environments ==
  {Probe(p) : p \in Probes}
    \cup {[Ready EXCEPT !.python = FALSE], [Ready EXCEPT !.implemented = FALSE],
          [Ready EXCEPT !.importable = FALSE]}

Setup(kind, policy, budget, tensor, env) ==
  [kind |-> kind, policy |-> policy, budget |-> budget, tensor |-> tensor, env |-> env]

PlainCpu == Setup("cpu", FALSE, FALSE, FALSE, Ready)
Stage1Ready == {Setup("stage1", TRUE, TRUE, t, Ready) : t \in BOOLEAN}

SetupChoices ==
  {PlainCpu, Setup("stage1", FALSE, TRUE, TRUE, Ready), Setup("stage1", TRUE, FALSE, TRUE, Ready)}
    \cup Stage1Ready \cup {Setup("stage1", TRUE, TRUE, TRUE, e) : e \in Environments}

CallsOf(s) ==
  IF s = PlainCpu
    THEN PipelineAsks \cup {[Plain(Short) EXCEPT !.entry = "transport"]}
    ELSE IF s \in Stage1Ready THEN Stage1Asks ELSE GateAsks

AllAsks == UNION {CallsOf(s) : s \in SetupChoices}

-----------------------------------------------------------------------------
(* All the contract allows, up to a number of candidates.                  *)
StepChoices(r, t) ==
  {s \in {PlanStep(r, t, x) : x \in 0 .. MaxTime - r.duration[t]} : InPlanWindow(r, s)}
    \cup {r.prior[i] : i \in {j \in DOMAIN r.prior : r.prior[j].task = t}}

PlansOver(r, D) ==
  {p \in [D -> UNION {StepChoices(r, t) : t \in D}] :
     /\ \A t \in D : p[t] \in StepChoices(r, t)
     /\ Contract!Acceptable(r, p, Tasks \ D)}

ReportOf(r, u) ==
  [t \in u |->
     Entry(r, u, t, IF r.deps[t] \cap u = {} THEN "omitted_lower_value" ELSE "deferred_dependency")]

Distinct(S, n) == {s \in [1 .. n -> S] : \A i, j \in 1 .. n : s[i] = s[j] => i = j}

(* One candidate to a repair; three where there are no more than three.    *)
MaxOffer(r, plans) ==
  IF r.mode = "repair" THEN 1 ELSE IF r = Chained /\ Cardinality(plans) = 3 THEN 3 ELSE 2

OffersOf(r, plans) == UNION {Distinct(plans, n) : n \in 1 .. MaxOffer(r, plans)}

AnswersTo(r) ==
  {[NoSet EXCEPT !.failure = f] : f \in {"skeleton_failure", "dependency_cycle"}} \cup
  UNION {{[plans |-> s, left |-> ReportOf(r, u), failure |-> "none"] :
            s \in OffersOf(r, PlansOver(r, Tasks \ u))} :
           u \in SUBSET Tasks}

ListedTasks == <<c, a, b>>

(* Tabulated, for each request a call may come to. *)
Asked == {x.request : x \in {IF y.entry = "repair" THEN Built(y) ELSE y : y \in AllAsks}}

Table == [r \in Asked |-> AnswersTo(r)]

CpuAnswers(r) == Table[r]

DrawChoices == {[robustness |-> x[1], probability |-> x[2]] : x \in {<<0, 0>>, <<1, 4>>, <<6, 1>>}}

(* The right answer; one wrong field, as in the answer to a request with   *)
(* other omissions, or as if there were no candidate; a whole other        *)
(* answer; an answer with the last row missing, or cut short; and the      *)
(* right answer in a reply of another stage, request or framework.         *)
Foreign(r) ==
  {[plans |-> <<[t \in {a, c} |-> PlanStep(r, t, IF t = a THEN 2 ELSE 1)]>>,
    left |-> ReportOf(r, {b}), failure |-> "none"],
   [plans |-> <<[t \in {c} |-> PlanStep(r, t, 2)]>>, left |-> ReportOf(r, {a, b}), failure |-> "none"],
   [NoSet EXCEPT !.failure = "skeleton_failure"]}

Reply(profile, mine, pinned, result) ==
  [profile |-> profile, mine |-> mine, pinned |-> pinned, result |-> result]

WorkerReplies(r, set) ==
  LET wrong == {Encode(r, f) : f \in Foreign(r)}
      last == MaxCandidates - 1
      Around(right) ==
        wrong
          \cup {[right EXCEPT ![Fields[n]] = w[Fields[n]]] : n \in DOMAIN Fields, w \in wrong}
          \cup {[right EXCEPT ![f] = SubSeq(@, 1, last)] : f \in {"slot_mask", "rejection_codes"}}
          \cup {[right EXCEPT !.piece_count[1] = SubSeq(@, 1, 1)]}
  IN  UNION {{Reply(p, m, v, right) : p, m, v \in BOOLEAN}
               \cup {Reply(TRUE, TRUE, TRUE, x) : x \in Around(right)} :
             right \in {Encode(r, set)}}

=============================================================================
