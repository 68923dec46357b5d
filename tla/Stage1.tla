------------------------------- MODULE Stage1 -------------------------------
(***************************************************************************)
(* The planning pipeline with the strategy of ubu-planning-worker: Stage 1 *)
(* asks a worker for the candidates and takes them only if they are, field *)
(* by field, what the CPU strategy answers (stage1.rs); whatever else      *)
(* happens, the CPU strategy's own answer is used and a reason kept.       *)
(* plan_stage1 stamps the answer with its provenance; plan_via_transport   *)
(* (worker lib.rs) has an answer echoed by another process.                *)
(*                                                                         *)
(* One strategy value serves one caller, call after call; its cells (the   *)
(* reason, the certified version, the difference) and its session, with    *)
(* the compute lock, outlive a call.  Other owners take and release the    *)
(* lock at any time.  Module WorkerSession models a session from within;   *)
(* here an exchange fails or brings some reply.                            *)
(***************************************************************************)
EXTENDS Planning

CONSTANTS
  Setups,            \* the strategies a caller may have built
  AsksOf(_),         \* the calls made with one of them
  Replies(_, _),     \* what a worker may reply to a request, by the CPU's answer
  Listing,           \* the Tasks as the request lists them
  MaxCandidates,     \* MAX_CANDIDATES: the rows of a StageOutput
  MaxPlanningTasks   \* MAX_PLANNING_TASKS: the slots of a row

(* The enum ProbeFailure of worker lib.rs.                                 *)
ProbeFailures ==
  {"python_unavailable", "interpreter_start_failed", "module_root_unavailable",
   "module_package_unavailable", "probe_budget_invalid", "probe_timed_out", "probe_failed",
   "torch_unavailable", "torch_version_mismatch"}

ASSUME SetupAssumption ==
  \A s \in Setups :
    /\ AsksOf(s) \subseteq Asks
    /\ s.tensor \in BOOLEAN /\ s.env.failure \in ProbeFailures \cup {"none"}

(* More Tasks than slots do not fit the wire (stage1.rs, line 33).         *)
ASSUME ListingAssumption ==
  /\ Listing \in Seq(Tasks) /\ Len(Listing) = Cardinality(Tasks)
  /\ \A t \in Tasks : \E i \in DOMAIN Listing : Listing[i] = t
  /\ MaxPlanningTasks \in Nat
  /\ \A a \in Asks : a.wire => Cardinality(Tasks) <= MaxPlanningTasks

(* The CPU strategy stops where a StageOutput has no more rows             *)
(* (candidate_generation.rs, line 84).                                     *)
ASSUME RowsAssumption ==
  /\ MaxCandidates \in Nat
  /\ \A a \in Asks : a.entry # "repair" /\ Plannable(a) =>
       \A set \in CpuSets(a.request) : Len(set.plans) <= MaxCandidates

VARIABLES
  setup,       \* how the strategy was built; never changes
  session,     \* it holds a worker session, and with it the compute lock
  others,      \* some other owner holds the compute lock
  stage,       \* "idle", "entered", "looked", "replied" or "referenced"
  reply,       \* what the worker answered
  reference,   \* what it should have answered, once that is computed
  reason,      \* fallback_reason
  version,     \* the version of the certified worker
  difference,  \* certification_difference
  wrapped,     \* plan_stage1 or plan_via_transport is through
  provenance,  \* backend_kind of the answer
  echo,        \* what plan_via_transport found
  done         \* history: what happened in this call

cells == <<reason, version, difference>>
outer == <<wrapped, provenance, echo>>
stageVars == <<setup, session, others, stage, reply, reference, cells, outer, done>>
stage1Vars == <<planningVars, stageVars>>

Rows == 1 .. MaxCandidates
Slots == 1 .. MaxPlanningTasks

NoReply == [profile |-> FALSE, mine |-> FALSE, pinned |-> FALSE, result |-> <<>>]
NoFrame == [got |-> FALSE, valid |-> FALSE, mine |-> FALSE, type |-> "none",
            response |-> NoResponse]
NoEcho == [frame |-> NoFrame, status |-> "none", outcome |-> NoFrame]
Nothing == [entered |-> FALSE, busy |-> FALSE, exchange |-> "none", taken |-> FALSE]

(* The first entry of a list of <<condition, verdict>> that applies.       *)
FirstOf(list, otherwise) ==
  LET hits == {n \in DOMAIN list : list[n][1]}
  IN  IF hits = {} THEN otherwise ELSE list[Min(hits)][2]

-----------------------------------------------------------------------------
(* The environment a strategy is built with: found by a probe, by a worker *)
(* process that is asked for the version of its framework.                 *)
Malformed(answer) ==
  \/ ~answer.kind
  \/ answer.importable = "malformed" \/ answer.version = "malformed"
  \/ answer.version = "null" /\ answer.importable = "yes"

ProbeFailure(p) ==
  FirstOf(<< <<~p.budget, "probe_budget_invalid">>,
             <<p.root = "absent", "module_root_unavailable">>,
             <<p.root = "no_package", "module_package_unavailable">>,
             <<p.spawn = "not_found", "python_unavailable">>,
             <<p.spawn = "failed", "interpreter_start_failed">>,
             <<~p.sent \/ p.received = "failed", "probe_failed">>,
             <<p.received = "late", "probe_timed_out">>,
             <<Malformed(p.answer), "probe_failed">>,
             <<p.answer.version = "other", "torch_version_mismatch">>,
             <<p.answer.importable = "no", "torch_unavailable">> >>, "none")

Probe(p) ==
  [failure     |-> ProbeFailure(p),
   python      |-> p.budget /\ p.root = "ok" /\ p.spawn = "ok",
   implemented |-> TRUE,
   importable  |-> ProbeFailure(p) = "none"]

(* What speaks against the worker before the lock is looked at, in order.  *)
GateReason ==
  FirstOf(<< <<~setup.policy, "policy_disabled">>,
             <<~setup.budget, "budget_unjustified">>,
             <<setup.env.failure # "none", setup.env.failure>>,
             <<~setup.env.python, "python_unavailable">>,
             <<~setup.env.implemented, "stage_unimplemented">>,
             <<~setup.env.importable, "torch_unavailable">> >>, "none")

(* StageInput::from_request: repairs, more Tasks than slots, durations and *)
(* times the wire cannot hold; the last three are ~ask.wire.               *)
Supported == ask.wire /\ ask.request.mode = "fresh"

-----------------------------------------------------------------------------
(* A CandidateSet as a StageOutput: thirteen fields, padded to full size.  *)
InOrder(r, plan) ==
  [n \in 1 .. Cardinality(DOMAIN plan) |->
     CHOOSE t \in DOMAIN plan :
       Cardinality({u \in DOMAIN plan : Position(r, u) < Position(r, t)}) = n - 1]

Listed1(t) == CHOOSE i \in DOMAIN Listing : Listing[i] = t

DependencySlack(r, plan) ==
  LET edges == {e \in (DOMAIN plan) \X (DOMAIN plan) : e[1] \in plan[e[2]].deps}
      margins == {plan[e[2]].start - plan[e[1]].end : e \in edges}
  IN  IF margins = {} THEN 0 ELSE Min(margins)

DependencyFeasible(plan) ==
  \A t \in DOMAIN plan : \A d \in plan[t].deps :
    d \in DOMAIN plan /\ plan[d].end <= plan[t].start

Encode(r, set) ==
  LET valid(c) == c \in DOMAIN set.plans
      filled(c, s) == valid(c) /\ s <= Cardinality(DOMAIN set.plans[c])
      at(c, s) == set.plans[c][InOrder(r, set.plans[c])[s]]
      Grid(pad, V(_)) ==
        [c \in Rows |-> [s \in Slots |-> IF filled(c, s) THEN V(at(c, s)) ELSE pad]]
      Row(pad, V(_)) == [c \in Rows |-> IF valid(c) THEN V(set.plans[c]) ELSE pad]
  IN
  [task_index         |-> Grid(-1, LAMBDA step : Listed1(step.task) - 1),
   slot_mask          |-> Grid(FALSE, LAMBDA step : TRUE),
   start_time_offsets |-> Grid(0, LAMBDA step : step.start - r.window.start),
   duration_samples   |-> Grid(0, LAMBDA step : step.end - step.start),
   piece_index        |-> Grid(0, LAMBDA step : 1),
   piece_count        |-> Grid(0, LAMBDA step : 1),
   validity_mask      |-> Row(FALSE, LAMBDA plan : TRUE),
   dependency_slack   |-> Row(0, LAMBDA plan : DependencySlack(r, plan)),
   dependency_feasibility |-> Row(FALSE, LAMBDA plan : DependencyFeasible(plan)),
   hard_constraint_feasibility |->
     Row(FALSE, LAMBDA plan : ValidatePlan(r, plan) /\ PreservesSlack(r, plan)),
   rejection_codes    |->
     Row(IF set.plans = <<>> THEN set.failure ELSE "padding", LAMBDA plan : "ok"),
   omissions          |-> [t \in DOMAIN set.left |-> set.left[t].reason],
   failure            |-> set.failure]

(* In the order of declaration: six by candidate and slot, five by         *)
(* candidate, two of the whole.                                            *)
Fields ==
  <<"task_index", "slot_mask", "start_time_offsets", "duration_samples", "piece_index",
    "piece_count", "validity_mask", "dependency_slack", "dependency_feasibility",
    "hard_constraint_feasibility", "rejection_codes", "omissions", "failure">>

Rowed(x) == Len(x) \in Nat /\ DOMAIN x = 1 .. Len(x)

(* A StageOutput as the reply's decoder admits it: all fields and no other *)
(* one, vectors of any length where the fields are vectors.                *)
IsStageOutput(out) ==
  /\ out = [f \in {Fields[n] : n \in DOMAIN Fields} |-> out[f]]
  /\ \A n \in 1 .. 11 : Rowed(out[Fields[n]])
  /\ \A n \in 1 .. 6 : \A c \in DOMAIN out[Fields[n]] : Rowed(out[Fields[n]][c])

ASSUME ReplyAssumption ==
  \A s \in Setups : s.kind = "stage1" /\ s.tensor =>
    \A a \in AsksOf(s) : a.entry # "repair" /\ Plannable(a) /\ a.request.mode = "fresh" =>
      \A set \in CpuSets(a.request) : \A answer \in Replies(a.request, set) :
        IsStageOutput(answer.result)

(* Mutated form: a field read again when the Plan is put together is left  *)
(* out of the comparison.                                                  *)
DivergingButOne(x, y) ==
  {n \in DOMAIN Fields : Fields[n] # "start_time_offsets" /\ x[Fields[n]] # y[Fields[n]]}

Diverging(x, y) == {n \in DOMAIN Fields : x[Fields[n]] # y[Fields[n]]}

(* Mutated form: a missing tail is no difference, the last element is.     *)
FirstUnequal(x, y) ==
  LET common == Sooner(Len(x), Len(y))
  IN  Min({n \in 1 .. common : x[n] # y[n]} \cup {common})

FirstDifference(x, y) ==
  LET common == Sooner(Len(x), Len(y))
  IN  Min({n \in 1 .. common : x[n] # y[n]} \cup {common + 1})

(* Where the first differing field differs: 0 where the place has no index.*)
Difference(x, y) ==
  LET n == Min(Diverging(x, y))
      f == Fields[n]
      row == FirstDifference(x[f], y[f])
      both == row \in DOMAIN x[f] /\ row \in DOMAIN y[f]
  IN  [field |-> f,
       candidate |-> IF n <= 11 THEN row ELSE 0,
       slot |-> IF n <= 6 /\ both THEN FirstDifference(x[f][row], y[f][row]) ELSE 0,
       diverging |-> Cardinality(Diverging(x, y))]

(* The Plans and the report that a certified StageOutput stands for.       *)
PlanAt(r, out, c) ==
  LET used == {s \in Slots : out.slot_mask[c][s]}
      task(s) == Listing[out.task_index[c][s] + 1]
      start(s) == r.window.start + out.start_time_offsets[c][s]
  IN  [t \in {task(s) : s \in used} |->
         LET s == CHOOSE x \in used : task(x) = t
         IN  [task |-> t, start |-> start(s), end |-> start(s) + out.duration_samples[c][s],
              deps |-> r.deps[t], static |-> t \in DOMAIN r.anchor]]

Assemble(r, out) ==
  LET valid == {c \in Rows : out.validity_mask[c]}
      nth(n) == CHOOSE c \in valid : Cardinality({d \in valid : d <= c}) = n
  IN  [plans   |-> [n \in 1 .. Cardinality(valid) |-> PlanAt(r, out, nth(n))],
       left    |-> [t \in DOMAIN out.omissions |->
                      Entry(r, DOMAIN out.omissions, t, out.omissions[t])],
       failure |-> out.failure]
-----------------------------------------------------------------------------
Stage1Init ==
  /\ PlanningInit
  /\ setup \in Setups
  /\ session = FALSE /\ others = FALSE
  /\ stage = "idle" /\ reply = NoReply /\ reference = <<>>
  /\ reason = "none" /\ version = "none" /\ difference = <<>>
  /\ wrapped = FALSE /\ provenance = "cpu" /\ echo = NoEcho /\ done = Nothing

(* Mutated form: the cells are left to the next generation to clear.       *)
KeepCells == UNCHANGED cells

ClearCells == reason' = "none" /\ version' = "none" /\ difference' = <<>>

(* plan_stage1 clears the cells before it plans: a refused request never   *)
(* reaches the strategy.                                                   *)
Call ==
  /\ \E a \in AsksOf(setup) :
       /\ Begin(a)
       /\ IF a.entry = "stage1" THEN ClearCells ELSE UNCHANGED cells
  /\ UNCHANGED <<setup, session, others, stage, reply, reference, outer, done>>

InPlanning == (BeforeOffer \/ AfterOffer) /\ UNCHANGED stageVars

GenerateCpu == setup.kind = "cpu" /\ Generate /\ UNCHANGED stageVars

(* generate_candidates of Stage1Strategy. *)
Enter ==
  /\ setup.kind = "stage1" /\ pc = "accepted" /\ stage = "idle"
  /\ stage' = "entered" /\ ClearCells
  /\ done' = [done EXCEPT !.entered = TRUE]
  /\ UNCHANGED <<planningVars, setup, session, others, reply, reference, outer>>

Fallback(why) ==
  /\ Take(oracle)
  /\ stage' = "idle" /\ reason' = why
  /\ UNCHANGED <<setup, others, version, outer>>

Gate ==
  /\ stage = "entered" /\ GateReason # "none"
  /\ Fallback(GateReason)
  /\ UNCHANGED <<session, reply, reference, difference, done>>

(* gpu_eligible takes the lock and gives it back at once.                  *)
LooksAtLock == stage = "entered" /\ GateReason = "none" /\ ~session /\ others

(* Mutated form: the strategy waits for the lock.                          *)
WaitForLock == LooksAtLock /\ UNCHANGED stage1Vars

LockTaken ==
  /\ LooksAtLock
  /\ Fallback("compute_lock_unavailable")
  /\ done' = [done EXCEPT !.busy = TRUE]
  /\ UNCHANGED <<session, reply, reference, difference>>

LockFree ==
  /\ stage = "entered" /\ GateReason = "none"
  /\ session \/ ~others
  /\ stage' = "looked"
  /\ UNCHANGED <<planningVars, setup, session, others, reply, reference, cells, outer, done>>

Unsupported ==
  /\ stage = "looked" /\ ~Supported
  /\ Fallback("input_unsupported")
  /\ UNCHANGED <<session, reply, reference, difference, done>>

(* No start (the lock taken meanwhile, for one), an error of the pipe, no  *)
(* answer in time, or an error frame: the session ends with its child.     *)
ExchangeFails ==
  /\ stage = "looked" /\ Supported /\ setup.tensor
  /\ session' = FALSE
  /\ Fallback("transport_failed")
  /\ done' = [done EXCEPT !.exchange = "failed"]
  /\ UNCHANGED <<reply, reference, difference>>

(* A tensor worker answers what it answers; the stub computes the CPU's    *)
(* own answer.                                                             *)
Answers ==
  IF setup.tensor
    THEN Replies(ask.request, oracle)
    ELSE {[profile |-> TRUE, mine |-> TRUE, pinned |-> TRUE, result |-> Encode(ask.request, oracle)]}

(* Mutated form: the session does without the lock that was looked at.     *)
LockNotAsked == TRUE

LockGranted == setup.tensor => session \/ ~others

ExchangeReplies ==
  /\ stage = "looked" /\ Supported /\ LockGranted
  /\ session' = setup.tensor
  /\ stage' = "replied" /\ reply' \in Answers
  /\ done' = [done EXCEPT !.exchange = "replied"]
  /\ UNCHANGED <<planningVars, setup, others, reference, cells, outer>>

Expected == reply.profile /\ reply.mine /\ reply.pinned

ReplyMismatch ==
  /\ stage = "replied" /\ ~Expected
  /\ Fallback("reply_mismatch")
  /\ UNCHANGED <<session, reply, reference, difference, done>>

(* assemble computes what the CPU strategy's answer would look like.       *)
Recompute ==
  /\ stage = "replied" /\ Expected
  /\ stage' = "referenced" /\ reference' = Encode(ask.request, oracle)
  /\ UNCHANGED <<planningVars, setup, session, others, reply, cells, outer, done>>

CertificationFails ==
  /\ stage = "referenced" /\ Diverging(reply.result, reference) # {}
  /\ difference' = Difference(reply.result, reference)
  /\ Fallback("certification_failed")
  /\ UNCHANGED <<session, reply, reference, done>>

Certified ==
  /\ stage = "referenced" /\ Diverging(reply.result, reference) = {}
  /\ Take(Assemble(ask.request, reply.result))
  /\ version' = IF setup.tensor THEN "pinned" ELSE "none"
  /\ stage' = "idle"
  /\ done' = [done EXCEPT !.taken = TRUE]
  /\ UNCHANGED <<setup, session, others, reply, reference, reason, difference, outer>>

Stamp ==
  /\ pc = "answered" /\ ask.entry = "stage1" /\ ~wrapped
  /\ wrapped' = TRUE
  /\ provenance' = IF version # "none" THEN "gpu_worker" ELSE "cpu"
  /\ UNCHANGED <<planningVars, setup, session, others, stage, reply, reference, cells, echo, done>>

-----------------------------------------------------------------------------
(* plan_via_transport: the answer is sent out and must come back as it is. *)
FrameTypes == {"final_response", "cancelled", "engine_error"}

(* What may come back: nothing, or a frame, well formed or not, of this    *)
(* request or another, with the answer, another answer, or none.           *)
Frames ==
  {NoFrame} \cup
  [got : {TRUE}, valid : BOOLEAN, mine : BOOLEAN, type : FrameTypes,
   response : {NoResponse, response, [response EXCEPT !.status = "ok"],
               [response EXCEPT !.plans = <<>>], [response EXCEPT !.left = <<>>]}]

Checked(f) ==
  f.got /\ f.valid /\ f.mine /\ f.type = "final_response" /\ f.response = response

(* Mutated form: any cancellation is passed on.                            *)
PassedUnread(f) == f.got /\ f.type = "cancelled" /\ f.valid

Passed(f) == f.got /\ f.type = "cancelled" /\ f.mine /\ f.valid

Outcome(f) ==
  CASE Checked(f) -> NoFrame
    [] Passed(f)  -> f
    [] OTHER      -> [got |-> TRUE, valid |-> TRUE, mine |-> TRUE, type |-> "engine_error",
                      response |-> NoResponse]

Echo ==
  /\ pc = "answered" /\ ask.entry = "transport" /\ ~wrapped
  /\ wrapped' = TRUE
  /\ \E f \in Frames :
       echo' = [frame |-> f, status |-> IF Checked(f) THEN "ok" ELSE "engine_error",
                outcome |-> Outcome(f)]
  /\ UNCHANGED <<planningVars, setup, session, others, stage, reply, reference, cells, provenance, done>>

GiveBack ==
  /\ ask.entry \in {"stage1", "transport"} => wrapped
  /\ Return
  /\ wrapped' = FALSE /\ provenance' = "cpu" /\ echo' = NoEcho
  /\ reply' = NoReply /\ reference' = <<>> /\ done' = Nothing
  /\ UNCHANGED <<setup, session, others, stage, cells>>

(* Where it can make a difference. *)
LockMatters == stage \in {"entered", "looked"}

OthersTake ==
  /\ LockMatters /\ ~others /\ ~session /\ others' = TRUE
  /\ UNCHANGED <<planningVars, setup, session, stage, reply, reference, cells, outer, done>>

OthersRelease ==
  /\ LockMatters /\ others /\ others' = FALSE
  /\ UNCHANGED <<planningVars, setup, session, stage, reply, reference, cells, outer, done>>

GenerateStage1 ==
  \/ Enter \/ Gate \/ LockTaken \/ LockFree \/ Unsupported \/ ExchangeFails
  \/ ExchangeReplies \/ ReplyMismatch \/ Recompute \/ CertificationFails \/ Certified

PlannerStep == InPlanning \/ GenerateCpu \/ GenerateStage1 \/ Stamp \/ Echo \/ GiveBack

Stage1Next == Call \/ PlannerStep \/ OthersTake \/ OthersRelease

(* A call runs on a thread of its own and every exchange has a timeout;    *)
(* nobody has to make another call, or to release the lock.                *)
Stage1Spec == Stage1Init /\ [][Stage1Next]_stage1Vars /\ WF_stage1Vars(PlannerStep)

-----------------------------------------------------------------------------
Stage1TypeOK ==
  /\ PlanningTypeOK
  /\ setup \in Setups
  /\ session \in BOOLEAN /\ others \in BOOLEAN /\ ~(session /\ others)
  /\ stage \in {"idle", "entered", "looked", "replied", "referenced"} /\ (stage # "idle" => pc = "accepted")
  /\ version \in {"none", "pinned"}
  /\ wrapped \in BOOLEAN /\ provenance \in {"cpu", "gpu_worker"}
  /\ echo.status \in {"none", "ok", "engine_error"}

(* Whatever the worker answers, and whether it does, planning goes on with *)
(* the CPU strategy's candidates, report and failure: the strategy of      *)
(* Stage 1 implements the pipeline over CpuStrategy (stage1.rs, line 457;  *)
(* a decision of the repository's design, CPU answers are retained).       *)
ImplementsCpu == [][PlanningNext]_planningVars

Genuine == Expected /\ reply.result = reference

(* An answer is stamped as a tensor worker's exactly if one answered this  *)
(* very call with what the CPU strategy answers: a version certified in    *)
(* an earlier call stamps nothing (stage1.rs, lines 771 and 776), also     *)
(* where the request is refused before the strategy is asked.              *)
ProvenanceEarned ==
  wrapped => (provenance = "gpu_worker" <=> ask.entry = "stage1" /\ setup.tensor /\ Genuine)

(* The place a difference names is the first that differs in its field, an *)
(* end that one side lacks included, and the fields before it are equal.   *)
PointsAt(d) ==
  LET x == reply.result[d.field]
      y == reference[d.field]
      unequal(u, v, n) == n \notin DOMAIN u \cap DOMAIN v \/ u[n] # v[n]
  IN  /\ x # y
      /\ \A n \in DOMAIN Fields : reply.result[Fields[n]] # reference[Fields[n]] =>
           \E m \in 1 .. n : Fields[m] = d.field
      /\ d.candidate # 0 =>
           /\ unequal(x, y, d.candidate)
           /\ \A n \in 1 .. d.candidate - 1 : ~unequal(x, y, n)
      /\ d.slot # 0 => unequal(x[d.candidate], y[d.candidate], d.slot)

(* What the strategy says of a call is about that call: no reason if the   *)
(* worker's answer was used or the strategy was never asked, and otherwise *)
(* what really happened; the lock is blamed only if somebody held it, and  *)
(* a difference is there only for, and true of, a failed certification.    *)
ReasonTrue ==
  pc = "answered" /\ (ask.entry = "stage1" \/ done.entered) =>
    /\ reason = "none" <=> done.taken \/ ~done.entered
    /\ reason = "compute_lock_unavailable" <=> done.busy
    /\ reason = "transport_failed" <=> done.exchange = "failed"
    /\ reason \in {"reply_mismatch", "certification_failed"} <=>
         done.exchange = "replied" /\ ~done.taken
    /\ reason = "certification_failed" <=> difference # <<>>
    /\ version # "none" => Genuine
    /\ difference # <<>> => PointsAt(difference)

(* plan_via_transport (worker lib.rs, line 20): the transport is said to   *)
(* be fine only if it brought back this request's own answer, unchanged;   *)
(* otherwise the caller gets one well-formed outcome, of this request, and *)
(* a cancellation only if the transport really cancelled it.               *)
EchoHonest ==
  wrapped /\ ask.entry = "transport" =>
    /\ echo.status = "ok" =>
         /\ echo.frame.mine /\ echo.frame.type = "final_response"
         /\ echo.frame.response = response /\ echo.outcome = NoFrame
    /\ echo.status # "ok" =>
         /\ echo.outcome.mine /\ echo.outcome.valid
         /\ echo.outcome.type \in {"cancelled", "engine_error"}
         /\ echo.outcome.type = "cancelled" => echo.outcome = echo.frame

(* Every call is answered, also while another owner never gives the lock   *)
(* back: the strategy looks at the lock and does not wait for it.          *)
Answered == pc # "idle" ~> pc = "idle"

=============================================================================
