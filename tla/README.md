# Verification of the UbU planning kernel

This directory holds a TLA+ model of the planning kernel in `src/`, the TLC
configurations that check it on small instances, and proofs checked by TLAPS
that carry its most important properties to every instance. Paths below are
relative to `src/crates/`.

Contents: [the system](#1-the-system), [the modules](#2-the-modules),
[the runs](#3-the-runs), [fairness](#4-fairness), [the proofs](#5-the-proofs),
[where code and documents disagree](#6-where-code-and-documents-disagree),
[what is not modelled](#7-what-is-not-modelled), [the plan](#8-the-plan).

## 1. The system

A caller hands over a `PlanningRequest`: Tasks with durations, dependencies,
optional windows and static anchors, a time window for the Plan and, for a
repair, a prior Plan. A strategy generates candidate Plans; the pipeline
validates, scores and ranks them, rolls the best ones out, and answers with a
`PlanningResponse`. A worker can compute the candidates in a Python child
process; its answer is certified against the in-process one.

```
 request -> validate_planning_request -> strategy.generate_candidates -+
            (validation.rs)              CpuStrategy: skeleton + delays |
                                         ChunkedSweepStrategy           |
                                         Stage1Strategy -> session ->   |
                                           Python child, or CPU         |
 response <- rollout_and_rerank <- score_and_rank <- validate_plan,  <--+
             (rollout.rs,          (scoring.rs)     full/semi_legitimize
              coverage.rs)                          (validation, legitimization)
```

| Component | State it keeps | Operations | Hard behaviour | Correct when |
|---|---|---|---|---|
| Request and validation (`ubu-planning-core` `request.rs`, `validation.rs`, `graph.rs`) | marks of a depth-first search while it runs | `validate_planning_request`, `validate_plan`, `has_cycle` | repeated dependencies; a diamond is not a cycle | exactly the cyclic graphs are refused |
| Greedy skeleton (`ubu-planning-cpu` `skeleton.rs`) | calendar of occupied intervals; fixed, placed, omitted and excluded Tasks | `affix_fixed`, `build_skeleton`, `place_task`, `topological_order` | kept steps, anchors and placements on one calendar; dropping a Task during the walk; the end of representable time | nothing overlaps, protected work is placed, prerequisites come first, what is omitted could not have been placed, the report is true |
| Protection (`protection.rs`) | two worklists | `protected_tasks`, `dependents_of` | closure to any depth | least fixpoints of their edge relations |
| Candidate generation (`candidate_generation.rs`, `repair.rs`) | proposals and the placements seen | `generate`, `bounded_perturbations` | a suffix shifts as one | every candidate keeps what the skeleton guarantees; at most 16 |
| Chunked sweep (`chunked.rs`) | a beam of partial schedules per chunk | `partition`, `fill`, `project_omissions`, `sweep_plans`, `generate_candidates` | merging, pruning, choosing between sweep and greedy | all candidates omit the same Tasks, no more protected work given up than greedy |
| Pipeline (`lib.rs`, `response.rs`) | none between calls | `plan`, `repair` | status derived from what survives each stage; `repair` replaces settings of its caller | `ok`, `partial` and failure mean what the contract says; no candidate is lost on the way |
| Legitimization (`legitimization.rs`) | none | `full_legitimize`, `semi_legitimize`, `preserves_slack` | several independent decisions on what fits | no Plan that passes breaks a window, an anchor or a dependency |
| Scoring (`scoring.rs`) | none | `score_and_rank`, `assign_roles`, `compare_candidates` | ranked and labelled once, re-ranked and labelled again after the rollouts | order and roles are those of the scores shown |
| Rollout and coverage (`rollout.rs`, `coverage.rs`) | per draw two clocks, two sets of ends, two verdicts; over draws the counts | `rollout_candidate`, `simulate`, `observe`, `summarize` | two walks over one draw; draws merged into states | coverage is never below the displayed probability; all failures are accounted for |
| Worker session and compute lock (`ubu-planning-worker-protocol` `session.rs`, `compute_lock.rs`, `lib.rs`) | child process, pipes, reader thread, channel, lock file | `spawn`, `exchange`, `cancel`, `stop`, `Drop`, `try_acquire` | concurrency of owner, thread, child and other owners; timeouts, late answers, crashes | compute children exclude each other, answers belong to their calls, nothing is left behind, every call ends |
| Worker invocation and Stage 1 (`ubu-planning-worker` `lib.rs`, `stage1.rs`) | reason, version and difference of the last call; the session and the compute lock with it | `plan_via_transport`, `LocalEnvironment::probe`, `StageInput::from_request`, `assemble`, `generate_candidates`, `plan_stage1` | gates that go stale; certification; fallback | whatever the child does, the answer is the CPU's |
| Python worker (`main.py`, `protocol.py`, `stage1.py`) | the request under way | `run`, `_solve` | cancellation between two messages, end of input | one answer per request; orders checked again |
| Unplaced report, explanations, command line | none | | | |

Components meet through calls inside one process (pipeline, strategies,
protection, rollout), through frames on pipes (session, child), through a
channel (reader thread, owner) and through a lock file (owners, the build).

## 2. The modules

| Module | Models | Uses |
|---|---|---|
| `PlanningRequest` | requests, Plans, protection, windows, the checks of `validate_plan` and `preserves_slack` | |
| `PlanContract` | abstract: what any candidate generator owes the pipeline | `PlanningRequest` |
| `Skeleton` | `affix_fixed` and `build_skeleton`, one action per turn of each loop | `PlanningRequest`, refines `PlanContract` |
| `ChunkedSweep` | `sweep_plans`: `partition`, `fill`, `project_omissions`, merging and cutting the beam | `Skeleton`, at the state in which `affix_fixed` returns |
| `CandidateGeneration` | both generators: `CpuStrategy` with its suffix delays, `ChunkedSweepStrategy` with its choice between sweep and greedy and its tail delays | `ChunkedSweep`, `PlanContract` |
| `Planning` | `plan` and `repair`: validation, legitimization, scoring, ranking by rollouts, status, over any strategy that keeps the contract | `PlanningRequest`, `PlanContract` |
| `Stage1` | the worker's strategy in that pipeline: probe, gates, lock, exchange, certification, fallback, provenance; `plan_via_transport` | `Planning`, refines it with `CpuStrategy` |
| `WorkerSolver` | the Python worker's own solver, a function of the request, beside the greedy planner | `CandidateGeneration` |
| `Protection` | the worklists of `protected_tasks` and `dependents_of` | `PlanningRequest` |
| `TopologicalOrder` | `has_cycle`, `topological_order`, the check of a provided order, Stage 1's order, the child's layers | |
| `Rollout` | `rollout_candidate`, `simulate`, `observe`, and `failed_visits` of `summarize` | `PlanningRequest` |
| `WorkerSession` | session, reader thread, child, pipes, timeout, lock, build, crashes | |
| `RequestLemmas` | lemmas about naturals, finite sets and `PlanningRequest`'s operators | |
| `SkeletonProofs`, `SweepProofs` (candidates and the worker's solver too), `OrderProofs`, `ProtectionProofs`, `RolloutProofs`, `SessionProofs`, `PlanningProofs` | the theorems | the modules they are about |
| `MCSkeleton`, `MCCandidates`, `MCPlanning`, `MCTopologicalOrder`, `MCRollout`, `MCWorkerSession` | the small instances TLC checks | the module named |

### Data (`PlanningRequest`)

A request is a record. `Option` fields per Task (window, anchor) are functions
whose domain is the Tasks that have one; an absent Plan window is `NoWindow`,
the window `[0, 0]` that the code's request validation would refuse. Times
range over `0 .. MaxTime`, where `MaxTime` stands for `u64::MAX`: checked and
saturating additions meet their limit in the model as in the code. A Plan is a
function from Tasks to steps; the vector's order is the request's order.
`ProtectedTasks` and `WithDependents` define the two closures of
`protection.rs` as least fixpoints; `Protection` has the worklists and is proved to return them. `IsRequest` is what
`validate_planning_request` and the deserializer let through.

### Protection (`Protection`)

`Init` is a call of `protected_tasks` or `dependents_of` after the roots have been
inserted and pushed; `Pop` is one turn of its loop (`Neighbours` are the dependencies, or
the entry of `dependent_index`); `Return` takes the roots away again where the code does. The
vector's last entry follows from ids and from the order in which lists are
written, neither of which means anything: any pending Task may be next.

### Greedy skeleton (`Skeleton`)

| Code | Action |
|---|---|
| `preserved_steps`, one prior step a turn | `Open`, `CollectPrior`, `CollectDone` |
| kept steps pushed in `HashMap` order | `PushPreserved` (any order), `PreserveDone` |
| anchors in request order | `AffixSkip`, `AffixAnchor`, `AffixReject`, `AffixDone` |
| the loop over the order | `SkipExcluded`, `KeepPreserved`, `KeepAffixed`, `StartPlacement`, `Omit`, `RejectProtected` |
| the search for a start | `Bump` (one jump), `Place` |
| `unplaced_report` and the Plan | `Emit` |

`occupied` is the calendar, `scheduled`, `omitted` and `excluded` are the
loop's maps. The walk is one thread; interleavings come from the map's order
only. `PlanContract` says that a request is answered once, by a refusal or by a
Plan that, with its report, accounts for every Task, leaves out no protected
one, leaves out dependents with their prerequisites, shares no time, and, for a
fresh request, passes the pipeline's checks. `ImplementsContract` is the
refinement: `candidate <- plan`, `left <- DOMAIN unplaced`, status from the
phase.

### Chunked sweep (`ChunkedSweep`)

| Code | Action |
|---|---|
| `affix_fixed` returns; chunks, releases, check of fixed dependencies | `Prepare` |
| root branch: work outside its window, work without a chunk | `PassOutside`, `OutsideDone`, `Evict`, `EvictDone` |
| `fill`: the next unit by the rule, its search for a slot | `Choose`, `Skip` (one jump), `PlaceUnit`, `NoSlotLeft`, `FillDone` |
| `fill`'s second loop: work with no chunk ahead | `Strand`, `StrandDone` |
| `project_omissions`: chunks ahead that are overfull | `Trim` |
| `merged.entry(...)` | `Merge` |
| sorting and truncating the beam, the next chunk | `Cut`, `CutEmpty`, `Finish` |

A branch is a record as in the code, without its running utility, which is the
sum over what it has placed. `beam` holds the branches of this chunk, `merged`
those built for the next, `child` the one being built; `at` and `rule` are the
two loop variables. Chunks are intervals, not indices. `recompute_eligibility`
is the function `Deadlines` and the set `Eligible`: the code's walk backwards
over the order, in which a fixed step bounds what it waits for but passes
nothing on. Three pieces of code have no effect and no counterpart: the first
loop of `project_omissions` finds nothing after `fill`'s; the set `seen` drops a
branch that loses to the equal entry anyway; and the filter and cap after the
last chunk leave one Plan, since branches with nothing left that give up the same
Tasks have merged. Utilities are exact where the code's are floating-point, and the
common divisor is left out.

### Candidate generation (`CandidateGeneration`)

`strategy` says which generator answers. The greedy walk is `Skeleton`'s own
`Next`, reached by `GreedyStep`; for the chunked generator the sweep runs first
(`SweepRuns`), from where `affix_fixed` returned, and the walk goes on from
there afterwards: the code computes that pure function anew in both. `Reject`,
`OfferGreedy` and `OfferSweep` are the outcomes of the comparison;
`OfferGreedy` is also the baseline of `CpuStrategy`. `AddDelay` adds a delayed
copy of the first candidate, `Answer` ends when the cap is reached or nothing is
left to add. The hash of the seed that orders the delays is any order. The
candidates after the first are a set: their ids carry no meaning.

### The worker's solver (`WorkerSolver`)

`_solve` of `gpu-advisory/.../stage1.py` computes the greedy Plan, its delays and the
report a second time. It keeps nothing between requests, so it is a function: `Affix`
and `Settle` are one turn of its two loops over the order, `AfterAffixing` and `AfterSettling` a
record of its local variables after every turn, `Settled` the one at the end; `Bounds`, `SearchEnd`, `WhyOmitted`, `SolverProtected`, `ExcludeWith`,
`SolverDelays` and `SolverBefore` are its own versions of what the planner computes by
other means (worklists, a sorted vector, a comparator), and share no operator with `Skeleton`. The
planner and the solver get the same order: that is `TopologicalOrder`'s `StageAgrees`.
Tensors and lists hold the same whole numbers; the wording of a refusal is left out, the Task and the kind are kept.

### Pipeline (`Planning`)

| Code | Action |
|---|---|
| a caller's `plan` or `repair` | `Begin` |
| `repair`: its own checks, a candidate that is valid already, the request it builds | `RepairRefused`, `RepairUnchanged`, `RepairBuilt` |
| `validate_planning_request` | `Refuse`, `Accept` |
| `generate_candidates` of the strategy, none generated | `Generate`, `GenerationFailed` |
| the loop over the candidates, one a turn | `RefuseInvalid`, `RefuseAffect`, `RefuseObvious`, `Keep` |
| nothing left; `score_and_rank` | `NothingKept`, `Score` |
| `rollout_and_rerank` | `SkipRollout`, `RolloutFails`, `Rollout` |
| `PlanningResponse::success`, `repair`'s choice of the first | `Deliver` |
| the caller has its answer | `Return` |

`ask` is the call with everything around the request that the code looks at:
schema version, horizon, affect profile, rollout settings, weights. What makes a
request invalid and is not in `PlanningRequest` (identifiers, blank fields) arrives as
the set of its diagnostic codes, `flaws`. `oracle` is what `CpuStrategy` answers, chosen
when the request is accepted among all answers that keep `PlanContract`
(`KeepsContract`, an assumption on the constant `CpuSets` that TLC evaluates);
`offer` is what the strategy in use answers. So the pipeline is checked over any
generator that keeps the contract, and `Skeleton` and `CandidateGeneration` show that the
generators of the code keep it. A candidate is its place in that answer, which is how
plan ids compare. Scores are whole numbers proportional to the code's fractions within one
answer; the spread of the durations is the same for all candidates of an answer and left
out. An affect dimension has a standing instead of a satisfaction: unseen,
unusable, short of its threshold, or met. What the rollouts measure of a finalist is
any member of `Draws`; `Rollout` models the walk.

### Stage 1 (`Stage1`)

| Code | Action |
|---|---|
| `plan_stage1` clears the cells, plans, stamps the answer | `Call`, `InPlanning`, `Stamp` |
| `generate_candidates` starts | `Enter` |
| policy, budget, environment | `Gate`, with `GateReason` and, for what a probe finds, `Probe` |
| `gpu_eligible`'s look at the compute lock | `LockTaken`, `LockFree` |
| `StageInput::from_request` fails | `Unsupported` |
| the exchange | `ExchangeFails`, `ExchangeReplies` |
| profile, request and version of the reply | `ReplyMismatch` |
| `assemble`: reference, comparison, Plans | `Recompute`, `CertificationFails`, `Certified` |
| `plan_via_transport` | `Echo` |
| other owners of the lock | `OthersTake`, `OthersRelease` |

A `CandidateSet` becomes a `StageOutput` of thirteen fields padded to full size
(`Encode`), the comparison names the first field that differs and the place in it
(`Difference`), and a certified output becomes a set again (`Assemble`), field by
field and not by handing over the CPU's set: that the round trip loses nothing is part of what
`ImplementsCpu` checks. What a tensor worker replies is a parameter of the module; the
instance lets it be right, right in a frame of another request, stage or framework, wrong in
any one field, cut short, or an answer to something else. The stub, a Rust
transport, computes the CPU's own answer. `reply`, `reference` and `done` remember
what the code has on its stack or does not remember at all; the code's own cells are
`reason`, `version` and `difference`. Other owners move only while the strategy
can notice (`LockMatters`); in between, the lock's value is never read. `WorkerSession`
opens up the exchange: here it fails or brings a reply.

### Orders (`TopologicalOrder`)

The same dependency lists go through four computations in turn: the recursive
colouring of `has_cycle` with an explicit stack, the planner's Kahn algorithm on
unsigned counts (`Accept`, `Pop`), Stage 1's Kahn algorithm on shrinking sets
(`Take`) and the child's layers (`Layer`). Lists may repeat a dependency: that
is where counts and sets come apart.

### Rollout and coverage (`Rollout`)

`Sample` draws a duration for every step and clears both walks. `Walk` handles
one step, in order of time: `PassBoundary` records the outcome state of a static
step, `RunAsWritten` is the Plan as written (`previousEnd`, `ends`, `feasible`),
`Continue` is the continuation (`keptEnd`, `keptEnds`, `continuation`).
`Observe` adds the draw to the counts. Durations are naturals instead of
floats, and any member of `Draws` may be drawn: the distributions are left
out, and every property is about single draws or about counts of them. A
finalist is a request with a Plan that the planner may deliver
(`IsDelivered`) and that has passed `validate_plan` and `preserves_slack`
(`IsFinalist`).

### Worker session (`WorkerSession`)

Every owner is a process with a program counter; its reader thread, its child,
the other owners and the build are concurrent with it.

| Code | Action |
|---|---|
| `gpu_eligible`'s look at the lock | `Gate`, `Ungate` |
| `ComputeGuard::try_acquire` | `Acquire` |
| `spawn_inner` | `Spawn`, `StartReader` |
| `exchange`, `exchange_stage1`, `cancel` | `Begin`, `Send`, `SendFails`, `RefuseFrame`, `Receive`, `GiveUp` (timeout) |
| `stop` | `Kill`, `Reap`, `Release` |
| `Drop` | `Close`, then `stop`, then `Join` |
| reader thread | `ReadFrame`, `ReadEnd` |
| `main.py` | `ReadMessage`, `Answer`, `EndOfInput` |
| faults | `Die` (child ends at any time), `Babble` (undecodable output), `Crash` (owner killed: the kernel frees its lock, the child lives on) |
| another process of the machine | `Build` |

Owners in `Stage` follow `LocalStageTransport`: lock before each call, one
session kept over calls, dropped when a call fails. Owners in `Echo` hold a
session directly. A message is its kind and the number of the call that sent
it. Pipes and the channel are sequences. `send` has no timeout in the code: with
`Fits = FALSE` it waits for a child that is not reading, possibly for ever;
with `Fits = TRUE` messages fit into the pipe. `RefuseFrame` is a message that
cannot be encoded or is longer than `MAX_FRAME_BYTES`: the caller's input decides that, so no
fairness makes it happen.

## 3. The runs

| Run | Instance | Checks |
|---|---|---|
| `skeleton` | all fresh requests over three Tasks with backward dependency graphs, every mandatory set, windows in the middle and at the end of time or none, up to two anchors; and repairs from prior Plans of up to two steps drawn from finished, running, future, static, malformed and retired ones (313,250 states) | `TypeOK`, `NoDoubleBooking`, `ProtectedKept`, `DependencyOrder`, `RefusalsJustified`, `FirstFit`, `ReportHonest`, `CalendarHolds`, `Returns`, `ImplementsContract` |
| `candidates` | both generators over requests of three movable Tasks and one that may split the window: fresh, tight, wide, contested and repaired; four rules, two branches, three candidates (391,665 states) | `SweepTypeOK`, `BranchesHold`, `CandidatesAcceptable`, `ReportTrue`, `WorkerAgrees` |
| `lost_to_optional` | the same | `LostToOptionalWork` is violated |
| `orders` | every list of up to two dependencies per Task over three Tasks, cycles and repeats included, six provided orders (242,073 states) | `TypeOK`, `RefusalsExact`, `AnswerHolds`, `OrderCanonical` |
| `repeated_dependency` | the same, computed orders only | `SameOrder` is violated |
| `rollouts` | 888 finalists over three Tasks, fresh and repaired, two draws each of durations 1, 2 or 4 (394,989 states) | `TypeOK`, `CoverageCounts`, `NeverLater`, `KeptWithPrerequisites`, `FailuresAccounted`, `FreshAsWritten` |
| `dropped_prerequisite` | the fresh finalists, one draw | `ProtectedNeverDropped` is violated |
| `repaired_history` | the repaired finalists, one draw | `AsWritten` is violated |
| `planning` | three Tasks; plain calls, calls refused in every way, affect profiles, rollouts and repairs with `CpuStrategy`; then strategies of Stage 1, configured in every way the code tells apart, with every outcome of the probe, every gate, a worker that replies anything, another owner of the lock, and a transport that answers anything (92,990 states) | `Stage1TypeOK`, `StatusMeans`, `RankingHolds`, `NothingLost`, `ProvenanceEarned`, `ReasonTrue`, `EchoHonest`, `ImplementsCpu`, `Answered` |
| `session_pair` | a Stage 1 owner, an owner with its own session and the build, one call each, messages that may block (389,289 states) | `Exclusive`, `NothingLeft` |
| `session_echo` | one owner, three calls (11,003 states) | `TypeOK`, `OwnAnswer`, `Returns`, `OrphansEnd` |
| `cancel_error` | one owner, one call | `ErrorReaps` is violated |

What the properties say:

* Skeleton. `NoDoubleBooking` and `CalendarExact`: the calendar has no
  overlaps and at every moment is exactly the kept, anchored and placed steps;
  with `PreservedVerdict`, that the map's order decides nothing, this is
  `CalendarHolds`. `ProtectedKept`: dropping a Task with its dependents never
  reaches protected work. `DependencyOrder`: chosen steps start after their
  prerequisites end. `RefusalsJustified`: what was omitted or refused has no
  start left, and still has none when the call ends, and the two diagnostics the
  code keeps for its own inconsistency are unreachable. `FirstFit`: the jumping
  search skips no start that fits. `ReportHonest`: the reasons reported are
  true of the finished Plan although they were computed earlier.
* Candidates. `BranchesHold`: whatever is trimmed, merged or cut, every movable
  Task of a branch is placed, given up or still to come, and what is given up is
  closed under dependents and never protected (`BranchesAccount`); partial schedules
  keep chunks, windows, prerequisites and the fixed steps that wait for them, at
  every moment and not only in the candidate that wins (`BranchesSound`); the
  jumping search skips no gap (`FirstSlot`). `CandidatesAcceptable`: every
  candidate, delayed or not, from either planner, satisfies the abstract
  specification of a candidate (`PlanContract!Acceptable`) with the one report
  they share, and the sweep's delays move no step that a repair keeps
  (`KeptStepsStay`); greedy's suffix delays may, and no text says otherwise.
  `ReportTrue`: reasons found in one chunk hold of the final candidate, and what
  a report refers to is reported. `SweepTypeOK` also bounds the beam.
  `WorkerAgrees`: on every fresh request the worker's solver and the planner refuse
  over the same Task, or place, omit, explain, list and delay alike; so a worker that
  works as written passes certification.
* Orders. `RefusalsExact`: the search refuses exactly the cyclic graphs
  (`CycleVerdict`), and after validation an order is refused only for a wrong
  provided order or a repeated dependency (`RefusedOnlyWhen`). `AnswerHolds`: an
  accepted order is topological. `OrderCanonical`: a computed order is the
  least one, and without repeats the child accepts Stage 1's order and it is the
  planner's.
* Pipeline. `StatusMeans`: the one report of a strategy's answer is true of
  every candidate that is left of it after all stages, so `ok` and `partial` say
  the truth of each Plan delivered, which would itself pass `repair` unchanged.
  `RankingHolds`: the answer has all candidates Stage 3 had, those tried out are
  Stage 3's first and precede the rest, either cohort is in order of the scores
  shown, and the roles are told of those scores too. `NothingLost`: no candidate of a
  fresh request disappears between strategy and answer but for an enforced affect
  profile or durations that cannot be drawn; in particular the pipeline's checks never
  refuse what a generator that keeps the contract may offer.
* Stage 1. `ImplementsCpu`: whatever the child answers, and whether it
  does, planning is a behaviour of the pipeline over `CpuStrategy`.
  `ProvenanceEarned`: an answer is stamped as a tensor worker's exactly if one
  answered this very call correctly; a version left from an earlier call stamps
  nothing. `ReasonTrue`: reason, version and difference are about this call and
  what happened in it, and a difference names the first place that differs.
  `EchoHonest`: a transport is said to be fine only if it brought this request's
  answer back unchanged, and every other outcome handed on is well formed and
  of this request. `Answered`: every call ends, also while another owner keeps the
  lock for ever. `Stage1TypeOK` includes that a session and another owner never
  have the lock together.
* Rollout. `CoverageCounts`: a feasible draw continues, so the estimate never
  falls below the displayed probability. `NeverLater`: leaving out work delays
  no step. `KeptWithPrerequisites`: a surviving continuation keeps the
  mandatory and static work of the horizon with all prerequisites.
  `FailuresAccounted`: at every boundary the failing visits over all states are
  the failed rollouts. `FreshAsWritten`: a fresh Plan whose steps take as long as
  planned is feasible: planner, cheap checks and rollout agree on what fits.
* Session. `Exclusive`: while an owner and its compute child live, that owner
  has the lock. `OwnAnswer`: a late answer is never taken for a later call's.
  `NothingLeft`: between operations, a session that is dropped or stopped has
  no child, no lock and, once dropped, no thread. `Returns`: every operation
  on messages that fit into the pipe ends, whatever the child does. `OrphansEnd`: after a crash of its owner a
  child that keeps running reaches the end of its input and exits. `TypeOK`
  also bounds the unbounded channel: an answer and the end, never more.

Why the bounds suffice. Three Tasks give chains, forks, joins and one Task that
is independent of two others; the orderings of a kept, an anchored and a placed
step need one of each. `MaxTime` is 5 in the skeleton run so that windows meet
the last representable second, and 9 in the rollout runs so that a draw of 4 can
push every later step out of its window. Two draws are the fewest that merge
into one state or into two, and that show state carried over. Two branches are the fewest that merge, compete and are cut, and
runs probed for the purpose reach a merge of different placements, a cut in
the middle of a sweep, trimming that succeeds and fails, every reason and every
outcome of the comparison with greedy; three candidates are the fewest at which the
cap cuts delays off. `MaxTime` is 8 there, so that the window holds two chunks with
slack in each. Two repairs of that run keep a step that takes no time or ends before it
starts. The sweep does not see such a step when it cuts the window, and may offer a Plan that
overlaps it, which `validate_plan` refuses afterwards; so of the sweep `CandidatesAcceptable` is
promised when every kept step takes time (`KeptWellFormed`), of the greedy planner always.
In `planning` two
candidates an answer, three where a request has no more than three Plans, are the fewest that
are ranked, split into cohorts by `MaxTopK` = 2 and relabelled; `MaxTime` is 4, the length of three
Tasks and one moment of slack; a draw is one of three, so that rollouts may reverse, keep or
tie a ranking. Requests to Stage 1 have two moments of room for three Tasks, so that
every answer leaves work out and `MaxCandidates` rows are filled and
padded. A strategy serves call after call without a bound: the state that outlives a
call is small. `CpuStrategy` with affect, rollouts and repairs and Stage 1 with
its gates are different calls of one run, not all combinations.
Three calls are
the fewest in which a late answer meets a later call and the session is then
used again; one call of each owner is enough for every order of taking and
giving up the lock, since a session holds it from before its child starts to
after it has been waited for. Every bound is a constant of the configuration
(`MaxTime`, `MaxCalls`, `Rollouts`, `Draws`, `MaxTopK`, `MaxCandidates`) or a set named in an MC module.

## 4. Fairness

* `Skeleton`: `WF_vars(Next)`. It is one call in one thread that does not
  block; it does not stop halfway.
* `Stage1`: weak fairness of the planner's own steps (`PlannerStep`). A call runs on
  its caller's thread, and an exchange with a child has a timeout. No call has to be made, and
  no other owner has to release the lock.
* `WorkerSession`: weak fairness for each owner's own steps, for each reader
  thread, and for the death of a child whose owner has sent the signal that no
  process survives. Nothing is assumed of the child: it may hang, die or write
  garbage at any time, and `Returns` still holds because the timeout is a step of
  the owner. `OrphansEnd` is stated under the assumption that the orphan runs.
* `Rollout`, `CandidateGeneration`, `TopologicalOrder`, `Protection`, `Planning` alone: none;
  they have no liveness property, as their loops are bounded. The one loop of the
  generators whose end is not plain, the search for a start, is `Skeleton`'s, covered
  by its `Returns`.

## 5. The proofs

All theorems hold for every value of the constants that satisfies the named
`ASSUME`s of the modules; TLC evaluates each of them in the runs. They are:

| assumption | says | justified by |
|---|---|---|
| `TimeAssumption`, `RequestsAssumption` | `MaxTime` is a natural; requests satisfy `IsRequest` | request validation and the caller `repair`, see section 2 |
| `TasksAssumption`, `GraphsAssumption`, `ProvidedAssumption` | of orders: ids are naturals, finitely many; dependency lists and provided orders are sequences | ids are strings, of which only the order matters; unknown dependencies are refused first |
| `OwnersAssumption`, `CallsAssumption` | `Stage` and `Echo` are disjoint, no owner is "nobody" or "build" | an owner is one kind of program |
| `FinalistsAssumption`, `DrawsAssumption` | finalists satisfy `IsFinalist`; draws are naturals, `Bucket` is positive | only candidates that passed legitimization are rolled out |
| `FormsAssumption` | calls have the fields of a call; scores drawn are numbers | types of `PlanningRequest` and its options |
| `AsksAssumption` | a call that is not refused is about a valid request, one that `repair` built included, and the strategy answers it within its contract | section 2; the contract is what `CandidatesCanBeTrusted` proves of every candidate of both generators; the sweep's after a repair that keeps a step which takes no time is outside it (section 3) |
| `SweepAssumption`, `CandidatesAssumption` | of the sweep: there are one to four rules, branches are kept, ids are ordered, values and priorities are naturals; at least two candidates may be answered | `chunked.rs` 598 and 654 clamp both, 14 and `candidate_generation.rs` 84 cap candidates at 16; ids are strings, of which only the order matters; exact utilities need only whole numbers |
| `SetupAssumption`, `ListingAssumption`, `RowsAssumption`, `ReplyAssumption` | of Stage 1: the calls are calls, a failed probe has one of the nine reasons, slots number the Tasks, a request that fits the wire has no more Tasks than slots, the CPU strategy stops at `MaxCandidates`, and a decoded reply has the fields of a `StageOutput`, of any lengths and values | `stage1.rs` 33, `candidate_generation.rs` 84, the decoder of the reply |

**Lemmas about operators** (`RequestLemmas`). The closures of protection are
closed and least, dropping spares closed sets (`DroppingSparesClosedSets`). Those about
numbers and finite sets come each from the library's well-founded induction or a least
counterexample, because no induction theorem with a predicate can be
instantiated here. Every nonempty set of naturals has a least member; a
finite set can be listed by a strict order (`EnumerationOf`); the sum over a
finite set exists (`SumIsASum`), does not depend on which member is added first
(`SumAnyOrder`), depends on its terms alone (`SumsAgree`) and grows by what one
term grows (`SumWithOneMore`).

**Protection** (`ProtectionProofs`). Between two turns what has been found contains
the roots, lies in the closure, and contains the neighbours of all that is no longer
pending (`WalkInv`); with nothing pending it cannot be left, and the closure is the least
such set (`ClosureIsLeast`). `WorklistsAreRight` holds for every graph,
cycles included, and every set of roots, so the closures in the other modules stand for the
code's loops without loss. `TurnsAreBounded`: a turn has done with one Task for good, however many
lead to it, so the loops end without an assumption of fairness. The module has no run of
its own: the theorems cover every instance, and the runs evaluate the closures.

**Skeleton** (`SkeletonProofs`). `TypeCorrect`: no stored time exceeds the
largest one. `CalendarNeverOverlaps`: by one lemma, a booking that has been
tested against the calendar keeps it free of overlaps (`BookingKeepsApart`), applied
to the three places that book. `ProtectedNeverExcluded`: the complement of the
protected set is closed under dependents because the protected set is closed
under prerequisites, so what is dropped with an
unprotected Task stays in it. `DependenciesRespected` and `WalkIsConsistent`
need a stronger invariant (`WalkInv`): every Task the walk has passed is either
scheduled or excluded, excluded Tasks are closed under dependents, and the
order is topological; so a Task that is met and not excluded has all its
prerequisites scheduled.

**What the skeleton's answers mean** (also `SkeletonProofs`). Three invariants on top of
`WalkInv`. `CalendarInv`: an interval enters the calendar together with its step, no Task is
fixed twice and a kept step is scheduled as it is; without the last two an
insertion would replace a step and leave its interval behind (`CalendarIsExact`).
`StepInv`: every step that was not kept is the one the request asks for, in its window
and at its anchor. `SearchInv`: every start before the cursor clashes with the
calendar (`Searched`), because a jump to the end of a clashing interval passes only starts
that clash with it; so a search that ends without a start proves that there is none,
and as the calendar only grows there is none ever after, except what the Task's own
step takes. `RefusalsAreJustified`, `SearchIsFirstFit` and
`ReportIsHonest` follow: a reason written half-way stays true because the Tasks it
names stay scheduled, and a Task dropped with another one waits for a dropped Task
(`DeferredWait`). `SkeletonImplementsContract` is the refinement: the emitted Plan
satisfies `Acceptable`, every other step stutters.

**Sweep** (`SweepProofs`). `LiveInv` says what a sweep under way knows. What it stands on
(`Grounded`): fixed work is protected, the protected set is closed under
prerequisites, and no Task is released before its window opens. What every branch is, at every
moment (`BranchFine`): typed, accounting for every movable Task (`BranchAccounts`), its
placed steps sound (`SoundAt`). A placed step is sound because the deadline the search
respects is no later than the Task's window and than every fixed step that names it
(`DeadlineFacts`: the walk backwards is a recursive function, which is shown to exist and to
be unique), and because the search begins after release and prerequisites
(`EarliestInFacts`). Giving up an unprotected Task spares what is placed and what is fixed, since both
with the protected Tasks are closed under prerequisites (`ExcludeFine`).
While it searches, every start behind it is in the way of a step of the branch (`Seeking`):
a jump goes to the end of the first step in the way, and no start before that is free of
it (`SkipFacts`). A branch goes on only with nothing left or a chunk ahead (`ChunkInv`). At the cut
the beam is filled from the merged branches, for which their order must be strict
(`RankOrders`): by omissions (`OmissionsTransitive`), by score, by the key of the
placement (`KeysTransitive`), and two branches that agree in all of them are one, because
equal cases have merged (`MergedInv`). `SweepTypes` and `BranchesAreSound` follow.

**Candidates** (also `SweepProofs`). `CandidatesCanBeTrusted`: every candidate is fine
(`PlanFine`). The greedy Plan is so when it is emitted (`PlanInv`). The sweep stands on the
fixed steps (`FixedInv`): they are kept or requested ones, stand apart, and are exactly
what cuts the window, because the calendar is exact when the sweep takes over. So a chunk shares
no time with a fixed step, provided every kept step takes time, and a branch with nothing left
makes a fine Plan (`BranchPlanFine`). A delay keeps it fine (`DelayFine`) because the longest
shift is bounded by what the windows and the next step leave to every Task that moves: for the
suffixes of `bounded_perturbations` by the room behind each step in the exact calendar
(`SuffixDelayFine`), for the tails of `add_tail_delays` by the end of the chunk, since all else in
the chunk comes before the tail and every other movable step lies wholly in or out of a chunk,
in the greedy Plan too (`TailDelayFine`, `MovableAndChunk`). `ReportCanBeTrusted`: the reason
is true when a Task is given up, and stays true as a branch only gains steps
(`BranchHonest`); a Task that goes with another waits for one that is given up.

**The worker's solver** (also `SweepProofs`). `SolverAgrees`: by induction over the
planner's steps instead of over the data. Before each turn of the planner's loops the solver's
local variables after as many turns are the planner's (`SolverInv`): the same Tasks
fixed, placed, omitted and excluded at the same times, the same calendar, no failure;
once the planner has failed, the solver has failed over the same Task and stays so to
its last turn (`FailedTurns`). That the turns exist at all is a least counterexample
(`TurnsExist`). Within a turn: while the planner's search has got to a cursor, the
solver's recursive search from the first start ends where it ends from that
cursor (`SearchMatches`, one jump unrolled by `SearchEndIs`), though one looks at the first hit of
a sorted list and the other at the first overlap of its calendar. Spreading along edges for as many
rounds as there are Tasks gives the least closure (`SpreadFacts`: a round that adds
nothing ends the spreading, and every other adds a Task), so both protect and exclude
the same Tasks (`SpreadIsPrerequisites`, `ExcludeWithIs`). At the end the two
ways of bounding a delay have the same minimum (`DelaysAgree`, which needs the exact calendar),
the two comparators are one order (`OrderAgrees`), and the solver's checks follow from
`CandidatesCanBeTrusted` (`FeasibilityAgrees`).

**Orders** (`OrderProofs`). `CountsNeverWrap`: a Task's count and the number of
its distinct prerequisites that are ordered always add up to the length of its
list (`Counted` in `KahnInv`), and a list is at least as long as it has distinct
entries, so decrementing once per distinct prerequisite never passes zero. `OrdersAreTopological`: a Task becomes ready at
zero, when no distinct dependency is unmet, and the answer is accepted only at
full length, with no Task twice. `RefusalsAreExact`: the stack of the search is a path of Tasks
marked visiting (`PathHolds`), so a child met again closes a cycle; what the search has left
is closed under children and holds no set of Tasks that only waits for itself
(`LeftHolds`): the Task of such a set that is left last would wait for one that was left
before it, though a Task is left only after all its children. A graph without a cycle always has a Task that is ready, so the counting ends
early only if a list is longer than its set of entries, that is with a repeat
(`LoopCompletes`). `OrderIsCanonical`: both computations make the same choice at
every place (`Greedy`); such a list is determined by its length
(`GreedyUnique`), and any other topological order is larger where it first
differs (`GreedyLeast`).

**Rollout** (`RolloutProofs`). `StartIsClock`: a clock is never behind an end
it has passed, so in both walks the dependencies, although consulted, never
delay a step beyond the clock. `CoverageNeverBelow`: while a draw is feasible
the continuation is as planned, has kept every step of the horizon and, until
the first step beyond it, its clock is the Plan's (`Agrees`); the steps come in
order of time, so whatever precedes a step of the horizon is in the horizon, and
its prerequisites, which end before it starts, have been kept.
`DroppingNeverDelays`: the continuation's clock is never ahead.
`PrerequisitesKept`: what is kept is closed under direct prerequisites, hence,
by leastness of the closure, under all. `TypeCorrect`: the clocks stay natural
and boundary states name Tasks of the request. `FailuresAreAccounted`: a rollout visits
exactly one state at every boundary within the horizon (`VisitsOnce`), so an
observation adds one failure, or none, to one term of each boundary's sum
(`SumWithOneMore`). `FreshRunsAsWritten`: with the planned durations the clock stands where
some step of the Plan ends, and as the steps do not overlap and come in order of time,
the next one starts when planned; there the cheap checks have found it to fit. It
needs a fresh request: a kept step may lie outside its window (section 6).

**Session** (`SessionProofs`). The inductive invariant `SessionInv` is a
conjunction over owners of what each program counter implies about session,
child, thread and lock (`OwnerInv`). The frame lemma `Apart` says that a step of
one owner leaves another's part of the state alone except the lock, which it
takes only when free and gives up only when it has it; so each action is
examined for its own owner. `ChildrenExclude` and `SessionsLeaveNothing` follow,
for any number of owners. `AnswersAreOwn` needs to know what is on its way
(`ChannelInv`): as long as the thread reads and nothing broken is next, there is one
message at most that the child will answer, or one answer (`OneAnswer`); none
unless the owner waits (`Quiet`); and while it waits, what is on its way is about the call
under way (`Awaited`). A deadline that passes is what could break it, and does not,
because every way out of a wait without an answer gives the session up. It holds for
both kinds of owner and any number of calls. `SessionTypes` follows.

**Pipeline and Stage 1** (`PlanningProofs`). Over any strategy that keeps the
contract, `PipelineInv` says what a state of `plan` or `repair` knows: up to the
strategy's answer only the call (`CallInv`), from then on which of the
candidates looked at so far are kept, and that all kept ones passed the checks
(`KeptInv`), and once there is a ranking that it lists them all in the order of the scores
as they stand, with the roles these scores give (`RankedInv`, with
`EstimatedFirst` for the two cohorts after rollouts). `StatusIsHonest`, `RankingIsWhole`
and `NoCandidateLost` follow when the response is made. They need that `compare_candidates` is a
strict order, that a finite set has one listing by it, and that scores are numbers.
`StageImplementsCpu` and `StageRefinesPipeline`: the only step of Stage 1 that could differ is
taking the worker's reply; a certified reply equals the encoding of the CPU
strategy's answer in every field, and assembling that encoding gives the answer back
(`RoundTrip`: rows, slots in the Plan's order, offsets and pieces are read back as written), so the
step is the CPU strategy's. `ProvenanceIsEarned`, `ReasonIsTrue` and `EchoIsHonest` come from what the
cells say while a generation is under way and after it (`StageInv`, `WrapInv`, `CellsInv`).
`ReasonIsTrue` also needs that the first difference found is one (`PointsAt`).

Only model-checked: liveness (`Returns`, `Answered`, `OrphansEnd`), which is outside what
the proof system handles, as is `ENABLED`. Every safety property and every action
property of a run that passes is proved.

## 6. Where code and documents disagree

1. **A repeated dependency** (`repeated_dependency`). `topological_order` counts
   an entry of `depends_on` that is listed twice two times but decrements it
   once (`skeleton.rs:533`, `:545-557`), so a validated, acyclic request is
   refused as if cyclic. Stage 1 orders it, although `stage1.rs:73` says its
   order is the CPU reference's.
2. **A cancel that fails** (`cancel_error`). When its request makes no frame, its child
   has died or the answer cannot be decoded, `cancel` returns the error without
   `stop` (`session.rs:150`), unlike `exchange`, so the child is not reaped and
   a compute session keeps its lock until a later call or `Drop`;
   `src/README.md:132-133` says the owner kills and waits on error. The
   invariants above hold all the same: the next call, or `Drop`, finds the
   session in a state it can stop.
3. **A dropped prerequisite** (`dropped_prerequisite`). The continuation drops a
   step unless the step itself is mandatory or static (`rollout.rs:282`). When
   its mandatory or static dependent starts beyond the horizon, nothing judges
   the loss and the draw counts as covered; `src/README.md:108` says protected
   work is never dropped, and `:80-81` that prerequisites are protected. Within the
   horizon the loss is always noticed: `KeptWithPrerequisites`.
4. **History in a repair** (`repaired_history`). `fits` (`rollout.rs:249-257`)
   compares each step with the request's window in every mode. A repaired Plan
   that keeps a finished step, which `preserves_slack` admits on purpose, is
   therefore infeasible in every draw and its `display_probability` is 0.
5. **Lost to optional work** (`lost_to_optional`). `strand_reason` looks for optional
   work anywhere in a Task's eligible chunks (`chunked.rs:186-192`), not in the
   part of them inside the Task's own window as `greedy_reason` does
   (`skeleton.rs:583-596`). A Task that found its window full of required work is
   then explained with "other optional work uses the available time"
   (`unplaced.rs:97`) although none is in its window.

Two more, seen while modelling, that no run states because nothing but one line is
at work:

* `repair` hands a candidate that is valid back with `ok` (`ubu-planning-core`
  `lib.rs:149-156`) without asking whether every Task of the request is in it, while
  the contract says that `ok` means every eligible Task is placed
  (`CONTRACT.md:35`). `StatusMeans` is stated of calls that reach the
  strategy (`order # <<>>`).
* `CONTRACT.md:130` counts ten reasons for a fallback; `Stage1FallbackReason` has
  seventeen (`stage1.rs:620`), all of which the run `planning` reaches (`GateReason`,
  `ProbeFailure`, `Fallback`).

## 7. What is not modelled

* Floating-point arithmetic: sampling, correlation and factorization, percentiles,
  Wilson intervals, tensor arithmetic, rounding of scores. Nothing TLC or the provers can
  evaluate; what control depends on it (the order of candidates, whether a matrix can be factored)
  is modelled by whole numbers or by a choice.
* Text and encoding: explanations, diagnostics' wording, identifiers, timestamps, hashes and
  digests, JSON and frame codecs, UTC conversion.
* Affect: the satisfaction of a dimension is computed by an external crate; a
  dimension's standing is an input.
* Validation of single fields (blank names, weights, repeated identifiers): an input of
  the pipeline, as a set of codes. The cycle search among them is `TopologicalOrder`'s.
* The command line: reads a file, calls a planner, prints. `freeze_stage1.rs` writes test data.
* Of the Python worker: the wire's parsing, and what a worker does that departs from its program; `Stage1` lets it reply anything.
* A Stage 1 owner over several calls has no run of its own: `session_echo` checks late
  answers over three calls of an owner with its own session, which takes the same
  steps (`Receive`, `GiveUp`, `Kill`), and `AnswersAreOwn` is proved for both kinds.
* A session's bare `send` and `receive`, used by the environment probe: they are
  the steps between which a call of the model may fail.
* Blocking in `send` has no property: no text promises that it ends.

## 8. The plan

Order of work, most important behaviour first; done items are described above.

1. *Done.* `PlanningRequest`, `PlanContract`, `Skeleton`, `TopologicalOrder`,
   `WorkerSession`, `Rollout`, with the theorems of section 5.
2. *Done.* `ChunkedSweep`: the sweep, with the beam's properties.
3. *Done.* `CandidateGeneration`: both generators against `PlanContract`.
4. *Done.* `Planning`: `plan` and `repair` over any generator that satisfies
   `PlanContract`.
5. *Done.* `Stage1`: gates, certification, fallback and provenance over an
   arbitrary child; the pipeline with it implements the pipeline over `CpuStrategy`.
6. *Done.* Theorems: the refinement of `PlanContract` by `Skeleton`, the calendar, the
   search and the report; `Planning` and `Stage1` with their refinements; the order
   computations; answers of the session; the rollouts' counts.
   Then the sweep: `SweepTypeOK` and `BranchesHold`.
7. *Done.* From them the generators' `CandidatesAcceptable`, which `Stage1` assumes, and
   `ReportTrue`.
8. *Done.* `Protection`: the worklists, shown to return the closures of `PlanningRequest`;
   and the agreement of the worker's solver with the planner as a theorem.
