------------------------------ MODULE MCRollout ------------------------------
(***************************************************************************)
(* Small instances of the rollouts: schedules of three Tasks, fresh ones   *)
(* and repaired ones whose first step is history.                          *)
(***************************************************************************)
EXTENDS Rollout, TLC

CONSTANTS a, b, c

W(start, end) == [start |-> start, end |-> end]

Maps(domains, options) == UNION {[d -> options] : d \in domains}

(* Graphs in which the order a, b, c is topological.                       *)
Graphs == {f \in [Tasks -> SUBSET Tasks] : f[a] = {} /\ f[b] \subseteq {a} /\ f[c] \subseteq {a, b}}

Requests(modes, windows, taskWindows, anchors, priors) ==
  {r \in [mode : modes, window : windows, duration : {[t \in Tasks |-> 2]},
          mandatory : {{}, {b}, {c}}, deps : Graphs, taskWindow : taskWindows,
          anchor : anchors, order : {<<a, b, c>>}, scope : {"remaining_window"},
          diverged : {{}}, prior : priors] :
     IsRequest(r)}

Schedule(r, starts) == [t \in DOMAIN starts |-> PlanStep(r, t, starts[t])]

FinalistsOf(requests, schedules, horizons) ==
  {f \in {[request |-> r, plan |-> Schedule(r, s), horizon |-> h] :
            r \in requests, s \in schedules, h \in horizons} :
     IsFinalist(f)}

(* One after another without and with a gap, c before b, and c unplaced.   *)
Schedules ==
  {(a :> 1 @@ b :> 3 @@ c :> 5), (a :> 1 @@ b :> 3 @@ c :> 6),
   (a :> 1 @@ c :> 3 @@ b :> 6), (a :> 1 @@ b :> 4)}

FreshFinalists ==
  FinalistsOf(Requests({"fresh"}, {W(1, 8)}, Maps({{}, {b}}, {W(2, 6)}), Maps({{}, {b}, {c}}, {3, 6}), {<<>>}),
              Schedules, {2, 9})
    \cup FinalistsOf(Requests({"fresh"}, {NoWindow}, Maps({{}, {c}}, {W(3, 8)}), Maps({{}, {b, c}}, {3, 6}), {<<>>}),
                     Schedules, {2})

(* The window opens when a has ended: a is history, and b ends before it   *)
(* starts, so that there is something to repair.                           *)
Prior ==
  <<[task |-> a, start |-> 1, end |-> 3, deps |-> {}, static |-> FALSE],
    [task |-> b, start |-> 6, end |-> 5, deps |-> {}, static |-> FALSE]>>

RepairFinalists ==
  FinalistsOf(Requests({"repair"}, {W(3, 8)}, {<<>>}, Maps({{}, {b}}, {3, 6}), {Prior}),
              Schedules, {2, 9})

AllFinalists == FreshFinalists \cup RepairFinalists
=============================================================================
