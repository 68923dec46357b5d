---------------------------- MODULE MCCandidates ----------------------------
(***************************************************************************)
(* Small instances of the candidate generators: requests of three movable  *)
(* Tasks and one that may split the window into chunks, fresh and in       *)
(* repairs that keep it or another step.                                   *)
(***************************************************************************)
EXTENDS WorkerSolver, TLC

CONSTANTS a, b, c, d

W(start, end) == [start |-> start, end |-> end]

Ids4 == (a :> 1 @@ b :> 2 @@ c :> 3 @@ d :> 4)

Maps(domains, options) == UNION {[e -> options] : e \in domains}

Deps(pairs) == [t \in Tasks |-> {p[2] : p \in {q \in pairs : q[1] = t}}]

(* No dependency, a chain, a fork, a join, and a chain through the static  *)
(* Task.                                                                   *)
Graphs ==
  {Deps({}), Deps({<<b, a>>}), Deps({<<b, a>>, <<c, b>>}), Deps({<<b, a>>, <<c, a>>}),
   Deps({<<c, a>>, <<c, b>>}), Deps({<<c, b>>, <<d, a>>})}

EachOf(x, y, z, w) == (a :> x @@ b :> y @@ c :> z @@ d :> w)

(* The four rules order a, b and c differently under the third worth.      *)
Worths == {<<EachOf(1, 1, 3, 2), EachOf(1, 2, 1, 1)>>, <<EachOf(2, 1, 1, 1), EachOf(1, 2, 1, 1)>>,
           <<EachOf(3, 1, 2, 1), EachOf(1, 4, 1, 1)>>}

WorthFamily(modes, windows, durations, mandatory, graphs, taskWindows, anchors, scopes, priors, worths) ==
  {r \in UNION {[mode : modes, window : windows, duration : durations, mandatory : mandatory,
                 deps : graphs, taskWindow : taskWindows, anchor : anchors,
                 order : {<<a, b, c, d>>}, scope : scopes, diverged : {{}}, prior : priors,
                 value : {w[1]}, priority : {w[2]}] : w \in worths} :
     IsRequest(r)}

Family(modes, windows, durations, mandatory, graphs, taskWindows, anchors, scopes, priors) ==
  WorthFamily(modes, windows, durations, mandatory, graphs, taskWindows, anchors, scopes, priors,
              {w \in Worths : w[1][a] < 3})

(* One chunk or two, with room for all, for some, or for none; a Task with *)
(* a window of its own; mandatory work that fits, and that does not.       *)
FreshCandidateRequests ==
  Family({"fresh"}, {W(1, 7)},
         {EachOf(2, 1, 3, 1), EachOf(1, 2, 2, 1), EachOf(2, 2, 2, 2), EachOf(3, 3, 1, 1)},
         {{}, {c}, {a, b}}, Graphs, Maps({{}, {b}}, {W(1, 5), W(2, 6)}), Maps({{}, {d}}, {2, 3, 4}),
         {"remaining_window"}, {<<>>})

(* A window too short for any Task or for some, and one that is full.      *)
TightRequests ==
  Family({"fresh"}, {W(1, 2), W(1, 3), W(1, 7)}, {EachOf(2, 2, 3, 6), EachOf(2, 1, 2, 2)},
         {{}, {c}}, {Deps({}), Deps({<<b, a>>})}, {<<>>}, Maps({{}, {d}}, {1}),
         {"remaining_window"}, {<<>>})

(* Three branches with different Tasks left when the first chunk ends.     *)
WideRequests ==
  WorthFamily({"fresh"}, {W(1, 8)}, {EachOf(2, 2, 1, 1)}, {{}, {c}, {d}}, {Deps({}), Deps({<<c, b>>})},
              Maps({{}, {c}}, {W(1, 7)}), Maps({{d}}, {4, 5}), {"remaining_window"}, {<<>>}, Worths)

(* No window, or one with little room for what is not anchored: anchors    *)
(* that stand, collide, or come too early for a prerequisite; windows that *)
(* hold back a chain of optional or of mandatory work.                     *)
ContestedRequests ==
  Family({"fresh"}, {NoWindow, W(1, 5)}, {EachOf(2, 1, 2, 1), EachOf(1, 2, 1, 1)}, {{}, {c}},
         {Deps({}), Deps({<<b, a>>, <<c, b>>}), Deps({<<d, a>>})}, Maps({{a}, {a, b}}, {W(1, 4), W(2, 5)}),
         Maps({{}, {d}, {c, d}}, {1, 2, 4}), {"remaining_window"}, {<<>>})

P(t, start, end, deps) == [task |-> t, start |-> start, end |-> end, deps |-> deps, static |-> FALSE]

(* Repairs that keep a step in the window, a finished one, two, or one     *)
(* that takes no time; a kept step names prerequisites the request may not *)
(* know.  Every prior Plan is one validate_plan refuses.                   *)
RepairedRequests ==
  Family({"repair"}, {W(1, 7)}, {EachOf(2, 1, 3, 1), EachOf(1, 2, 2, 1)},
         {{}, {c}}, Graphs, {<<>>}, Maps({{}, {d}}, {5}), {"local", "remaining_window"},
         {<<P(d, 3, 4, {a})>>, <<P(d, 3, 4, {c}), P(c, 4, 6, {})>>, <<P(c, 5, 7, {b})>>,
          <<P(a, 0, 1, {b}), P(b, 2, 3, {})>>, <<P(d, 2, 3, {b}), P(b, 4, 5, {})>>,
          <<P(d, 4, 4, {}), P(c, 5, 6, {})>>, <<P(c, 5, 4, {}), P(a, 4, 5, {})>>})

CandidateRequests == FreshCandidateRequests \cup TightRequests \cup WideRequests
                        \cup ContestedRequests \cup RepairedRequests
=============================================================================
