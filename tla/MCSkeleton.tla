----------------------------- MODULE MCSkeleton -----------------------------
(***************************************************************************)
(* Small instances of the greedy skeleton: a family of fresh requests over *)
(* three Tasks and a family of repairs.  Task ids carry no                 *)
(* meaning in this module, so the order is fixed and dependencies point    *)
(* backwards in it: every other instance is a renaming of one of these.    *)
(***************************************************************************)
EXTENDS Skeleton

CONSTANTS a, b, c, z

Partial(domains, options) == UNION {[d -> options] : d \in domains}

Backward(order) ==
  {f \in [Tasks -> SUBSET Tasks] :
     \A i \in DOMAIN order : f[order[i]] \subseteq {order[j] : j \in 1 .. i - 1}}

W(start, end) == [start |-> start, end |-> end]

(* A window in the middle of time, one that ends at the largest time (so   *)
(* that a sum can overflow) and none; at most one Task with a window of    *)
(* its own, which may leave the first Task no room and so drop a chain of  *)
(* dependents; none, one or two anchors.                                   *)
FreshFamily(windows, taskWindows, anchors) ==
  [mode : {"fresh"}, window : windows, duration : [Tasks -> 1 .. 2],
   mandatory : SUBSET Tasks, deps : Backward(<<a, b, c>>),
   taskWindow : taskWindows, anchor : anchors, order : {<<a, b, c>>},
   scope : {"remaining_window"}, diverged : {{}}, prior : {<<>>}]

NoAnchors == Partial({{}}, Time)

FreshRequests ==
  {r \in FreshFamily({W(1, 4)}, Partial({{}, {b}}, {W(2, 4)}), Partial({{}, {b}, {c}}, {1, 2}))
         \cup FreshFamily({W(2, 5)}, Partial({{}, {a}}, {W(3, 5)}), Partial({{}, {b, c}}, {2, 3}))
         \cup FreshFamily({W(1, 4)}, Partial({{a}}, {W(3, 5)}), NoAnchors)
         \cup FreshFamily({NoWindow}, NoAnchors, NoAnchors) :
     IsRequest(r)}

(* Steps of a prior Plan: finished before the window, running into it,     *)
(* inside it, ending at the largest time, or malformed.                    *)
PriorSteps ==
  [task : {a}, start : {0, 2}, end : {1, 3, 5}, deps : {{}}, static : {FALSE}]
    \cup [task : {b}, start : {0, 3}, end : {3, 4}, deps : {{a}, {z}}, static : {FALSE}]
    \cup [task : {b}, start : {4}, end : {5}, deps : {{}}, static : {TRUE}]

(* The third Task is short and waits for none.                             *)
RepairDeps == {[t \in Tasks |-> {}], [t \in Tasks |-> IF t = b THEN {a} ELSE {}]}

RepairRequests ==
  {r \in [mode : {"repair"}, window : {W(1, 5)},
          duration : {[t \in Tasks |-> IF t = c THEN 1 ELSE 2]},
          mandatory : {{}, {b}}, deps : RepairDeps,
          taskWindow : Partial({{}, {b}}, {W(1, 4)}), anchor : Partial({{}, {b}}, {2}),
          order : {<<a, b, c>>}, scope : {"local", "remaining_window"}, diverged : {{}, {a}},
          prior : {<<>>} \cup {<<s>> : s \in PriorSteps}
                    \cup {<<s, t>> : s \in PriorSteps, t \in PriorSteps}] :
     IsRequest(r)}

AllRequests == FreshRequests \cup RepairRequests

=============================================================================
