------------------------- MODULE MCTopologicalOrder -------------------------
(***************************************************************************)
(* All graphs of three Tasks whose dependency lists have at most two       *)
(* entries: cycles of every length, self-dependencies, diamonds, repeats;  *)
(* and requests that provide no order, a right one for some graphs, one    *)
(* with a Task missing, repeated or unknown.                               *)
(***************************************************************************)
EXTENDS TopologicalOrder

Lists == {<<>>} \cup {<<t>> : t \in Tasks} \cup {<<t, u>> : t \in Tasks, u \in Tasks}

AllGraphs == [Tasks -> Lists]

SomeOrders == {<<>>, <<1, 2, 3>>, <<3, 1, 2>>, <<1, 2>>, <<1, 2, 1>>, <<1, 2, 4>>}

NoOrders == {<<>>}

=============================================================================
