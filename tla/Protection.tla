------------------------------ MODULE Protection ------------------------------
(***************************************************************************)
(* The worklists of protection.rs.  protected_tasks walks from what is     *)
(* named, mandatory or anchored to its prerequisites, dependents_of from   *)
(* its roots to what waits for them, over an index built beforehand.  The  *)
(* planners' modules take both as the least closures of PlanningRequest;   *)
(* here they are the loops that are to compute them.                       *)
(*                                                                         *)
(* The code keeps what is pending in a vector and takes its last entry.    *)
(* Which that is follows from the ids and from the order in which lists of *)
(* dependencies are written, which mean nothing, so here any pending Task  *)
(* is next.                                                                *)
(***************************************************************************)
EXTENDS PlanningRequest

(* A call: which walk, over which request, from which Tasks.  Dependencies *)
(* have been found to exist, kept and dropped Tasks are of the request; a  *)
(* cycle does not matter here.                                             *)
Question ==
  [walk : {"protected", "dependents"}, named : SUBSET Tasks,
   request : [deps : [Tasks -> SUBSET Tasks], mandatory : SUBSET Tasks,
              anchor : UNION {[static -> Time] : static \in SUBSET Tasks}]]

VARIABLES
  question,  \* the call under way
  found,     \* protected, or found: what the walk has inserted so far
  pending,   \* inserted, and its neighbours not looked at yet
  answer,    \* what the call returns
  returned   \* whether it has

vars == <<question, found, pending, answer, returned>>

Roots ==
  IF question.walk = "protected"
    THEN question.named \cup question.request.mandatory \cup DOMAIN question.request.anchor
    ELSE question.named

(* dependent_index has an entry for the Tasks that others depend on only.  *)
DependentIndex(r) ==
  [d \in UNION {r.deps[t] : t \in Tasks} |-> {t \in Tasks : d \in r.deps[t]}]

Neighbours(t) ==
  LET index == DependentIndex(question.request) IN
  IF question.walk = "protected" THEN question.request.deps[t]
  ELSE IF t \in DOMAIN index THEN index[t] ELSE {}

(* A neighbour is pushed when inserting it told that it is new.            *)
Pushed(t) == Neighbours(t) \ found

Inserted(t) == found \cup Neighbours(t)
Rest(t) == pending \ {t}

Init ==
  /\ question \in Question
  /\ found = Roots /\ pending = Roots
  /\ answer = {} /\ returned = FALSE

Pop(t) ==
  /\ t \in pending
  /\ found' = Inserted(t)
  /\ pending' = Rest(t) \cup Pushed(t)
  /\ UNCHANGED <<question, answer, returned>>

Return ==
  /\ ~returned /\ pending = {}
  /\ answer' = IF question.walk = "protected" THEN found ELSE found \ Roots
  /\ returned' = TRUE
  /\ UNCHANGED <<question, found, pending>>

Next == (\E t \in Tasks : Pop(t)) \/ Return

Spec == Init /\ [][Next]_vars

-----------------------------------------------------------------------------
(* What is pending has been inserted: the vector holds no Task that the    *)
(* set does not (protected_tasks 28-36, dependents_of 57-65).              *)
TypeOK ==
  /\ question \in Question
  /\ found \subseteq Tasks /\ pending \subseteq found
  /\ answer \subseteq Tasks /\ returned \in BOOLEAN

(* Whatever order Tasks are taken in and however often one is reached, the *)
(* loops return the least closures the planners rely on: no prerequisite   *)
(* of protected work is missed and nothing else is protected; no dependent *)
(* of a dropped Task stays and no other one goes.                          *)
AnswerRight ==
  returned =>
    answer = IF question.walk = "protected"
               THEN ProtectedTasks(question.request, question.named)
               ELSE DependentsOf(question.request, question.named)

(* Every turn of a loop has done with one Task more, which is never        *)
(* pending again, a Task on many paths neither: no walk takes more turns   *)
(* than there are Tasks.                                                   *)
OneMoreEachTurn ==
  [][returned' \/ \E t \in pending : found' \ pending' = (found \ pending) \cup {t}]_vars

=============================================================================
