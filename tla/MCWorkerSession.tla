--------------------------- MODULE MCWorkerSession ---------------------------
(* Instances of WorkerSession.  A Stage 1 owner and an echo owner together *)
(* meet at the machine's lock, with the build as a third party; one of     *)
(* them alone makes three calls, enough for an answer to come late, for a  *)
(* session to be used after it failed, and for one to be opened again.     *)
EXTENDS WorkerSession

CONSTANTS s1, e1
StageOwners == {s1}
EchoOwners == {e1}
NoOwners == {}

=============================================================================
