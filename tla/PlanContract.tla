---------------------------- MODULE PlanContract ----------------------------
(***************************************************************************)
(* What a candidate generator promises the planning pipeline: at most one  *)
(* answer to a request, which is either a rejection or a Plan that, with   *)
(* the report of what it leaves out, accounts for every Task of the        *)
(* request.  How the Plan is found is left open; the greedy skeleton       *)
(* implements this specification (module Skeleton).                        *)
(***************************************************************************)
EXTENDS PlanningRequest

VARIABLES
  request,    \* what was asked
  status,     \* "pending", "planned" or "rejected"
  candidate,  \* the Plan, by Task
  left        \* the Tasks reported as unplaced

contractVars == <<request, status, candidate, left>>

NothingShared(p) ==
  \A t, u \in DOMAIN p : t # u => ~Overlaps(p[t].start, p[t].end, p[u])

(* A Plan the rest of the pipeline can rely on.  Only a fresh Plan is      *)
(* promised to pass the cheap checks: a repair keeps history as it finds   *)
(* it, and leaves it to those checks to refuse the result.                 *)
Acceptable(r, p, u) ==
  /\ DOMAIN p # {} /\ u = Tasks \ DOMAIN p
  /\ ProtectedTasks(r, {}) \cap u = {}
  /\ ClosedUnderDependents(r, u)
  /\ NothingShared(p)
  /\ r.mode = "fresh" => ValidatePlan(r, p) /\ PreservesSlack(r, p)

ContractInit ==
  /\ IsRequest(request)
  /\ status = "pending" /\ candidate = <<>> /\ left = {}

CandidateAcceptable == Acceptable(request, candidate, left)

Deliver ==
  /\ status = "pending" /\ status' = "planned"
  /\ request' = request
  /\ CandidateAcceptable'

Refuse ==
  /\ status = "pending" /\ status' = "rejected"
  /\ UNCHANGED <<request, candidate, left>>

ContractNext == Deliver \/ Refuse

(* That an answer comes is stated of the implementations (Returns): what a *)
(* Plan must satisfy cannot be enumerated, and so has no ENABLED to test.  *)
ContractSpec == ContractInit /\ [][ContractNext]_contractVars
=============================================================================
