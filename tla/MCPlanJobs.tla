----------------------------- MODULE MCPlanJobs -----------------------------
(* Small instances of PlanJobs for TLC.                                     *)
EXTENDS PlanJobs

CONSTANTS u1, u2, r1, p1

OneOwner == {u1}
TwoOwners == {u1, u2}
OneRequest == {r1}
OnePoller == {p1}
=============================================================================
