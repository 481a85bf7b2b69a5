---------------------------- MODULE MCPlanReview ----------------------------
(* An instance of PlanReview: two sessions, two tasks and three worker      *)
(* limits, so that two sessions may each change the limit to another one.   *)
(* Nothing orders sessions or limits, and the draft a session has left over *)
(* from CHOOSE is never read, so both may be permuted.                      *)
EXTENDS PlanReview, TLC

CONSTANTS r1, r2, l1, l2, l3

Sessions == {r1, r2}
Limits == {l1, l2, l3}
Symmetry == Permutations(Sessions) \cup Permutations(Limits)
=============================================================================
