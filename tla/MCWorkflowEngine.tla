-------------------------- MODULE MCWorkflowEngine --------------------------
(***************************************************************************)
(* Small plans for WorkflowEngine.                                         *)
(*                                                                         *)
(* The plan of two steps is two independent changes.                       *)
(* The plan of four steps is two unrelated changes a and b, a read-only c  *)
(* that consumes an output of b, and a d that conflicts with a.  The       *)
(* plan of a review round is a change a, a read-only review c of it that   *)
(* may be retried, and a repair d of what it reports that may commit       *)
(* nothing.                                                                *)
(***************************************************************************)
EXTENDS WorkflowEngine, TLC

CONSTANTS a, b, c, d

FourSteps == {a, b, c, d}
FourDeps == a :> {} @@ b :> {} @@ c :> {b} @@ d :> {}
FourPosition == a :> 1 @@ b :> 2 @@ c :> 3 @@ d :> 4
FourConflicts == {<<a, d>>, <<d, a>>}
FourOutputs == a :> {} @@ b :> {"evidence"} @@ c :> {} @@ d :> {}
FourInputs == a :> {} @@ b :> {} @@ c :> {<<b, "evidence">>} @@ d :> {}
FourMaxAttempts == a :> 2 @@ b :> 1 @@ c :> 1 @@ d :> 1

TwoSteps == {a, b}
TwoDeps == a :> {} @@ b :> {}
TwoPosition == a :> 1 @@ b :> 2
TwoOutputs == a :> {} @@ b :> {}
TwoInputs == a :> {} @@ b :> {}
TwoMaxAttempts == a :> 1 @@ b :> 1

ReviewSteps == {a, c, d}
ReviewDeps == a :> {} @@ c :> {a} @@ d :> {c}
ReviewPosition == a :> 1 @@ c :> 2 @@ d :> 3
ReviewOutputs == a :> {} @@ c :> {"report"} @@ d :> {}
ReviewInputs == a :> {} @@ c :> {} @@ d :> {<<c, "report">>}
ReviewMaxAttempts == a :> 1 @@ c :> 2 @@ d :> 1
=============================================================================
